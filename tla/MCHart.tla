------------------------------- MODULE MCHart -------------------------------
(* Hart with three harts. *)
EXTENDS Hart, TLC

CONSTANTS prog1, prog2

TwoPrograms == {prog1, prog2}
=============================================================================
