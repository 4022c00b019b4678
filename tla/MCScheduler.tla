----------------------------- MODULE MCScheduler -----------------------------
(* Scheduler on two process harts with a few processes. *)
EXTENDS Scheduler, TLC

CONSTANTS p1, p2, p3

TwoUsers == {p1, p2}
ThreeUsers == {p1, p2, p3}
UserSymmetry == Permutations(Users)
ShortSleeps == {1}
=============================================================================
