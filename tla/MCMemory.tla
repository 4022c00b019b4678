------------------------------ MODULE MCMemory -------------------------------
(* Memory with pages of 12 units, so that a Process takes most of a page and the  *)
(* heap grows by one page or two; tables of 4 entries in 2 levels.                *)
EXTENDS Memory

TwoHarts == {0, 1}
OneProc == {1}
SomeSizes == {1, 12}
=============================================================================
