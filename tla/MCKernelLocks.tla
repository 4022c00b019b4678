---------------------------- MODULE MCKernelLocks ----------------------------
(* KernelLocks with the console's hart and two others: three harts can wait for     *)
(* each other in a circle of three locks.                                         *)
EXTENDS KernelLocks

ThreeHarts == {0, 1, 2}
=============================================================================
