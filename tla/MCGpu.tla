------------------------------- MODULE MCGpu -------------------------------
(* Gpu with the console's hart and two that run programs. *)
EXTENDS Gpu

ThreeHarts == 0 .. 2
=============================================================================
