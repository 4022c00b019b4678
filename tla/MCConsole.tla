----------------------------- MODULE MCConsole -----------------------------
(* Console with small buffers and a user who types a few characters. *)
EXTENDS Console

OneLetter == {"a"}
TwoLetters == {"a", "b"}
=============================================================================
