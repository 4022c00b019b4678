------------------------------ MODULE ByteDisk -------------------------------
(* What the block and entropy drivers promise the code that calls them: a disk is *)
(* bytes, any range of which is read or written as a whole, and each call returns *)
(* once it is done.  The promise ends when a device reports an error: the drivers *)
(* tell nobody.                                                                   *)
EXTENDS Integers, Sequences

CONSTANT Calls

VARIABLES
    bytes,      \* each disk: its bytes, from 0 on
    call,       \* the call that is being made, or <<>>
    result,     \* what it read, once it is done, or <<>>
    broken
vars == <<bytes, call, result, broken>>

Range(c) == c.addr .. c.addr + Len(c.data) - 1

Init == (\A d \in DOMAIN bytes : bytes[d] \in Seq(Nat)) /\ call = <<>> /\ result = <<>> /\ broken = FALSE

Begin ==
    /\ ~broken /\ call = <<>> /\ result = <<>>
    /\ call' \in {<<c>> : c \in Calls}
    /\ UNCHANGED <<bytes, result, broken>>

\* A read leaves the disk as it is; a write changes its range and nothing else.
Do(c) ==
    CASE c.op = "read"  -> /\ bytes' = bytes
                           /\ result' = <<[k \in DOMAIN c.data |-> bytes[c.disk][c.addr + k]]>>
      [] c.op = "write" -> /\ bytes' = [bytes EXCEPT ![c.disk] = [i \in DOMAIN @ |->
                                  IF i - 1 \in Range(c) THEN c.data[i - c.addr] ELSE @[i]]]
                           /\ result' = <<<<>>>>
      [] OTHER          -> bytes' = bytes /\ result' = <<<<>>>>

Perform == ~broken /\ call # <<>> /\ result = <<>> /\ Do(call[1]) /\ UNCHANGED <<call, broken>>

Return ==
    /\ ~broken /\ result # <<>>
    /\ call' = <<>> /\ result' = <<>>
    /\ UNCHANGED <<bytes, broken>>

\* From then on anything may happen.
Break == broken'

Next == Begin \/ Perform \/ Return \/ Break
Spec == Init /\ [][Next]_vars /\ WF_vars(Perform) /\ WF_vars(Return)
=============================================================================
