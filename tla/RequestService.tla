--------------------------- MODULE RequestService ---------------------------
(***************************************************************************)
(* What a virtio driver with polled requests promises its callers: the     *)
(* device performs every request once, in the order of the asking, and     *)
(* then, and only then, the caller returns.  A caller waits for its        *)
(* request, so it has one at a time.  The promise may break at any moment; *)
(* nothing is said of what follows.                                        *)
(***************************************************************************)
EXTENDS Sequences

CONSTANTS
    Callers,
    Requests        \* records with the caller in field by

VARIABLES
    waiting,        \* the requests that the device has not performed
    answered,       \* those it has, whose callers have not returned
    broken

vars == <<waiting, answered, broken>>

Init == waiting = <<>> /\ answered = {} /\ broken = FALSE

Underway == {waiting[i] : i \in DOMAIN waiting} \cup answered

Ask(h) ==
    /\ ~broken
    /\ \A r \in Underway : r.by # h
    /\ \E r \in Requests : r.by = h /\ waiting' = Append(waiting, r)
    /\ UNCHANGED <<answered, broken>>

Perform ==
    /\ ~broken /\ waiting # <<>>
    /\ answered' = answered \cup {Head(waiting)}
    /\ waiting' = Tail(waiting)
    /\ UNCHANGED broken

Return(h) ==
    /\ ~broken
    /\ \E r \in answered : r.by = h /\ answered' = answered \ {r}
    /\ UNCHANGED <<waiting, broken>>

Break == broken' = TRUE /\ UNCHANGED <<waiting, answered>>

Next == Perform \/ Break \/ \E h \in Callers : Ask(h) \/ Return(h)

Fairness == WF_vars(Perform) /\ \A h \in Callers : WF_vars(Return(h))

Spec == Init /\ [][Next]_vars /\ Fairness
=============================================================================
