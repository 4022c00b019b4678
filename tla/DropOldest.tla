----------------------------- MODULE DropOldest -----------------------------
(***************************************************************************)
(* A bounded queue that never refuses: a value put into a full queue drops *)
(* the oldest one.  It is what both input buffers of the system promise:   *)
(* the firmware's uart_buffer and the kernel's                             *)
(* virtio_input_event_ring_buffer.                                         *)
(***************************************************************************)
EXTENDS Naturals, Sequences

CONSTANTS
    Values,
    Capacity,
    None            \* the answer of a take from an empty queue

VARIABLES
    queue,
    taken           \* the answer of the last take

vars == <<queue, taken>>

Init == queue = <<>> /\ taken = None

Put(v) ==
    /\ queue' = Append(IF Len(queue) < Capacity THEN queue ELSE Tail(queue), v)
    /\ UNCHANGED taken

Take ==
    /\ queue # <<>>
    /\ taken' = Head(queue)
    /\ queue' = Tail(queue)

TakeNone ==
    /\ queue = <<>>
    /\ taken' = None
    /\ UNCHANGED queue

Next == Take \/ TakeNone \/ \E v \in Values : Put(v)

Spec == Init /\ [][Next]_vars
=============================================================================
