----------------------------- MODULE EventRing -----------------------------
(***************************************************************************)
(* The kernel's ring of input events (input.c): buffer, idx and size of    *)
(* virtio_input_event_ring_buffer as one record.  Both operations hold     *)
(* virtio_input_event_ring_buffer_lock throughout.  One slot is never      *)
(* counted.                                                                *)
(***************************************************************************)
EXTENDS Integers, Sequences

CONSTANTS
    EVENT_BUFFER_SIZE,  \* VIRTIO_INPUT_EVENT_BUFFER_SIZE
    NoEvent             \* {-1, -1, -1}

ASSUME EventRingAssumption == EVENT_BUFFER_SIZE \in Nat /\ EVENT_BUFFER_SIZE >= 2

EmptyRing == [buffer |-> [i \in 0 .. EVENT_BUFFER_SIZE - 1 |-> NoEvent], idx |-> 0, size |-> 0]

event_push_WholeBuffer(r, event) ==
    LET full == r.size = EVENT_BUFFER_SIZE
    IN  [buffer |-> [r.buffer EXCEPT ![(r.idx + r.size) % EVENT_BUFFER_SIZE] = event],
         idx |-> IF full THEN (r.idx + 1) % EVENT_BUFFER_SIZE ELSE r.idx,
         size |-> IF full THEN r.size ELSE r.size + 1]

event_push(r, event) ==
    LET full == r.size = EVENT_BUFFER_SIZE - 1
    IN  [buffer |-> [r.buffer EXCEPT ![(r.idx + r.size) % EVENT_BUFFER_SIZE] = event],
         idx |-> IF full THEN (r.idx + 1) % EVENT_BUFFER_SIZE ELSE r.idx,
         size |-> IF full THEN r.size ELSE r.size + 1]

\* What virtio_input_event_pop returns, and the ring afterwards.
event_pop(r) == IF r.size = 0 THEN NoEvent ELSE r.buffer[r.idx % EVENT_BUFFER_SIZE]

event_after_pop(r) ==
    IF r.size = 0 THEN r
    ELSE [r EXCEPT !.idx = (@ + 1) % EVENT_BUFFER_SIZE, !.size = @ - 1]

\* The events held, the oldest first.
Events(r) == [i \in 1 .. r.size |-> r.buffer[(r.idx + i - 1) % EVENT_BUFFER_SIZE]]
=============================================================================
