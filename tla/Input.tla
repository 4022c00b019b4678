------------------------------- MODULE Input -------------------------------
(***************************************************************************)
(* Input events on their way to programs (input.c): each device writes     *)
(* into buffers that its virtqueue lends it, hart 0's interrupt handlers   *)
(* (virtio_handle_irq and the device's handle_irq) move them to the event  *)
(* ring, and SYS_OLD_GET_EVENTS on the other harts takes them from there.  *)
(*                                                                         *)
(* The keyboard and the tablet share an interrupt line.  The programs that *)
(* read the events, and the specification, are Paint's.                    *)
(***************************************************************************)
EXTENDS EventRing, FiniteSets

CONSTANTS
    Devices,            \* the devices of device_head, as a sequence
    QUEUE_SIZE,         \* cfg->queue_size
    IDX_MOD,            \* 2^16, the virtqueue's index arithmetic
    Readers,            \* harts that run a program with SYS_OLD_GET_EVENTS
    MaxEventsArgs,      \* its second argument
    MaxMade             \* bound: the events that each device produces

Device == {Devices[i] : i \in DOMAIN Devices}

ASSUME InputAssumption ==
    /\ QUEUE_SIZE \in Nat \ {0}
    /\ IDX_MOD \in Nat /\ IDX_MOD >= 2 * QUEUE_SIZE /\ IDX_MOD % QUEUE_SIZE = 0
    /\ MaxEventsArgs \subseteq Nat /\ MaxMade \in [Device -> Nat]
    /\ Devices \in Seq(Device) \ {<<>>}
    /\ \A d \in Device : \A n \in 1 .. MaxMade[d] : NoEvent # [from |-> d, nth |-> n]

VARIABLES
    avail_idx, used_idx,    \* queue_driver->idx, queue_device->idx
    used_ring,              \* queue_device->ring[].id
    event_buffer,           \* device_info->event_buffer
    last_avail,             \* the device's place in the available ring
    isr,                    \* *device->isr
    ack_idx,                \* device->ack_idx
    pc, device, event,      \* hart 0's handler and its locals
    ring,                   \* virtio_input_event_ring_buffer
    taken,                  \* what the last virtio_input_event_pop returned
    max_events, num_events, \* per reader, in syscall_get_events; max -1 outside
    made, pushed, latest    \* ghosts, per device: events produced, pushed, popped last

queue_vars == <<avail_idx, used_idx, used_ring, event_buffer, last_avail, isr, made>>
handler_vars == <<ack_idx, pc, device, event, pushed>>
reader_vars == <<taken, max_events, num_events, latest>>
vars == <<queue_vars, handler_vars, ring, reader_vars>>

\* The n-th event of device d.
Event(d, n) == [from |-> d, nth |-> n]

\* input_init has lent every buffer, in order.
Init ==
    /\ avail_idx = [d \in Device |-> QUEUE_SIZE % IDX_MOD]
    /\ used_idx = [d \in Device |-> 0]
    /\ used_ring = [d \in Device |-> [i \in 0 .. QUEUE_SIZE - 1 |-> 0]]
    /\ event_buffer = [d \in Device |-> [i \in 0 .. QUEUE_SIZE - 1 |-> NoEvent]]
    /\ last_avail = [d \in Device |-> 0]
    /\ isr = [d \in Device |-> FALSE]
    /\ ack_idx = [d \in Device |-> 0]
    /\ pc = "idle"
    /\ device = Devices[1]
    /\ event = NoEvent
    /\ ring = EmptyRing
    /\ taken = NoEvent
    /\ max_events = [r \in Readers |-> -1]
    /\ num_events = [r \in Readers |-> 0]
    /\ made = [d \in Device |-> 0]
    /\ pushed = [d \in Device |-> 0]
    /\ latest = [d \in Device |-> 0]

Incr(i) == (i + 1) % IDX_MOD

-----------------------------------------------------------------------------
(* The devices. *)

\* The available ring holds the descriptors in the order input_init put them there:
\* the handlers advance its index and never write to it again.
AvailRing(i) == i % QUEUE_SIZE

\* A device that has no buffer drops the event.
Deliver(d) ==
    LET id == AvailRing(last_avail[d])
    IN  /\ made[d] < MaxMade[d]
        /\ last_avail[d] # avail_idx[d]
        /\ made' = [made EXCEPT ![d] = @ + 1]
        /\ event_buffer' = [event_buffer EXCEPT ![d][id] = Event(d, made'[d])]
        /\ used_ring' = [used_ring EXCEPT ![d][used_idx[d] % QUEUE_SIZE] = id]
        /\ used_idx' = [used_idx EXCEPT ![d] = Incr(@)]
        /\ last_avail' = [last_avail EXCEPT ![d] = Incr(@)]
        /\ isr' = [isr EXCEPT ![d] = TRUE]
        /\ UNCHANGED <<avail_idx, handler_vars, ring, reader_vars>>

-----------------------------------------------------------------------------
(* Hart 0: virtio_handle_irq, and input_keyboard_handle_irq or               *)
(* input_tablet_handle_irq.  X_<what> is X with a plausible slip.            *)

\* The first device whose status register is set; reading the register clears it.
virtio_handle_irq ==
    /\ pc = "idle"
    /\ \E i \in DOMAIN Devices :
        /\ isr[Devices[i]]
        /\ \A j \in 1 .. i - 1 : ~isr[Devices[j]]
        /\ device' = Devices[i]
        /\ isr' = [isr EXCEPT ![Devices[i]] = FALSE]
    /\ pc' = "loop"
    /\ UNCHANGED <<avail_idx, used_idx, used_ring, event_buffer, last_avail, made, ack_idx,
                   event, pushed, ring, reader_vars>>

ReadEvent_Newest ==
    /\ pc = "loop"
    /\ ack_idx[device] # used_idx[device]
    /\ event' = event_buffer[device][used_ring[device][(used_idx[device] - 1) % QUEUE_SIZE]]
    /\ pc' = "push"
    /\ UNCHANGED <<queue_vars, ack_idx, device, pushed, ring, reader_vars>>

ReadEvent ==
    /\ pc = "loop"
    /\ ack_idx[device] # used_idx[device]
    /\ event' = event_buffer[device][used_ring[device][ack_idx[device] % QUEUE_SIZE]]
    /\ pc' = "push"
    /\ UNCHANGED <<queue_vars, ack_idx, device, pushed, ring, reader_vars>>

PushEvent ==
    /\ pc = "push"
    /\ ring' = event_push(ring, event)
    /\ pushed' = [pushed EXCEPT ![device] = @ + 1]
    /\ pc' = "give_back"
    /\ UNCHANGED <<queue_vars, ack_idx, device, event, reader_vars>>

GiveBack_OneEventPerIrq ==
    /\ pc = "give_back"
    /\ avail_idx' = [avail_idx EXCEPT ![device] = Incr(@)]
    /\ ack_idx' = [ack_idx EXCEPT ![device] = Incr(@)]
    /\ pc' = "idle"
    /\ UNCHANGED <<used_idx, used_ring, event_buffer, last_avail, isr, made, device, event,
                   pushed, ring, reader_vars>>

\* The buffer is lent to the device again.
GiveBack ==
    /\ pc = "give_back"
    /\ avail_idx' = [avail_idx EXCEPT ![device] = Incr(@)]
    /\ ack_idx' = [ack_idx EXCEPT ![device] = Incr(@)]
    /\ pc' = "loop"
    /\ UNCHANGED <<used_idx, used_ring, event_buffer, last_avail, isr, made, device, event,
                   pushed, ring, reader_vars>>

HandlerReturns ==
    /\ pc = "loop"
    /\ ack_idx[device] = used_idx[device]
    /\ pc' = "idle"
    /\ UNCHANGED <<queue_vars, ack_idx, device, event, pushed, ring, reader_vars>>

-----------------------------------------------------------------------------
(* SYS_OLD_GET_EVENTS on another hart: syscall_get_events. *)

\* With a maximum of 0 it returns at once.
GetEvents(r, max) ==
    /\ max_events[r] = -1 /\ max # 0
    /\ max_events' = [max_events EXCEPT ![r] = max]
    /\ num_events' = [num_events EXCEPT ![r] = 0]
    /\ UNCHANGED <<queue_vars, handler_vars, ring, taken, latest>>

\* virtio_input_event_pop, then copy_to_user or the end of the call.
PopEvent(r) ==
    /\ max_events[r] # -1
    /\ taken' = event_pop(ring)
    /\ ring' = event_after_pop(ring)
    /\ IF taken' = NoEvent
       THEN UNCHANGED <<num_events, latest>> /\ max_events' = [max_events EXCEPT ![r] = -1]
       ELSE /\ num_events' = [num_events EXCEPT ![r] = @ + 1]
            /\ latest' = [latest EXCEPT ![taken'.from] = taken'.nth]
            /\ max_events' = IF num_events'[r] = max_events[r]
                             THEN [max_events EXCEPT ![r] = -1] ELSE max_events
    /\ UNCHANGED <<queue_vars, handler_vars>>

Handler == virtio_handle_irq \/ ReadEvent \/ PushEvent \/ GiveBack \/ HandlerReturns

-----------------------------------------------------------------------------
(* Properties. *)

AnEvent == UNION {[from : {d}, nth : 1 .. MaxMade[d]] : d \in Device}
Slots == 0 .. QUEUE_SIZE - 1

TypeOK ==
    /\ {avail_idx, used_idx, last_avail, ack_idx} \subseteq [Device -> 0 .. IDX_MOD - 1]
    /\ used_ring \in [Device -> [Slots -> Slots]]
    /\ event_buffer \in [Device -> [Slots -> AnEvent \cup {NoEvent}]]
    /\ isr \in [Device -> BOOLEAN]
    /\ pc \in {"idle", "loop", "push", "give_back"}
    /\ device \in Device
    /\ {event, taken} \subseteq AnEvent \cup {NoEvent}
    /\ ring \in [buffer : [0 .. EVENT_BUFFER_SIZE - 1 -> AnEvent \cup {NoEvent}],
                 idx : 0 .. EVENT_BUFFER_SIZE - 1, size : 0 .. EVENT_BUFFER_SIZE - 1]
    /\ max_events \in [Readers -> Nat \cup {-1}]
    /\ num_events \in [Readers -> Nat]
    /\ \A d \in Device : {made[d], pushed[d], latest[d]} \subseteq 0 .. MaxMade[d]

\* The k-th event of d that the device has delivered and the handler not acknowledged.
Delivered(d, k) == event_buffer[d][used_ring[d][(ack_idx[d] + k) % QUEUE_SIZE]]

Unacked(d) == (used_idx[d] - ack_idx[d]) % IDX_MOD

\* Those of them that are in the ring already: the one of the handler's last push.
InHand(d) == IF pc = "give_back" /\ device = d THEN 1 ELSE 0

\* No device overwrites an event before the handler has read it, and none is skipped or
\* pushed twice: what is unacknowledged is exactly what is not yet in the ring.
NoEventOverwritten ==
    \A d \in Device :
        /\ Unacked(d) <= QUEUE_SIZE
        /\ made[d] = pushed[d] + Unacked(d) - InHand(d)
        /\ \A k \in InHand(d) .. Unacked(d) - 1 :
              Delivered(d, k) = Event(d, pushed[d] + k + 1 - InHand(d))

\* Events wait for programs in the order in which their device produced them, and behind
\* those a program has got, however many devices, readers and overruns there are.
NewestLast ==
    LET held == Events(ring)
    IN  \A i \in 1 .. Len(held) :
            /\ held[i].nth > latest[held[i].from]
            /\ \A j \in 1 .. i - 1 : held[j].from = held[i].from => held[j].nth < held[i].nth

\* syscall_get_events never writes past the program's buffer.
WithinUserBuffer ==
    \A r \in Readers : max_events[r] # -1 => num_events[r] < max_events[r]

\* Programs receive the events of a device in the order it produced them, each at most
\* once, none overwritten before it was read, and no more of them than they have room for.
EventsInOrder == NoEventOverwritten /\ NewestLast /\ WithinUserBuffer

\* The ring is a queue of one less than its slots that drops its oldest event.
Queue == INSTANCE DropOldest WITH
    Values <- AnEvent, Capacity <- EVENT_BUFFER_SIZE - 1, None <- NoEvent,
    queue <- Events(ring), taken <- taken
QueueSpec == Queue!Spec

\* Every event a device has delivered reaches the ring, also when the device delivers
\* it while its handler runs, or while another device of the same line is served.
DeliveredIsPushed ==
    \A d \in Device : \A n \in 1 .. MaxMade[d] : made[d] = n ~> pushed[d] >= n
=============================================================================
