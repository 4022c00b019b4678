------------------------------- MODULE Devices -------------------------------
(* Requests to the block devices (src/src/block.c) and the entropy device         *)
(* (src/src/rng.c) that Pci found.  Both drivers are called on hart 0 only, which *)
(* polls until the request is complete and meanwhile takes the interrupts; a      *)
(* handler runs there, with interrupts off, as one step.                          *)
(*                                                                                *)
(* A write first reads the sectors it touches, through block_request itself: the  *)
(* frames are the calls of it that have not returned, the innermost last.         *)
EXTENDS Pci

CONSTANTS
    Calls,          \* what the file systems and the console ask of the drivers
    BLK_SIZE,       \* device_cfg->blk_size
    QUEUE_SIZE,     \* cfg->queue_size, as the device negotiated it
    IDX_MOD,        \* 2^16, the arithmetic of the rings' indices
    DiskBytes       \* what a disk may hold at the start

ASSUME DevicesAssumption ==
    /\ {BLK_SIZE, QUEUE_SIZE, IDX_MOD} \subseteq Nat \ {0}
    /\ QUEUE_SIZE >= 3 /\ IDX_MOD % QUEUE_SIZE = 0

VARIABLES
    disk,           \* the bytes of each block device
    frames,         \* the calls of block_request or rng_request in progress
    queue,          \* each device's virtqueue and the driver's indices in it
    isr,            \* the devices whose *isr reads as an interrupt
    live,           \* the blocks and pages allocated for a frame
    failed          \* a device has reported an error
disk_vars == <<disk, frames, queue, isr, live, failed>>
vars == <<pci_vars, disk_vars>>

Requested == {p \in DOMAIN machine : machine[p].kind = "device" /\ machine[p].driver \in {"block", "rng"}}
Garbage == -1
Slots == 0 .. QUEUE_SIZE - 1
NoDesc == [of |-> 0, part |-> "none", next |-> 0]

Init ==
    /\ PciInit
    /\ disk \in [Requested -> DiskBytes]
    /\ frames = <<>> /\ isr = {} /\ live = {} /\ failed = FALSE
    /\ queue = [p \in Requested |-> [at_idx |-> 0, desc |-> [i \in Slots |-> NoDesc],
                   ring |-> [i \in Slots |-> 0], avail |-> 0, seen |-> 0,
                   used |-> [i \in Slots |-> 0], idx |-> 0, ack |-> 0,
                   info |-> [i \in Slots |-> 0]]]

-----------------------------------------------------------------------------
(* block_request and rng_request. *)

\* The sectors from the one of the first byte to the one of the last.
Low(f) == f.addr \div BLK_SIZE
High(f) == (f.addr + f.size + BLK_SIZE - 1) \div BLK_SIZE
AlignedSize(f) == (High(f) - Low(f)) * BLK_SIZE
Unread(n) == [k \in 1 .. n |-> Garbage]

Frame(type, device, addr, size, src) ==
    LET f == [type |-> type, device |-> device, addr |-> addr, size |-> size, src |-> src,
              at |-> "publish", data |-> <<>>, dst |-> Unread(size), status |-> "INCOMP",
              complete |-> FALSE]
    IN  [f EXCEPT !.data = IF type = "RNG" THEN <<>> ELSE Unread(AlignedSize(f))]

\* A write calls itself for the sectors, once it has their header and page.  Bound: no
\* call is made after one that failed.
Begin ==
    /\ boot.at = "ready" /\ frames = <<>> /\ ~failed
    /\ \E c \in {call \in Calls : \E d \in Range(device_head) : d.place = call.disk} :
         LET type  == CASE c.op = "read" -> "IN" [] c.op = "write" -> "OUT" [] OTHER -> "RNG"
             f     == Frame(type, c.disk, c.addr, Len(c.data), c.data)
             inner == Frame("IN", c.disk, Low(f) * BLK_SIZE, AlignedSize(f), <<>>)
         IN  /\ frames' = IF type = "OUT" THEN <<[f EXCEPT !.at = "fill"], inner>> ELSE <<f>>
             /\ live' = IF type = "RNG" THEN {} ELSE {<<1, "header">>, <<1, "data">>}
    /\ UNCHANGED <<pci_vars, disk, queue, isr, failed>>

Top == Len(frames)
Parts(f) == IF f.type = "RNG" THEN <<"buffer">> ELSE <<"header", "data", "status">>

\* The descriptors in a chain from at_idx on, the ring, the request's info, the index.
Enqueue(q, f, of) ==
    LET parts == Parts(f)
        idx(k) == (q.at_idx + k - 1) % QUEUE_SIZE
    IN  [q EXCEPT !.desc = [i \in Slots |->
                     IF \E k \in DOMAIN parts : i = idx(k)
                     THEN LET k == CHOOSE j \in DOMAIN parts : i = idx(j)
                          IN  [of |-> of, part |-> parts[k],
                               next |-> IF k = Len(parts) THEN 0 ELSE idx(k + 1)]
                     ELSE @[i]],
                  !.ring[q.avail % QUEUE_SIZE] = q.at_idx,
                  !.info[q.at_idx] = of,
                  !.at_idx = idx(Len(parts) + 1),
                  !.avail = (@ + 1) % IDX_MOD]

Publish ==
    /\ frames # <<>> /\ Last(frames).at = "publish"
    /\ LET f == Last(frames)
       IN  /\ queue' = [queue EXCEPT ![f.device] = Enqueue(@, f, Top)]
           /\ live' = live \cup {<<Top, "info">>}
                  \cup IF f.type = "RNG" THEN {}
                       ELSE {<<Top, "header">>, <<Top, "data">>, <<Top, "status">>}
    /\ frames' = [frames EXCEPT ![Top].at = "poll"]
    /\ UNCHANGED <<pci_vars, disk, isr, failed>>

\* The bytes of a write go over those that were read.
Overlay(f, sectors) ==
    [k \in DOMAIN sectors |->
        LET i == k - (f.addr % BLK_SIZE) IN IF i \in DOMAIN f.src THEN f.src[i] ELSE sectors[k]]

PollReturns ==
    /\ frames # <<>> /\ Last(frames).at = "poll" /\ Last(frames).complete
    /\ live' = live \ {<<Top, "info">>}
    /\ frames' = IF Top = 1 THEN <<>>
                 ELSE <<[frames[1] EXCEPT !.at = "publish",
                                          !.data = Overlay(frames[1], frames[2].dst)]>>
    /\ UNCHANGED <<pci_vars, disk, queue, isr, failed>>

-----------------------------------------------------------------------------
(* The devices. *)

\* The chain's descriptors, as the device follows them.
Chained(q, first) ==
    LET second == q.desc[first].next
    IN  IF q.desc[first].part = "buffer" THEN <<q.desc[first]>>
        ELSE <<q.desc[first], q.desc[second], q.desc[q.desc[second].next]>>

\* It does what the header says, to the data and the status of its chain, or fails.
Transfer(p, chain, ok) ==
    LET f     == frames[chain[1].of]
        range == Low(f) * BLK_SIZE + 1 .. Low(f) * BLK_SIZE + Len(f.data)
    IN  CASE f.type = "IN" ->
               /\ frames' = [frames EXCEPT
                     ![chain[3].of].status = IF ok THEN "OK" ELSE "IOERR",
                     ![chain[2].of].data = IF ok THEN SubSeq(disk[p], Min(range), Max(range)) ELSE @]
               /\ UNCHANGED disk
          [] f.type = "OUT" ->
               /\ frames' = [frames EXCEPT ![chain[3].of].status = IF ok THEN "OK" ELSE "IOERR"]
               /\ disk' = IF ok THEN [disk EXCEPT ![p] = [i \in DOMAIN @ |->
                                        IF i \in range THEN f.data[i - Low(f) * BLK_SIZE] ELSE @[i]]]
                                ELSE disk
          [] f.type = "RNG" ->
               /\ frames' = [frames EXCEPT ![chain[1].of].status = "OK"]
               /\ UNCHANGED disk

Perform(p) ==
    LET q     == queue[p]
        first == q.ring[q.seen % QUEUE_SIZE]
    IN  /\ q.seen # q.avail
        /\ \E ok \in {TRUE, machine[p].driver = "rng"} :
             Transfer(p, Chained(q, first), ok) /\ failed' = (failed \/ ~ok)
        /\ queue' = [queue EXCEPT ![p].seen = (@ + 1) % IDX_MOD,
                                  ![p].used[q.idx % QUEUE_SIZE] = first,
                                  ![p].idx = (@ + 1) % IDX_MOD]
        /\ isr' = isr \cup {p}
        /\ UNCHANGED <<pci_vars, live>>

-----------------------------------------------------------------------------
(* The interrupt, on hart 0. *)

\* One turn of block_handle_irq: what was asked for of the sectors that were read.
Slice_FromTheStart(f) == [k \in 1 .. f.size |-> f.data[k]]
Slice(f) == [k \in 1 .. f.size |-> f.data[(f.addr % BLK_SIZE) + k]]

Freed_KeepsPage(of) == {<<of, "header">>, <<of, "status">>}
Freed(of) == {<<of, "header">>, <<of, "data">>, <<of, "status">>}
Handled(f) ==
    [f EXCEPT !.complete = TRUE,
              !.dst = IF f.type = "IN" /\ f.status = "OK" THEN Slice(f) ELSE @]

\* virtio_handle_irq serves the first device of the list that has the line and an
\* interrupt.  At most one request of a device is done: hart 0 polls for each.
TakeIrq ==
    LET raised  == {Swizzled(p) : p \in isr}
        serves(irq) == {k \in DOMAIN device_head :
                            device_head[k].irq = irq /\ device_head[k].place \in isr}
    IN  \E irq \in raised : \E k \in serves(irq) :
          LET p  == device_head[k].place
              q  == queue[p]
              of == q.info[q.used[q.ack % QUEUE_SIZE]]
          IN  /\ k = Min(serves(irq))
              /\ isr' = isr \ {p}
              /\ q.ack # q.idx
              /\ queue' = [queue EXCEPT ![p].ack = (@ + 1) % IDX_MOD]
              /\ frames' = [frames EXCEPT ![of] = Handled(@)]
              /\ live' = live \ Freed(of)
              /\ UNCHANGED <<pci_vars, disk, failed>>

-----------------------------------------------------------------------------
Boot == PciNext /\ UNCHANGED disk_vars
HartZero == Publish \/ PollReturns
Device == \E p \in Requested : Perform(p)
Next == Boot \/ Begin \/ HartZero \/ Device \/ TakeIrq

Fairness == WF_vars(HartZero) /\ WF_vars(Device) /\ WF_vars(TakeIrq)
Spec == Init /\ [][Next]_vars /\ Fairness

-----------------------------------------------------------------------------
(* Properties. *)

\* A call that has returned leaves no block of the heap and no page behind.
TypeOK ==
    /\ PciTypeOK
    /\ \A p \in Requested : disk[p] \in Seq(Nat \cup {Garbage})
    /\ Len(frames) <= 2 /\ isr \subseteq Requested
    /\ \A p \in Requested : queue[p].at_idx \in Slots
    /\ frames = <<>> => live = {}

\* The call that was made, and what it read, once the device has done its part.
CallMade ==
    LET f == frames[1]
    IN  IF frames = <<>> THEN <<>>
        ELSE <<[op |-> CASE f.type = "IN" -> "read" [] f.type = "OUT" -> "write" [] OTHER -> "random",
                disk |-> f.device, addr |-> f.addr, data |-> f.src]>>
ResultDue ==
    IF frames = <<>> \/ frames[1].status = "INCOMP" THEN <<>>
    ELSE IF frames[1].type # "IN" THEN <<<<>>>>
    ELSE IF frames[1].complete THEN <<frames[1].dst>> ELSE <<Slice(frames[1])>>

ByteDiskOf == INSTANCE ByteDisk WITH
    Calls <- Calls, bytes <- disk, call <- CallMade,
    result <- ResultDue, broken <- failed

\* The drivers implement a disk of bytes: unaligned reads and writes over sectors, with the
\* read before the write, change and return exactly what was asked, and every call returns
\* as long as no device reports an error.
DiskSpec == ByteDiskOf!Spec
=============================================================================
