----------------------------- MODULE KernelLocks -----------------------------
(* The mutexes of the kernel (src/src/lock.c) and who holds which while taking    *)
(* which.  A routine is the sequence of its lock operations, of the requests it   *)
(* gives to devices and of its waits for them; one alternative per path through   *)
(* the code.  Data is left to the components' own modules.                        *)
(*                                                                                *)
(* Device interrupts reach hart 0 alone, which runs the console: plic_init        *)
(* enables them there only.  Other harts are in the kernel for traps of their     *)
(* process, during which interrupts are off.  A handler has them off, too.        *)
EXTENDS SequencesExt, FiniteSets, Integers, TLC

CONSTANT Harts
ASSUME HartsAssumption == 0 \in Harts /\ Harts \subseteq Nat /\ IsFiniteSet(Harts)

Locks == {"schedule", "kmalloc", "mmu", "page_alloc", "gpu", "block", "rng", "input_ring"}
None == -1

VARIABLES
    held,       \* each mutex: the hart that holds it, or None
    todo,       \* each hart: what is left of the routine it runs, on hart 0 after a handler's
    asked,      \* each device: the harts whose request it has
    irq         \* the interrupt hart 0 handles: the device and the hart that asked
vars == <<held, todo, asked, irq>>

-----------------------------------------------------------------------------
(* Routines. *)

Lock(m) == <<[op |-> "lock", on |-> m]>>
Unlock(m) == <<[op |-> "unlock", on |-> m]>>
Under(m, body) == Lock(m) \o body \o Unlock(m)
UnderAll(m, bodies) == {Under(m, body) : body \in bodies}
Notify(device) == <<[op |-> "notify", on |-> device]>>
Poll(device) == <<[op |-> "poll", on |-> device]>>
Complete(device) == <<[op |-> "complete", on |-> device]>>
Return == <<[op |-> "return", on |-> "none"]>>

page_alloc == Under("page_alloc", <<>>)
zero_pages == Under("page_alloc", <<>>)
page_zalloc == page_alloc \o zero_pages
page_dealloc == Under("page_alloc", <<>>)

\* With and without a table to make.
mmu_map_TableFromHeap ==
    {Under("mmu", <<>>), Under("mmu", Under("kmalloc", <<>>))}
mmu_map == {Under("mmu", <<>>), Under("mmu", page_zalloc)}
mmu_translate == Under("mmu", <<>>)

kmalloc_FailKeepsLock == {Under("kmalloc", <<>>), Lock("kmalloc") \o page_zalloc}
\* With a node that is big enough, with pages that are not there, and with pages.
kmalloc == {Under("kmalloc", <<>>), Under("kmalloc", page_zalloc)}
           \cup {Under("kmalloc", page_zalloc \o map) : map \in mmu_map}
kfree == Under("kmalloc", <<>>)

list_insert == kmalloc
list_remove == {<<>>, kfree}
schedule_add == UnderAll("schedule", list_insert)
schedule_remove == UnderAll("schedule", list_remove)
schedule_pop == UnderAll("schedule", list_remove)
schedule_print == Under("schedule", <<>>)

virtio_input_event_push == Under("input_ring", <<>>)
virtio_input_event_pop == Under("input_ring", <<>>)

\* In a request to a device the heap may grow at the first block it takes.
quick_kzalloc == Under("kmalloc", <<>>)

\* gpu_request: a response, two descriptors that are translated, a request info.
gpu_request ==
    {Under("gpu", response \o mmu_translate \o mmu_translate \o quick_kzalloc \o Notify("gpu"))
         \o Poll("gpu") \o kfree : response \in kmalloc}

rng_request ==
    {Under("rng", mmu_translate \o info \o Notify("rng")) \o Poll("rng") \o kfree :
         info \in kmalloc}

\* block_request under its lock: header, data and what fills it, status, three descriptors
\* and a request info.  The read that a write begins with is made under the write's lock.
BlockBody(header, fill) ==
    header \o page_alloc \o fill \o quick_kzalloc \o mmu_translate \o mmu_translate
           \o mmu_translate \o quick_kzalloc \o Notify("block")
block_request(fill) ==
    {Under("block", BlockBody(header, fill)) \o Poll("block") \o kfree : header \in kmalloc}
block_read_Unpolled == {SelectSeq(r, LAMBDA e : e.op # "poll") : r \in block_request(<<>>)}
block_read_poll == block_request(<<>>)
block_write_poll == block_request(BlockBody(quick_kzalloc, <<>>) \o Poll("block") \o kfree)

\* What the console's commands call on hart 0, and a trap on another hart.
Commands ==
    kmalloc \cup mmu_map \cup schedule_add \cup gpu_request \cup rng_request
    \cup block_read_poll \cup block_write_poll
    \cup {kfree, page_zalloc, page_dealloc, mmu_translate, schedule_print}
Traps ==
    schedule_add \cup schedule_remove \cup schedule_pop \cup gpu_request \cup kmalloc
    \cup {kfree, page_dealloc, mmu_translate, virtio_input_event_pop}

\* The handlers of the devices: each request is polled, so its request info stays.
Handler(device) ==
    CASE device = "gpu"   -> Complete(device) \o kfree \o kfree
      [] device = "block" -> Complete(device) \o page_dealloc \o kfree \o kfree
      [] device = "rng"   -> Complete(device)
      [] device = "input" -> virtio_input_event_push

-----------------------------------------------------------------------------
(* Steps. *)

Init ==
    /\ held = [m \in Locks |-> None]
    /\ todo = [h \in Harts |-> <<>>]
    /\ asked = [d \in {"gpu", "block", "rng"} |-> {}]
    /\ irq = <<>>

InHandler == irq # <<>>
Next1(h) == Head(todo[h])
At(h, op) == todo[h] # <<>> /\ Next1(h).op = op
Advance(h) == todo' = [todo EXCEPT ![h] = Tail(@)]

Call(h) ==
    /\ todo[h] = <<>>
    /\ \E routine \in IF h = 0 THEN Commands ELSE Traps :
           todo' = [todo EXCEPT ![h] = routine]
    /\ UNCHANGED <<held, asked, irq>>

\* mutex_sbi_lock: the turn of the loop in which the swap finds 0.
mutex_sbi_lock(h) ==
    /\ At(h, "lock") /\ held[Next1(h).on] = None
    /\ held' = [held EXCEPT ![Next1(h).on] = h]
    /\ Advance(h)
    /\ UNCHANGED <<asked, irq>>

\* The swap with 0 asks nobody who holds it.
mutex_unlock(h) ==
    /\ At(h, "unlock")
    /\ held' = [held EXCEPT ![Next1(h).on] = None]
    /\ Advance(h)
    /\ UNCHANGED <<asked, irq>>

Ask(h) ==
    /\ At(h, "notify")
    /\ asked' = [asked EXCEPT ![Next1(h).on] = @ \cup {h}]
    /\ Advance(h)
    /\ UNCHANGED <<held, irq>>

PollReturns(h) ==
    /\ At(h, "poll") /\ h \notin asked[Next1(h).on]
    /\ Advance(h)
    /\ UNCHANGED <<held, asked, irq>>

\* A device is done with a request, or an input device has an event, and hart 0 takes the
\* interrupt wherever it is.
TakeIrq ==
    /\ ~InHandler
    /\ irq' \in {<<d, h>> : d \in DOMAIN asked, h \in Harts} \cup {<<"input", 0>>}
    /\ irq'[1] \in DOMAIN asked => irq'[2] \in asked[irq'[1]]
    /\ todo' = [todo EXCEPT ![0] = Handler(irq'[1]) \o Return \o @]
    /\ UNCHANGED <<held, asked>>

SetComplete ==
    /\ At(0, "complete")
    /\ asked' = [asked EXCEPT ![irq[1]] = @ \ {irq[2]}]
    /\ Advance(0)
    /\ UNCHANGED <<held, irq>>

IrqReturn ==
    /\ At(0, "return")
    /\ irq' = <<>>
    /\ Advance(0)
    /\ UNCHANGED <<held, asked>>

Next ==
    \/ TakeIrq \/ SetComplete \/ IrqReturn
    \/ \E h \in Harts :
         Call(h) \/ mutex_sbi_lock(h) \/ mutex_unlock(h) \/ Ask(h) \/ PollReturns(h)

Spec == Init /\ [][Next]_vars

-----------------------------------------------------------------------------
(* Properties. *)

\* Nothing is left locked by a hart that has left the kernel.
TypeOK ==
    /\ held \in [Locks -> Harts \cup {None}]
    /\ DOMAIN todo = Harts
    /\ asked \in [{"gpu", "block", "rng"} -> SUBSET Harts]
    /\ InHandler => \E k \in DOMAIN todo[0] : todo[0][k] = Return[1]
    /\ \A m \in Locks : held[m] # None => Unlock(m)[1] \in Range(todo[held[m]])

\* The harts h waits for: the holder of the mutex it spins on, or hart 0 that cannot take
\* the interrupt which sets the flag h polls.
WaitsFor(h) ==
    IF At(h, "lock") THEN {held[Next1(h).on]} \ {None}
    ELSE IF At(h, "poll") /\ h \in asked[Next1(h).on] /\ InHandler THEN {0}
    ELSE {}

Circles == {S \in (SUBSET Harts) \ {{}} : \A h \in S : WaitsFor(h) \cap S # {}}

\* The locks nest in an order: harts wait for each other in a circle, or one for itself,
\* only when hart 0 holds a lock that a handler came upon; all of the kernel's own
\* nestings (scheduler, heap, page tables, pages, devices) agree.
LocksNest == \A S \in Circles : 0 \in S /\ InHandler

\* And then the handler is the GPU's, which frees the blocks of another hart's request:
\* hart 0 was inside the heap, or held a lock that a hart needs to grow it.  The disk's
\* and the entropy device's handlers cannot be caught so: hart 0 alone makes their
\* requests, and polls until they are done.
OnlyTheHeapWedges ==
    Circles # {} =>
        /\ At(0, "lock") /\ Next1(0).on = "kmalloc" /\ irq[1] = "gpu" /\ irq[2] # 0
        /\ \/ held["kmalloc"] = 0
           \/ \E m \in {"mmu", "page_alloc"} :
                held[m] = 0 /\ At(held["kmalloc"], "lock") /\ Next1(held["kmalloc"]).on = m
=============================================================================
