-------------------------------- MODULE Gpu --------------------------------
(***************************************************************************)
(* The GPU driver (gpu.c): gpu_request on every hart, gpu_handle_irq on    *)
(* hart 0, and the device between them.  Harts call it for gpu_init (hart  *)
(* 0), for SYS_GPU_FLUSH and, on hart 0, for the console's draw command;   *)
(* all of its requests are polled.                                         *)
(*                                                                         *)
(* Every hart draws in a rectangle of its own, whose content is a number   *)
(* that grows with each fill.  The device takes requests in order.         *)
(*                                                                         *)
(* wild: memory was used after it had been freed and given out again.  The *)
(* model stops there.                                                      *)
(***************************************************************************)
EXTENDS Integers, Sequences

CONSTANTS
    Harts,
    QUEUE_SIZE,     \* cfg->queue_size
    IDX_MOD,        \* 2^16, the virtqueue's index arithmetic
    MaxFills        \* bound: fills and flushes per hart

\* Each hart has at most two descriptors in use, and gpu_init three alone.
ASSUME GpuAssumption ==
    /\ 0 \in Harts /\ Harts \subseteq Nat
    /\ QUEUE_SIZE \in Nat /\ QUEUE_SIZE >= 3 /\ \A h \in Harts : 2 * (h + 1) <= QUEUE_SIZE
    /\ IDX_MOD \in Nat /\ IDX_MOD >= QUEUE_SIZE /\ IDX_MOD % QUEUE_SIZE = 0
    /\ MaxFills \in Nat

gpu_init == <<"GET_DISPLAY_INFO", "RESOURCE_CREATE_2D", "RESOURCE_ATTACH_BACKING", "SET_SCANOUT">>
gpu_flush == <<"TRANSFER_TO_HOST_2D", "RESOURCE_FLUSH">>

\* The descriptors of a request, in the order of their chain.
Chain(kind) == IF kind = "RESOURCE_ATTACH_BACKING" THEN <<"request", "mem", "response">>
                                                   ELSE <<"request", "response">>

\* What the functions that make the requests allocate for them.  The memory entry of
\* RESOURCE_ATTACH_BACKING is never freed, and RESOURCE_CREATE_2D's request is read again
\* when the handler has freed it (gpu.c:275), before anything else can have been given it.
Allocated(kind) == {"request"} \cup (IF kind = "RESOURCE_ATTACH_BACKING" THEN {"mem"} ELSE {})

VARIABLES
    lock, at_idx, queue_desc, avail_ring, avail_idx, request_info,  \* the driver's
    last_avail, used_ring, used_idx, isr, host, screen,             \* the device's
    ack_idx, irq, req_info, displays,                   \* gpu_handle_irq and its locals
    pc, call, nth, first_idx, painted, due,             \* per hart
    live,           \* the blocks of the heap that are allocated for requests
    complete,       \* the flag in each hart's request_info
    response,       \* the request that each hart's response block answers
    wild

driver_vars == <<at_idx, queue_desc, avail_ring, avail_idx, request_info>>
device_vars == <<last_avail, used_ring, used_idx, host, screen>>
irq_vars == <<ack_idx, irq, req_info>>
hart_vars == <<pc, call, nth, first_idx, painted, due>>
vars == <<lock, driver_vars, device_vars, isr, irq_vars, displays, hart_vars, live, complete,
          response, wild>>

NoRequest == [by |-> 0, nth |-> 0, kind |-> "none"]
Slots == 0 .. QUEUE_SIZE - 1
Incr(i) == (i + 1) % IDX_MOD

\* The request hart h is making, and its blocks.
Request(h) == [by |-> h, nth |-> nth[h], kind |-> Head(call[h])]
Block(r, part) == [of |-> r, part |-> part]

Init ==
    /\ lock = FALSE
    /\ at_idx = 0
    /\ queue_desc = [i \in Slots |-> [part |-> "none", of |-> NoRequest, next |-> 0]]
    /\ avail_ring = [i \in Slots |-> 0]
    /\ avail_idx = 0
    /\ request_info = [i \in Slots |-> NoRequest]
    /\ last_avail = 0
    /\ used_ring = [i \in Slots |-> 0]
    /\ used_idx = 0
    /\ isr = FALSE
    /\ host = [h \in Harts |-> 0] /\ screen = [h \in Harts |-> 0]
    /\ ack_idx = 0
    /\ irq = "idle"
    /\ req_info = NoRequest
    /\ displays = "unknown"
    /\ pc = [h \in Harts |-> IF h = 0 THEN "lock" ELSE "idle"]
    /\ call = [h \in Harts |-> IF h = 0 THEN gpu_init ELSE <<>>]
    /\ nth = [h \in Harts |-> 1]
    /\ first_idx = [h \in Harts |-> 0]
    /\ painted = [h \in Harts |-> 0] /\ due = [h \in Harts |-> 0]
    /\ live = {}
    /\ complete = [h \in Harts |-> FALSE]
    /\ response = [h \in Harts |-> NoRequest]
    /\ wild = FALSE

-----------------------------------------------------------------------------
(* Callers.  An interrupt of hart 0 is handled before its caller goes on.    *)
(* X_<what> is X with a plausible slip.                                      *)

Runs_Unmasked(h) == TRUE

Runs(h) == h = 0 => irq = "idle"

\* A rectangle that does not lie on the screen is refused, and nothing happens.
framebuffer_rectangle_fill(h) == painted' = [painted EXCEPT ![h] = @ + 1]

\* gpu_fill, then gpu_flush: two system calls, or gpu_fill_and_flush.  A program may also
\* fill without flushing.
Fill(h) ==
    /\ Runs(h) /\ pc[h] = "idle" /\ displays = "ready" /\ painted[h] < MaxFills
    /\ framebuffer_rectangle_fill(h)
    /\ \/ /\ due' = [due EXCEPT ![h] = painted'[h]]
          /\ call' = [call EXCEPT ![h] = gpu_flush]
          /\ pc' = [pc EXCEPT ![h] = "lock"]
       \/ UNCHANGED <<due, call, pc>>
    /\ UNCHANGED <<lock, driver_vars, device_vars, isr, irq_vars, displays, nth, first_idx,
                   live, complete, response, wild>>

Lock_NotTaken(h) ==
    /\ Runs(h) /\ pc[h] = "lock"
    /\ lock' = TRUE
    /\ live' = live \cup {Block(Request(h), p) : p \in Allocated(Head(call[h]))}
    /\ pc' = [pc EXCEPT ![h] = "enqueue"]
    /\ UNCHANGED <<driver_vars, device_vars, isr, irq_vars, displays, call, nth, first_idx,
                   painted, due, complete, response, wild>>

\* The caller allocates the request, and gpu_request takes the device's lock.
Lock(h) ==
    /\ Runs(h) /\ pc[h] = "lock"
    /\ ~lock
    /\ lock' = TRUE
    /\ live' = live \cup {Block(Request(h), p) : p \in Allocated(Head(call[h]))}
    /\ pc' = [pc EXCEPT ![h] = "enqueue"]
    /\ UNCHANGED <<driver_vars, device_vars, isr, irq_vars, displays, call, nth, first_idx,
                   painted, due, complete, response, wild>>

\* Descriptors, driver ring and request_info, from at_idx on.
Enqueue(h) ==
    LET r == Request(h)
        parts == Chain(r.kind)
        Place(i) == ((i - at_idx) % QUEUE_SIZE) + 1   \* of slot i in the chain
    IN  /\ Runs(h) /\ pc[h] = "enqueue"
        /\ queue_desc' = [i \in Slots |->
              IF Place(i) > Len(parts) THEN queue_desc[i]
              ELSE [part |-> parts[Place(i)], of |-> r,
                    next |-> IF Place(i) = Len(parts) THEN 0 ELSE (i + 1) % QUEUE_SIZE]]
        /\ avail_ring' = [avail_ring EXCEPT ![avail_idx % QUEUE_SIZE] = at_idx]
        /\ request_info' = [request_info EXCEPT ![at_idx] = r]
        /\ first_idx' = [first_idx EXCEPT ![h] = at_idx]
        /\ live' = live \cup {Block(r, "response"), Block(r, "info")}
        /\ complete' = [complete EXCEPT ![h] = FALSE]
        /\ response' = [response EXCEPT ![h] = NoRequest]
        /\ pc' = [pc EXCEPT ![h] = "publish"]
        /\ UNCHANGED <<lock, at_idx, avail_idx, device_vars, isr, irq_vars, displays, call, nth,
                       painted, due, wild>>

Publish_NotWrapped(h) ==
    /\ Runs(h) /\ pc[h] = "publish"
    /\ at_idx' = first_idx[h] + Len(Chain(Head(call[h])))
    /\ avail_idx' = Incr(avail_idx)
    /\ lock' = FALSE
    /\ pc' = [pc EXCEPT ![h] = "poll"]
    /\ UNCHANGED <<queue_desc, avail_ring, request_info, device_vars, isr, irq_vars, displays,
                   call, nth, first_idx, painted, due, live, complete, response, wild>>

Publish_NextIsFirst(h) ==
    /\ Runs(h) /\ pc[h] = "publish"
    /\ at_idx' = (first_idx[h] + 1) % QUEUE_SIZE
    /\ avail_idx' = Incr(avail_idx)
    /\ lock' = FALSE
    /\ pc' = [pc EXCEPT ![h] = "poll"]
    /\ UNCHANGED <<queue_desc, avail_ring, request_info, device_vars, isr, irq_vars, displays,
                   call, nth, first_idx, painted, due, live, complete, response, wild>>

\* The indices, the notification, and the unlock.
Publish(h) ==
    /\ Runs(h) /\ pc[h] = "publish"
    /\ at_idx' = (first_idx[h] + Len(Chain(Head(call[h])))) % QUEUE_SIZE
    /\ avail_idx' = Incr(avail_idx)
    /\ lock' = FALSE
    /\ pc' = [pc EXCEPT ![h] = "poll"]
    /\ UNCHANGED <<queue_desc, avail_ring, request_info, device_vars, isr, irq_vars, displays,
                   call, nth, first_idx, painted, due, live, complete, response, wild>>

PollReturns_AtOnce(h) ==
    /\ Runs(h) /\ pc[h] = "poll"
    /\ live' = live \ {Block(Request(h), "info")}
    /\ call' = [call EXCEPT ![h] = Tail(@)]
    /\ nth' = [nth EXCEPT ![h] = @ + 1]
    /\ pc' = [pc EXCEPT ![h] = IF call'[h] = <<>> THEN "idle" ELSE "lock"]
    /\ displays' = IF Head(call[h]) = "SET_SCANOUT" THEN "ready" ELSE displays
    /\ UNCHANGED <<lock, driver_vars, device_vars, isr, irq_vars, first_idx, painted, due,
                   complete, response, wild>>

\* The end of the polling loop, kfree of request_info, and the caller's next request.
PollReturns(h) ==
    /\ Runs(h) /\ pc[h] = "poll"
    /\ complete[h]
    /\ live' = live \ {Block(Request(h), "info")}
    /\ call' = [call EXCEPT ![h] = Tail(@)]
    /\ nth' = [nth EXCEPT ![h] = @ + 1]
    /\ pc' = [pc EXCEPT ![h] = IF call'[h] = <<>> THEN "idle" ELSE "lock"]
    /\ displays' = IF Head(call[h]) = "SET_SCANOUT" THEN "ready" ELSE displays
    /\ UNCHANGED <<lock, driver_vars, device_vars, isr, irq_vars, first_idx, painted, due,
                   complete, response, wild>>

-----------------------------------------------------------------------------
(* The device. *)

Performed(r) ==
    /\ host' = IF r.kind = "TRANSFER_TO_HOST_2D" THEN [host EXCEPT ![r.by] = painted[r.by]]
                                                 ELSE host
    /\ screen' = IF r.kind = "RESOURCE_FLUSH" THEN [screen EXCEPT ![r.by] = host[r.by]]
                                              ELSE screen

\* The descriptor at the end of the chain from i.
LastOf(i) ==
    LET j == queue_desc[i].next
    IN  IF queue_desc[j].part = "response" THEN j ELSE queue_desc[j].next

Perform ==
    LET id == avail_ring[last_avail % QUEUE_SIZE]
        r == queue_desc[id].of
    IN  /\ last_avail # avail_idx
        /\ Performed(r)
        /\ response' = [response EXCEPT ![queue_desc[LastOf(id)].of.by] = r]
        /\ used_ring' = [used_ring EXCEPT ![used_idx % QUEUE_SIZE] = id]
        /\ used_idx' = Incr(used_idx)
        /\ last_avail' = Incr(last_avail)
        /\ isr' = TRUE
        /\ UNCHANGED <<lock, driver_vars, irq_vars, displays, hart_vars, live, complete, wild>>

-----------------------------------------------------------------------------
(* gpu_handle_irq on hart 0. *)

virtio_handle_irq ==
    /\ irq = "idle" /\ isr
    /\ isr' = FALSE
    /\ irq' = "loop"
    /\ UNCHANGED <<lock, driver_vars, device_vars, ack_idx, req_info, displays, hart_vars, live,
                   complete, response, wild>>

Complete_ByAckIdx ==
    /\ irq = "loop" /\ ack_idx # used_idx
    /\ req_info' = request_info[ack_idx % QUEUE_SIZE]
    /\ displays' = IF req_info'.kind = "GET_DISPLAY_INFO" THEN "enabled" ELSE displays
    /\ complete' = [complete EXCEPT ![req_info'.by] = TRUE]
    /\ irq' = "free_request"
    /\ UNCHANGED <<lock, driver_vars, device_vars, isr, ack_idx, hart_vars, live, response, wild>>

\* From the used ring to req_info->complete = true.
Complete ==
    /\ irq = "loop" /\ ack_idx # used_idx
    /\ req_info' = request_info[used_ring[ack_idx % QUEUE_SIZE]]
    /\ displays' = IF req_info'.kind = "GET_DISPLAY_INFO" THEN "enabled" ELSE displays
    /\ complete' = [complete EXCEPT ![req_info'.by] = TRUE]
    /\ irq' = "free_request"
    /\ UNCHANGED <<lock, driver_vars, device_vars, isr, ack_idx, hart_vars, live, response, wild>>

\* Reading req_info when its block has been freed gives what was there, or anything.
ReadReqInfo == \/ UNCHANGED wild
               \/ Block(req_info, "info") \notin live /\ wild' = TRUE

FreeRequest ==
    /\ irq = "free_request"
    /\ ReadReqInfo
    /\ live' = live \ {Block(req_info, "request")}
    /\ irq' = "free_response"
    /\ UNCHANGED <<lock, driver_vars, device_vars, isr, ack_idx, req_info, displays, hart_vars,
                   complete, response>>

FreeResponse_Twice ==
    /\ irq = "free_response"
    /\ ReadReqInfo
    /\ live' = live \ {Block(req_info, "request")}
    /\ irq' = "acknowledge"
    /\ UNCHANGED <<lock, driver_vars, device_vars, isr, ack_idx, req_info, displays, hart_vars,
                   complete, response>>

FreeResponse ==
    /\ irq = "free_response"
    /\ ReadReqInfo
    /\ live' = live \ {Block(req_info, "response")}
    /\ irq' = "acknowledge"
    /\ UNCHANGED <<lock, driver_vars, device_vars, isr, ack_idx, req_info, displays, hart_vars,
                   complete, response>>

Acknowledge_OnePerIrq ==
    /\ irq = "acknowledge"
    /\ ReadReqInfo
    /\ ack_idx' = Incr(ack_idx)
    /\ irq' = "idle"
    /\ UNCHANGED <<lock, driver_vars, device_vars, isr, req_info, displays, hart_vars, live,
                   complete, response>>

\* Every request is polled, so req_info is its caller's to free.
Acknowledge ==
    /\ irq = "acknowledge"
    /\ ReadReqInfo
    /\ ack_idx' = Incr(ack_idx)
    /\ irq' = "loop"
    /\ UNCHANGED <<lock, driver_vars, device_vars, isr, req_info, displays, hart_vars, live,
                   complete, response>>

HandlerReturns ==
    /\ irq = "loop" /\ ack_idx = used_idx
    /\ irq' = "idle"
    /\ UNCHANGED <<lock, driver_vars, device_vars, isr, ack_idx, req_info, displays, hart_vars,
                   live, complete, response, wild>>

Handler ==
    /\ ~wild
    /\ \/ virtio_handle_irq \/ Complete \/ FreeRequest \/ FreeResponse \/ Acknowledge
       \/ HandlerReturns

Caller(h) == ~wild /\ (Lock(h) \/ Enqueue(h) \/ Publish(h) \/ PollReturns(h))

Device == ~wild /\ Perform

Next == Handler \/ Device \/ \E h \in Harts : Caller(h) \/ (~wild /\ Fill(h))

\* The handler's two kfree spin on kmalloc_lock, which the code that the handler
\* interrupted on hart 0 may hold: anywhere but from gpu_request's allocations to the end of
\* its polling loop.  (The handler of hart 0's own request interrupted that loop.)
HandlerMayHang ==
    /\ irq \in {"free_request", "free_response"} /\ req_info.by # 0
    /\ \/ pc[0] \in {"idle", "lock", "enqueue"}
       \/ pc[0] = "poll" /\ complete[0]

\* Harts run, hart 0 takes interrupts, the device works, and whoever spins on a lock that is
\* given back gets it in the end.  Nothing is promised while the handler may hang: neither
\* that it goes on nor, as the heap stays locked, that a caller does.
Fairness ==
    /\ WF_vars(~HandlerMayHang /\ Handler)
    /\ WF_vars(Device)
    /\ \A h \in Harts : WF_vars(~HandlerMayHang /\ Caller(h))

Spec == Init /\ [][Next]_vars /\ Fairness

-----------------------------------------------------------------------------
(* Properties. *)

Kinds == {gpu_init[i] : i \in DOMAIN gpu_init} \cup {gpu_flush[i] : i \in DOMAIN gpu_flush}
Requests == [by : Harts, nth : 1 .. 2 * MaxFills + Len(gpu_init), kind : Kinds]

TypeOK ==
    /\ {lock, isr, wild} \subseteq BOOLEAN
    /\ {avail_idx, last_avail, used_idx, ack_idx} \subseteq 0 .. IDX_MOD - 1
    /\ at_idx \in Slots /\ {avail_ring, used_ring} \subseteq [Slots -> Slots]
    /\ queue_desc \in [Slots -> [part : {"none", "request", "mem", "response"},
                                 of : Requests \cup {NoRequest}, next : Slots]]
    /\ request_info \in [Slots -> Requests \cup {NoRequest}]
    /\ irq \in {"idle", "loop", "free_request", "free_response", "acknowledge"}
    /\ req_info \in Requests \cup {NoRequest}
    /\ displays \in {"unknown", "enabled", "ready"}
    /\ pc \in [Harts -> {"idle", "lock", "enqueue", "publish", "poll"}]
    /\ {host, screen, painted, due} \subseteq [Harts -> 0 .. MaxFills]
    /\ first_idx \in [Harts -> Slots] /\ complete \in [Harts -> BOOLEAN]
    /\ live \subseteq [of : Requests, part : {"request", "mem", "response", "info"}]
    /\ response \in [Harts -> Requests \cup {NoRequest}]

\* The chains the device has been told of and has not performed, oldest first.
Waiting == [k \in 1 .. (avail_idx - last_avail) % IDX_MOD |->
               avail_ring[(last_avail + k - 1) % QUEUE_SIZE]]

\* Descriptors are taken round the queue without asking whether they are free, yet no
\* chain in the device's hands is ever touched: each one, walked from its start, is its
\* caller's, whole and with live blocks, and the caller is polling.
ChainsIntact ==
    \A k \in DOMAIN Waiting :
        LET r == queue_desc[Waiting[k]].of
        IN  /\ pc[r.by] = "poll" /\ r = Request(r.by) /\ ~complete[r.by]
            /\ \A n \in DOMAIN Chain(r.kind) :
                  LET i == (Waiting[k] + n - 1) % QUEUE_SIZE
                  IN  /\ queue_desc[i].part = Chain(r.kind)[n] /\ queue_desc[i].of = r
                      /\ Block(r, Chain(r.kind)[n]) \in live
            /\ queue_desc[LastOf(Waiting[k])].of = r

\* When gpu_flush returns, what its caller had painted before is on the screen.
ShownWhenReturned == \A h \in Harts : pc[h] = "idle" => screen[h] = due[h]

Handling == irq \in {"free_request", "free_response", "acknowledge"}

\* The handler frees each block once, and a request_info that it still reads can only
\* have been freed by a caller on another hart.
HandlerOwnsBlocks ==
    Handling =>
        /\ irq = "free_request" => Block(req_info, "request") \in live
        /\ irq # "acknowledge" => Block(req_info, "response") \in live
        /\ Block(req_info, "info") \notin live => req_info.by # 0
        /\ wild => Block(req_info, "info") \notin live

\* Blocks outlive their request only in the handler's hands.  (The memory entry of
\* gpu_resource_attach_backing is never freed.)
NothingLeaks ==
    \A b \in live : b.part # "mem" =>
        \/ pc[b.of.by] \in {"enqueue", "publish", "poll"} /\ b.of = Request(b.of.by)
        \/ Handling /\ b.of = req_info /\ b.part # "info"

\* Every block is freed once, by the handler, and none is forgotten.
BlocksOwned == HandlerOwnsBlocks /\ NothingLeaks

\* gpu_request implements RequestService: up to the first wild read, the device performs
\* every request once and in order, and its caller returns after that and not before.
Service == INSTANCE RequestService WITH
    Callers <- Harts,
    waiting <- [k \in DOMAIN Waiting |-> queue_desc[Waiting[k]].of],
    answered <- {Request(h) : h \in {g \in Harts : pc[g] = "poll" /\ response[g] = Request(g)}},
    broken <- wild
ServiceSafety == Service!Init /\ [][Service!Next]_(Service!vars)

\* gpu_init always gets through its requests.  After it each request is performed and each
\* caller returns, unless the handler hangs for ever in kfree, on a lock that hart 0 held
\* when it was interrupted.
Served == <>(displays = "ready") /\ (<>[]HandlerMayHang \/ Service!Fairness)

\* What gpu_request promises: both.
ServiceSpec == ServiceSafety /\ Served
=============================================================================
