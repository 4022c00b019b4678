------------------------------ MODULE GpuProofs ------------------------------
(***************************************************************************)
(* The invariants of Gpu, and gpu_request as an implementation of          *)
(* RequestService up to liveness, for any number of harts that the         *)
(* virtqueue has two descriptors for, and any number of fills.             *)
(*                                                                         *)
(* The proof rests on a sequence w that is in no variable: the harts whose *)
(* requests are with the device or the handler and not completed, in the   *)
(* order of their requests.  u of them, the first ones, are performed.     *)
(* w tells what is in every slot of the rings from ack_idx on, and how far *)
(* behind at_idx each chain begins, so that no chain can reach another.    *)
(***************************************************************************)
EXTENDS Gpu, ListLemmas, FiniteSetTheorems

-----------------------------------------------------------------------------
(* Calls and requests. *)

InitCalls ==
    {gpu_init, <<"RESOURCE_CREATE_2D", "RESOURCE_ATTACH_BACKING", "SET_SCANOUT">>,
     <<"RESOURCE_ATTACH_BACKING", "SET_SCANOUT">>, <<"SET_SCANOUT">>}
FlushCalls == {gpu_flush, <<"RESOURCE_FLUSH">>}
Calls == InitCalls \cup FlushCalls

\* The length of a hart's chain.
Size(h) == Len(Chain(Head(call[h])))

LEMMA CallShapes ==
    /\ \A c \in Calls : /\ c # <<>> /\ Len(c) \in 1 .. 4 /\ Head(c) \in Kinds
                        /\ Len(Tail(c)) = Len(c) - 1
                        /\ Tail(c) # <<>> => Tail(c) \in Calls
    /\ \A c \in InitCalls : /\ Head(c) \notin {"TRANSFER_TO_HOST_2D", "RESOURCE_FLUSH"}
                            /\ Head(c) = "SET_SCANOUT" => Tail(c) = <<>>
                            /\ Head(c) # "SET_SCANOUT" => Tail(c) \in InitCalls
    /\ \A c \in FlushCalls : /\ Head(c) \in {"TRANSFER_TO_HOST_2D", "RESOURCE_FLUSH"}
                             /\ Tail(c) # <<>> => Tail(c) \in FlushCalls
    /\ Head(gpu_flush) = "TRANSFER_TO_HOST_2D" /\ Tail(gpu_flush) = <<"RESOURCE_FLUSH">>
    /\ Head(<<"RESOURCE_FLUSH">>) = "RESOURCE_FLUSH" /\ Tail(<<"RESOURCE_FLUSH">>) = <<>>
    /\ gpu_flush # <<"RESOURCE_FLUSH">>
    /\ InitCalls \cap FlushCalls = {}
<1>1. /\ gpu_init = <<"GET_DISPLAY_INFO", "RESOURCE_CREATE_2D", "RESOURCE_ATTACH_BACKING",
                      "SET_SCANOUT">>
      /\ gpu_flush = <<"TRANSFER_TO_HOST_2D", "RESOURCE_FLUSH">>
      /\ Kinds = {"GET_DISPLAY_INFO", "RESOURCE_CREATE_2D", "RESOURCE_ATTACH_BACKING",
                  "SET_SCANOUT", "TRANSFER_TO_HOST_2D", "RESOURCE_FLUSH"}
    BY DEF gpu_init, gpu_flush, Kinds
<1> DEFINE i1 == <<"GET_DISPLAY_INFO", "RESOURCE_CREATE_2D", "RESOURCE_ATTACH_BACKING",
                   "SET_SCANOUT">>
           i2 == <<"RESOURCE_CREATE_2D", "RESOURCE_ATTACH_BACKING", "SET_SCANOUT">>
           i3 == <<"RESOURCE_ATTACH_BACKING", "SET_SCANOUT">>
           i4 == <<"SET_SCANOUT">>
           f1 == <<"TRANSFER_TO_HOST_2D", "RESOURCE_FLUSH">>
           f2 == <<"RESOURCE_FLUSH">>
<1>2. /\ Tail(i1) = i2 /\ Tail(i2) = i3 /\ Tail(i3) = i4 /\ Tail(i4) = <<>>
      /\ Tail(f1) = f2 /\ Tail(f2) = <<>>
    OBVIOUS
<1>3. /\ Head(i1) = "GET_DISPLAY_INFO" /\ Head(i2) = "RESOURCE_CREATE_2D"
      /\ Head(i3) = "RESOURCE_ATTACH_BACKING" /\ Head(i4) = "SET_SCANOUT"
      /\ Head(f1) = "TRANSFER_TO_HOST_2D" /\ Head(f2) = "RESOURCE_FLUSH"
    OBVIOUS
<1>4. /\ Len(i1) = 4 /\ Len(i2) = 3 /\ Len(i3) = 2 /\ Len(i4) = 1 /\ Len(f1) = 2 /\ Len(f2) = 1
      /\ Len(<<>>) = 0
    OBVIOUS
<1>5. InitCalls = {i1, i2, i3, i4} /\ FlushCalls = {f1, f2} /\ gpu_flush = f1
      /\ f2 = <<"RESOURCE_FLUSH">>
    BY <1>1 DEF InitCalls, FlushCalls
<1> HIDE DEF i1, i2, i3, i4, f1, f2
<1>6. \A c \in InitCalls : /\ Tail(c) # <<>> => Tail(c) \in InitCalls
                           /\ Head(c) \notin {"TRANSFER_TO_HOST_2D", "RESOURCE_FLUSH"}
                           /\ Head(c) = "SET_SCANOUT" => Tail(c) = <<>>
                           /\ Head(c) # "SET_SCANOUT" => Tail(c) \in InitCalls
    <2>1. ASSUME NEW c \in InitCalls
          PROVE  /\ Tail(c) = <<>> \/ Tail(c) \in InitCalls
                 /\ Head(c) \notin {"TRANSFER_TO_HOST_2D", "RESOURCE_FLUSH"}
                 /\ Head(c) = "SET_SCANOUT" => Tail(c) = <<>>
                 /\ Head(c) # "SET_SCANOUT" => Tail(c) \in InitCalls
        <3>1. i1 \in InitCalls /\ i2 \in InitCalls /\ i3 \in InitCalls /\ i4 \in InitCalls
            BY <1>5
        <3>2. c = i1 \/ c = i2 \/ c = i3 \/ c = i4
            BY <1>5
        <3> QED
            BY <1>2, <1>3, <3>1, <3>2
    <2> QED
        BY <2>1, Zenon
<1>7. \A c \in FlushCalls : /\ Tail(c) # <<>> => Tail(c) \in FlushCalls
                            /\ Head(c) \in {"TRANSFER_TO_HOST_2D", "RESOURCE_FLUSH"}
    BY <1>2, <1>3, <1>5, Zenon
<1>8. gpu_flush # <<"RESOURCE_FLUSH">>
    BY <1>4, <1>5
<1>9. /\ Head(gpu_flush) = "TRANSFER_TO_HOST_2D" /\ Tail(gpu_flush) = <<"RESOURCE_FLUSH">>
      /\ Head(<<"RESOURCE_FLUSH">>) = "RESOURCE_FLUSH" /\ Tail(<<"RESOURCE_FLUSH">>) = <<>>
    BY <1>2, <1>3, <1>5
<1>10. InitCalls \cap FlushCalls = {}
    <2>1. /\ i1 # f1 /\ i2 # f1 /\ i3 # f1 /\ i4 # f1
          /\ i1 # f2 /\ i2 # f2 /\ i3 # f2 /\ i4 # f2
        BY <1>3
    <2> QED
        BY <1>5, <2>1, Zenon
<1>11. \A c \in Calls : /\ Len(c) \in 1 .. 4 /\ Len(Tail(c)) = Len(c) - 1
                        /\ Head(c) \in Kinds
    BY <1>1, <1>2, <1>3, <1>4, <1>5 DEF Calls
<1>12. \A c \in Calls : c # <<>>
    <2>1. /\ i1 # <<>> /\ i2 # <<>> /\ i3 # <<>> /\ i4 # <<>> /\ f1 # <<>> /\ f2 # <<>>
        BY <1>4
    <2> QED
        BY <1>5, <2>1, Zenon DEF Calls
<1>13. \A c \in Calls : /\ c # <<>> /\ Len(c) \in 1 .. 4 /\ Head(c) \in Kinds
                        /\ Len(Tail(c)) = Len(c) - 1
                        /\ Tail(c) # <<>> => Tail(c) \in Calls
    BY <1>6, <1>7, <1>11, <1>12, Zenon DEF Calls
<1> QED
    BY <1>6, <1>7, <1>8, <1>9, <1>10, <1>13, Zenon

LEMMA ChainShapes ==
    \A k \in Kinds :
        /\ Len(Chain(k)) = IF k = "RESOURCE_ATTACH_BACKING" THEN 3 ELSE 2
        /\ Chain(k)[1] = "request" /\ Chain(k)[Len(Chain(k))] = "response"
        /\ k = "RESOURCE_ATTACH_BACKING" => Chain(k)[2] = "mem"
        /\ DOMAIN Chain(k) = 1 .. Len(Chain(k))
        /\ \A n \in 1 .. Len(Chain(k)) : Chain(k)[n] \in {"request", "mem", "response"}
        /\ \A n \in 1 .. Len(Chain(k)) : Chain(k)[n] # "response" => Chain(k)[n] \in Allocated(k)
        /\ "request" \in Allocated(k) /\ Allocated(k) \subseteq {"request", "mem"}
<1> SUFFICES ASSUME NEW k \in Kinds
             PROVE  /\ Len(Chain(k)) = IF k = "RESOURCE_ATTACH_BACKING" THEN 3 ELSE 2
                    /\ Chain(k)[1] = "request" /\ Chain(k)[Len(Chain(k))] = "response"
                    /\ k = "RESOURCE_ATTACH_BACKING" => Chain(k)[2] = "mem"
                    /\ DOMAIN Chain(k) = 1 .. Len(Chain(k))
                    /\ \A n \in 1 .. Len(Chain(k)) : Chain(k)[n] \in {"request", "mem", "response"}
                    /\ \A n \in 1 .. Len(Chain(k)) :
                          Chain(k)[n] # "response" => Chain(k)[n] \in Allocated(k)
                    /\ "request" \in Allocated(k) /\ Allocated(k) \subseteq {"request", "mem"}
    OBVIOUS
<1>1. CASE k = "RESOURCE_ATTACH_BACKING"
    <2>1. Chain(k) = <<"request", "mem", "response">> /\ Allocated(k) = {"request", "mem"}
        BY <1>1 DEF Chain, Allocated
    <2> QED
        BY <1>1, <2>1
<1>2. CASE k # "RESOURCE_ATTACH_BACKING"
    <2>1. Chain(k) = <<"request", "response">> /\ Allocated(k) = {"request"}
        BY <1>2 DEF Chain, Allocated
    <2> QED
        BY <1>2, <2>1
<1> QED
    BY <1>1, <1>2

\* No more harts wait than there are.
LEMMA FewHarts ==
    ASSUME NEW q \in Seq(Harts), \A i, j \in 1 .. Len(q) : q[i] = q[j] => i = j
    PROVE  2 * Len(q) <= QUEUE_SIZE
<1> DEFINE K == QUEUE_SIZE \div 2
<1>1. /\ K \in Nat /\ 2 * K <= QUEUE_SIZE /\ \A h \in Harts : h \in 0 .. K - 1
      /\ Len(q) \in Nat
    BY GpuAssumption, LenProperties
<1> HIDE DEF K
<1>2. SUFFICES ASSUME Len(q) > K PROVE FALSE
    BY <1>1, GpuAssumption
<1>3. IsFiniteSet(1 .. Len(q)) /\ Cardinality(1 .. Len(q)) = Len(q)
    <2>1. PICK n \in Int : n = Len(q)
        BY <1>1
    <2>2. IsFiniteSet(1 .. n) /\ Cardinality(1 .. n) = IF 1 > n THEN 0 ELSE n - 1 + 1
        BY FS_Interval
    <2> QED
        BY <1>1, <2>1, <2>2
<1>4. IsFiniteSet(0 .. K - 1) /\ Cardinality(0 .. K - 1) = K
    <2>1. PICK n \in Int : n = K - 1
        BY <1>1
    <2>2. IsFiniteSet(0 .. n) /\ Cardinality(0 .. n) = IF 0 > n THEN 0 ELSE n - 0 + 1
        BY FS_Interval
    <2> QED
        BY <1>1, <2>1, <2>2
<1>5. q \in [1 .. Len(q) -> 0 .. K - 1]
    BY <1>1, LenProperties, ElementOfSeq
<1>6. \E i, j \in 1 .. Len(q) : i # j /\ q[i] = q[j]
    <2> DEFINE S == 1 .. Len(q)
               T == 0 .. K - 1
    <2>1. IsFiniteSet(S) /\ IsFiniteSet(T) /\ q \in [S -> T] /\ Cardinality(T) < Cardinality(S)
        BY <1>1, <1>2, <1>3, <1>4, <1>5
    <2> HIDE DEF S, T
    <2>2. \E i, j \in S : i # j /\ q[i] = q[j]
        BY <2>1, FS_PigeonHole
    <2> QED
        BY <2>2 DEF S
<1> QED
    BY <1>6

LEMMA OneMoreHart ==
    ASSUME NEW q \in Seq(Harts), \A i, j \in 1 .. Len(q) : q[i] = q[j] => i = j,
           NEW h \in Harts, \A i \in 1 .. Len(q) : q[i] # h
    PROVE  2 * (Len(q) + 1) <= QUEUE_SIZE
<1> DEFINE p == Append(q, h)
<1>1. /\ Len(q) \in Nat /\ p \in Seq(Harts) /\ Len(p) = Len(q) + 1 /\ p[Len(q) + 1] = h
      /\ \A i \in 1 .. Len(q) : p[i] = q[i]
    BY LenProperties, AppendProperties
<1> HIDE DEF p
<1>2. \A i, j \in 1 .. Len(p) : p[i] = p[j] => i = j
    BY <1>1
<1>3. 2 * Len(p) <= QUEUE_SIZE
    BY <1>1, <1>2, FewHarts
<1> QED
    BY <1>1, <1>3

-----------------------------------------------------------------------------
(* The inductive invariant. *)

\* h has written its request's chain, and the handler has not completed the request.
Written(h) == pc[h] = "publish" \/ (pc[h] = "poll" /\ ~complete[h])

\* The device has performed the request that h waits for.
Answered(h) == pc[h] = "poll" /\ response[h] = Request(h)

\* gpu_init runs alone, on hart 0, and every later request is of a flush.
CallOK(h) ==
    /\ pc[h] = "idle" <=> call[h] = <<>>
    /\ nth[h] + Len(call[h]) <= 5 + 2 * painted[h]
    /\ displays = "ready" => call[h] \in FlushCalls \cup {<<>>}
    /\ displays # "ready" => IF h = 0 THEN call[h] \in InitCalls ELSE call[h] = <<>>

InvCalls ==
    /\ call \in [Harts -> Calls \cup {<<>>}] /\ nth \in [Harts -> Nat \ {0}]
    /\ \A h \in Harts : CallOK(h)

\* The lock is held from Lock to Publish.
InvLock ==
    /\ \A h \in Harts : pc[h] \in {"enqueue", "publish"} => lock
    /\ \A h, g \in Harts : pc[h] \in {"enqueue", "publish"} /\ pc[g] \in {"enqueue", "publish"}
                           => h = g

\* w: the harts that have written, in order; the first e have published, and the first u
\* of their requests are performed.  n requests are completed.
InvQueue(w, u, e, n) ==
    /\ u \in Nat /\ e \in Nat /\ n \in Nat /\ u <= e /\ e <= Len(w) /\ Len(w) <= e + 1
    /\ \A i, j \in 1 .. Len(w) : w[i] = w[j] => i = j
    /\ \A i \in 1 .. Len(w) : /\ pc[w[i]] = IF i <= e THEN "poll" ELSE "publish"
                              /\ ~complete[w[i]]
    /\ \A h \in Harts : Written(h) => \E i \in 1 .. Len(w) : w[i] = h

\* The index of the driver when the handler has acknowledged what it has completed.
Acked == IF Handling THEN Incr(ack_idx) ELSE ack_idx

InvRings(w, u, e, n) ==
    /\ Acked = n % IDX_MOD
    /\ used_idx = (n + u) % IDX_MOD /\ last_avail = (n + u) % IDX_MOD
    /\ avail_idx = (n + e) % IDX_MOD
    /\ \A i \in 1 .. Len(w) : avail_ring[(n + i - 1) % QUEUE_SIZE] = first_idx[w[i]]
    /\ \A i \in 1 .. u : used_ring[(n + i - 1) % QUEUE_SIZE] = first_idx[w[i]]

InvAnswers(w, u) ==
    /\ \A i \in 1 .. Len(w) : response[w[i]] = Request(w[i]) <=> i <= u
    /\ \A h \in Harts : pc[h] = "poll" /\ complete[h] => response[h] = Request(h)

\* Slot x holds the j-th descriptor of h's chain, and y is the next slot.
Holds(h, j, x, y) ==
    /\ queue_desc[x].part = Chain(Head(call[h]))[j] /\ queue_desc[x].of = Request(h)
    /\ j # Size(h) => queue_desc[x].next = y

\* The descriptors of the i-th chain begin at s + 2 * (i - 1): only gpu_init makes a chain
\* of three, and then it is alone.
InvChains(w, e, s) ==
    /\ s \in Nat
    /\ at_idx = IF e = 0 THEN s % QUEUE_SIZE
                ELSE (s + 2 * (e - 1) + Size(w[e])) % QUEUE_SIZE
    /\ \A i \in 1 .. Len(w) :
          /\ first_idx[w[i]] = (s + 2 * (i - 1)) % QUEUE_SIZE
          /\ request_info[first_idx[w[i]]] = Request(w[i])
          /\ \A j \in 1 .. Size(w[i]) :
                Holds(w[i], j, (s + 2 * (i - 1) + j - 1) % QUEUE_SIZE,
                      (s + 2 * (i - 1) + j) % QUEUE_SIZE)

\* The request that the handler has completed is of a hart that has not returned, or, if
\* that is not hart 0, has.
InvHandler ==
    Handling =>
        /\ req_info \in Requests
        /\ \/ /\ pc[req_info.by] = "poll" /\ complete[req_info.by]
              /\ req_info = Request(req_info.by)
           \/ req_info.by # 0 /\ nth[req_info.by] > req_info.nth

\* The blocks that are live, and no others.
Parts(h) == {Chain(Head(call[h]))[j] : j \in 1 .. Size(h)} \cup {"info"}

InvLive ==
    /\ \A h \in Harts :
          /\ pc[h] = "enqueue" => \A p \in Allocated(Head(call[h])) : Block(Request(h), p) \in live
          /\ Written(h) => \A p \in Parts(h) : Block(Request(h), p) \in live
          /\ pc[h] = "poll" => Block(Request(h), "info") \in live
    /\ irq = "free_request" => Block(req_info, "request") \in live
    /\ irq \in {"free_request", "free_response"} => Block(req_info, "response") \in live
    /\ Handling /\ wild => Block(req_info, "info") \notin live

Owned(b) ==
    \/ b.part = "mem"
    \/ /\ \/ pc[b.of.by] = "enqueue" \/ Written(b.of.by)
          \/ pc[b.of.by] = "poll" /\ b.part = "info"
       /\ b.of = Request(b.of.by)
    \/ b.of = req_info /\ b.part = "request" /\ irq = "free_request"
    \/ b.of = req_info /\ b.part = "response" /\ irq \in {"free_request", "free_response"}

InvOwned == \A b \in live : Owned(b)

\* How far a flush has got.
ShownSoFar(h) ==
    /\ pc[h] = "idle" \/ call[h] \in InitCalls => screen[h] = due[h]
    /\ call[h] = gpu_flush => /\ painted[h] = due[h]
                              /\ Answered(h) => host[h] = due[h]
    /\ call[h] = <<"RESOURCE_FLUSH">> => /\ host[h] = due[h]
                                         /\ Answered(h) => screen[h] = due[h]

InvShown == \A h \in Harts : ShownSoFar(h)

Inv(w, u, e, n, s) ==
    /\ TypeOK /\ InvCalls /\ InvLock
    /\ InvQueue(w, u, e, n) /\ InvRings(w, u, e, n) /\ InvAnswers(w, u) /\ InvChains(w, e, s)
    /\ InvHandler /\ InvLive /\ InvOwned /\ InvShown

IInv == \E w \in Seq(Harts), u, e, n, s \in Nat : Inv(w, u, e, n, s)

-----------------------------------------------------------------------------
(* What the invariant says of the harts. *)

LEMMA RequestFields ==
    /\ \A h : Request(h).by = h /\ Request(h).nth = nth[h] /\ Request(h).kind = Head(call[h])
    /\ \A r \in Requests : r.by \in Harts /\ r.nth \in Nat /\ r.kind \in Kinds
    /\ \A r, p : Block(r, p).of = r /\ Block(r, p).part = p
    /\ \A r, q, p, t : Block(r, p) = Block(q, t) <=> r = q /\ p = t
<1>1. \A r \in Requests : r.by \in Harts /\ r.nth \in Nat /\ r.kind \in Kinds
    BY GpuAssumption DEF Requests, gpu_init
<1>2. \A h : Request(h).by = h /\ Request(h).nth = nth[h] /\ Request(h).kind = Head(call[h])
    BY DEF Request
<1> QED
    BY <1>1, <1>2 DEF Block

LEMMA HartFacts ==
    ASSUME TypeOK, InvCalls
    PROVE  \A h \in Harts :
              /\ painted[h] \in 0 .. MaxFills
              /\ pc[h] # "idle" =>
                    /\ call[h] \in Calls /\ Head(call[h]) \in Kinds
                    /\ Request(h) \in Requests
                    /\ Size(h) = IF Head(call[h]) = "RESOURCE_ATTACH_BACKING" THEN 3 ELSE 2
<1> SUFFICES ASSUME NEW h \in Harts
             PROVE  /\ painted[h] \in 0 .. MaxFills
                    /\ pc[h] # "idle" =>
                          /\ call[h] \in Calls /\ Head(call[h]) \in Kinds
                          /\ Request(h) \in Requests
                          /\ Size(h) = IF Head(call[h]) = "RESOURCE_ATTACH_BACKING" THEN 3 ELSE 2
    OBVIOUS
<1>1. painted[h] \in 0 .. MaxFills
    BY DEF TypeOK
<1>2. ASSUME pc[h] # "idle" PROVE call[h] \in Calls
    BY <1>2, Zenon DEF InvCalls, CallOK
<1>3. ASSUME pc[h] # "idle"
      PROVE  Head(call[h]) \in Kinds /\ Len(call[h]) \in 1 .. 4
    BY <1>2, <1>3, CallShapes, Zenon
<1>4. ASSUME pc[h] # "idle" PROVE Request(h) \in Requests
    <2>1. nth[h] \in Nat \ {0} /\ nth[h] + Len(call[h]) <= 5 + 2 * painted[h]
        BY DEF InvCalls, CallOK
    <2>2. nth[h] \in 1 .. 2 * MaxFills + 4
        BY <1>1, <1>3, <1>4, <2>1, GpuAssumption
    <2>3. Len(gpu_init) = 4
        BY DEF gpu_init
    <2> QED
        BY <1>3, <1>4, <2>2, <2>3 DEF Request, Requests
<1>5. ASSUME pc[h] # "idle"
      PROVE  Size(h) = IF Head(call[h]) = "RESOURCE_ATTACH_BACKING" THEN 3 ELSE 2
    BY <1>3, <1>5, ChainShapes DEF Size
<1> QED
    BY <1>1, <1>2, <1>3, <1>4, <1>5

\* With two harts at work, the displays are ready, and both have short chains.
LEMMA NotAlone ==
    ASSUME TypeOK, InvCalls, NEW h \in Harts, NEW g \in Harts, h # g,
           pc[h] # "idle", pc[g] # "idle"
    PROVE  displays = "ready" /\ Size(h) = 2
<1>1. call[h] # <<>> /\ call[g] # <<>>
    BY DEF InvCalls, CallOK
<1>2. displays = "ready"
    BY <1>1, Zenon DEF InvCalls, CallOK
<1>3. call[h] \in FlushCalls
    BY <1>1, <1>2, Zenon DEF InvCalls, CallOK
<1>4. Head(call[h]) # "RESOURCE_ATTACH_BACKING"
    BY <1>3, CallShapes
<1> QED
    BY <1>2, <1>4, HartFacts

\* The harts that have written, and their chains, which all fit in the queue.
LEMMA WriterFacts ==
    ASSUME TypeOK, InvCalls, NEW w \in Seq(Harts), NEW u, NEW e, NEW n, InvQueue(w, u, e, n)
    PROVE  /\ Len(w) \in Nat /\ 2 * Len(w) <= QUEUE_SIZE
           /\ \A i \in 1 .. Len(w) :
                 /\ w[i] \in Harts /\ pc[w[i]] \in {"publish", "poll"} /\ Written(w[i])
                 /\ Request(w[i]) \in Requests /\ Head(call[w[i]]) \in Kinds
                 /\ Size(w[i]) \in 2 .. 3 /\ (Len(w) > 1 => Size(w[i]) = 2)
                 /\ \A j \in 1 .. Size(w[i]) : 2 * (i - 1) + j - 1 \in 0 .. QUEUE_SIZE - 1
<1>1. Len(w) \in Nat /\ \A i \in 1 .. Len(w) : w[i] \in Harts
    BY LenProperties, ElementOfSeq
<1>2. 2 * Len(w) <= QUEUE_SIZE
    BY FewHarts DEF InvQueue
<1>3. \A i \in 1 .. Len(w) : pc[w[i]] \in {"publish", "poll"} /\ Written(w[i])
    BY DEF InvQueue, Written
<1>4. \A i \in 1 .. Len(w) : /\ Request(w[i]) \in Requests /\ Head(call[w[i]]) \in Kinds
                             /\ Size(w[i]) \in 2 .. 3
    BY <1>1, <1>3, HartFacts
<1>5. ASSUME NEW i \in 1 .. Len(w), Len(w) > 1 PROVE Size(w[i]) = 2
    <2>1. PICK j \in 1 .. Len(w) : j # i
        BY <1>1, <1>5
    <2>2. w[i] # w[j]
        BY <2>1 DEF InvQueue
    <2> QED
        BY <1>1, <1>3, <2>2, NotAlone
<1>6. ASSUME NEW i \in 1 .. Len(w), NEW j \in 1 .. Size(w[i])
      PROVE  2 * (i - 1) + j - 1 \in 0 .. QUEUE_SIZE - 1
    <2>1. CASE Len(w) > 1
        <3>1. j \in 1 .. 2
            BY <1>5, <2>1
        <3> QED
            BY <1>1, <1>2, <3>1, GpuAssumption
    <2>2. CASE ~(Len(w) > 1)
        <3>1. i = 1 /\ j \in 1 .. 3
            BY <1>1, <1>4, <2>2
        <3> QED
            BY <3>1, GpuAssumption
    <2> QED
        BY <2>1, <2>2
<1> QED
    BY <1>1, <1>2, <1>3, <1>4, <1>5, <1>6

-----------------------------------------------------------------------------
(* What the device has in its hands. *)

\* Where the chain of the i-th writer is, and what the device finds there.
LEMMA ChainFound ==
    ASSUME TypeOK, InvCalls, NEW w \in Seq(Harts), NEW u, NEW e, NEW n, NEW s,
           InvQueue(w, u, e, n), InvChains(w, e, s), NEW i \in 1 .. Len(w)
    PROVE  /\ \A j \in 1 .. Size(w[i]) :
                 LET x == (first_idx[w[i]] + j - 1) % QUEUE_SIZE
                 IN  queue_desc[x].part = Chain(Head(call[w[i]]))[j] /\ queue_desc[x].of = Request(w[i])
           /\ queue_desc[first_idx[w[i]]].of = Request(w[i])
           /\ queue_desc[LastOf(first_idx[w[i]])].of = Request(w[i])
<1> DEFINE h == w[i]
           o == s + 2 * (i - 1)
           N == QUEUE_SIZE
<1>1. /\ h \in Harts /\ Head(call[h]) \in Kinds /\ Size(h) \in 2 .. 3
      /\ o \in Nat /\ N \in Nat \ {0} /\ s \in Nat
    BY WriterFacts, GpuAssumption DEF InvChains
<1>2. /\ first_idx[h] = o % N
      /\ \A j \in 1 .. Size(h) : Holds(h, j, (o + j - 1) % N, (o + j) % N)
    BY DEF InvChains
<1> HIDE DEF h, o
<1>3. \A k \in Int : ((o % N) + k) % N = (o + k) % N
    <2>1. N % N = 0
        BY <1>1
    <2>2. PICK x \in Int : x = o
        BY <1>1
    <2>3. \A k \in Int : ((x % N) + k) % N = (x + k) % N
        BY <1>1, <2>1, ModOfIndex
    <2> QED
        BY <2>2, <2>3
<1>4. ASSUME NEW j \in 1 .. Size(h)
      PROVE  LET x == (first_idx[h] + j - 1) % N
             IN  queue_desc[x].part = Chain(Head(call[h]))[j] /\ queue_desc[x].of = Request(h)
    <2>1. PICK k \in Int : k = j - 1
        BY <1>1, <1>4
    <2>2. ((o % N) + k) % N = (o + k) % N
        BY <1>3
    <2>3. o % N \in Int
        BY <1>1
    <2>4. (first_idx[h] + j - 1) % N = (o + j - 1) % N
        BY <1>1, <1>2, <2>1, <2>2, <2>3
    <2>5. Holds(h, j, (o + j - 1) % N, (o + j) % N)
        BY <1>2
    <2> QED
        BY <2>4, <2>5 DEF Holds
<1>5. Holds(h, 1, o % N, (o + 1) % N)
    <2>1. 1 \in 1 .. Size(h) /\ o + 1 - 1 = o
        BY <1>1
    <2>2. Holds(h, 1, (o + 1 - 1) % N, (o + 1) % N)
        BY <1>2, <2>1
    <2> QED
        BY <2>1, <2>2
<1>6. Holds(h, 2, (o + 1) % N, (o + 2) % N)
    <2>1. 2 \in 1 .. Size(h) /\ o + 2 - 1 = o + 1
        BY <1>1
    <2>2. Holds(h, 2, (o + 2 - 1) % N, (o + 2) % N)
        BY <1>2, <2>1
    <2> QED
        BY <2>1, <2>2
<1>7. ASSUME Size(h) = 3 PROVE Holds(h, 3, (o + 2) % N, (o + 3) % N)
    <2>1. 3 \in 1 .. Size(h) /\ o + 3 - 1 = o + 2
        BY <1>1, <1>7
    <2>2. Holds(h, 3, (o + 3 - 1) % N, (o + 3) % N)
        BY <1>2, <2>1
    <2> QED
        BY <2>1, <2>2
<1>8. /\ queue_desc[o % N].of = Request(h)
      /\ queue_desc[o % N].next = (o + 1) % N
      /\ queue_desc[(o + 1) % N].of = Request(h)
      /\ queue_desc[(o + 1) % N].part = Chain(Head(call[h]))[2]
    BY <1>1, <1>5, <1>6 DEF Holds
<1>9. queue_desc[LastOf(o % N)].of = Request(h)
    <2>1. PICK k \in Kinds : k = Head(call[h])
        BY <1>1
    <2>2. Size(h) = Len(Chain(k))
        BY <2>1 DEF Size
    <2>3. CASE Size(h) = 2
        <3>1. Chain(k)[2] = "response"
            <4>1. Len(Chain(k)) = 2
                BY <2>2, <2>3
            <4>2. Chain(k)[Len(Chain(k))] = "response"
                BY ChainShapes
            <4> QED
                BY <4>1, <4>2
        <3> QED
            BY <1>8, <2>1, <3>1 DEF LastOf
    <2>4. CASE Size(h) = 3
        <3>1. Chain(k)[2] = "mem"
            <4>1. k = "RESOURCE_ATTACH_BACKING"
                <5>1. h \in Harts /\ pc[h] # "idle"
                    BY WriterFacts DEF h
                <5>2. Size(h) = IF Head(call[h]) = "RESOURCE_ATTACH_BACKING" THEN 3 ELSE 2
                    BY <5>1, HartFacts
                <5> QED
                    BY <2>1, <2>4, <5>2
            <4> QED
                BY <4>1 DEF Chain
        <3>2. /\ queue_desc[(o + 1) % N].next = (o + 2) % N
              /\ queue_desc[(o + 2) % N].of = Request(h)
            BY <1>6, <1>7, <2>4 DEF Holds
        <3> QED
            BY <1>8, <2>1, <3>1, <3>2 DEF LastOf
    <2> QED
        BY <1>1, <2>3, <2>4
<1> QED
    BY <1>2, <1>4, <1>8, <1>9 DEF h

\* The chains that wait are those of the published and not performed.
LEMMA WaitingIs ==
    ASSUME TypeOK, InvCalls, NEW w \in Seq(Harts), NEW u, NEW e, NEW n,
           InvQueue(w, u, e, n), InvRings(w, u, e, n)
    PROVE  /\ (avail_idx - last_avail) % IDX_MOD = e - u
           /\ DOMAIN Waiting = 1 .. e - u
           /\ \A k \in 1 .. e - u : u + k \in 1 .. Len(w) /\ Waiting[k] = first_idx[w[u + k]]
<1>1. /\ Len(w) \in Nat /\ 2 * Len(w) <= QUEUE_SIZE /\ u \in Nat /\ e \in Nat /\ n \in Nat
      /\ u <= e /\ e <= Len(w)
      /\ QUEUE_SIZE \in Nat \ {0} /\ IDX_MOD \in Nat \ {0} /\ IDX_MOD % QUEUE_SIZE = 0
      /\ QUEUE_SIZE <= IDX_MOD
    <2>1. Len(w) \in Nat /\ 2 * Len(w) <= QUEUE_SIZE
        BY WriterFacts
    <2> QED
        BY <2>1, GpuAssumption DEF InvQueue
<1>2. last_avail = (n + u) % IDX_MOD /\ avail_idx = (n + e) % IDX_MOD
    BY DEF InvRings
<1>3. (avail_idx - last_avail) % IDX_MOD = e - u
    <2>1. PICK x \in Int, y \in Int : x = n + u /\ y = n + e
        BY <1>1
    <2>2. y - x \in 0 .. IDX_MOD - 1
        BY <1>1, <2>1
    <2>3. ((y % IDX_MOD) - (x % IDX_MOD)) % IDX_MOD = y - x
        BY <1>1, <2>2, ModDifference
    <2> QED
        BY <1>1, <1>2, <2>1, <2>3
<1>4. DOMAIN Waiting = 1 .. e - u
    BY <1>3 DEF Waiting
<1>5. ASSUME NEW k \in 1 .. e - u
      PROVE  u + k \in 1 .. Len(w) /\ Waiting[k] = first_idx[w[u + k]]
    <2>1. u + k \in 1 .. Len(w)
        BY <1>1
    <2>2. (last_avail + k - 1) % QUEUE_SIZE = (n + (u + k) - 1) % QUEUE_SIZE
        <3>1. PICK x \in Int, m \in Int : x = n + u /\ m = k - 1
            BY <1>1
        <3>2. ((x % IDX_MOD) + m) % QUEUE_SIZE = (x + m) % QUEUE_SIZE
            BY <1>1, ModOfIndex
        <3>3. x % IDX_MOD \in Int
            BY <1>1
        <3>4. last_avail + k - 1 = (x % IDX_MOD) + m /\ n + (u + k) - 1 = x + m
            BY <1>1, <1>2, <3>1, <3>3
        <3> QED
            BY <3>2, <3>4
    <2>3. Waiting[k] = avail_ring[(last_avail + k - 1) % QUEUE_SIZE]
        BY <1>3 DEF Waiting
    <2>4. avail_ring[(n + (u + k) - 1) % QUEUE_SIZE] = first_idx[w[u + k]]
        BY <2>1 DEF InvRings
    <2> QED
        BY <2>1, <2>2, <2>3, <2>4
<1> QED
    BY <1>3, <1>4, <1>5

LEMMA ChainsAreIntact ==
    ASSUME NEW w \in Seq(Harts), NEW u, NEW e, NEW n, NEW s, Inv(w, u, e, n, s)
    PROVE  ChainsIntact
<1> USE DEF Inv
<1> SUFFICES ASSUME NEW k \in DOMAIN Waiting, NEW r, r = queue_desc[Waiting[k]].of
             PROVE  /\ pc[r.by] = "poll" /\ r = Request(r.by) /\ ~complete[r.by]
                    /\ \A m \in DOMAIN Chain(r.kind) :
                          LET i == (Waiting[k] + m - 1) % QUEUE_SIZE
                          IN  /\ queue_desc[i].part = Chain(r.kind)[m] /\ queue_desc[i].of = r
                              /\ Block(r, Chain(r.kind)[m]) \in live
                    /\ queue_desc[LastOf(Waiting[k])].of = r
    BY DEF ChainsIntact
<1>1. PICK i \in 1 .. Len(w) : i = u + k /\ i <= e /\ Waiting[k] = first_idx[w[i]]
    <2>1. DOMAIN Waiting = 1 .. e - u /\ u \in Nat /\ e \in Nat
        BY WaitingIs DEF InvQueue
    <2>2. k \in 1 .. e - u
        BY <2>1
    <2>3. u + k \in 1 .. Len(w) /\ Waiting[k] = first_idx[w[u + k]]
        BY <2>2, WaitingIs
    <2> QED
        BY <2>1, <2>2, <2>3
<1> DEFINE h == w[i]
<1>2. /\ h \in Harts /\ Written(h) /\ Head(call[h]) \in Kinds
      /\ pc[h] = "poll" /\ ~complete[h]
    BY <1>1, WriterFacts DEF InvQueue
<1>3. /\ \A j \in 1 .. Size(h) :
            LET x == (first_idx[h] + j - 1) % QUEUE_SIZE
            IN  queue_desc[x].part = Chain(Head(call[h]))[j] /\ queue_desc[x].of = Request(h)
      /\ queue_desc[first_idx[h]].of = Request(h)
      /\ queue_desc[LastOf(first_idx[h])].of = Request(h)
    BY ChainFound
<1>4. r = Request(h) /\ r.by = h /\ r.kind = Head(call[h])
    BY <1>1, <1>3, RequestFields
<1>5. DOMAIN Chain(r.kind) = 1 .. Size(h)
    BY <1>2, <1>4, ChainShapes DEF Size
<1>6. \A j \in 1 .. Size(h) : Block(r, Chain(r.kind)[j]) \in live
    BY <1>2, <1>4 DEF InvLive, Parts
<1>7. /\ pc[r.by] = "poll" /\ r = Request(r.by) /\ ~complete[r.by]
      /\ queue_desc[LastOf(Waiting[k])].of = r
    BY <1>1, <1>2, <1>3, <1>4
<1>8. ASSUME NEW m \in DOMAIN Chain(r.kind), NEW x, x = (Waiting[k] + m - 1) % QUEUE_SIZE
      PROVE  /\ queue_desc[x].part = Chain(r.kind)[m] /\ queue_desc[x].of = r
             /\ Block(r, Chain(r.kind)[m]) \in live
    BY <1>1, <1>3, <1>4, <1>5, <1>6, <1>8
<1> HIDE DEF h, Inv
<1> QED
    BY <1>7, <1>8

LEMMA BlocksAreOwned ==
    ASSUME NEW w \in Seq(Harts), NEW u, NEW e, NEW n, NEW s, Inv(w, u, e, n, s)
    PROVE  BlocksOwned
<1> USE DEF Inv
<1>1. HandlerOwnsBlocks
    <2> SUFFICES ASSUME Handling, Block(req_info, "info") \notin live
                 PROVE  req_info.by # 0
        BY DEF HandlerOwnsBlocks, InvLive, Handling
    <2>1. CASE pc[req_info.by] = "poll" /\ complete[req_info.by] /\ req_info = Request(req_info.by)
        <3>1. req_info.by \in Harts
            BY RequestFields DEF InvHandler
        <3> QED
            BY <2>1, <3>1 DEF InvLive
    <2> QED
        BY <2>1 DEF InvHandler
<1>2. NothingLeaks
    BY DEF InvOwned, Owned, NothingLeaks, Written, Handling
<1> QED
    BY <1>1, <1>2 DEF BlocksOwned

-----------------------------------------------------------------------------
(* Steps that leave most of the invariant alone. *)

Stays(h) ==
    pc'[h] = pc[h] /\ complete'[h] = complete[h] /\ call'[h] = call[h] /\ nth'[h] = nth[h]

\* The step is not about a writer.
LEMMA WritersKept ==
    ASSUME NEW w \in Seq(Harts), NEW u, NEW e, NEW n, NEW s,
           InvQueue(w, u, e, n), InvRings(w, u, e, n), InvAnswers(w, u), InvChains(w, e, s),
           UNCHANGED <<at_idx, queue_desc, avail_ring, avail_idx, request_info>>,
           UNCHANGED <<last_avail, used_ring, used_idx, first_idx, response>>, Acked' = Acked,
           \A h \in Harts : Written(h) \/ Written(h)' => Stays(h),
           \A h \in Harts : pc'[h] = "poll" /\ complete'[h] => Stays(h)
    PROVE  /\ InvQueue(w, u, e, n)' /\ InvRings(w, u, e, n)' /\ InvAnswers(w, u)'
           /\ InvChains(w, e, s)'
<1>1. \A i \in 1 .. Len(w) : w[i] \in Harts /\ Written(w[i])
    <2>1. \A i \in 1 .. Len(w) : w[i] \in Harts
        BY ElementOfSeq
    <2> QED
        BY <2>1 DEF InvQueue, Written
<1>2. \A i \in 1 .. Len(w) : Stays(w[i])
    BY <1>1
<1>3. \A h \in Harts : Stays(h) => Request(h)' = Request(h) /\ Size(h)' = Size(h)
    BY DEF Stays, Request, Size
<1>4. InvQueue(w, u, e, n)'
    <2>1. \A h \in Harts : Written(h)' => Written(h)
        BY DEF Stays, Written
    <2> QED
        BY <1>2, <2>1 DEF InvQueue, Stays
<1>5. InvRings(w, u, e, n)'
    BY DEF InvRings
<1>6. InvAnswers(w, u)'
    <2>1. \A i \in 1 .. Len(w) : Request(w[i])' = Request(w[i])
        BY <1>1, <1>2, <1>3
    <2>2. ASSUME NEW h \in Harts, pc'[h] = "poll", complete'[h] PROVE response'[h] = Request(h)'
        <3>1. Stays(h)
            BY <2>2
        <3> QED
            BY <1>3, <2>2, <3>1 DEF Stays, InvAnswers
    <2>3. \A i \in 1 .. Len(w) : response'[w[i]] = Request(w[i])' <=> i <= u
        BY <2>1 DEF InvAnswers
    <2> QED
        BY <2>2, <2>3 DEF InvAnswers
<1>7. InvChains(w, e, s)'
    <2>1. \A i \in 1 .. Len(w) :
             /\ Request(w[i])' = Request(w[i]) /\ Size(w[i])' = Size(w[i])
             /\ call'[w[i]] = call[w[i]]
        BY <1>1, <1>2, <1>3 DEF Stays
    <2>2. ASSUME NEW i \in 1 .. Len(w), NEW j, NEW x, NEW y, Holds(w[i], j, x, y)
          PROVE  Holds(w[i], j, x, y)'
        BY <2>1, <2>2 DEF Holds
    <2>3. e = 0 \/ e \in 1 .. Len(w)
        BY DEF InvQueue
    <2>4. at_idx' = IF e = 0 THEN s % QUEUE_SIZE
                    ELSE (s + 2 * (e - 1) + Size(w[e])') % QUEUE_SIZE
        BY <2>1, <2>3 DEF InvChains
    <2>5. ASSUME NEW i \in 1 .. Len(w)
          PROVE  /\ first_idx'[w[i]] = (s + 2 * (i - 1)) % QUEUE_SIZE
                 /\ request_info'[first_idx'[w[i]]] = Request(w[i])'
                 /\ \A j \in 1 .. Size(w[i])' :
                       Holds(w[i], j, (s + 2 * (i - 1) + j - 1) % QUEUE_SIZE,
                                      (s + 2 * (i - 1) + j) % QUEUE_SIZE)'
        BY <2>1, <2>2 DEF InvChains
    <2> QED
        BY <2>4, <2>5 DEF InvChains
<1> QED
    BY <1>4, <1>5, <1>6, <1>7

\* The step is not about a block.
LEMMA BlocksKept ==
    ASSUME TypeOK, InvHandler, InvLive, InvOwned,
           UNCHANGED <<complete, nth, live, wild, req_info>>,
           irq' = irq \/ (~Handling /\ ~Handling'),
           \A h \in Harts :
              \/ pc'[h] = pc[h] /\ call'[h] = call[h]
              \/ pc[h] = "idle" /\ pc'[h] = "lock"
              \/ pc[h] = "publish" /\ pc'[h] = "poll" /\ call'[h] = call[h] /\ ~complete[h]
    PROVE  InvHandler' /\ InvLive' /\ InvOwned'
<1>1. \A h \in Harts : pc[h] \in {"enqueue", "publish", "poll"} => call'[h] = call[h]
    OBVIOUS
<1>2. \A h \in Harts : pc'[h] \in {"enqueue", "publish", "poll"} => call'[h] = call[h]
    OBVIOUS
<1>3. \A h \in Harts : call'[h] = call[h] => Request(h)' = Request(h) /\ Parts(h)' = Parts(h)
    BY DEF Request, Parts, Size
<1>4. Handling' = Handling
    BY DEF Handling
<1>5. InvHandler'
    <2> SUFFICES ASSUME Handling' PROVE InvHandler'
        BY DEF InvHandler
    <2>1. Handling /\ req_info \in Requests /\ req_info.by \in Harts
        BY <1>4, RequestFields DEF InvHandler
    <2> QED
        BY <1>1, <1>3, <2>1 DEF InvHandler
<1>6. InvLive'
    <2>1. ASSUME NEW h \in Harts
          PROVE  /\ pc'[h] = "enqueue" =>
                       \A p \in Allocated(Head(call'[h])) : Block(Request(h)', p) \in live
                 /\ Written(h)' => \A p \in Parts(h)' : Block(Request(h)', p) \in live
                 /\ pc'[h] = "poll" => Block(Request(h)', "info") \in live
        <3>1. Written(h)' => Written(h) /\ pc[h] \in {"publish", "poll"}
            BY DEF Written
        <3>2. "info" \in Parts(h)
            BY DEF Parts
        <3>3. pc'[h] = "poll" => pc[h] = "poll" \/ Written(h)
            BY DEF Written
        <3>4. pc'[h] = "enqueue" => pc[h] = "enqueue"
            OBVIOUS
        <3> QED
            BY <1>1, <1>2, <1>3, <3>1, <3>2, <3>3, <3>4 DEF InvLive
    <2> QED
        BY <1>4, <2>1 DEF InvLive, Handling, Block
<1>7. InvOwned'
    <2> SUFFICES ASSUME NEW b \in live PROVE Owned(b)'
        BY DEF InvOwned
    <2>1. b.of.by \in Harts
        BY RequestFields DEF TypeOK
    <2>2. Owned(b)
        BY DEF InvOwned
    <2>3. pc[b.of.by] = "enqueue" \/ Written(b.of.by) \/ pc[b.of.by] = "poll" =>
             Request(b.of.by)' = Request(b.of.by)
        BY <1>1, <1>3, <2>1 DEF Written
    <2>4. /\ pc[b.of.by] = "enqueue" => pc'[b.of.by] = "enqueue"
          /\ Written(b.of.by) => Written(b.of.by)'
          /\ pc[b.of.by] = "poll" => pc'[b.of.by] = "poll"
        BY <2>1 DEF Written
    <2> QED
        BY <2>2, <2>3, <2>4 DEF Owned, Handling
<1> QED
    BY <1>5, <1>6, <1>7

-----------------------------------------------------------------------------
(* The steps of the callers. *)

LEMMA FillStep ==
    ASSUME NEW w \in Seq(Harts), NEW u, NEW e, NEW n, NEW s, Inv(w, u, e, n, s),
           NEW h \in Harts, Fill(h)
    PROVE  Inv(w, u, e, n, s)'
<1> USE DEF Inv
<1>1. /\ pc[h] = "idle" /\ displays = "ready" /\ painted[h] \in 0 .. MaxFills - 1
      /\ UNCHANGED <<lock, driver_vars, device_vars, isr, irq_vars, displays, nth, first_idx,
                     live, complete, response, wild>>
    BY GpuAssumption DEF Fill, TypeOK
<1>2. /\ painted'[h] = painted[h] + 1
      /\ \/ due'[h] = painted[h] + 1 /\ call'[h] = gpu_flush /\ pc'[h] = "lock"
         \/ due'[h] = due[h] /\ call'[h] = call[h] /\ pc'[h] = pc[h]
    BY DEF Fill, framebuffer_rectangle_fill, TypeOK, InvCalls
<1>3. \A g \in Harts \ {h} : /\ painted'[g] = painted[g] /\ due'[g] = due[g]
                             /\ call'[g] = call[g] /\ pc'[g] = pc[g]
    BY DEF Fill, framebuffer_rectangle_fill, TypeOK, InvCalls
<1>4. /\ painted' \in [Harts -> 0 .. MaxFills] /\ due' \in [Harts -> 0 .. MaxFills]
      /\ pc' \in [Harts -> {"idle", "lock", "enqueue", "publish", "poll"}]
      /\ call' \in [Harts -> Calls \cup {<<>>}]
    <2>1. painted' \in [Harts -> 0 .. MaxFills]
        <3>1. painted \in [Harts -> 0 .. MaxFills] /\ painted[h] + 1 \in 0 .. MaxFills
            <4>1. painted \in [Harts -> 0 .. MaxFills]
                BY DEF TypeOK
            <4>2. MaxFills \in Nat
                BY GpuAssumption
            <4> QED
                BY <1>1, <4>1, <4>2
        <3>2. painted' = [painted EXCEPT ![h] = painted[h] + 1]
            BY DEF Fill, framebuffer_rectangle_fill
        <3> QED
            BY <3>1, <3>2
    <2>2. due' \in [Harts -> 0 .. MaxFills]
        <3>1. due \in [Harts -> 0 .. MaxFills] /\ painted'[h] \in 0 .. MaxFills
            BY <2>1 DEF TypeOK
        <3>2. due' = [due EXCEPT ![h] = painted'[h]] \/ due' = due
            BY DEF Fill
        <3> QED
            BY <3>1, <3>2
    <2> QED
        BY <2>1, <2>2 DEF Fill, TypeOK, InvCalls, Calls, FlushCalls
<1>5. TypeOK'
    BY <1>1, <1>4 DEF TypeOK, driver_vars, device_vars, irq_vars
<1>6. call[h] = <<>> /\ call'[h] \in {<<>>, gpu_flush}
    BY <1>1, <1>2 DEF InvCalls, CallOK
<1>7. InvCalls'
    <2>1. CallOK(h)'
        <3>1. gpu_flush \in Calls /\ gpu_flush \in FlushCalls /\ Len(gpu_flush) = 2
              /\ gpu_flush # <<>>
            BY CallShapes DEF gpu_flush, FlushCalls, Calls
        <3>2. nth[h] + 0 <= 5 + 2 * painted[h] /\ nth[h] \in Nat
            BY <1>6, EmptySeq DEF InvCalls, CallOK
        <3>3. nth[h] + Len(call'[h]) <= 5 + 2 * painted'[h]
            <4>1. Len(call'[h]) = 0 \/ Len(call'[h]) = 2
                BY <1>6, <3>1, EmptySeq
            <4>2. painted[h] \in Nat /\ painted'[h] = painted[h] + 1
                BY <1>1, <1>2
            <4>3. \A a, b, c, d \in Nat : /\ a + 0 <= 5 + 2 * b /\ (c = 0 \/ c = 2) /\ d = b + 1
                                          => a + c <= 5 + 2 * d
                OBVIOUS
            <4>4. Len(call'[h]) \in Nat /\ painted'[h] \in Nat
                BY <4>1, <4>2
            <4> QED
                BY <3>2, <4>1, <4>2, <4>3, <4>4, Zenon
        <3>4. pc'[h] = "idle" <=> call'[h] = <<>>
            <4>1. CASE call'[h] = gpu_flush /\ pc'[h] = "lock"
                BY <3>1, <4>1
            <4>2. CASE call'[h] = call[h] /\ pc'[h] = pc[h]
                BY <1>1, <1>6, <4>2
            <4> QED
                BY <1>2, <4>1, <4>2
        <3>5. displays' = "ready" /\ call'[h] \in FlushCalls \cup {<<>>}
            BY <1>1, <1>6, <3>1
        <3>6. nth' = nth
            BY <1>1
        <3> QED
            BY <3>3, <3>4, <3>5, <3>6, Zenon DEF CallOK
    <2>2. \A g \in Harts \ {h} : CallOK(g)'
        BY <1>1, <1>3 DEF InvCalls, CallOK
    <2> QED
        BY <1>1, <1>4, <2>1, <2>2 DEF InvCalls
<1>8. InvLock'
    BY <1>1, <1>2, <1>3 DEF InvLock
<1>9. \A g \in Harts : g # h => Stays(g)
    BY <1>1, <1>3 DEF Stays
<1>10. ~Written(h) /\ ~Written(h)' /\ pc'[h] # "poll"
    BY <1>1, <1>2 DEF Written
<1>11. InvQueue(w, u, e, n)' /\ InvRings(w, u, e, n)' /\ InvAnswers(w, u)' /\ InvChains(w, e, s)'
    <2>1. Acked' = Acked
        BY <1>1 DEF Acked, Handling, irq_vars, Incr
    <2> QED
        BY <1>1, <1>9, <1>10, <2>1, WritersKept DEF driver_vars, device_vars
<1>12. InvHandler' /\ InvLive' /\ InvOwned'
    BY <1>1, <1>2, <1>3, BlocksKept DEF irq_vars
<1>13. InvShown'
    <2>1. \A g \in Harts \ {h} : ShownSoFar(g)'
        BY <1>1, <1>3 DEF InvShown, ShownSoFar, Answered, Request, device_vars
    <2>2. ShownSoFar(h)'
        <3>1. CASE call'[h] = gpu_flush /\ pc'[h] = "lock"
            <4>1. gpu_flush \notin InitCalls /\ gpu_flush # <<"RESOURCE_FLUSH">>
                BY CallShapes DEF FlushCalls
            <4> QED
                BY <1>1, <1>2, <1>10, <3>1, <4>1 DEF ShownSoFar, Answered
        <3>2. CASE call'[h] = call[h] /\ pc'[h] = pc[h]
            BY <1>1, <1>2, <1>6, <3>2, CallShapes
               DEF InvShown, ShownSoFar, Answered, device_vars, Calls, FlushCalls
        <3> QED
            BY <1>2, <3>1, <3>2
    <2> QED
        BY <2>1, <2>2 DEF InvShown
<1> QED
    BY <1>5, <1>7, <1>8, <1>11, <1>12, <1>13

LEMMA LockStep ==
    ASSUME NEW w \in Seq(Harts), NEW u, NEW e, NEW n, NEW s, Inv(w, u, e, n, s), ~wild,
           NEW h \in Harts, Lock(h)
    PROVE  Inv(w, u, e, n, s)'
<1> USE DEF Inv
<1> DEFINE r == Request(h)
           new == {Block(r, p) : p \in Allocated(Head(call[h]))}
<1>1. /\ pc[h] = "lock" /\ ~lock /\ lock' = TRUE /\ live' = live \cup new
      /\ UNCHANGED <<driver_vars, device_vars, isr, irq_vars, displays, call, nth, first_idx,
                     painted, due, complete, response, wild>>
    BY DEF Lock
<1>2. /\ pc' \in [Harts -> {"idle", "lock", "enqueue", "publish", "poll"}]
      /\ pc'[h] = "enqueue" /\ \A g \in Harts \ {h} : pc'[g] = pc[g]
    BY DEF Lock, TypeOK
<1>3. /\ r \in Requests /\ r.by = h /\ Head(call[h]) \in Kinds
      /\ \A b \in new : b.of = r /\ b.part \in {"request", "mem"}
      /\ new \subseteq [of : Requests, part : {"request", "mem", "response", "info"}]
    <2>1. r \in Requests /\ r.by = h /\ Head(call[h]) \in Kinds
        BY <1>1, HartFacts, RequestFields
    <2>2. Allocated(Head(call[h])) \subseteq {"request", "mem"}
        BY <2>1, ChainShapes
    <2> HIDE DEF r
    <2> QED
        BY <2>1, <2>2 DEF Block
<1>4. TypeOK'
    <2>1. live' \subseteq [of : Requests, part : {"request", "mem", "response", "info"}]
        BY <1>1, <1>3 DEF TypeOK
    <2> HIDE DEF new
    <2> QED
        BY <1>1, <1>2, <2>1 DEF TypeOK, driver_vars, device_vars, irq_vars
<1>5. InvCalls'
    BY <1>1, <1>2 DEF InvCalls, CallOK
<1>6. InvLock'
    BY <1>1, <1>2 DEF InvLock
<1>7. \A g \in Harts : g # h => Stays(g)
    BY <1>1, <1>2 DEF Stays
<1>8. ~Written(h) /\ ~Written(h)' /\ pc'[h] # "poll"
    BY <1>1, <1>2 DEF Written
<1>9. InvQueue(w, u, e, n)' /\ InvRings(w, u, e, n)' /\ InvAnswers(w, u)' /\ InvChains(w, e, s)'
    <2>1. Acked' = Acked
        BY <1>1 DEF Acked, Handling, irq_vars, Incr
    <2> QED
        BY <1>1, <1>7, <1>8, <2>1, WritersKept DEF driver_vars, device_vars
<1>10. /\ \A g : Request(g)' = Request(g) /\ Parts(g)' = Parts(g)
       /\ \A g \in Harts : Written(g)' <=> Written(g)
    BY <1>1, <1>7, <1>8 DEF Request, Parts, Size, Stays, Written
<1>11. InvHandler'
    <2> SUFFICES ASSUME Handling' PROVE InvHandler'
        BY DEF InvHandler
    <2>1. Handling /\ req_info \in Requests /\ req_info.by \in Harts
        BY <1>1, RequestFields DEF InvHandler, Handling, irq_vars
    <2> QED
        BY <1>1, <1>2, <1>10, <2>1 DEF InvHandler, irq_vars
<1>12. InvLive'
    <2>1. \A p \in Allocated(Head(call[h])) : Block(Request(h), p) \in live'
        BY <1>1
    <2>2. live \subseteq live'
        BY <1>1
    <2> HIDE DEF new, r
    <2>3. \A g \in Harts :
             /\ pc'[g] = "enqueue" => \A p \in Allocated(Head(call[g])) : Block(Request(g), p) \in live'
             /\ Written(g)' => \A p \in Parts(g) : Block(Request(g), p) \in live'
             /\ pc'[g] = "poll" => Block(Request(g), "info") \in live'
        BY <1>2, <1>10, <2>1, <2>2 DEF InvLive
    <2>4. /\ irq' = "free_request" => Block(req_info, "request") \in live'
          /\ irq' \in {"free_request", "free_response"} => Block(req_info, "response") \in live'
        BY <1>1, <2>2 DEF InvLive, irq_vars
    <2> QED
        BY <1>1, <1>10, <2>3, <2>4 DEF InvLive, irq_vars, Block
<1>13. InvOwned'
    <2> SUFFICES ASSUME NEW b \in live' PROVE Owned(b)'
        BY DEF InvOwned
    <2>1. CASE b \in live
        <3>1. b.of.by \in Harts /\ Owned(b)
            BY <2>1, RequestFields DEF TypeOK, InvOwned
        <3> QED
            BY <1>1, <1>2, <1>8, <1>10, <3>1 DEF Owned, irq_vars
    <2>2. CASE b \in new
        BY <1>2, <1>3, <1>10, <2>2 DEF Owned
    <2> QED
        BY <1>1, <2>1, <2>2
<1>14. InvShown'
    BY <1>1, <1>2, <1>10 DEF InvShown, ShownSoFar, Answered, device_vars
<1> HIDE DEF Inv
<1> QED
    BY <1>4, <1>5, <1>6, <1>9, <1>11, <1>12, <1>13, <1>14 DEF Inv

LEMMA PublishStep ==
    ASSUME NEW w \in Seq(Harts), NEW u, NEW e, NEW n, NEW s, Inv(w, u, e, n, s), ~wild,
           NEW h \in Harts, Publish(h)
    PROVE  Len(w) = e + 1 /\ w[e + 1] = h /\ Inv(w, u, e + 1, n, s)'
<1> USE DEF Inv
<1>1. /\ pc[h] = "publish" /\ lock' = FALSE /\ avail_idx' = Incr(avail_idx)
      /\ at_idx' = (first_idx[h] + Size(h)) % QUEUE_SIZE
      /\ UNCHANGED <<queue_desc, avail_ring, request_info, device_vars, isr, irq_vars, displays,
                     call, nth, first_idx, painted, due, live, complete, response, wild>>
    BY DEF Publish, Size
<1>2. /\ pc' \in [Harts -> {"idle", "lock", "enqueue", "publish", "poll"}]
      /\ pc'[h] = "poll" /\ \A g \in Harts \ {h} : pc'[g] = pc[g]
    BY DEF Publish, TypeOK
<1>3. Len(w) = e + 1 /\ w[e + 1] = h /\ e \in Nat
    <2>1. PICK i \in 1 .. Len(w) : w[i] = h
        BY <1>1 DEF InvQueue, Written
    <2>2. ~(i <= e)
        BY <1>1, <2>1 DEF InvQueue
    <2> QED
        BY <2>1, <2>2, LenProperties DEF InvQueue
<1>4. /\ n \in Nat /\ u \in Nat /\ s \in Nat /\ IDX_MOD \in Nat \ {0} /\ QUEUE_SIZE \in Nat \ {0}
    BY GpuAssumption DEF InvQueue, InvChains
<1>5. \A g \in Harts : call'[g] = call[g] /\ complete'[g] = complete[g] /\ nth'[g] = nth[g]
    BY <1>1
<1>6. \A g : Request(g)' = Request(g) /\ Size(g)' = Size(g)
    BY <1>1 DEF Request, Size
<1>7. TypeOK'
    <2>1. avail_idx' \in 0 .. IDX_MOD - 1
        <3>1. PICK x \in Int : x = avail_idx + 1
            BY DEF TypeOK
        <3>2. x % IDX_MOD \in 0 .. IDX_MOD - 1
            BY <1>4
        <3> QED
            BY <1>1, <3>1, <3>2 DEF Incr
    <2>2. at_idx' \in Slots
        <3>1. Size(h) \in Nat /\ first_idx[h] \in Nat
            <4>1. Size(h) = 3 \/ Size(h) = 2
                BY <1>1, HartFacts
            <4>2. first_idx[h] \in 0 .. QUEUE_SIZE - 1
                BY DEF TypeOK, Slots
            <4> QED
                BY <1>4, <4>1, <4>2
        <3>2. PICK x \in Int : x = first_idx[h] + Size(h)
            BY <3>1
        <3>3. x % QUEUE_SIZE \in 0 .. QUEUE_SIZE - 1
            BY <1>4
        <3> QED
            BY <1>1, <3>2, <3>3 DEF Slots
    <2> QED
        BY <1>1, <1>2, <2>1, <2>2 DEF TypeOK, device_vars, irq_vars
<1>8. InvCalls'
    BY <1>1, <1>2 DEF InvCalls, CallOK
<1>9. InvLock'
    BY <1>1, <1>2 DEF InvLock
<1>10. \A i \in 1 .. Len(w) : w[i] \in Harts
    BY ElementOfSeq
<1>11. InvQueue(w, u, e + 1, n)'
    <2>1. \A i \in 1 .. Len(w) : pc'[w[i]] = "poll" /\ ~complete'[w[i]] /\ i <= e + 1
        <3> SUFFICES ASSUME NEW i \in 1 .. Len(w)
                     PROVE  pc'[w[i]] = "poll" /\ ~complete'[w[i]] /\ i <= e + 1
            OBVIOUS
        <3>1. CASE i <= e
            <4>1. pc[w[i]] = "poll"
                BY <3>1 DEF InvQueue
            <4> QED
                BY <1>1, <1>2, <1>3, <1>10, <3>1, <4>1 DEF InvQueue
        <3>2. CASE ~(i <= e)
            <4>1. i = e + 1
                BY <1>3, <3>2
            <4> QED
                BY <1>1, <1>2, <1>3, <4>1 DEF InvQueue
        <3> QED
            BY <3>1, <3>2
    <2>2. \A g \in Harts : Written(g)' => Written(g)
        BY <1>1, <1>2 DEF Written
    <2> QED
        BY <1>3, <2>1, <2>2 DEF InvQueue
<1>12. InvRings(w, u, e + 1, n)'
    <2>1. Acked' = Acked
        BY <1>1 DEF Acked, Handling, irq_vars, Incr
    <2>2. avail_idx' = (n + (e + 1)) % IDX_MOD
        <3>1. PICK x \in Int : x = n + e
            BY <1>3, <1>4
        <3>2. ((x % IDX_MOD) + 1) % IDX_MOD = (x + 1) % IDX_MOD
            BY <1>4, ModStep
        <3>3. x + 1 = n + (e + 1)
            BY <1>3, <1>4, <3>1
        <3> QED
            BY <1>1, <3>1, <3>2, <3>3 DEF InvRings, Incr
    <2> QED
        BY <1>1, <2>1, <2>2 DEF InvRings, device_vars
<1>13. InvAnswers(w, u)'
    BY <1>1, <1>2, <1>3, <1>6, <1>11 DEF InvAnswers, InvQueue
<1>14. InvChains(w, e + 1, s)'
    <2>1. at_idx' = (s + 2 * ((e + 1) - 1) + Size(w[e + 1])') % QUEUE_SIZE
        <3>1. first_idx[h] = (s + 2 * ((e + 1) - 1)) % QUEUE_SIZE
            BY <1>3 DEF InvChains
        <3>2. PICK x \in Int, k \in Int : x = s + 2 * ((e + 1) - 1) /\ k = Size(h)
            BY <1>1, <1>3, <1>4, HartFacts
        <3>3. QUEUE_SIZE % QUEUE_SIZE = 0
            BY <1>4
        <3>4. ((x % QUEUE_SIZE) + k) % QUEUE_SIZE = (x + k) % QUEUE_SIZE
            BY <1>4, <3>3, ModOfIndex
        <3> QED
            BY <1>1, <1>3, <1>6, <3>1, <3>2, <3>4
    <2>2. \A i \in 1 .. Len(w) : \A j, x, y : Holds(w[i], j, x, y)' <=> Holds(w[i], j, x, y)
        BY <1>1, <1>6 DEF Holds
    <2>3. \A i \in 1 .. Len(w) :
             /\ first_idx'[w[i]] = (s + 2 * (i - 1)) % QUEUE_SIZE
             /\ request_info'[first_idx'[w[i]]] = Request(w[i])'
             /\ \A j \in 1 .. Size(w[i])' :
                   Holds(w[i], j, (s + 2 * (i - 1) + j - 1) % QUEUE_SIZE,
                                  (s + 2 * (i - 1) + j) % QUEUE_SIZE)'
        BY <1>1, <1>6, <2>2 DEF InvChains
    <2>4. e + 1 # 0
        BY <1>3
    <2> QED
        BY <1>4, <2>1, <2>3, <2>4 DEF InvChains
<1>15. InvHandler' /\ InvLive' /\ InvOwned'
    <2>1. ~complete[h]
        BY <1>3 DEF InvQueue
    <2> QED
        BY <1>1, <1>2, <2>1, BlocksKept DEF irq_vars
<1>16. InvShown'
    <2>1. \A g \in Harts \ {h} : ShownSoFar(g)'
        BY <1>1, <1>2, <1>6 DEF InvShown, ShownSoFar, Answered, device_vars
    <2>2. ~Answered(h)'
        <3>1. response[h] # Request(h)
            BY <1>3 DEF InvAnswers, InvQueue
        <3> QED
            BY <1>1, <1>6, <3>1 DEF Answered
    <2>3. ShownSoFar(h)'
        BY <1>1, <1>2, <2>2 DEF InvShown, ShownSoFar, device_vars
    <2> QED
        BY <2>1, <2>3 DEF InvShown
<1> HIDE DEF Inv
<1> QED
    BY <1>3, <1>7, <1>8, <1>9, <1>11, <1>12, <1>13, <1>14, <1>15, <1>16 DEF Inv

LEMMA PollReturnsStep ==
    ASSUME NEW w \in Seq(Harts), NEW u, NEW e, NEW n, NEW s, Inv(w, u, e, n, s), ~wild,
           NEW h \in Harts, PollReturns(h)
    PROVE  Inv(w, u, e, n, s)'
<1> USE DEF Inv
<1> DEFINE r == Request(h)
           c == call[h]
<1>1. /\ pc[h] = "poll" /\ complete[h] /\ live' = live \ {Block(r, "info")} /\ Runs(h)
      /\ displays' = IF Head(c) = "SET_SCANOUT" THEN "ready" ELSE displays
      /\ UNCHANGED <<lock, driver_vars, device_vars, isr, irq_vars, first_idx, painted, due,
                     complete, response, wild>>
    BY DEF PollReturns
<1>2. /\ call'[h] = Tail(c) /\ nth'[h] = nth[h] + 1
      /\ pc'[h] = IF Tail(c) = <<>> THEN "idle" ELSE "lock"
      /\ \A g \in Harts \ {h} : call'[g] = call[g] /\ nth'[g] = nth[g] /\ pc'[g] = pc[g]
    BY DEF PollReturns, TypeOK, InvCalls
<1>3. c \in Calls /\ r \in Requests /\ r.by = h /\ r.nth = nth[h] /\ nth[h] \in Nat \ {0}
    BY <1>1, HartFacts, RequestFields DEF InvCalls
<1>4. /\ Len(c) \in 1 .. 4 /\ Len(Tail(c)) = Len(c) - 1 /\ Tail(c) \in Calls \cup {<<>>}
    BY <1>3, CallShapes, Zenon
<1> HIDE DEF r, c
<1>5. /\ pc' \in [Harts -> {"idle", "lock", "enqueue", "publish", "poll"}]
      /\ call' \in [Harts -> Calls \cup {<<>>}] /\ nth' \in [Harts -> Nat \ {0}]
    <2>1. call' = [call EXCEPT ![h] = Tail(c)] /\ nth' = [nth EXCEPT ![h] = nth[h] + 1]
        BY DEF PollReturns, c
    <2>2. pc' = [pc EXCEPT ![h] = IF call'[h] = <<>> THEN "idle" ELSE "lock"]
        BY DEF PollReturns
    <2>3. nth[h] + 1 \in Nat \ {0}
        BY <1>3
    <2> QED
        BY <1>4, <2>1, <2>2, <2>3 DEF TypeOK, InvCalls
<1>6. TypeOK'
    BY <1>1, <1>5 DEF TypeOK, driver_vars, device_vars, irq_vars
<1>7. /\ displays # "ready" => h = 0 /\ c \in InitCalls
      /\ displays = "ready" => c \in FlushCalls
    <2>1. c # <<>>
        BY <1>3, CallShapes
    <2> QED
        BY <2>1, Zenon DEF InvCalls, CallOK, c
<1>8. InvCalls'
    <2>1. CallOK(h)'
        <3>1. pc'[h] = "idle" <=> call'[h] = <<>>
            BY <1>2
        <3>2. nth'[h] + Len(call'[h]) <= 5 + 2 * painted'[h]
            <4>1. nth[h] + Len(c) <= 5 + 2 * painted[h]
                BY DEF InvCalls, CallOK, c
            <4>2. \A a, b, d, f \in Nat : f = b - 1 /\ a + b <= 5 + 2 * d => a + 1 + f <= 5 + 2 * d
                OBVIOUS
            <4>3. /\ nth[h] \in Nat /\ Len(c) \in Nat /\ Len(Tail(c)) \in Nat /\ painted[h] \in Nat
                BY <1>3, <1>4, HartFacts
            <4>4. nth[h] + 1 + Len(Tail(c)) <= 5 + 2 * painted[h]
                BY <1>4, <4>1, <4>2, <4>3, Zenon
            <4> QED
                BY <1>1, <1>2, <4>4, Zenon
        <3>3. /\ displays' = "ready" => Tail(c) \in FlushCalls \cup {<<>>}
              /\ displays' # "ready" => h = 0 /\ Tail(c) \in InitCalls
            <4>1. CASE displays = "ready"
                <5>1. displays' = "ready"
                    BY <1>1, <4>1
                <5> QED
                    BY <1>7, <4>1, <5>1, CallShapes, Zenon
            <4>2. CASE displays # "ready" /\ Head(c) = "SET_SCANOUT"
                <5>1. displays' = "ready"
                    BY <1>1, <4>2
                <5> QED
                    BY <1>7, <4>2, <5>1, CallShapes, Zenon
            <4>3. CASE displays # "ready" /\ Head(c) # "SET_SCANOUT"
                <5>1. displays' = displays
                    BY <1>1, <4>3
                <5> QED
                    BY <1>7, <4>3, <5>1, CallShapes, Zenon
            <4> QED
                BY <4>1, <4>2, <4>3
        <3> QED
            BY <1>2, <3>1, <3>2, <3>3, Zenon DEF CallOK
    <2>2. ASSUME NEW g \in Harts \ {h} PROVE CallOK(g)'
        <3>1. /\ pc'[g] = "idle" <=> call'[g] = <<>>
              /\ nth'[g] + Len(call'[g]) <= 5 + 2 * painted'[g]
            BY <1>1, <1>2 DEF InvCalls, CallOK
        <3>2. /\ displays' = "ready" => call'[g] \in FlushCalls \cup {<<>>}
              /\ displays' # "ready" => IF g = 0 THEN call'[g] \in InitCalls ELSE call'[g] = <<>>
            <4>1. CASE displays = "ready"
                <5>1. displays' = "ready" /\ call'[g] = call[g]
                    BY <1>1, <1>2, <4>1
                <5> QED
                    BY <4>1, <5>1, Zenon DEF InvCalls, CallOK
            <4>2. CASE displays # "ready"
                <5>1. g # 0 /\ call'[g] = call[g]
                    BY <1>2, <1>7, <4>2
                <5> QED
                    BY <4>2, <5>1, Zenon DEF InvCalls, CallOK
            <4> QED
                BY <4>1, <4>2
        <3> QED
            BY <3>1, <3>2, Zenon DEF CallOK
    <2> QED
        BY <1>5, <2>1, <2>2, Zenon DEF InvCalls
<1>9. InvLock'
    BY <1>1, <1>2 DEF InvLock
<1>10. \A g \in Harts : g # h => Stays(g)
    BY <1>1, <1>2 DEF Stays
<1>11. ~Written(h) /\ ~Written(h)' /\ pc'[h] \in {"idle", "lock"}
    BY <1>1, <1>2 DEF Written
<1>12. InvQueue(w, u, e, n)' /\ InvRings(w, u, e, n)' /\ InvAnswers(w, u)' /\ InvChains(w, e, s)'
    <2>1. Acked' = Acked
        BY <1>1 DEF Acked, Handling, irq_vars, Incr
    <2> QED
        BY <1>1, <1>10, <1>11, <2>1, WritersKept DEF driver_vars, device_vars
<1>13. /\ \A g \in Harts \ {h} : /\ Request(g)' = Request(g) /\ Parts(g)' = Parts(g)
                                 /\ Written(g)' <=> Written(g)
    BY <1>2, <1>10 DEF Request, Parts, Size, Stays, Written
<1>14. InvHandler'
    <2> SUFFICES ASSUME Handling' PROVE InvHandler'
        BY DEF InvHandler
    <2>1. Handling /\ req_info \in Requests /\ req_info.by \in Harts /\ req_info' = req_info
        BY <1>1, RequestFields DEF InvHandler, Handling, irq_vars
    <2>2. CASE req_info.by = h
        <3>1. h # 0
            BY <1>1, <2>1 DEF Runs, Handling
        <3>2. req_info.nth \in Nat /\ nth[h] >= req_info.nth
            <4>1. CASE req_info = Request(h)
                BY <1>3, <2>1, <4>1, RequestFields DEF r
            <4>2. CASE nth[h] > req_info.nth
                BY <1>3, <2>1, <4>2, RequestFields
            <4> QED
                BY <2>1, <2>2, <4>1, <4>2 DEF InvHandler
        <3>3. nth'[h] > req_info.nth
            BY <1>2, <1>3, <3>2
        <3> QED
            BY <2>1, <2>2, <3>1, <3>3 DEF InvHandler
    <2>3. CASE req_info.by # h
        BY <1>1, <1>2, <1>13, <2>1, <2>3 DEF InvHandler
    <2> QED
        BY <2>2, <2>3
<1>15. InvLive'
    <2>1. \A g \in Harts : \A p : g # h => Block(Request(g), p) # Block(r, "info")
        BY <1>3, RequestFields
    <2>2. \A q, p : p # "info" => Block(q, p) # Block(r, "info")
        BY RequestFields
    <2>3. ASSUME NEW g \in Harts
          PROVE  /\ pc'[g] = "enqueue" =>
                       \A p \in Allocated(Head(call'[g])) : Block(Request(g)', p) \in live'
                 /\ Written(g)' => \A p \in Parts(g)' : Block(Request(g)', p) \in live'
                 /\ pc'[g] = "poll" => Block(Request(g)', "info") \in live'
        <3>1. CASE g = h
            BY <1>11, <3>1
        <3>2. CASE g # h
            BY <1>1, <1>2, <1>13, <2>1, <3>2 DEF InvLive
        <3> QED
            BY <3>1, <3>2
    <2>4. /\ irq' = "free_request" => Block(req_info, "request") \in live'
          /\ irq' \in {"free_request", "free_response"} => Block(req_info, "response") \in live'
        BY <1>1, <2>2 DEF InvLive, irq_vars
    <2>5. req_info' = req_info /\ ~wild'
        BY <1>1 DEF irq_vars
    <2> QED
        BY <2>3, <2>4, <2>5 DEF InvLive, Block
<1>16. InvOwned'
    <2> SUFFICES ASSUME NEW b \in live' PROVE Owned(b)'
        BY DEF InvOwned
    <2>1. /\ b \in live /\ b # Block(r, "info") /\ b.of.by \in Harts /\ Owned(b)
          /\ b = Block(b.of, b.part)
        BY <1>1, RequestFields DEF TypeOK, InvOwned, Block
    <2>2. irq' = irq /\ req_info' = req_info
        BY <1>1 DEF irq_vars
    <2>3. CASE b.of.by = h
        <3>1. ~(b.of = r /\ b.part = "info")
            BY <2>1, Zenon
        <3>2. ~(pc[h] = "enqueue" \/ Written(h))
            BY <1>1, <1>11
        <3> QED
            BY <2>1, <2>2, <2>3, <3>1, <3>2 DEF Owned, r
    <2>4. CASE b.of.by # h
        BY <1>2, <1>13, <2>1, <2>2, <2>4 DEF Owned
    <2> QED
        BY <2>3, <2>4
<1>17. InvShown'
    <2>1. \A g \in Harts \ {h} : ShownSoFar(g)'
        BY <1>1, <1>2, <1>13 DEF InvShown, ShownSoFar, Answered, device_vars
    <2>2. ~Answered(h)' /\ Answered(h)
        BY <1>1, <1>11 DEF Answered, InvAnswers
    <2>3. /\ painted'[h] = painted[h] /\ due'[h] = due[h] /\ host'[h] = host[h]
          /\ screen'[h] = screen[h]
        BY <1>1 DEF device_vars
    <2>7. ShownSoFar(h)'
        <3>4. CASE c \in InitCalls
            <4>1. /\ call'[h] \in InitCalls \cup {<<>>} /\ call'[h] # gpu_flush
                  /\ call'[h] # <<"RESOURCE_FLUSH">>
                <5>1. Tail(c) \in InitCalls \cup {<<>>}
                    BY <3>4, CallShapes, Zenon
                <5>2. gpu_flush # <<>> /\ <<"RESOURCE_FLUSH">> # <<>>
                    BY CallShapes, Zenon DEF Calls, FlushCalls
                <5> QED
                    BY <1>2, <5>1, <5>2, CallShapes, Zenon DEF FlushCalls
            <4>2. screen[h] = due[h]
                BY <3>4 DEF InvShown, ShownSoFar, c
            <4> QED
                BY <2>3, <4>1, <4>2, Zenon DEF ShownSoFar
        <3>5. CASE c = gpu_flush
            <4>1. call'[h] = <<"RESOURCE_FLUSH">> /\ call'[h] # gpu_flush /\ call'[h] \notin InitCalls
                BY <1>2, <3>5, CallShapes, Zenon DEF FlushCalls
            <4>2. pc'[h] = "lock" /\ pc'[h] # "idle"
                <5>1. Tail(c) # <<>>
                    BY <3>5, CallShapes, Zenon DEF Calls, FlushCalls
                <5> QED
                    BY <1>2, <5>1
            <4>3. host[h] = due[h]
                BY <2>2, <3>5 DEF InvShown, ShownSoFar, c
            <4> QED
                BY <2>2, <2>3, <4>1, <4>2, <4>3, Zenon DEF ShownSoFar
        <3>6. CASE c = <<"RESOURCE_FLUSH">>
            <4>1. call'[h] = <<>> /\ call'[h] # gpu_flush /\ call'[h] # <<"RESOURCE_FLUSH">>
                BY <1>2, <3>6, CallShapes, Zenon DEF Calls, FlushCalls
            <4>2. screen[h] = due[h]
                BY <2>2, <3>6 DEF InvShown, ShownSoFar, c
            <4> QED
                BY <2>3, <4>1, <4>2, Zenon DEF ShownSoFar
        <3> QED
            BY <1>3, <3>4, <3>5, <3>6, Zenon DEF Calls, FlushCalls
    <2> QED
        BY <2>1, <2>7 DEF InvShown
<1> HIDE DEF Inv
<1> QED
    BY <1>6, <1>8, <1>9, <1>12, <1>14, <1>15, <1>16, <1>17 DEF Inv

\* The slots from the t-th on are d slots further round the queue.
LEMMA SlotDistance ==
    \A t \in Int : \A d \in 0 .. QUEUE_SIZE - 1 :
        (((t + d) % QUEUE_SIZE) - (t % QUEUE_SIZE)) % QUEUE_SIZE = d
<1> SUFFICES ASSUME NEW t \in Int, NEW d \in 0 .. QUEUE_SIZE - 1
             PROVE  (((t + d) % QUEUE_SIZE) - (t % QUEUE_SIZE)) % QUEUE_SIZE = d
    OBVIOUS
<1>1. QUEUE_SIZE \in Nat \ {0}
    BY GpuAssumption
<1>2. PICK y \in Int : y = t + d
    BY <1>1
<1>3. y - t \in 0 .. QUEUE_SIZE - 1 /\ y - t = d
    BY <1>1, <1>2
<1>4. ((y % QUEUE_SIZE) - (t % QUEUE_SIZE)) % QUEUE_SIZE = y - t
    BY <1>1, <1>3, ModDifference
<1> QED
    BY <1>2, <1>3, <1>4

LEMMA SlotsApart ==
    \A x, y \in Int : y - x \in 1 .. QUEUE_SIZE - 1 => x % QUEUE_SIZE # y % QUEUE_SIZE
<1>1. QUEUE_SIZE \in Nat \ {0}
    BY GpuAssumption
<1> QED
    BY <1>1, ModApart

LEMMA SlotRound ==
    \A x \in Int : (x + QUEUE_SIZE) % QUEUE_SIZE = x % QUEUE_SIZE
<1> SUFFICES ASSUME NEW x \in Int PROVE (x + QUEUE_SIZE) % QUEUE_SIZE = x % QUEUE_SIZE
    OBVIOUS
<1>1. QUEUE_SIZE \in Nat \ {0} /\ 1 \in Int
    BY GpuAssumption
<1>2. (1 * QUEUE_SIZE + x) % QUEUE_SIZE = x % QUEUE_SIZE
    BY <1>1, ModCongruent
<1>3. 1 * QUEUE_SIZE + x = x + QUEUE_SIZE
    BY <1>1
<1> QED
    BY <1>2, <1>3

LEMMA SlotAfter ==
    \A x \in Int : ((x % QUEUE_SIZE) + 1) % QUEUE_SIZE = (x + 1) % QUEUE_SIZE
                   /\ x % QUEUE_SIZE \in Slots
<1>1. QUEUE_SIZE \in Nat \ {0}
    BY GpuAssumption
<1>2. \A x \in Int : ((x % QUEUE_SIZE) + 1) % QUEUE_SIZE = (x + 1) % QUEUE_SIZE
    BY <1>1, ModStep
<1>3. \A x \in Int : x % QUEUE_SIZE \in Slots
    BY <1>1 DEF Slots
<1> QED
    BY <1>2, <1>3

LEMMA SlotOfIndex ==
    \A x \in Int : (x % IDX_MOD) % QUEUE_SIZE = x % QUEUE_SIZE
<1>1. QUEUE_SIZE \in Nat \ {0} /\ IDX_MOD \in Nat \ {0} /\ IDX_MOD % QUEUE_SIZE = 0
    BY GpuAssumption
<1> QED
    BY <1>1, ModTwice

\* Where a chain is written, with all of the others behind it.
LEMMA RoomForChain ==
    ASSUME NEW w \in Seq(Harts), NEW u, NEW e, NEW n, NEW s, Inv(w, u, e, n, s),
           NEW h \in Harts, pc[h] = "enqueue"
    PROVE  /\ e = Len(w) /\ \A i \in 1 .. Len(w) : w[i] # h
           /\ Len(w) \in Nat /\ s \in Nat /\ Size(h) \in 2 .. 3
           /\ 2 * Len(w) + Size(h) <= QUEUE_SIZE
           /\ at_idx = (s + 2 * Len(w)) % QUEUE_SIZE
           /\ \A i \in 1 .. Len(w) : Size(w[i]) = 2
<1> USE DEF Inv
<1>1. /\ Len(w) \in Nat /\ 2 * Len(w) <= QUEUE_SIZE
      /\ \A i \in 1 .. Len(w) : w[i] \in Harts /\ pc[w[i]] \in {"publish", "poll"}
    BY WriterFacts
<1>2. \A i \in 1 .. Len(w) : w[i] # h
    BY <1>1
<1>3. e = Len(w) /\ s \in Nat
    <2>1. ASSUME e # Len(w) PROVE FALSE
        <3>1. Len(w) \in 1 .. Len(w) /\ ~(Len(w) <= e)
            BY <1>1, <2>1 DEF InvQueue
        <3>2. pc[w[Len(w)]] = "publish"
            BY <3>1 DEF InvQueue
        <3> QED
            BY <1>1, <1>2, <3>1, <3>2 DEF InvLock
    <2> QED
        BY <2>1 DEF InvChains
<1>4. Size(h) \in 2 .. 3
    BY HartFacts
<1>5. ASSUME NEW i \in 1 .. Len(w) PROVE Size(w[i]) = 2 /\ Size(h) = 2
    BY <1>1, <1>2, NotAlone
<1>6. 2 * Len(w) + Size(h) <= QUEUE_SIZE
    <2>1. CASE Len(w) = 0
        BY <1>4, <2>1, GpuAssumption
    <2>2. CASE Len(w) # 0
        <3>1. Size(h) = 2
            BY <1>1, <1>5, <2>2
        <3>2. 2 * (Len(w) + 1) <= QUEUE_SIZE
            BY <1>2, OneMoreHart DEF InvQueue
        <3> QED
            BY <1>1, <3>1, <3>2
    <2> QED
        BY <2>1, <2>2
<1>7. at_idx = (s + 2 * Len(w)) % QUEUE_SIZE
    <2>1. CASE Len(w) = 0
        <3>1. s + 2 * Len(w) = s
            BY <1>3, <2>1
        <3> QED
            BY <1>3, <2>1, <3>1 DEF InvChains
    <2>2. CASE Len(w) # 0
        <3>1. Size(w[e]) = 2 /\ e # 0
            BY <1>1, <1>3, <1>5, <2>2
        <3>2. s + 2 * (e - 1) + 2 = s + 2 * Len(w)
            BY <1>1, <1>3
        <3>3. at_idx = (s + 2 * (e - 1) + Size(w[e])) % QUEUE_SIZE
            BY <3>1 DEF InvChains
        <3> QED
            BY <3>1, <3>2, <3>3
    <2> QED
        BY <2>1, <2>2
<1> QED
    BY <1>1, <1>2, <1>3, <1>4, <1>5, <1>6, <1>7

\* The new chain is in its slots, and those behind it are as they were.
LEMMA ChainWritten ==
    ASSUME TypeOK, InvCalls, NEW h \in Harts, Enqueue(h), NEW t \in Nat, at_idx = t % QUEUE_SIZE,
           NEW d \in Nat, d + Size(h) <= QUEUE_SIZE, d <= t
    PROVE  /\ \A j \in 1 .. Size(h) :
                 /\ queue_desc'[(t + j - 1) % QUEUE_SIZE].part = Chain(Head(call[h]))[j]
                 /\ queue_desc'[(t + j - 1) % QUEUE_SIZE].of = Request(h)
                 /\ j # Size(h) => queue_desc'[(t + j - 1) % QUEUE_SIZE].next = (t + j) % QUEUE_SIZE
           /\ \A k \in 1 .. d : queue_desc'[(t - k) % QUEUE_SIZE] = queue_desc[(t - k) % QUEUE_SIZE]
<1> DEFINE N == QUEUE_SIZE
           parts == Chain(Head(call[h]))
           Place(i) == ((i - at_idx) % QUEUE_SIZE) + 1
<1>1. /\ N \in Nat \ {0} /\ Size(h) \in Nat /\ Size(h) = Len(parts) /\ Size(h) <= N
    <2>1. Size(h) = 2 \/ Size(h) = 3
        BY HartFacts DEF Enqueue
    <2> QED
        BY <2>1, GpuAssumption DEF Size
<1>2. queue_desc' = [i \in Slots |->
              IF Place(i) > Len(parts) THEN queue_desc[i]
              ELSE [part |-> parts[Place(i)], of |-> Request(h),
                    next |-> IF Place(i) = Len(parts) THEN 0 ELSE (i + 1) % QUEUE_SIZE]]
    BY RequestFields DEF Enqueue
<1>3. ASSUME NEW j \in 1 .. Size(h)
      PROVE  /\ queue_desc'[(t + j - 1) % N].part = parts[j]
             /\ queue_desc'[(t + j - 1) % N].of = Request(h)
             /\ j # Size(h) => queue_desc'[(t + j - 1) % N].next = (t + j) % N
    <2>1. PICK k \in 0 .. N - 1 : k = j - 1
        BY <1>1
    <2>2. PICK x \in Int : x = t + k
        BY <2>1
    <2>3. ((x % N) - (t % N)) % N = k
        BY <2>1, <2>2, SlotDistance
    <2>4. Place(x % N) = j /\ x % N \in Slots
        <3>1. x % N \in Slots
            BY <2>2, SlotAfter
        <3>2. ((x % N) - at_idx) % N = k /\ k + 1 = j
            BY <2>1, <2>3
        <3> QED
            BY <3>1, <3>2
    <2>5. ((x % N) + 1) % N = (x + 1) % N
        BY <2>2, SlotAfter, Zenon
    <2>6. x = t + j - 1 /\ x + 1 = t + j
        BY <1>1, <2>1, <2>2
    <2> HIDE DEF Place, parts
    <2>7. ~(j > Len(parts))
        BY <1>1
    <2>8. queue_desc'[x % N] = [part |-> parts[j], of |-> Request(h),
                                next |-> IF j = Len(parts) THEN 0 ELSE ((x % N) + 1) % N]
        BY <1>2, <2>4, <2>7
    <2> QED
        BY <1>1, <2>5, <2>6, <2>8
<1>4. ASSUME NEW k \in 1 .. d
      PROVE  queue_desc'[(t - k) % N] = queue_desc[(t - k) % N]
    <2>1. PICK m \in 0 .. N - 1 : m = N - k
        BY <1>1
    <2>2. PICK x \in Int : x = t - k
        OBVIOUS
    <2>3. PICK y \in Int : y = t + m
        BY <2>1
    <2>4. y = x + N
        BY <1>1, <2>1, <2>2, <2>3
    <2>5. y % N = x % N
        BY <2>4, SlotRound
    <2>6. ((y % N) - (t % N)) % N = m
        BY <2>1, <2>3, SlotDistance
    <2>7. Place(x % N) = m + 1 /\ x % N \in Slots
        BY <2>5, <2>6, SlotAfter
    <2>8. m + 1 > Len(parts)
        BY <1>1, <2>1
    <2> HIDE DEF Place, parts
    <2> QED
        BY <1>2, <2>2, <2>7, <2>8
<1> QED
    BY <1>3, <1>4

LEMMA EnqueueStep ==
    ASSUME NEW w \in Seq(Harts), NEW u, NEW e, NEW n, NEW s, Inv(w, u, e, n, s), ~wild,
           NEW h \in Harts, Enqueue(h)
    PROVE  /\ e = Len(w) /\ \A i \in 1 .. Len(w) : w[i] # h
           /\ Append(w, h) \in Seq(Harts) /\ Inv(Append(w, h), u, e, n, s)'
<1> USE DEF Inv
<1> DEFINE r == Request(h)
           L == Len(w)
           t == s + 2 * L
           p == Append(w, h)
<1>1. /\ pc[h] = "enqueue"
      /\ avail_ring' = [avail_ring EXCEPT ![avail_idx % QUEUE_SIZE] = at_idx]
      /\ request_info' = [request_info EXCEPT ![at_idx] = r]
      /\ live' = live \cup {Block(r, "response"), Block(r, "info")}
      /\ UNCHANGED <<lock, at_idx, avail_idx, device_vars, isr, irq_vars, displays, call, nth,
                     painted, due, wild>>
    BY DEF Enqueue
<1>2. /\ first_idx'[h] = at_idx /\ ~complete'[h] /\ response'[h] = NoRequest /\ pc'[h] = "publish"
      /\ \A g \in Harts \ {h} : /\ first_idx'[g] = first_idx[g] /\ complete'[g] = complete[g]
                                /\ response'[g] = response[g] /\ pc'[g] = pc[g]
    BY DEF Enqueue, TypeOK
<1>3. /\ e = L /\ \A i \in 1 .. L : w[i] # h
      /\ L \in Nat /\ s \in Nat /\ Size(h) \in 2 .. 3
      /\ 2 * L + Size(h) <= QUEUE_SIZE
      /\ at_idx = t % QUEUE_SIZE
      /\ \A i \in 1 .. L : Size(w[i]) = 2
    BY <1>1, RoomForChain
<1>4. /\ p \in Seq(Harts) /\ Len(p) = L + 1 /\ p[L + 1] = h
      /\ \A i \in 1 .. L : p[i] = w[i] /\ w[i] \in Harts
    BY <1>3, AppendProperties, ElementOfSeq
<1> HIDE DEF p
<1>5. /\ r \in Requests /\ r.by = h /\ Head(call[h]) \in Kinds
    BY <1>1, HartFacts, RequestFields
<1>6. /\ \A g : Request(g)' = Request(g) /\ Size(g)' = Size(g) /\ Parts(g)' = Parts(g)
    BY <1>1 DEF Request, Size, Parts
<1>7. /\ \A j \in 1 .. Size(h) :
            /\ queue_desc'[(t + j - 1) % QUEUE_SIZE].part = Chain(Head(call[h]))[j]
            /\ queue_desc'[(t + j - 1) % QUEUE_SIZE].of = r
            /\ j # Size(h) => queue_desc'[(t + j - 1) % QUEUE_SIZE].next = (t + j) % QUEUE_SIZE
      /\ \A k \in 1 .. 2 * L : queue_desc'[(t - k) % QUEUE_SIZE] = queue_desc[(t - k) % QUEUE_SIZE]
    <2>1. 2 * L \in Nat /\ t \in Nat /\ 2 * L <= t
        BY <1>3
    <2> HIDE DEF t
    <2> QED
        BY <1>3, <2>1, ChainWritten
<1>8. TypeOK'
    <2>1. queue_desc' \in [Slots -> [part : {"none", "request", "mem", "response"},
                                     of : Requests \cup {NoRequest}, next : Slots]]
        <3>1. \A i \in Slots : (i + 1) % QUEUE_SIZE \in Slots /\ 0 \in Slots
            <4>1. \A i \in Slots : \E x \in Int : x = i + 1
                BY GpuAssumption DEF Slots
            <4>2. 0 \in Slots
                BY GpuAssumption DEF Slots
            <4> QED
                BY <4>1, <4>2, SlotAfter
        <3>2. DOMAIN Chain(Head(call[h])) = 1 .. Len(Chain(Head(call[h])))
            BY <1>5, ChainShapes
        <3>3. \A j \in 1 .. Len(Chain(Head(call[h]))) :
                 Chain(Head(call[h]))[j] \in {"request", "mem", "response"}
            BY <1>5, ChainShapes
        <3>4. \A i \in Slots : ((i - at_idx) % QUEUE_SIZE) + 1 \in Nat \ {0}
            <4>1. at_idx \in Slots /\ \A i \in Slots : i \in Int
                BY GpuAssumption DEF TypeOK, Slots
            <4>2. \A i \in Slots : \E x \in Int : x = i - at_idx
                BY <4>1
            <4>3. \A x \in Int : (x % QUEUE_SIZE) + 1 \in Nat \ {0}
                <5>1. \A x \in Slots : x + 1 \in Nat \ {0}
                    BY GpuAssumption DEF Slots
                <5> QED
                    BY <5>1, SlotAfter
            <4> QED
                BY <4>2, <4>3
        <3>5. Len(Chain(Head(call[h]))) \in Nat
            BY <1>3 DEF Size
        <3>6. queue_desc \in [Slots -> [part : {"none", "request", "mem", "response"},
                                        of : Requests \cup {NoRequest}, next : Slots]]
            BY DEF TypeOK
        <3>7. \A i \in Slots : ~(((i - at_idx) % QUEUE_SIZE) + 1 > Len(Chain(Head(call[h]))))
                 => ((i - at_idx) % QUEUE_SIZE) + 1 \in 1 .. Len(Chain(Head(call[h])))
            BY <3>4, <3>5
        <3> QED
            BY <1>5, <3>1, <3>3, <3>6, <3>7, RequestFields DEF Enqueue
    <2>2. at_idx \in Slots /\ avail_ring \in [Slots -> Slots]
        BY DEF TypeOK
    <2>3. avail_ring' \in [Slots -> Slots]
        BY <1>1, <2>2
    <2>4. request_info' \in [Slots -> Requests \cup {NoRequest}]
        BY <1>1, <1>5 DEF TypeOK
    <2>5. live' \subseteq [of : Requests, part : {"request", "mem", "response", "info"}]
        BY <1>1, <1>5 DEF TypeOK, Block
    <2>6. /\ first_idx' \in [Harts -> Slots] /\ complete' \in [Harts -> BOOLEAN]
          /\ response' \in [Harts -> Requests \cup {NoRequest}]
          /\ pc' \in [Harts -> {"idle", "lock", "enqueue", "publish", "poll"}]
        BY <2>2 DEF Enqueue, TypeOK
    <2> HIDE DEF r
    <2> QED
        BY <1>1, <2>1, <2>3, <2>4, <2>5, <2>6 DEF TypeOK, device_vars, irq_vars
<1>9. InvCalls'
    BY <1>1, <1>2 DEF InvCalls, CallOK
<1>10. InvLock'
    BY <1>1, <1>2 DEF InvLock
<1>11. \A g \in Harts \ {h} : Written(g)' <=> Written(g)
    BY <1>2 DEF Written
<1>12. /\ u \in Nat /\ e \in Nat /\ n \in Nat /\ u <= e
       /\ \A i, j \in 1 .. L : w[i] = w[j] => i = j
       /\ \A i \in 1 .. L : pc[w[i]] = "poll" /\ ~complete[w[i]]
       /\ \A g \in Harts : Written(g) => \E i \in 1 .. L : w[i] = g
    <2>1. InvQueue(w, u, e, n)
        OBVIOUS
    <2>2. e = Len(w)
        BY <1>3
    <2>3. /\ u \in Nat /\ e \in Nat /\ n \in Nat /\ u <= e
          /\ \A i, j \in 1 .. Len(w) : w[i] = w[j] => i = j
          /\ \A g \in Harts : Written(g) => \E i \in 1 .. Len(w) : w[i] = g
        BY <2>1 DEF InvQueue
    <2>4. \A i \in 1 .. Len(w) : pc[w[i]] = "poll" /\ ~complete[w[i]]
        <3> TAKE i \in 1 .. Len(w)
        <3>1. i <= e
            BY <2>2
        <3> QED
            BY <2>1, <3>1 DEF InvQueue
    <2> QED
        BY <2>3, <2>4
<1>13. \A i \in 1 .. L + 1 : i \in 1 .. L \/ i = L + 1
    BY <1>3
<1>14. InvQueue(p, u, e, n)'
    <2>1. \A i, j \in 1 .. L + 1 : p[i] = p[j] => i = j
        BY <1>3, <1>4, <1>12, <1>13
    <2>2. \A i \in 1 .. L + 1 : /\ pc'[p[i]] = IF i <= e THEN "poll" ELSE "publish"
                                /\ ~complete'[p[i]]
        BY <1>2, <1>3, <1>4, <1>12, <1>13
    <2>3. ASSUME NEW g \in Harts, Written(g)' PROVE \E i \in 1 .. L + 1 : p[i] = g
        <3>1. CASE g = h
            BY <1>3, <1>4, <3>1
        <3>2. CASE g # h
            BY <1>3, <1>4, <1>11, <1>12, <2>3, <3>2
        <3> QED
            BY <3>1, <3>2
    <2> QED
        BY <1>3, <1>4, <1>12, <2>1, <2>2, <2>3 DEF InvQueue
<1>15. InvRings(p, u, e, n)'
    <2>1. Acked' = Acked
        BY <1>1 DEF Acked, Handling, irq_vars, Incr
    <2>2. /\ avail_idx % QUEUE_SIZE = (n + L) % QUEUE_SIZE
          /\ avail_idx % QUEUE_SIZE \in Slots
        <3>1. PICK x \in Int : x = n + L
            BY <1>3, <1>12
        <3>2. (x % IDX_MOD) % QUEUE_SIZE = x % QUEUE_SIZE /\ x % QUEUE_SIZE \in Slots
            BY SlotOfIndex, SlotAfter
        <3> QED
            BY <1>3, <3>1, <3>2 DEF InvRings
    <2>3. ASSUME NEW i \in 1 .. L
          PROVE  (n + i - 1) % QUEUE_SIZE # (n + L) % QUEUE_SIZE
        <3>1. PICK x \in Int, y \in Int : x = n + i - 1 /\ y = n + L
            BY <1>3, <1>12
        <3>2. y - x \in 1 .. QUEUE_SIZE - 1
            BY <1>3, <1>12, <3>1, GpuAssumption
        <3> QED
            BY <3>1, <3>2, SlotsApart
    <2>4. avail_ring \in [Slots -> Slots]
        BY DEF TypeOK
    <2>5. ASSUME NEW i \in 1 .. L + 1
          PROVE  avail_ring'[(n + i - 1) % QUEUE_SIZE] = first_idx'[p[i]]
        <3>1. CASE i \in 1 .. L
            <4>1. avail_ring[(n + i - 1) % QUEUE_SIZE] = first_idx[w[i]]
                BY <3>1 DEF InvRings
            <4>2. first_idx'[p[i]] = first_idx[w[i]]
                BY <1>2, <1>3, <1>4, <3>1
            <4>3. (n + i - 1) % QUEUE_SIZE \in Slots
                <5>1. PICK x \in Int : x = n + i - 1
                    BY <1>12
                <5> QED
                    BY <5>1, SlotAfter
            <4> QED
                BY <1>1, <2>2, <2>3, <2>4, <3>1, <4>1, <4>2, <4>3
        <3>2. CASE i = L + 1
            <4>1. n + i - 1 = n + L
                BY <1>3, <1>12, <3>2
            <4> QED
                BY <1>1, <1>2, <1>4, <2>2, <2>4, <3>2, <4>1
        <3> QED
            BY <1>13, <3>1, <3>2
    <2>6. ASSUME NEW i \in 1 .. u
          PROVE  used_ring'[(n + i - 1) % QUEUE_SIZE] = first_idx'[p[i]]
        <3>1. i \in 1 .. L
            BY <1>3, <1>12
        <3>2. used_ring[(n + i - 1) % QUEUE_SIZE] = first_idx[w[i]]
            BY DEF InvRings
        <3>3. first_idx'[p[i]] = first_idx[w[i]]
            BY <1>2, <1>3, <1>4, <3>1
        <3>4. used_ring' = used_ring
            BY <1>1 DEF device_vars
        <3> QED
            BY <3>2, <3>3, <3>4
    <2>7. used_idx' = used_idx /\ last_avail' = last_avail
        BY <1>1 DEF device_vars
    <2> QED
        BY <1>1, <1>4, <2>1, <2>5, <2>6, <2>7 DEF InvRings
<1>16. InvAnswers(p, u)'
    <2>1. ASSUME NEW i \in 1 .. L + 1 PROVE response'[p[i]] = Request(p[i])' <=> i <= u
        <3>1. CASE i \in 1 .. L
            BY <1>2, <1>3, <1>4, <1>6, <3>1 DEF InvAnswers
        <3>2. CASE i = L + 1
            <4>1. NoRequest # r
                BY <1>5, RequestFields DEF r, Request, NoRequest, Kinds, gpu_init, gpu_flush
            <4> QED
                BY <1>2, <1>3, <1>4, <1>6, <1>12, <3>2, <4>1
        <3> QED
            BY <1>13, <3>1, <3>2
    <2>2. ASSUME NEW g \in Harts, pc'[g] = "poll", complete'[g] PROVE response'[g] = Request(g)'
        BY <1>2, <1>6, <2>2 DEF InvAnswers
    <2> QED
        BY <1>4, <2>1, <2>2 DEF InvAnswers
<1>17. InvChains(p, e, s)'
    <2>1. ASSUME NEW i \in 1 .. L PROVE first_idx[w[i]] # at_idx
        <3>1. PICK x \in Int, y \in Int : x = s + 2 * (i - 1) /\ y = t
            BY <1>3
        <3>2. y - x \in 1 .. QUEUE_SIZE - 1
            <4>1. 2 * L + 2 <= QUEUE_SIZE /\ QUEUE_SIZE \in Nat
                BY <1>3, GpuAssumption
            <4>2. y - x = 2 * (L - i + 1) /\ L - i + 1 \in 1 .. L
                BY <1>3, <3>1
            <4>3. \A a, b, c \in Int : 2 * b + 2 <= c /\ a \in 1 .. b => 2 * a \in 1 .. c - 1
                OBVIOUS
            <4> HIDE DEF L
            <4> QED
                BY <1>3, <4>1, <4>2, <4>3
        <3>3. first_idx[w[i]] = (s + 2 * (i - 1)) % QUEUE_SIZE
            BY DEF InvChains
        <3> QED
            BY <1>3, <3>1, <3>2, <3>3, SlotsApart
    <2>2. at_idx' = IF e = 0 THEN s % QUEUE_SIZE
                    ELSE (s + 2 * (e - 1) + Size(p[e])') % QUEUE_SIZE
        <3>1. e = 0 \/ e \in 1 .. L
            BY <1>3
        <3> QED
            BY <1>1, <1>4, <1>6, <3>1 DEF InvChains
    <2>3. ASSUME NEW i \in 1 .. L + 1
          PROVE  /\ first_idx'[p[i]] = (s + 2 * (i - 1)) % QUEUE_SIZE
                 /\ request_info'[first_idx'[p[i]]] = Request(p[i])'
        <3>1. CASE i \in 1 .. L
            <4>1. first_idx'[p[i]] = first_idx[w[i]]
                BY <1>2, <1>3, <1>4, <3>1
            <4>2. first_idx[w[i]] \in Slots /\ request_info \in [Slots -> Requests \cup {NoRequest}]
                BY <1>4, <3>1 DEF TypeOK
            <4>3. request_info'[first_idx[w[i]]] = request_info[first_idx[w[i]]]
                BY <1>1, <2>1, <3>1, <4>2
            <4> QED
                BY <1>4, <1>6, <3>1, <4>1, <4>3 DEF InvChains
        <3>2. CASE i = L + 1
            <4>1. s + 2 * (i - 1) = t
                BY <1>3, <3>2
            <4>2. at_idx \in Slots /\ request_info \in [Slots -> Requests \cup {NoRequest}]
                BY DEF TypeOK
            <4>3. request_info'[at_idx] = r
                BY <1>1, <4>2
            <4> QED
                BY <1>2, <1>3, <1>4, <1>6, <3>2, <4>1, <4>3
        <3> QED
            BY <1>13, <3>1, <3>2
    <2>4. ASSUME NEW i \in 1 .. L + 1, NEW j \in 1 .. Size(p[i])'
          PROVE  Holds(p[i], j, (s + 2 * (i - 1) + j - 1) % QUEUE_SIZE,
                                (s + 2 * (i - 1) + j) % QUEUE_SIZE)'
        <3>1. CASE i \in 1 .. L
            <4>1. p[i] = w[i] /\ Size(w[i]) = 2 /\ Size(p[i])' = 2 /\ j \in 1 .. 2
                BY <1>3, <1>4, <1>6, <2>4, <3>1
            <4>2. Holds(w[i], j, (s + 2 * (i - 1) + j - 1) % QUEUE_SIZE,
                                 (s + 2 * (i - 1) + j) % QUEUE_SIZE)
                BY <3>1, <4>1 DEF InvChains
            <4>3. PICK k \in 1 .. 2 * L : k = 2 * L - 2 * (i - 1) - j + 1
                BY <1>3, <3>1, <4>1
            <4>4. t - k = s + 2 * (i - 1) + j - 1
                BY <1>3, <3>1, <4>1, <4>3
            <4>5. queue_desc'[(t - k) % QUEUE_SIZE] = queue_desc[(t - k) % QUEUE_SIZE]
                BY <1>7
            <4>6. queue_desc'[(s + 2 * (i - 1) + j - 1) % QUEUE_SIZE]
                     = queue_desc[(s + 2 * (i - 1) + j - 1) % QUEUE_SIZE]
                BY <4>4, <4>5
            <4> QED
                BY <1>1, <1>6, <4>1, <4>2, <4>6 DEF Holds
        <3>2. CASE i = L + 1
            <4>1. p[i] = h /\ Size(p[i])' = Size(h) /\ j \in 1 .. Size(h)
                BY <1>4, <1>6, <2>4, <3>2
            <4>2. s + 2 * (i - 1) = t
                BY <1>3, <3>2
            <4> HIDE DEF t
            <4> QED
                BY <1>1, <1>6, <1>7, <4>1, <4>2 DEF Holds
        <3> QED
            BY <1>13, <3>1, <3>2
    <2> HIDE DEF t, L
    <2> QED
        BY <1>3, <1>4, <2>2, <2>3, <2>4 DEF InvChains
<1>18. InvHandler'
    <2> SUFFICES ASSUME Handling' PROVE InvHandler'
        BY DEF InvHandler
    <2>1. Handling /\ req_info \in Requests /\ req_info.by \in Harts /\ req_info' = req_info
        BY <1>1, RequestFields DEF InvHandler, Handling, irq_vars
    <2> QED
        BY <1>1, <1>2, <1>6, <2>1 DEF InvHandler
<1>19. InvLive'
    <2>1. live \subseteq live' /\ Block(r, "response") \in live' /\ Block(r, "info") \in live'
        BY <1>1
    <2>2. \A x \in Parts(h) : Block(r, x) \in live'
        <3>1. \A x \in Allocated(Head(call[h])) : Block(r, x) \in live
            BY <1>1 DEF InvLive
        <3>2. \A j \in 1 .. Size(h) : Chain(Head(call[h]))[j] # "response"
                 => Chain(Head(call[h]))[j] \in Allocated(Head(call[h]))
            BY <1>5, ChainShapes DEF Size
        <3> HIDE DEF r
        <3> QED
            BY <2>1, <3>1, <3>2 DEF Parts
    <2>3. ASSUME NEW g \in Harts
          PROVE  /\ pc'[g] = "enqueue" =>
                       \A x \in Allocated(Head(call'[g])) : Block(Request(g)', x) \in live'
                 /\ Written(g)' => \A x \in Parts(g)' : Block(Request(g)', x) \in live'
                 /\ pc'[g] = "poll" => Block(Request(g)', "info") \in live'
        <3>1. CASE g = h
            BY <1>2, <1>6, <2>1, <2>2, <3>1
        <3>2. CASE g # h
            BY <1>1, <1>2, <1>6, <1>11, <2>1, <3>2 DEF InvLive
        <3> QED
            BY <3>1, <3>2
    <2>4. /\ irq' = "free_request" => Block(req_info, "request") \in live'
          /\ irq' \in {"free_request", "free_response"} => Block(req_info, "response") \in live'
        BY <1>1, <2>1 DEF InvLive, irq_vars
    <2>5. req_info' = req_info /\ ~wild'
        BY <1>1 DEF irq_vars
    <2> QED
        BY <2>3, <2>4, <2>5 DEF InvLive, Block
<1>20. InvOwned'
    <2> SUFFICES ASSUME NEW b \in live' PROVE Owned(b)'
        BY DEF InvOwned
    <2>1. irq' = irq /\ req_info' = req_info
        BY <1>1 DEF irq_vars
    <2>2. Written(h)'
        BY <1>2 DEF Written
    <2>3. CASE b \in live
        <3>1. b.of.by \in Harts /\ Owned(b)
            BY <2>3, RequestFields DEF TypeOK, InvOwned
        <3> QED
            BY <1>1, <1>2, <1>6, <1>11, <2>1, <2>2, <3>1 DEF Owned
    <2>4. CASE b \in {Block(r, "response"), Block(r, "info")}
        BY <1>5, <1>6, <2>2, <2>4, RequestFields DEF Owned, r
    <2> QED
        BY <1>1, <2>3, <2>4
<1>21. InvShown'
    <2>1. \A g \in Harts \ {h} : ShownSoFar(g)'
        BY <1>1, <1>2, <1>6 DEF InvShown, ShownSoFar, Answered, device_vars
    <2>2. ShownSoFar(h)'
        BY <1>1, <1>2 DEF InvShown, ShownSoFar, Answered, device_vars
    <2> QED
        BY <2>1, <2>2 DEF InvShown
<1> HIDE DEF Inv, L
<1> QED
    BY <1>3, <1>4, <1>8, <1>9, <1>10, <1>14, <1>15, <1>16, <1>17, <1>18, <1>19, <1>20, <1>21
       DEF Inv, L, p

-----------------------------------------------------------------------------
(* The steps of the device and of the handler. *)

LEMMA PerformStep ==
    ASSUME NEW w \in Seq(Harts), NEW u, NEW e, NEW n, NEW s, Inv(w, u, e, n, s), ~wild, Perform
    PROVE  /\ u + 1 \in 1 .. Len(w) /\ u < e /\ Inv(w, u + 1, e, n, s)'
           /\ response' = [response EXCEPT ![w[u + 1]] = Request(w[u + 1])]
<1> USE DEF Inv
<1> DEFINE g == w[u + 1]
           r == Request(g)
           x == (n + u) % QUEUE_SIZE
<1>1. /\ Len(w) \in Nat /\ u \in Nat /\ e \in Nat /\ n \in Nat /\ u <= e /\ e <= Len(w)
      /\ IDX_MOD \in Nat \ {0}
      /\ \A i \in 1 .. Len(w) : w[i] \in Harts
    BY GpuAssumption, ElementOfSeq, LenProperties DEF InvQueue
<1>2. u < e /\ u + 1 \in 1 .. Len(w)
    <2>1. u # e
        BY DEF Perform, InvRings
    <2> QED
        BY <1>1, <2>1
<1>3. g \in Harts /\ pc[g] = "poll" /\ ~complete[g]
    BY <1>1, <1>2 DEF InvQueue
<1>4. last_avail % QUEUE_SIZE = x /\ used_idx % QUEUE_SIZE = x /\ x \in Slots
    <2>1. PICK y \in Int : y = n + u
        BY <1>1
    <2>2. (y % IDX_MOD) % QUEUE_SIZE = y % QUEUE_SIZE /\ y % QUEUE_SIZE \in Slots
        BY <2>1, SlotOfIndex, SlotAfter
    <2> QED
        BY <2>1, <2>2 DEF InvRings
<1>5. avail_ring[x] = first_idx[g]
    <2>1. n + (u + 1) - 1 = n + u
        BY <1>1
    <2>2. avail_ring[(n + (u + 1) - 1) % QUEUE_SIZE] = first_idx[g]
        BY <1>2 DEF InvRings
    <2> QED
        BY <2>1, <2>2
<1>6. /\ queue_desc[first_idx[g]].of = r
      /\ queue_desc[LastOf(first_idx[g])].of = r
    BY <1>2, ChainFound
<1>7. r \in Requests /\ r.by = g /\ r.kind = Head(call[g]) /\ call[g] \in Calls
    BY <1>3, HartFacts, RequestFields
<1>8. \A h \in Harts : painted[h] \in 0 .. MaxFills
    BY HartFacts
<1> HIDE DEF g, x
<1>9. /\ response' = [response EXCEPT ![g] = r]
      /\ used_ring' = [used_ring EXCEPT ![x] = first_idx[g]]
      /\ used_idx' = Incr(used_idx) /\ last_avail' = Incr(last_avail)
      /\ UNCHANGED <<lock, driver_vars, irq_vars, displays, hart_vars, live, complete, wild>>
    <2> HIDE DEF r
    <2> QED
        BY <1>4, <1>5, <1>6, <1>7 DEF Perform
<1>10. /\ host' = IF r.kind = "TRANSFER_TO_HOST_2D" THEN [host EXCEPT ![g] = painted[g]] ELSE host
       /\ screen' = IF r.kind = "RESOURCE_FLUSH" THEN [screen EXCEPT ![g] = host[g]] ELSE screen
       /\ isr' = TRUE
    <2> HIDE DEF r
    <2> QED
        BY <1>4, <1>5, <1>6, <1>7 DEF Perform, Performed
<1>11. /\ \A h : Request(h)' = Request(h) /\ Size(h)' = Size(h)
       /\ \A h : Written(h)' <=> Written(h)
    BY <1>9 DEF Request, Size, hart_vars, Written
<1>12. TypeOK'
    <2>1. used_ring \in [Slots -> Slots] /\ first_idx[g] \in Slots
        BY <1>3 DEF TypeOK
    <2>2. used_ring' \in [Slots -> Slots]
        BY <1>9, <2>1
    <2>3. host' \in [Harts -> 0 .. MaxFills] /\ screen' \in [Harts -> 0 .. MaxFills]
        BY <1>3, <1>8, <1>10 DEF TypeOK
    <2>4. response' \in [Harts -> Requests \cup {NoRequest}]
        BY <1>7, <1>9 DEF TypeOK
    <2>5. {used_idx', last_avail'} \subseteq 0 .. IDX_MOD - 1
        <3>1. \A i \in 0 .. IDX_MOD - 1 : Incr(i) \in 0 .. IDX_MOD - 1
            BY <1>1 DEF Incr
        <3> QED
            BY <1>9, <3>1 DEF TypeOK
    <2> HIDE DEF r
    <2> QED
        BY <1>9, <1>10, <2>2, <2>3, <2>4, <2>5 DEF TypeOK, driver_vars, irq_vars, hart_vars
<1>13. InvCalls' /\ InvLock'
    BY <1>9 DEF InvCalls, CallOK, InvLock, hart_vars
<1>14. InvQueue(w, u + 1, e, n)'
    BY <1>1, <1>2, <1>9, <1>11 DEF InvQueue, hart_vars
<1>15. InvRings(w, u + 1, e, n)'
    <2>1. Acked' = Acked
        BY <1>9 DEF Acked, Handling, irq_vars, Incr
    <2>2. used_idx' = (n + (u + 1)) % IDX_MOD /\ last_avail' = (n + (u + 1)) % IDX_MOD
        <3>1. PICK y \in Int : y = n + u
            BY <1>1
        <3>2. ((y % IDX_MOD) + 1) % IDX_MOD = (y + 1) % IDX_MOD
            BY <1>1, ModStep
        <3>3. y + 1 = n + (u + 1)
            BY <1>1, <3>1
        <3> QED
            BY <1>9, <3>1, <3>2, <3>3 DEF InvRings, Incr
    <2>3. \A i \in 1 .. u + 1 : used_ring'[(n + i - 1) % QUEUE_SIZE] = first_idx'[w[i]]
        <3> SUFFICES ASSUME NEW i \in 1 .. u + 1
                     PROVE  used_ring'[(n + i - 1) % QUEUE_SIZE] = first_idx'[w[i]]
            OBVIOUS
        <3>1. first_idx' = first_idx /\ used_ring \in [Slots -> Slots]
            BY <1>9 DEF hart_vars, TypeOK
        <3>2. CASE i = u + 1
            <4>1. n + i - 1 = n + u
                BY <1>1, <3>2
            <4>2. used_ring'[x] = first_idx[g]
                BY <1>4, <1>9, <3>1
            <4> QED
                BY <3>1, <3>2, <4>1, <4>2 DEF x, g
        <3>3. CASE i # u + 1
            <4>1. i \in 1 .. u
                BY <1>1, <3>3
            <4>2. PICK y \in Int, z \in Int : y = n + i - 1 /\ z = n + u
                BY <1>1
            <4>3. z - y \in 1 .. QUEUE_SIZE - 1
                <5>1. 2 * Len(w) <= QUEUE_SIZE /\ QUEUE_SIZE \in Nat
                    BY WriterFacts, GpuAssumption
                <5> QED
                    BY <1>1, <1>2, <4>1, <4>2, <5>1
            <4>4. y % QUEUE_SIZE # z % QUEUE_SIZE /\ y % QUEUE_SIZE \in Slots
                BY <4>2, <4>3, SlotsApart, SlotAfter
            <4>5. used_ring'[y % QUEUE_SIZE] = used_ring[y % QUEUE_SIZE]
                BY <1>9, <3>1, <4>2, <4>4 DEF x
            <4> QED
                BY <3>1, <4>1, <4>2, <4>5 DEF InvRings
        <3> QED
            BY <3>2, <3>3
    <2> QED
        BY <1>9, <2>1, <2>2, <2>3 DEF InvRings, driver_vars, hart_vars
<1>16. InvAnswers(w, u + 1)'
    <2>1. response'[g] = r /\ \A h \in Harts : h # g => response'[h] = response[h]
        BY <1>3, <1>9 DEF TypeOK
    <2>2. ASSUME NEW i \in 1 .. Len(w) PROVE response'[w[i]] = Request(w[i])' <=> i <= u + 1
        <3>1. CASE i = u + 1
            BY <1>1, <1>11, <2>1, <3>1 DEF g
        <3>2. CASE i # u + 1
            <4>1. w[i] # g
                BY <1>2, <3>2 DEF InvQueue, g
            <4>2. i <= u + 1 <=> i <= u
                BY <1>1, <3>2
            <4> QED
                BY <1>1, <1>11, <2>1, <4>1, <4>2 DEF InvAnswers
        <3> QED
            BY <3>1, <3>2
    <2>3. ASSUME NEW h \in Harts, pc'[h] = "poll", complete'[h] PROVE response'[h] = Request(h)'
        <3>1. pc[h] = "poll" /\ complete[h] /\ h # g
            BY <1>3, <1>9, <2>3 DEF hart_vars
        <3> QED
            BY <1>11, <2>1, <3>1 DEF InvAnswers
    <2> QED
        BY <2>2, <2>3 DEF InvAnswers
<1>17. InvChains(w, e, s)'
    <2>1. \A h, j, y, z : Holds(h, j, y, z)' <=> Holds(h, j, y, z)
        BY <1>9, <1>11 DEF Holds, driver_vars, hart_vars
    <2> QED
        BY <1>9, <1>11, <2>1 DEF InvChains, driver_vars, hart_vars
<1>18. InvHandler' /\ InvLive' /\ InvOwned'
    BY <1>9, BlocksKept DEF irq_vars, hart_vars
<1>19. InvShown'
    <2>1. /\ \A h \in Harts : pc'[h] = pc[h] /\ call'[h] = call[h] /\ painted'[h] = painted[h]
                              /\ due'[h] = due[h]
          /\ \A h \in Harts : h # g => host'[h] = host[h] /\ screen'[h] = screen[h]
                                       /\ response'[h] = response[h]
        <3> HIDE DEF r
        <3> QED
            BY <1>9, <1>10 DEF hart_vars, TypeOK
    <2>2. ASSUME NEW h \in Harts, h # g PROVE ShownSoFar(h)'
        BY <1>11, <2>1, <2>2 DEF InvShown, ShownSoFar, Answered
    <2>3. ShownSoFar(g)'
        <3>1. pc'[g] # "idle" /\ call'[g] = call[g] /\ due'[g] = due[g] /\ painted'[g] = painted[g]
            BY <1>3, <2>1
        <3>2. ShownSoFar(g)
            BY <1>3 DEF InvShown
        <3>3. CASE call[g] \in InitCalls
            <4>1. r.kind \notin {"TRANSFER_TO_HOST_2D", "RESOURCE_FLUSH"}
                BY <1>7, <3>3, CallShapes, Zenon
            <4>2. screen'[g] = screen[g]
                BY <1>10, <4>1
            <4>3. call[g] # gpu_flush /\ call[g] # <<"RESOURCE_FLUSH">>
                BY <3>3, CallShapes, Zenon DEF FlushCalls
            <4>4. screen[g] = due[g]
                BY <3>2, <3>3, Zenon DEF ShownSoFar
            <4> QED
                BY <3>1, <4>2, <4>3, <4>4, Zenon DEF ShownSoFar
        <3>4. CASE call[g] = gpu_flush
            <4>1. r.kind = "TRANSFER_TO_HOST_2D"
                BY <1>7, <3>4, CallShapes, Zenon
            <4>2. host'[g] = painted[g]
                BY <1>3, <1>10, <4>1 DEF TypeOK
            <4>3. call[g] \notin InitCalls /\ call[g] # <<"RESOURCE_FLUSH">>
                BY <3>4, CallShapes, Zenon DEF FlushCalls
            <4>4. painted[g] = due[g]
                BY <3>2, <3>4, Zenon DEF ShownSoFar
            <4> QED
                BY <3>1, <4>2, <4>3, <4>4, Zenon DEF ShownSoFar
        <3>5. CASE call[g] = <<"RESOURCE_FLUSH">>
            <4>1. r.kind = "RESOURCE_FLUSH"
                BY <1>7, <3>5, CallShapes, Zenon
            <4>2. screen'[g] = host[g] /\ host'[g] = host[g]
                BY <1>3, <1>10, <4>1 DEF TypeOK
            <4>3. call[g] \notin InitCalls /\ call[g] # gpu_flush
                BY <3>5, CallShapes, Zenon DEF FlushCalls
            <4>4. host[g] = due[g]
                BY <3>2, <3>5, Zenon DEF ShownSoFar
            <4> QED
                BY <3>1, <4>2, <4>3, <4>4, Zenon DEF ShownSoFar
        <3> QED
            BY <1>7, <3>3, <3>4, <3>5, Zenon DEF Calls, FlushCalls
    <2> QED
        BY <2>2, <2>3 DEF InvShown
<1> HIDE DEF Inv, r
<1> QED
    BY <1>2, <1>9, <1>12, <1>13, <1>14, <1>15, <1>16, <1>17, <1>18, <1>19 DEF Inv, g, r

LEMMA Reads ==
    ASSUME TypeOK, ~wild, ReadReqInfo
    PROVE  wild' \in BOOLEAN /\ (wild' => Block(req_info, "info") \notin live)
<1>1. wild \in BOOLEAN
    BY DEF TypeOK
<1>2. CASE UNCHANGED wild
    BY <1>1, <1>2
<1>3. CASE Block(req_info, "info") \notin live /\ wild' = TRUE
    BY <1>3
<1> QED
    BY <1>2, <1>3 DEF ReadReqInfo

\* The handler's own steps, but for Complete.
LEMMA FreeStep ==
    ASSUME NEW w \in Seq(Harts), NEW u, NEW e, NEW n, NEW s, Inv(w, u, e, n, s), ~wild,
           FreeRequest \/ FreeResponse
    PROVE  Inv(w, u, e, n, s)'
<1> USE DEF Inv
<1> DEFINE part == IF irq = "free_request" THEN "request" ELSE "response"
           gone == Block(req_info, part)
<1>1. /\ irq \in {"free_request", "free_response"}
      /\ live' = live \ {gone}
      /\ irq' = IF irq = "free_request" THEN "free_response" ELSE "acknowledge"
      /\ wild' \in BOOLEAN /\ (wild' => Block(req_info, "info") \notin live)
      /\ UNCHANGED <<lock, driver_vars, device_vars, isr, ack_idx, req_info, displays, hart_vars,
                     complete, response>>
    <2>1. wild' \in BOOLEAN /\ (wild' => Block(req_info, "info") \notin live)
        BY Reads DEF FreeRequest, FreeResponse
    <2>2. CASE FreeRequest
        BY <2>1, <2>2 DEF FreeRequest
    <2>3. CASE FreeResponse
        BY <2>1, <2>3 DEF FreeResponse
    <2> QED
        BY <2>2, <2>3
<1>2. Handling /\ Handling' /\ req_info \in Requests /\ req_info.by \in Harts
    BY <1>1, RequestFields DEF Handling, InvHandler
<1>3. part \in {"request", "response"} /\ gone.of = req_info /\ gone.part = part
    BY <1>1, RequestFields
<1> HIDE DEF gone
<1>4. /\ \A h : Request(h)' = Request(h) /\ Parts(h)' = Parts(h)
      /\ \A h : Written(h)' <=> Written(h)
      /\ \A h \in Harts : Stays(h)
    BY <1>1 DEF Request, Size, Parts, hart_vars, Written, Stays
<1>5. TypeOK'
    BY <1>1 DEF TypeOK, driver_vars, device_vars, hart_vars
<1>6. InvCalls' /\ InvLock'
    BY <1>1 DEF InvCalls, CallOK, InvLock, hart_vars
<1>7. InvQueue(w, u, e, n)' /\ InvRings(w, u, e, n)' /\ InvAnswers(w, u)' /\ InvChains(w, e, s)'
    <2>1. Acked' = Acked
        BY <1>1, <1>2 DEF Acked, Incr
    <2> QED
        BY <1>1, <1>4, <2>1, WritersKept DEF driver_vars, device_vars, hart_vars
<1>8. InvHandler'
    BY <1>1, <1>2, <1>4 DEF InvHandler, hart_vars
<1>9. ASSUME NEW h \in Harts, pc[h] = "enqueue" \/ Written(h) PROVE Request(h) # req_info
    <2>1. CASE req_info.by = h
        <3>1. ~(pc[h] = "poll" /\ complete[h])
            BY <1>9 DEF Written
        <3>2. nth[h] > req_info.nth /\ nth[h] \in Nat /\ req_info.nth \in Nat
            BY <1>2, <2>1, <3>1, RequestFields DEF InvHandler, InvCalls
        <3>3. Request(h).nth = nth[h]
            BY RequestFields
        <3> QED
            BY <3>2, <3>3
    <2>2. CASE req_info.by # h
        BY <2>2, RequestFields
    <2> QED
        BY <2>1, <2>2
<1>10. InvLive'
    <2>1. ASSUME NEW h \in Harts
          PROVE  /\ pc'[h] = "enqueue" =>
                       \A p \in Allocated(Head(call'[h])) : Block(Request(h)', p) \in live'
                 /\ Written(h)' => \A p \in Parts(h)' : Block(Request(h)', p) \in live'
                 /\ pc'[h] = "poll" => Block(Request(h)', "info") \in live'
        <3>1. pc[h] = "enqueue" \/ Written(h) => \A p : Block(Request(h), p) # gone
            BY <1>3, <1>9, RequestFields
        <3>2. Block(Request(h), "info") # gone
            BY <1>3, RequestFields
        <3>3. pc'[h] = pc[h] /\ call'[h] = call[h]
            BY <1>1 DEF hart_vars
        <3> QED
            BY <1>1, <1>4, <3>1, <3>2, <3>3 DEF InvLive
    <2>2. irq' # "free_request"
        BY <1>1
    <2>3. irq' = "free_response" => Block(req_info, "response") \in live'
        <3>1. irq' = "free_response" => part = "request" /\ irq = "free_request"
            BY <1>1
        <3> QED
            BY <1>1, <3>1, RequestFields DEF InvLive, gone
    <2>4. wild' => Block(req_info, "info") \notin live'
        BY <1>1
    <2>5. req_info' = req_info
        BY <1>1
    <2> QED
        BY <2>1, <2>2, <2>3, <2>4, <2>5 DEF InvLive, Block
<1>11. InvOwned'
    <2> SUFFICES ASSUME NEW b \in live' PROVE Owned(b)'
        BY DEF InvOwned
    <2>1. b \in live /\ b # gone /\ b = Block(b.of, b.part) /\ Owned(b)
        BY <1>1 DEF InvOwned, TypeOK, Block
    <2>2. ~(b.of = req_info /\ b.part = part)
        BY <2>1, Zenon DEF gone
    <2> QED
        BY <1>1, <1>4, <2>1, <2>2 DEF Owned, hart_vars
<1>12. InvShown'
    BY <1>1, <1>4 DEF InvShown, ShownSoFar, Answered, hart_vars, device_vars
<1> HIDE DEF Inv
<1> QED
    BY <1>5, <1>6, <1>7, <1>8, <1>10, <1>11, <1>12 DEF Inv

LEMMA AcknowledgeStep ==
    ASSUME NEW w \in Seq(Harts), NEW u, NEW e, NEW n, NEW s, Inv(w, u, e, n, s), ~wild,
           Acknowledge
    PROVE  Inv(w, u, e, n, s)'
<1> USE DEF Inv
<1>1. /\ irq = "acknowledge" /\ irq' = "loop" /\ ack_idx' = Incr(ack_idx) /\ wild' \in BOOLEAN
      /\ UNCHANGED <<lock, driver_vars, device_vars, isr, req_info, displays, hart_vars, live,
                     complete, response>>
    BY Reads DEF Acknowledge
<1>2. Handling /\ ~Handling'
    BY <1>1 DEF Handling
<1>3. /\ \A h : Request(h)' = Request(h) /\ Parts(h)' = Parts(h)
      /\ \A h : Written(h)' <=> Written(h)
      /\ \A h \in Harts : Stays(h)
    BY <1>1 DEF Request, Size, Parts, hart_vars, Written, Stays
<1>4. TypeOK'
    <2>1. ack_idx' \in 0 .. IDX_MOD - 1
        <3>1. \A i \in 0 .. IDX_MOD - 1 : Incr(i) \in 0 .. IDX_MOD - 1
            BY GpuAssumption DEF Incr
        <3> QED
            BY <1>1, <3>1 DEF TypeOK
    <2> QED
        BY <1>1, <2>1 DEF TypeOK, driver_vars, device_vars, hart_vars
<1>5. InvCalls' /\ InvLock'
    BY <1>1 DEF InvCalls, CallOK, InvLock, hart_vars
<1>6. InvQueue(w, u, e, n)' /\ InvRings(w, u, e, n)' /\ InvAnswers(w, u)' /\ InvChains(w, e, s)'
    <2>1. Acked' = Acked
        BY <1>1, <1>2 DEF Acked
    <2> QED
        BY <1>1, <1>3, <2>1, WritersKept DEF driver_vars, device_vars, hart_vars
<1>7. InvHandler'
    BY <1>2 DEF InvHandler
<1>8. InvLive'
    BY <1>1, <1>2, <1>3 DEF InvLive, hart_vars
<1>9. InvOwned'
    BY <1>1, <1>3 DEF InvOwned, Owned, hart_vars
<1>10. InvShown'
    BY <1>1, <1>3 DEF InvShown, ShownSoFar, Answered, hart_vars, device_vars
<1> HIDE DEF Inv
<1> QED
    BY <1>4, <1>5, <1>6, <1>7, <1>8, <1>9, <1>10 DEF Inv

LEMMA IrqEdgeStep ==
    ASSUME NEW w \in Seq(Harts), NEW u, NEW e, NEW n, NEW s, Inv(w, u, e, n, s), ~wild,
           virtio_handle_irq \/ HandlerReturns
    PROVE  Inv(w, u, e, n, s)'
<1> USE DEF Inv
<1>1. /\ irq \in {"idle", "loop"} /\ irq' \in {"idle", "loop"} /\ isr' \in BOOLEAN
      /\ UNCHANGED <<lock, driver_vars, device_vars, ack_idx, req_info, displays, hart_vars, live,
                     complete, response, wild>>
    BY DEF virtio_handle_irq, HandlerReturns, TypeOK
<1>2. ~Handling /\ ~Handling'
    BY <1>1 DEF Handling
<1>3. /\ \A h : Request(h)' = Request(h)
      /\ \A h \in Harts : Stays(h)
    BY <1>1 DEF Request, hart_vars, Stays
<1>4. TypeOK'
    BY <1>1 DEF TypeOK, driver_vars, device_vars, hart_vars
<1>5. InvCalls' /\ InvLock'
    BY <1>1 DEF InvCalls, CallOK, InvLock, hart_vars
<1>6. InvQueue(w, u, e, n)' /\ InvRings(w, u, e, n)' /\ InvAnswers(w, u)' /\ InvChains(w, e, s)'
    <2>1. Acked' = Acked
        BY <1>1, <1>2 DEF Acked
    <2> QED
        BY <1>1, <1>3, <2>1, WritersKept DEF driver_vars, device_vars, hart_vars
<1>7. InvHandler' /\ InvLive' /\ InvOwned'
    BY <1>1, <1>2, BlocksKept DEF hart_vars
<1>8. InvShown'
    BY <1>1, <1>3 DEF InvShown, ShownSoFar, Answered, hart_vars, device_vars
<1> HIDE DEF Inv
<1> QED
    BY <1>4, <1>5, <1>6, <1>7, <1>8 DEF Inv

LEMMA CompleteStep ==
    ASSUME NEW w \in Seq(Harts), NEW u, NEW e, NEW n, NEW s, Inv(w, u, e, n, s), ~wild, Complete
    PROVE  /\ u \in 1 .. Len(w) /\ e \in 1 .. Len(w) /\ Tail(w) \in Seq(Harts)
           /\ Len(Tail(w)) = Len(w) - 1 /\ \A i \in 1 .. Len(w) - 1 : Tail(w)[i] = w[i + 1]
           /\ \E s1 \in Nat : Inv(Tail(w), u - 1, e - 1, n + 1, s1)'
<1> USE DEF Inv
<1> DEFINE g == w[1]
           r == Request(g)
           L == Len(w)
           p == Tail(w)
<1>1. /\ irq = "loop" /\ ack_idx # used_idx /\ irq' = "free_request"
      /\ req_info' = request_info[used_ring[ack_idx % QUEUE_SIZE]]
      /\ displays' = IF req_info'.kind = "GET_DISPLAY_INFO" THEN "enabled" ELSE displays
      /\ complete' = [complete EXCEPT ![req_info'.by] = TRUE]
      /\ UNCHANGED <<lock, driver_vars, device_vars, isr, ack_idx, hart_vars, live, response, wild>>
    BY DEF Complete
<1>2. /\ L \in Nat /\ u \in Nat /\ e \in Nat /\ n \in Nat /\ s \in Nat /\ u <= e /\ e <= L
      /\ IDX_MOD \in Nat \ {0} /\ ~Handling /\ Handling'
      /\ \A i \in 1 .. L : w[i] \in Harts
    BY <1>1, GpuAssumption, ElementOfSeq, LenProperties DEF InvQueue, InvChains, Handling
<1>3. ack_idx = n % IDX_MOD /\ u # 0
    <2>1. ack_idx = n % IDX_MOD
        BY <1>2 DEF InvRings, Acked
    <2>2. u = 0 => n + u = n
        BY <1>2
    <2> QED
        BY <1>1, <2>1, <2>2 DEF InvRings
<1>4. /\ u \in 1 .. L /\ e \in 1 .. L /\ L \in 1 .. L /\ 1 \in 1 .. L /\ 1 \in 1 .. u
    BY <1>2, <1>3
<1>5. /\ p \in Seq(Harts) /\ Len(p) = L - 1
      /\ \A i \in 1 .. L - 1 : p[i] = w[i + 1] /\ i + 1 \in 1 .. L
    <2>1. w # <<>>
        BY <1>4, EmptySeq
    <2> QED
        BY <1>2, <2>1, HeadTailProperties
<1>6. g \in Harts /\ pc[g] = "poll" /\ ~complete[g]
    BY <1>2, <1>4 DEF InvQueue
<1>7. /\ r \in Requests /\ r.by = g /\ r.kind = Head(call[g]) /\ call[g] \in Calls
    BY <1>6, HartFacts, RequestFields
<1>8. Size(g) \in 2 .. 3 /\ (L > 1 => Size(g) = 2)
    BY <1>4, WriterFacts
<1> HIDE DEF g, p
<1>9. req_info' = r
    <2>1. PICK x \in Int : x = n
        BY <1>2
    <2>2. ack_idx % QUEUE_SIZE = n % QUEUE_SIZE
        BY <1>3, <2>1, SlotOfIndex
    <2>3. n + 1 - 1 = n
        BY <1>2
    <2>4. used_ring[(n + 1 - 1) % QUEUE_SIZE] = first_idx[g]
        BY <1>4 DEF InvRings, g
    <2>5. request_info[first_idx[g]] = r
        BY <1>4 DEF InvChains, g
    <2> QED
        BY <1>1, <2>2, <2>3, <2>4, <2>5
<1> HIDE DEF r
<1>10. /\ complete'[g] = TRUE /\ \A h \in Harts : h # g => complete'[h] = complete[h]
       /\ complete' \in [Harts -> BOOLEAN]
    BY <1>1, <1>6, <1>7, <1>9 DEF TypeOK
<1>11. \A h : Request(h)' = Request(h) /\ Size(h)' = Size(h) /\ Parts(h)' = Parts(h)
    BY <1>1 DEF Request, Size, Parts, hart_vars
<1>12. \A h \in Harts : Written(h)' <=> Written(h) /\ h # g
    BY <1>1, <1>6, <1>10 DEF Written, hart_vars
<1>13. TypeOK'
    <2>1. displays' \in {"unknown", "enabled", "ready"}
        BY <1>1 DEF TypeOK
    <2> QED
        BY <1>1, <1>7, <1>9, <1>10, <2>1 DEF TypeOK, driver_vars, device_vars, hart_vars
<1>14. InvCalls'
    <2>1. (displays' = "ready") <=> (displays = "ready")
        <3>1. CASE r.kind = "GET_DISPLAY_INFO"
            <4>1. call[g] \notin FlushCalls
                BY <1>7, <3>1, CallShapes
            <4>2. call[g] # <<>>
                BY <1>7, CallShapes
            <4>3. displays # "ready"
                BY <1>6, <4>1, <4>2, Zenon DEF InvCalls, CallOK
            <4> QED
                BY <1>1, <1>9, <3>1, <4>3
        <3>2. CASE r.kind # "GET_DISPLAY_INFO"
            BY <1>1, <1>9, <3>2
        <3> QED
            BY <3>1, <3>2
    <2>2. /\ call' = call /\ nth' = nth /\ pc' = pc /\ painted' = painted
        BY <1>1 DEF hart_vars
    <2> QED
        BY <2>1, <2>2 DEF InvCalls, CallOK
<1>15. InvLock'
    BY <1>1 DEF InvLock, hart_vars
<1>16. \A i \in 1 .. L - 1 : p[i] = w[i + 1] /\ p[i] \in Harts /\ p[i] # g
    <2>1. \A i, j \in 1 .. L : w[i] = w[j] => i = j
        BY DEF InvQueue
    <2> QED
        BY <1>2, <1>4, <1>5, <2>1 DEF g
<1>17. InvQueue(p, u - 1, e - 1, n + 1)'
    <2>1. /\ u - 1 \in Nat /\ e - 1 \in Nat /\ n + 1 \in Nat /\ u - 1 <= e - 1
          /\ e - 1 <= L - 1 /\ L - 1 <= (e - 1) + 1
        BY <1>2, <1>4 DEF InvQueue
    <2>2. \A i, j \in 1 .. L - 1 : p[i] = p[j] => i = j
        <3>1. \A i, j \in 1 .. L : w[i] = w[j] => i = j
            BY DEF InvQueue
        <3>2. \A i, j \in 1 .. L - 1 : i + 1 = j + 1 => i = j
            BY <1>2
        <3> QED
            BY <1>5, <3>1, <3>2
    <2>3. ASSUME NEW i \in 1 .. L - 1
          PROVE  /\ pc'[p[i]] = IF i <= e - 1 THEN "poll" ELSE "publish"
                 /\ ~complete'[p[i]]
        <3>1. i + 1 <= e <=> i <= e - 1
            BY <1>2
        <3>2. /\ pc[w[i + 1]] = IF i + 1 <= e THEN "poll" ELSE "publish"
              /\ ~complete[w[i + 1]]
            BY <1>5 DEF InvQueue
        <3> QED
            BY <1>1, <1>10, <1>16, <3>1, <3>2 DEF hart_vars
    <2>4. ASSUME NEW h \in Harts, Written(h)' PROVE \E i \in 1 .. L - 1 : p[i] = h
        <3>1. Written(h) /\ h # g
            BY <1>12, <2>4
        <3>2. PICK j \in 1 .. L : w[j] = h
            BY <3>1 DEF InvQueue
        <3>3. j # 1
            BY <3>1, <3>2 DEF g
        <3>4. PICK i \in 1 .. L - 1 : i + 1 = j
            BY <1>2, <3>3
        <3> QED
            BY <1>5, <3>2, <3>4
    <2> HIDE DEF L
    <2> QED
        BY <1>5, <2>1, <2>2, <2>3, <2>4 DEF InvQueue
<1>18. InvRings(p, u - 1, e - 1, n + 1)'
    <2>1. Acked' = (n + 1) % IDX_MOD
        <3>1. PICK x \in Int : x = n
            BY <1>2
        <3>2. ((x % IDX_MOD) + 1) % IDX_MOD = (x + 1) % IDX_MOD
            BY <1>2, ModStep
        <3>3. Acked' = Incr(ack_idx)
            BY <1>1, <1>2 DEF Acked, Incr
        <3> QED
            BY <1>3, <3>1, <3>2, <3>3 DEF Incr
    <2>2. (n + 1) + (u - 1) = n + u /\ (n + 1) + (e - 1) = n + e
        BY <1>2
    <2>3. \A i \in 1 .. L - 1 : (n + 1) + i - 1 = n + (i + 1) - 1
        BY <1>2
    <2>4. ASSUME NEW i \in 1 .. L - 1
          PROVE  avail_ring'[((n + 1) + i - 1) % QUEUE_SIZE] = first_idx'[p[i]]
        <3>1. avail_ring[(n + (i + 1) - 1) % QUEUE_SIZE] = first_idx[w[i + 1]]
            BY <1>5 DEF InvRings
        <3> QED
            BY <1>1, <1>16, <2>3, <3>1 DEF driver_vars, hart_vars
    <2>5. ASSUME NEW i \in 1 .. u - 1
          PROVE  used_ring'[((n + 1) + i - 1) % QUEUE_SIZE] = first_idx'[p[i]]
        <3>1. i \in 1 .. L - 1 /\ i + 1 \in 1 .. u
            BY <1>2, <1>4
        <3>2. used_ring[(n + (i + 1) - 1) % QUEUE_SIZE] = first_idx[w[i + 1]]
            BY <3>1 DEF InvRings
        <3> QED
            BY <1>1, <1>16, <2>3, <3>1, <3>2 DEF device_vars, hart_vars
    <2>6. used_idx' = used_idx /\ last_avail' = last_avail /\ avail_idx' = avail_idx
        BY <1>1 DEF driver_vars, device_vars
    <2>7. /\ used_idx = (n + u) % IDX_MOD /\ last_avail = (n + u) % IDX_MOD
          /\ avail_idx = (n + e) % IDX_MOD
        BY DEF InvRings
    <2> HIDE DEF L
    <2> QED
        BY <1>5, <2>1, <2>2, <2>4, <2>5, <2>6, <2>7 DEF InvRings
<1>19. InvAnswers(p, u - 1)'
    <2>1. ASSUME NEW i \in 1 .. L - 1 PROVE response'[p[i]] = Request(p[i])' <=> i <= u - 1
        <3>1. i + 1 <= u <=> i <= u - 1
            BY <1>2
        <3>2. response[w[i + 1]] = Request(w[i + 1]) <=> i + 1 <= u
            BY <1>5 DEF InvAnswers
        <3> QED
            BY <1>1, <1>11, <1>16, <3>1, <3>2
    <2>2. ASSUME NEW h \in Harts, pc'[h] = "poll", complete'[h] PROVE response'[h] = Request(h)'
        <3>1. CASE h = g
            BY <1>1, <1>4, <1>11, <3>1 DEF InvAnswers, g
        <3>2. CASE h # g
            BY <1>1, <1>10, <1>11, <2>2, <3>2 DEF InvAnswers, hart_vars
        <3> QED
            BY <3>1, <3>2
    <2> HIDE DEF L
    <2> QED
        BY <1>5, <2>1, <2>2 DEF InvAnswers
<1>0. PICK s1 \in Nat : s1 = s + Size(g)
    BY <1>2, <1>8
<1>20. InvChains(p, e - 1, s1)'
    <2>1. at_idx' = IF e - 1 = 0 THEN (s1) % QUEUE_SIZE
                    ELSE (s1 + 2 * ((e - 1) - 1) + Size(p[e - 1])') % QUEUE_SIZE
        <3>1. at_idx' = (s + 2 * (e - 1) + Size(w[e])) % QUEUE_SIZE
            BY <1>1, <1>4 DEF InvChains, driver_vars
        <3>2. CASE e = 1
            <4>1. s + 2 * (e - 1) + Size(w[e]) = s1
                BY <1>0, <1>2, <1>8, <3>2 DEF g
            <4> QED
                BY <3>1, <3>2, <4>1
        <3>3. CASE e # 1
            <4>1. Size(g) = 2 /\ e - 1 \in 1 .. L - 1
                BY <1>2, <1>4, <1>8, <3>3
            <4>2. p[e - 1] = w[(e - 1) + 1] /\ (e - 1) + 1 = e
                BY <1>2, <1>5, <4>1
            <4>3. Size(p[e - 1])' = Size(w[e])
                BY <1>11, <4>2
            <4>4. s1 + 2 * ((e - 1) - 1) = s + 2 * (e - 1)
                BY <1>0, <1>2, <4>1
            <4>5. e - 1 # 0
                BY <1>2, <3>3
            <4> QED
                BY <3>1, <4>3, <4>4, <4>5
        <3> QED
            BY <3>2, <3>3
    <2>2. \A h, j, x, y : Holds(h, j, x, y)' <=> Holds(h, j, x, y)
        BY <1>1, <1>11 DEF Holds, driver_vars, hart_vars
    <2>3. ASSUME NEW i \in 1 .. L - 1
          PROVE  /\ first_idx'[p[i]] = (s1 + 2 * (i - 1)) % QUEUE_SIZE
                 /\ request_info'[first_idx'[p[i]]] = Request(p[i])'
                 /\ \A j \in 1 .. Size(p[i])' :
                       Holds(p[i], j, (s1 + 2 * (i - 1) + j - 1) % QUEUE_SIZE,
                                      (s1 + 2 * (i - 1) + j) % QUEUE_SIZE)'
        <3>1. Size(g) = 2
            BY <1>2, <1>8
        <3>2. s1 + 2 * (i - 1) = s + 2 * ((i + 1) - 1)
            BY <1>0, <1>2, <3>1
        <3>3. p[i] = w[i + 1] /\ i + 1 \in 1 .. L
            BY <1>5
        <3>4. /\ first_idx[w[i + 1]] = (s + 2 * ((i + 1) - 1)) % QUEUE_SIZE
              /\ request_info[first_idx[w[i + 1]]] = Request(w[i + 1])
              /\ \A j \in 1 .. Size(w[i + 1]) :
                    Holds(w[i + 1], j, (s + 2 * ((i + 1) - 1) + j - 1) % QUEUE_SIZE,
                                       (s + 2 * ((i + 1) - 1) + j) % QUEUE_SIZE)
            BY <3>3 DEF InvChains
        <3>5. first_idx' = first_idx /\ request_info' = request_info
            BY <1>1 DEF driver_vars, hart_vars
        <3> QED
            BY <1>11, <2>2, <3>2, <3>3, <3>4, <3>5
    <2> HIDE DEF L
    <2> QED
        BY <1>5, <1>0, <2>1, <2>3 DEF InvChains
<1>21. InvHandler'
    BY <1>1, <1>6, <1>7, <1>9, <1>10, <1>11 DEF InvHandler, hart_vars, r
<1>22. \A q, x : Block(q, x)' = Block(q, x)
    BY DEF Block
<1>23. InvLive'
    <2>1. ASSUME NEW h \in Harts
          PROVE  /\ pc'[h] = "enqueue" =>
                       \A x \in Allocated(Head(call'[h])) : Block(Request(h)', x) \in live'
                 /\ Written(h)' => \A x \in Parts(h)' : Block(Request(h)', x) \in live'
                 /\ pc'[h] = "poll" => Block(Request(h)', "info") \in live'
        BY <1>1, <1>11, <1>12 DEF InvLive, hart_vars
    <2>2. Block(r, "request") \in live' /\ Block(r, "response") \in live'
        <3>1. Written(g)
            BY <1>6 DEF Written
        <3>2. "request" \in Parts(g) /\ "response" \in Parts(g)
            <4>1. Head(call[g]) \in Kinds
                BY <1>6, HartFacts
            <4>2. /\ Chain(Head(call[g]))[1] = "request"
                  /\ Chain(Head(call[g]))[Size(g)] = "response"
                BY <4>1, ChainShapes DEF Size
            <4> QED
                BY <1>8, <4>2 DEF Parts
        <3> QED
            BY <1>1, <1>6, <3>1, <3>2 DEF InvLive, r
    <2>3. ~wild'
        BY <1>1
    <2> QED
        BY <1>1, <1>9, <1>22, <2>1, <2>2, <2>3 DEF InvLive, Block
<1>24. InvOwned'
    <2> SUFFICES ASSUME NEW b \in live' PROVE Owned(b)'
        BY DEF InvOwned
    <2>1. b.of.by \in Harts /\ Owned(b) /\ b.part \in {"request", "mem", "response", "info"}
        BY <1>1, RequestFields DEF TypeOK, InvOwned
    <2>2. irq # "free_request" /\ irq # "free_response"
        BY <1>1
    <2>3. CASE b.of.by = g /\ b.of = r
        BY <1>1, <1>6, <1>9, <1>11, <2>1, <2>3 DEF Owned, hart_vars, r
    <2>4. CASE b.of.by # g
        BY <1>1, <1>11, <1>12, <2>1, <2>2, <2>4 DEF Owned, hart_vars
    <2>5. CASE b.of.by = g /\ b.of # r
        BY <1>11, <2>1, <2>2, <2>5 DEF Owned, r
    <2> QED
        BY <2>3, <2>4, <2>5
<1>25. InvShown'
    BY <1>1, <1>11 DEF InvShown, ShownSoFar, Answered, hart_vars, device_vars
<1> HIDE DEF Inv, L
<1> QED
    BY <1>0, <1>4, <1>5, <1>13, <1>14, <1>15, <1>17, <1>18, <1>19, <1>20, <1>21, <1>23, <1>24,
       <1>25 DEF Inv, L, p

-----------------------------------------------------------------------------
(* The theorems. *)

LEMMA InitIInv == Init => IInv
<1>0. ASSUME Inv(<<>>, 0, 0, 0, 0) PROVE IInv
    <2>1. <<>> \in Seq(Harts) /\ 0 \in Nat
        OBVIOUS
    <2> QED
        BY <1>0, <2>1, Zenon DEF IInv
<1> SUFFICES ASSUME Init PROVE Inv(<<>>, 0, 0, 0, 0)
    BY <1>0
<1>1. /\ QUEUE_SIZE \in Nat \ {0} /\ IDX_MOD \in Nat \ {0} /\ 0 \in Slots /\ 0 \in Harts
      /\ 0 % QUEUE_SIZE = 0 /\ 0 % IDX_MOD = 0
    BY GpuAssumption DEF Slots
<1>2. TypeOK
    BY <1>1, GpuAssumption DEF Init, TypeOK
<1>3. InvCalls
    <2>1. gpu_init \in InitCalls /\ gpu_init \in Calls /\ gpu_init # <<>> /\ Len(gpu_init) = 4
        BY DEF InitCalls, Calls, gpu_init
    <2>2. /\ call = [h \in Harts |-> IF h = 0 THEN gpu_init ELSE <<>>]
          /\ pc = [h \in Harts |-> IF h = 0 THEN "lock" ELSE "idle"]
          /\ nth = [h \in Harts |-> 1] /\ painted = [h \in Harts |-> 0]
          /\ displays = "unknown"
        BY DEF Init
    <2>3. /\ call \in [Harts -> Calls \cup {<<>>}] /\ nth \in [Harts -> Nat \ {0}]
        BY <2>1, <2>2
    <2>4. ASSUME NEW h \in Harts PROVE CallOK(h)
        <3>1. CASE h = 0
            <4>1. call[h] = gpu_init /\ pc[h] = "lock" /\ nth[h] = 1 /\ painted[h] = 0
                BY <2>2, <3>1
            <4>2. nth[h] + Len(call[h]) <= 5 + 2 * painted[h]
                <5>1. 1 + 4 <= 5 + 2 * 0
                    OBVIOUS
                <5> QED
                    BY <2>1, <4>1, <5>1, Zenon
            <4> QED
                BY <2>1, <2>2, <3>1, <4>1, <4>2, Zenon DEF CallOK
        <3>2. CASE h # 0
            <4>1. Len(call[h]) = 0 /\ call[h] = <<>> /\ pc[h] = "idle" /\ nth[h] = 1
                BY <2>2, <3>2
            <4> QED
                BY <2>2, <3>2, <4>1 DEF CallOK
        <3> QED
            BY <3>1, <3>2
    <2> QED
        BY <2>3, <2>4 DEF InvCalls
<1>4. \A h \in Harts : ~Written(h) /\ ~Answered(h) /\ pc[h] \in {"idle", "lock"}
    BY DEF Init, Written, Answered
<1>5. irq = "idle" /\ ~Handling
    BY DEF Init, Handling
<1>6. InvLock /\ InvQueue(<<>>, 0, 0, 0) /\ InvAnswers(<<>>, 0)
    BY <1>4 DEF InvLock, InvQueue, InvAnswers
<1>7. InvRings(<<>>, 0, 0, 0) /\ InvChains(<<>>, 0, 0)
    BY <1>1, <1>5 DEF Init, InvRings, InvChains, Acked
<1>8. InvHandler /\ InvLive /\ InvOwned
    BY <1>4, <1>5 DEF Init, InvHandler, InvLive, InvOwned
<1>9. InvShown
    <2>1. ASSUME NEW h \in Harts PROVE call[h] # gpu_flush /\ call[h] # <<"RESOURCE_FLUSH">>
        BY DEF Init, gpu_init, gpu_flush
    <2> QED
        BY <2>1 DEF Init, InvShown, ShownSoFar
<1> QED
    BY <1>2, <1>3, <1>6, <1>7, <1>8, <1>9 DEF Inv

LEMMA StutterKeeps ==
    ASSUME NEW w, NEW u, NEW e, NEW n, NEW s, Inv(w, u, e, n, s), UNCHANGED vars
    PROVE  Inv(w, u, e, n, s)'
<1> USE DEF vars, driver_vars, device_vars, irq_vars, hart_vars
<1>1. /\ \A h : Request(h)' = Request(h) /\ Size(h)' = Size(h)
      /\ \A h : Written(h)' <=> Written(h)
      /\ (Handling' <=> Handling) /\ Acked' = Acked
    BY DEF Request, Size, Written, Handling, Acked
<1>2. TypeOK' /\ InvCalls' /\ InvLock'
    BY DEF Inv, TypeOK, InvCalls, CallOK, InvLock
<1>3. InvQueue(w, u, e, n)' /\ InvRings(w, u, e, n)' /\ InvAnswers(w, u)'
    BY <1>1 DEF Inv, InvQueue, InvRings, InvAnswers
<1>4. InvChains(w, e, s)'
    BY <1>1 DEF Inv, InvChains, Holds
<1>5. InvHandler' /\ InvLive' /\ InvOwned'
    BY <1>1 DEF Inv, InvHandler, InvLive, InvOwned, Owned, Parts
<1>6. InvShown'
    BY <1>1 DEF Inv, InvShown, ShownSoFar, Answered
<1> QED
    BY <1>2, <1>3, <1>4, <1>5, <1>6 DEF Inv

LEMMA NextIInv == IInv /\ [Next]_vars => IInv'
<1> SUFFICES ASSUME NEW w \in Seq(Harts), NEW u \in Nat, NEW e \in Nat, NEW n \in Nat,
                    NEW s \in Nat, Inv(w, u, e, n, s), [Next]_vars
             PROVE  IInv'
    BY DEF IInv
<1>1. CASE UNCHANGED vars
    BY <1>1, StutterKeeps DEF IInv
<1>2. CASE ~wild /\ Perform
    <2>1. u + 1 \in Nat /\ Inv(w, u + 1, e, n, s)'
        BY <1>2, PerformStep
    <2> QED
        BY <2>1 DEF IInv
<1>3. CASE ~wild /\ Complete
    <2>1. u \in 1 .. Len(w) /\ e \in 1 .. Len(w) /\ Tail(w) \in Seq(Harts)
        BY <1>3, CompleteStep
    <2>2. u - 1 \in Nat /\ e - 1 \in Nat /\ n + 1 \in Nat
        BY <2>1
    <2>3. \E s1 \in Nat : Inv(Tail(w), u - 1, e - 1, n + 1, s1)'
        BY <1>3, CompleteStep
    <2> QED
        BY <2>1, <2>2, <2>3 DEF IInv
<1>4. CASE ~wild /\ (virtio_handle_irq \/ FreeRequest \/ FreeResponse \/ Acknowledge
                     \/ HandlerReturns)
    BY <1>4, FreeStep, AcknowledgeStep, IrqEdgeStep DEF IInv
<1>5. CASE \E h \in Harts : ~wild /\ (Fill(h) \/ Lock(h) \/ PollReturns(h))
    BY <1>5, FillStep, LockStep, PollReturnsStep DEF IInv
<1>6. CASE \E h \in Harts : ~wild /\ Enqueue(h)
    <2>1. PICK h \in Harts : ~wild /\ Enqueue(h)
        BY <1>6
    <2>2. Append(w, h) \in Seq(Harts) /\ Inv(Append(w, h), u, e, n, s)'
        BY <2>1, EnqueueStep
    <2> QED
        BY <2>2 DEF IInv
<1>7. CASE \E h \in Harts : ~wild /\ Publish(h)
    <2>1. e + 1 \in Nat /\ Inv(w, u, e + 1, n, s)'
        BY <1>7, PublishStep
    <2> QED
        BY <2>1 DEF IInv
<1> QED
    BY <1>1, <1>2, <1>3, <1>4, <1>5, <1>6, <1>7 DEF Next, Handler, Device, Caller

\* The writers in order, and all that follows from it, hold in every state.
THEOREM Invariance == Spec => []IInv
    BY InitIInv, NextIInv, PTL DEF Spec

\* Every variable of the driver and the device keeps its type, and no index leaves its ring.
THEOREM TypeCorrect == Spec => []TypeOK
<1>1. IInv => TypeOK
    BY DEF IInv, Inv
<1> QED
    BY <1>1, Invariance, PTL

\* No hart's descriptors reach a chain that the device still has: gpu_request takes them
\* round the queue without asking, and the polling of its callers is what keeps it right.
THEOREM ChainsIntactAlways == Spec => []ChainsIntact
<1>1. IInv => ChainsIntact
    BY ChainsAreIntact DEF IInv
<1> QED
    BY <1>1, Invariance, PTL

\* A hart that has returned from gpu_flush sees its own rectangle as it had painted it,
\* whatever other harts had on their way.
THEOREM ShownWhenReturnedAlways == Spec => []ShownWhenReturned
<1>1. IInv => ShownWhenReturned
    BY DEF IInv, Inv, InvShown, ShownSoFar, ShownWhenReturned
<1> QED
    BY <1>1, Invariance, PTL

\* The handler frees each request and response once, and they are the only blocks it
\* leaves to no one.
THEOREM BlocksOwnedAlways == Spec => []BlocksOwned
<1>1. IInv => BlocksOwned
    BY BlocksAreOwned DEF IInv
<1> QED
    BY <1>1, Invariance, PTL

-----------------------------------------------------------------------------
(* The refinement. *)

\* What waiting and answered are of RequestService.
InDevice == [k \in DOMAIN Waiting |-> queue_desc[Waiting[k]].of]
Done == {Request(h) : h \in {g \in Harts : pc[g] = "poll" /\ response[g] = Request(g)}}

DeviceHas(w, u, e, n, s) ==
    Inv(w, u, e, n, s) => InDevice = [k \in 1 .. e - u |-> Request(w[u + k])]

LEMMA InDeviceIs ==
    \A w \in Seq(Harts), u, e, n, s \in Nat : DeviceHas(w, u, e, n, s)
<1> SUFFICES ASSUME NEW w \in Seq(Harts), NEW u \in Nat, NEW e \in Nat, NEW n \in Nat,
                    NEW s \in Nat, Inv(w, u, e, n, s)
             PROVE  InDevice = [k \in 1 .. e - u |-> Request(w[u + k])]
    BY DEF DeviceHas
<1>0. /\ TypeOK /\ InvCalls /\ InvQueue(w, u, e, n) /\ InvRings(w, u, e, n)
      /\ InvChains(w, e, s)
    BY DEF Inv
<1>1. /\ DOMAIN Waiting = 1 .. e - u
      /\ \A k \in 1 .. e - u : u + k \in 1 .. Len(w) /\ Waiting[k] = first_idx[w[u + k]]
    <2>1. DOMAIN Waiting = 1 .. e - u
        BY <1>0, WaitingIs
    <2>2. \A k \in 1 .. e - u : u + k \in 1 .. Len(w) /\ Waiting[k] = first_idx[w[u + k]]
        BY <1>0, WaitingIs
    <2> QED
        BY <2>1, <2>2
<1>2. \A i \in 1 .. Len(w) : queue_desc[first_idx[w[i]]].of = Request(w[i])
    BY <1>0, ChainFound
<1>3. \A k \in 1 .. e - u : queue_desc[Waiting[k]].of = Request(w[u + k])
    BY <1>1, <1>2
<1> QED
    BY <1>1, <1>3 DEF InDevice

LEMMA InDeviceNext ==
    \A w \in Seq(Harts), u, e, n, s \in Nat :
        Inv(w, u, e, n, s)' => InDevice' = [k \in 1 .. e - u |-> Request(w[u + k])']
<1>1. (\A w \in Seq(Harts), u, e, n, s \in Nat : DeviceHas(w, u, e, n, s))'
    BY InDeviceIs, PTL
<1> QED
    BY <1>1 DEF DeviceHas

\* A step of which the device's requests see nothing.
LEMMA InDeviceKept ==
    ASSUME NEW w \in Seq(Harts), NEW u \in Nat, NEW e \in Nat, NEW n \in Nat, NEW s \in Nat,
           NEW w1 \in Seq(Harts), NEW u1 \in Nat, NEW e1 \in Nat, NEW n1 \in Nat, NEW s1 \in Nat,
           Inv(w, u, e, n, s), Inv(w1, u1, e1, n1, s1)', e1 - u1 = e - u,
           \A k \in 1 .. e - u : w1[u1 + k] = w[u + k] /\ Request(w[u + k])' = Request(w[u + k])
    PROVE  InDevice' = InDevice
<1>1. InDevice = [k \in 1 .. e - u |-> Request(w[u + k])]
    BY InDeviceIs DEF DeviceHas
<1>2. InDevice' = [k \in 1 .. e1 - u1 |-> Request(w1[u1 + k])']
    BY InDeviceNext
<1>3. \A k \in 1 .. e - u : Request(w1[u1 + k])' = Request(w[u + k])
    OBVIOUS
<1> QED
    BY <1>1, <1>2, <1>3

LEMMA DoneKept ==
    ASSUME \A g \in Harts : Answered(g)' <=> Answered(g),
           \A g \in Harts : Answered(g) => Request(g)' = Request(g)
    PROVE  Done' = Done
    BY DEF Done, Answered

\* Steps that are nothing to the callers.
LEMMA QuietSteps ==
    ASSUME NEW w \in Seq(Harts), NEW u \in Nat, NEW e \in Nat, NEW n \in Nat, NEW s \in Nat,
           Inv(w, u, e, n, s), ~wild,
           \/ \E h \in Harts : Fill(h) \/ Lock(h) \/ Enqueue(h)
           \/ virtio_handle_irq \/ Complete \/ FreeRequest \/ FreeResponse \/ Acknowledge
           \/ HandlerReturns
    PROVE  InDevice' = InDevice /\ Done' = Done
<1>1. /\ \A k \in 1 .. e - u : u + k \in 1 .. Len(w) /\ pc[w[u + k]] = "poll"
      /\ Len(w) \in Nat /\ \A i \in 1 .. Len(w) : w[i] \in Harts
    <2>1. Len(w) \in Nat /\ e <= Len(w) /\ \A i \in 1 .. Len(w) : w[i] \in Harts
        BY LenProperties, ElementOfSeq DEF Inv, InvQueue
    <2>2. \A k \in 1 .. e - u : u + k \in 1 .. Len(w) /\ u + k <= e
        BY <2>1
    <2> QED
        BY <2>1, <2>2 DEF Inv, InvQueue
<1>2. CASE \E h \in Harts : Fill(h) \/ Lock(h)
    <2>1. PICK h \in Harts : Fill(h) \/ Lock(h)
        BY <1>2
    <2>2. /\ pc[h] \in {"idle", "lock"} /\ pc'[h] # "poll" /\ response' = response
          /\ \A g \in Harts \ {h} : pc'[g] = pc[g] /\ Request(g)' = Request(g)
        <3>1. pc[h] \in {"idle", "lock"} /\ UNCHANGED <<response, nth>>
            BY <2>1 DEF Fill, Lock
        <3>2. pc'[h] # "poll" /\ \A g \in Harts \ {h} : pc'[g] = pc[g]
            BY <2>1 DEF Fill, Lock, Inv, TypeOK
        <3>3. \A g \in Harts \ {h} : call'[g] = call[g]
            BY <2>1 DEF Fill, Lock, Inv, InvCalls
        <3> QED
            BY <3>1, <3>2, <3>3 DEF Request
    <2>3. Inv(w, u, e, n, s)'
        BY <2>1, FillStep, LockStep
    <2>4. InDevice' = InDevice
        BY <1>1, <2>2, <2>3, InDeviceKept
    <2> QED
        BY <2>2, <2>4, DoneKept DEF Answered
<1>3. CASE \E h \in Harts : Enqueue(h)
    <2>1. PICK h \in Harts : Enqueue(h)
        BY <1>3
    <2>2. /\ pc[h] = "enqueue" /\ pc'[h] = "publish"
          /\ \A g \in Harts : Request(g)' = Request(g)
          /\ \A g \in Harts \ {h} : pc'[g] = pc[g] /\ response'[g] = response[g]
        BY <2>1 DEF Enqueue, Inv, TypeOK, Request
    <2>3. Append(w, h) \in Seq(Harts) /\ Inv(Append(w, h), u, e, n, s)'
        BY <2>1, EnqueueStep
    <2>4. \A i \in 1 .. Len(w) : Append(w, h)[i] = w[i]
        BY AppendProperties
    <2>5. InDevice' = InDevice
        BY <1>1, <2>2, <2>3, <2>4, InDeviceKept
    <2> QED
        BY <2>2, <2>5, DoneKept DEF Answered
<1>4. CASE Complete
    <2>1. /\ Tail(w) \in Seq(Harts) /\ u - 1 \in Nat /\ e - 1 \in Nat /\ n + 1 \in Nat
          /\ \A i \in 1 .. Len(w) - 1 : Tail(w)[i] = w[i + 1]
        BY <1>4, CompleteStep
    <2>2. PICK s1 \in Nat : Inv(Tail(w), u - 1, e - 1, n + 1, s1)'
        BY <1>4, CompleteStep
    <2>3. UNCHANGED <<pc, response, call, nth>>
        BY <1>4 DEF Complete, hart_vars
    <2>4. \A g \in Harts : Request(g)' = Request(g)
        BY <2>3 DEF Request
    <2>5. /\ \A k \in 1 .. e - u : Tail(w)[u - 1 + k] = w[u + k]
          /\ (e - 1) - (u - 1) = e - u
        <3>1. (e - 1) - (u - 1) = e - u
            OBVIOUS
        <3>2. ASSUME NEW k \in 1 .. e - u
              PROVE  u - 1 + k \in 1 .. Len(w) - 1 /\ (u - 1 + k) + 1 = u + k
            <4>1. u + k <= Len(w) /\ k >= 1
                BY <1>1
            <4>2. u >= 1
                BY <2>1
            <4> QED
                BY <1>1, <4>1, <4>2
        <3> QED
            BY <2>1, <3>1, <3>2
    <2>6. InDevice' = InDevice
        BY <1>1, <2>1, <2>2, <2>4, <2>5, InDeviceKept
    <2> QED
        BY <2>3, <2>4, <2>6, DoneKept DEF Answered
<1>5. CASE virtio_handle_irq \/ FreeRequest \/ FreeResponse \/ Acknowledge \/ HandlerReturns
    <2>1. Inv(w, u, e, n, s)'
        BY <1>5, FreeStep, AcknowledgeStep, IrqEdgeStep
    <2>2. UNCHANGED <<pc, response, call, nth>>
        BY <1>5
           DEF virtio_handle_irq, FreeRequest, FreeResponse, Acknowledge, HandlerReturns, hart_vars
    <2>3. \A g \in Harts : Request(g)' = Request(g)
        BY <2>2 DEF Request
    <2>4. InDevice' = InDevice
        BY <1>1, <2>1, <2>3, InDeviceKept
    <2> QED
        BY <2>2, <2>3, <2>4, DoneKept DEF Answered
<1> QED
    BY <1>2, <1>3, <1>4, <1>5

\* The steps of RequestService, in the words of this module.
LEMMA ServiceSteps ==
    /\ Service!Underway = {InDevice[k] : k \in DOMAIN InDevice} \cup Done
    /\ UNCHANGED Service!vars <=> InDevice' = InDevice /\ Done' = Done /\ wild' = wild
    /\ \A h : Service!Ask(h) <=>
          /\ ~wild /\ \A r \in Service!Underway : r.by # h
          /\ \E r \in Requests : r.by = h /\ InDevice' = Append(InDevice, r)
          /\ Done' = Done /\ wild' = wild
    /\ Service!Perform <=>
          /\ ~wild /\ InDevice # <<>>
          /\ Done' = Done \cup {Head(InDevice)} /\ InDevice' = Tail(InDevice) /\ wild' = wild
    /\ \A h : Service!Return(h) <=>
          /\ ~wild /\ \E r \in Done : r.by = h /\ Done' = Done \ {r}
          /\ InDevice' = InDevice /\ wild' = wild
    /\ Service!Break <=> wild' = TRUE /\ InDevice' = InDevice /\ Done' = Done
<1>1. /\ Service!Underway = {InDevice[k] : k \in DOMAIN InDevice} \cup Done
      /\ UNCHANGED Service!vars <=> InDevice' = InDevice /\ Done' = Done /\ wild' = wild
    BY DEF Service!Underway, Service!vars, InDevice, Done
<1>2. \A h : Service!Ask(h) <=>
          /\ ~wild /\ \A r \in Service!Underway : r.by # h
          /\ \E r \in Requests : r.by = h /\ InDevice' = Append(InDevice, r)
          /\ Done' = Done /\ wild' = wild
    BY DEF Service!Ask, InDevice, Done
<1>3. Service!Perform <=>
          /\ ~wild /\ InDevice # <<>>
          /\ Done' = Done \cup {Head(InDevice)} /\ InDevice' = Tail(InDevice) /\ wild' = wild
    BY DEF Service!Perform, InDevice, Done
<1>4. \A h : Service!Return(h) <=>
          /\ ~wild /\ \E r \in Done : r.by = h /\ Done' = Done \ {r}
          /\ InDevice' = InDevice /\ wild' = wild
    BY DEF Service!Return, InDevice, Done
<1>5. Service!Break <=> wild' = TRUE /\ InDevice' = InDevice /\ Done' = Done
    BY DEF Service!Break, InDevice, Done
<1> QED
    BY <1>1, <1>2, <1>3, <1>4, <1>5, Zenon

LEMMA PublishAsks ==
    ASSUME NEW w \in Seq(Harts), NEW u \in Nat, NEW e \in Nat, NEW n \in Nat, NEW s \in Nat,
           Inv(w, u, e, n, s), ~wild, NEW h \in Harts, Publish(h)
    PROVE  Service!Ask(h)
<1> DEFINE r == Request(h)
<1>1. /\ pc[h] = "publish" /\ pc'[h] = "poll" /\ UNCHANGED <<call, nth, response, wild>>
      /\ \A g \in Harts \ {h} : pc'[g] = pc[g]
    BY DEF Publish, Inv, TypeOK
<1>2. Len(w) = e + 1 /\ w[e + 1] = h /\ Inv(w, u, e + 1, n, s)'
    BY PublishStep
<1>3. \A g \in Harts : Request(g)' = Request(g)
    BY <1>1 DEF Request
<1>4. /\ u <= e /\ \A i \in 1 .. Len(w) : w[i] \in Harts
      /\ \A i \in 1 .. e : pc[w[i]] = "poll"
    BY <1>2, ElementOfSeq DEF Inv, InvQueue
<1>5. /\ InDevice = [k \in 1 .. e - u |-> Request(w[u + k])]
      /\ InDevice' = [k \in 1 .. e + 1 - u |-> Request(w[u + k])']
    <2>1. PICK e1 \in Nat : e1 = e + 1
        OBVIOUS
    <2>2. InDevice' = [k \in 1 .. e1 - u |-> Request(w[u + k])']
        BY <1>2, <2>1, InDeviceNext
    <2> QED
        BY <2>1, <2>2, InDeviceIs DEF DeviceHas
<1>6. InDevice' = Append(InDevice, r)
    <2>1. InDevice = [k \in 1 .. e - u |-> InDevice[k]] /\ e - u \in Nat
        BY <1>4, <1>5
    <2>2. \A k \in 1 .. e + 1 - u : Request(w[u + k])' = IF k = e + 1 - u THEN r ELSE InDevice[k]
        BY <1>2, <1>3, <1>4, <1>5
    <2>3. PICK m \in Nat : m = e - u /\ m + 1 = e + 1 - u
        BY <1>4
    <2>4. InDevice' = [k \in 1 .. m + 1 |-> IF k = m + 1 THEN r ELSE InDevice[k]]
        BY <1>5, <2>2, <2>3
    <2>5. Append(InDevice, r) = [k \in 1 .. m + 1 |-> IF k = m + 1 THEN r ELSE InDevice[k]]
        BY <2>1, <2>3
    <2> QED
        BY <2>4, <2>5
<1>7. Done' = Done
    <2>1. ~Answered(h) /\ ~Answered(h)'
        <3>1. response[h] # r
            BY <1>2, <1>4 DEF Inv, InvAnswers
        <3> QED
            BY <1>1, <1>3, <3>1 DEF Answered
    <2>2. \A g \in Harts : Answered(g)' <=> Answered(g)
        BY <1>1, <1>3, <2>1 DEF Answered
    <2> QED
        BY <1>3, <2>2, DoneKept
<1>8. r \in Requests /\ r.by = h
    BY <1>1, HartFacts, RequestFields DEF Inv
<1>9. /\ \A k \in DOMAIN InDevice : InDevice[k].by # h
      /\ \A q \in Done : q.by # h
    <2>1. \A k \in 1 .. e - u : u + k \in 1 .. e /\ InDevice[k].by = w[u + k]
        BY <1>4, <1>5, RequestFields
    <2>2. \A q \in Done : pc[q.by] = "poll"
        BY RequestFields DEF Done
    <2> QED
        BY <1>1, <1>4, <1>5, <2>1, <2>2
<1> HIDE DEF r
<1> QED
    BY <1>1, <1>6, <1>7, <1>8, <1>9, ServiceSteps

LEMMA PerformPerforms ==
    ASSUME NEW w \in Seq(Harts), NEW u \in Nat, NEW e \in Nat, NEW n \in Nat, NEW s \in Nat,
           Inv(w, u, e, n, s), ~wild, Perform
    PROVE  Service!Perform
<1> DEFINE g == w[u + 1]
           r == Request(g)
<1>1. UNCHANGED <<pc, call, nth, wild>>
    BY DEF Perform, hart_vars
<1>2. \A h \in Harts : Request(h)' = Request(h)
    BY <1>1 DEF Request
<1>3. /\ u + 1 \in 1 .. Len(w) /\ u < e /\ Inv(w, u + 1, e, n, s)'
      /\ response' = [response EXCEPT ![g] = r]
    BY PerformStep
<1>4. /\ Len(w) \in Nat /\ e <= Len(w) /\ \A i \in 1 .. Len(w) : w[i] \in Harts
      /\ \A i \in 1 .. e : pc[w[i]] = "poll"
    BY LenProperties, ElementOfSeq DEF Inv, InvQueue
<1>5. PICK m \in Nat : m = e - (u + 1) /\ m + 1 = e - u
    BY <1>3
<1>6. /\ InDevice = [k \in 1 .. m + 1 |-> Request(w[u + k])]
      /\ InDevice' = [k \in 1 .. m |-> Request(w[u + 1 + k])']
    <2>1. PICK u1 \in Nat : u1 = u + 1
        OBVIOUS
    <2>2. InDevice' = [k \in 1 .. e - u1 |-> Request(w[u1 + k])']
        BY <1>3, <2>1, InDeviceNext
    <2> QED
        BY <1>5, <2>1, <2>2, InDeviceIs DEF DeviceHas
<1>7. InDevice # <<>> /\ Head(InDevice) = r /\ InDevice' = Tail(InDevice)
    <2>1. \A k \in 1 .. m : Request(w[u + 1 + k])' = InDevice[k + 1]
        <3>1. ASSUME NEW k \in 1 .. m PROVE u + 1 + k \in 1 .. Len(w) /\ u + 1 + k = u + (k + 1)
            BY <1>3, <1>4, <1>5
        <3>2. \A k \in 1 .. m : Request(w[u + 1 + k])' = Request(w[u + 1 + k])
            BY <1>2, <1>4, <3>1
        <3>3. \A k \in 1 .. m : k + 1 \in 1 .. m + 1
            OBVIOUS
        <3>4. \A k \in 1 .. m : InDevice[k + 1] = Request(w[u + (k + 1)])
            BY <1>6, <3>3
        <3> QED
            BY <3>1, <3>2, <3>4
    <2>2. InDevice' = [k \in 1 .. m |-> InDevice[k + 1]]
        BY <1>6, <2>1
    <2>3. InDevice[1] = r
        BY <1>6
    <2>4. InDevice \in Seq(Requests) /\ Len(InDevice) = m + 1
        <3>1. \A k \in 1 .. m + 1 : Request(w[u + k]) \in Requests
            <4>1. \A k \in 1 .. m + 1 : u + k \in 1 .. Len(w) /\ u + k \in 1 .. e
                BY <1>4, <1>5
            <4> QED
                BY <1>4, <4>1, HartFacts DEF Inv
        <3> QED
            BY <1>6, <3>1
    <2>5. InDevice # <<>> /\ Head(InDevice) = InDevice[1]
        BY <2>4
    <2>6. Tail(InDevice) = [k \in 1 .. m |-> InDevice[k + 1]]
        <3>1. /\ Tail(InDevice) \in Seq(Requests) /\ Len(Tail(InDevice)) = m
              /\ \A k \in 1 .. m : Tail(InDevice)[k] = InDevice[k + 1]
            BY <2>4, <2>5, HeadTailProperties
        <3>2. Tail(InDevice) = [k \in 1 .. m |-> Tail(InDevice)[k]]
            BY <3>1, LenProperties
        <3> QED
            BY <3>1, <3>2
    <2> QED
        BY <2>2, <2>3, <2>5, <2>6
<1>8. Done' = Done \cup {r}
    <2>1. g \in Harts /\ pc[g] = "poll" /\ response \in [Harts -> Requests \cup {NoRequest}]
        <3>1. u + 1 \in 1 .. e
            BY <1>3
        <3> QED
            BY <1>3, <1>4, <3>1 DEF Inv, TypeOK
    <2>2. Answered(g)'
        BY <1>1, <1>2, <1>3, <2>1 DEF Answered
    <2>3. \A h \in Harts \ {g} : Answered(h)' <=> Answered(h)
        BY <1>1, <1>2, <1>3, <2>1 DEF Answered
    <2>4. {h \in Harts : Answered(h)'} = {h \in Harts : Answered(h)} \cup {g}
        BY <2>1, <2>2, <2>3
    <2>5. Done = {Request(h) : h \in {f \in Harts : Answered(f)}}
        BY DEF Done, Answered
    <2>6. Done' = {Request(h) : h \in {f \in Harts : Answered(f)'}}
        BY <1>2 DEF Done, Answered
    <2> QED
        BY <2>4, <2>5, <2>6
<1> HIDE DEF g, r
<1> QED
    BY <1>1, <1>7, <1>8, ServiceSteps

LEMMA PollReturnsReturns ==
    ASSUME NEW w \in Seq(Harts), NEW u \in Nat, NEW e \in Nat, NEW n \in Nat, NEW s \in Nat,
           Inv(w, u, e, n, s), ~wild, NEW h \in Harts, PollReturns(h)
    PROVE  Service!Return(h)
<1> DEFINE r == Request(h)
<1>1. /\ pc[h] = "poll" /\ complete[h] /\ pc'[h] # "poll" /\ UNCHANGED <<response, wild>>
      /\ \A g \in Harts \ {h} : pc'[g] = pc[g] /\ call'[g] = call[g] /\ nth'[g] = nth[g]
    <2>1. UNCHANGED <<response, wild>> /\ pc[h] = "poll" /\ complete[h]
        BY DEF PollReturns
    <2>2. pc'[h] # "poll" /\ \A g \in Harts \ {h} : pc'[g] = pc[g]
        BY DEF PollReturns, Inv, TypeOK
    <2>3. \A g \in Harts \ {h} : call'[g] = call[g] /\ nth'[g] = nth[g]
        BY DEF PollReturns, Inv, InvCalls
    <2> QED
        BY <2>1, <2>2, <2>3
<1>2. \A g \in Harts \ {h} : Request(g)' = Request(g) /\ (Answered(g)' <=> Answered(g))
    BY <1>1 DEF Request, Answered
<1>3. InDevice' = InDevice
    <2>1. /\ Len(w) \in Nat /\ e <= Len(w) /\ \A i \in 1 .. Len(w) : w[i] \in Harts \ {h}
        <3>1. Len(w) \in Nat /\ \A i \in 1 .. Len(w) : w[i] \in Harts
            BY LenProperties, ElementOfSeq
        <3>2. e <= Len(w) /\ \A i \in 1 .. Len(w) : ~complete[w[i]]
            BY DEF Inv, InvQueue
        <3> QED
            BY <1>1, <3>1, <3>2
    <2>2. Inv(w, u, e, n, s)'
        BY PollReturnsStep
    <2>3. \A k \in 1 .. e - u : u + k \in 1 .. Len(w)
        BY <2>1
    <2> QED
        BY <1>2, <2>1, <2>2, <2>3, InDeviceKept
<1>4. Answered(h) /\ ~Answered(h)'
    BY <1>1 DEF Inv, InvAnswers, Answered
<1>5. r \in Done /\ r.by = h /\ Done' = Done \ {r}
    <2>1. {g \in Harts : Answered(g)'} = {g \in Harts : Answered(g)} \ {h}
        BY <1>2, <1>4
    <2>2. Done = {Request(g) : g \in {f \in Harts : Answered(f)}}
        BY DEF Done, Answered
    <2>3. Done' = {Request(g) : g \in {f \in Harts : Answered(f)} \ {h}}
        <3>1. Done' = {Request(g)' : g \in {f \in Harts : Answered(f)'}}
            BY DEF Done, Answered
        <3> QED
            BY <1>2, <2>1, <3>1
    <2>4. \A g \in Harts \ {h} : Request(g) # r
        BY RequestFields
    <2>5. r \in Done /\ r.by = h
        BY <1>4, <2>2, RequestFields
    <2> QED
        BY <2>2, <2>3, <2>4, <2>5
<1> HIDE DEF r
<1> QED
    BY <1>1, <1>3, <1>5, ServiceSteps

\* gpu_request implements RequestService step by step: the requests of all harts are
\* performed once each and in the order of their avail_idx, and a hart returns from its
\* own after that, up to the first read of freed memory.
THEOREM ImplementsRequestService ==
    Spec => ServiceSafety
<1>1. Init => Service!Init
    <2> SUFFICES ASSUME Init PROVE InDevice = <<>> /\ Done = {} /\ wild = FALSE
        BY DEF Service!Init, InDevice, Done
    <2>1. PICK w \in Seq(Harts), u \in Nat, e \in Nat, n \in Nat, s \in Nat : Inv(w, u, e, n, s)
        BY InitIInv DEF IInv
    <2>2. \A h \in Harts : pc[h] # "poll" /\ pc[h] # "publish"
        BY DEF Init
    <2>3. e = 0 /\ u = 0
        <3>1. Len(w) \in Nat /\ \A i \in 1 .. Len(w) : w[i] \in Harts
            BY LenProperties, ElementOfSeq
        <3>2. /\ u <= e /\ e <= Len(w)
              /\ \A i \in 1 .. Len(w) : pc[w[i]] = IF i <= e THEN "poll" ELSE "publish"
            BY <2>1 DEF Inv, InvQueue
        <3>3. ~(1 \in 1 .. Len(w))
            BY <2>2, <3>1, <3>2
        <3> QED
            BY <3>1, <3>2, <3>3
    <2>4. InDevice = [k \in 1 .. 0 |-> Request(w[u + k])]
        BY <2>1, <2>3, InDeviceIs DEF DeviceHas
    <2>5. InDevice = <<>>
        BY <2>4
    <2>6. Done = {}
        BY <2>2 DEF Done
    <2> QED
        BY <2>5, <2>6 DEF Init
<1>2. IInv /\ [Next]_vars => [Service!Next]_Service!vars
    <2> SUFFICES ASSUME NEW w \in Seq(Harts), NEW u \in Nat, NEW e \in Nat, NEW n \in Nat,
                        NEW s \in Nat, Inv(w, u, e, n, s), [Next]_vars
                 PROVE  Service!Next \/ UNCHANGED Service!vars
        BY DEF IInv
    <2>1. CASE UNCHANGED vars
        <3>1. InDevice' = InDevice /\ Done' = Done /\ wild' = wild
            BY <2>1
               DEF vars, driver_vars, device_vars, hart_vars, InDevice, Done, Waiting, Request
        <3> QED
            BY <3>1, ServiceSteps
    <2>2. CASE ~wild /\ \E h \in Harts : Publish(h) \/ PollReturns(h)
        <3>1. \E h \in Harts : Service!Ask(h) \/ Service!Return(h)
            BY <2>2, PublishAsks, PollReturnsReturns
        <3> QED
            BY <3>1 DEF Service!Next
    <2>3. CASE ~wild /\ Perform
        <3>1. Service!Perform
            BY <2>3, PerformPerforms
        <3> QED
            BY <3>1 DEF Service!Next
    <2>4. CASE /\ ~wild
               /\ \/ \E h \in Harts : Fill(h) \/ Lock(h) \/ Enqueue(h)
                  \/ virtio_handle_irq \/ Complete \/ FreeRequest \/ FreeResponse \/ Acknowledge
                  \/ HandlerReturns
        <3>1. InDevice' = InDevice /\ Done' = Done
            BY <2>4, QuietSteps
        <3>2. wild' = wild \/ wild' = TRUE
            BY <2>4
               DEF Fill, Lock, Enqueue, virtio_handle_irq, Complete, FreeRequest, FreeResponse,
                   Acknowledge, HandlerReturns, ReadReqInfo
        <3>3. Service!Break \/ UNCHANGED Service!vars
            BY <3>1, <3>2, ServiceSteps
        <3> QED
            BY <3>3 DEF Service!Next
    <2> QED
        BY <2>1, <2>2, <2>3, <2>4 DEF Next, Handler, Device, Caller
<1> QED
    BY <1>1, <1>2, Invariance, PTL DEF Spec, ServiceSafety
=============================================================================
