----------------------------- MODULE InputProofs -----------------------------
(***************************************************************************)
(* The invariants of Input, for any devices, queue sizes, readers and      *)
(* numbers of events, and its ring as an implementation of DropOldest; and *)
(* those of Paint, for any screen, brush and reports of the tablet.        *)
(*                                                                         *)
(* The indices of a virtqueue wrap at 2^16.  The proof unwraps them: they  *)
(* are made, the events the device has produced, and Acked, those that the *)
(* handler has done with, modulo IDX_MOD.                                  *)
(***************************************************************************)
EXTENDS Paint, ListLemmas

-----------------------------------------------------------------------------
(* The ring is a queue. *)

Entry == AnEvent \cup {NoEvent}
Ring == [buffer : [0 .. EVENT_BUFFER_SIZE - 1 -> Entry],
         idx : 0 .. EVENT_BUFFER_SIZE - 1,
         size : 0 .. EVENT_BUFFER_SIZE - 1]

LEMMA EventsType ==
    ASSUME NEW r \in Ring
    PROVE  /\ Events(r) = Window(r.buffer, r.idx, r.size, EVENT_BUFFER_SIZE)
           /\ Events(r) \in Seq(Entry)
           /\ Len(Events(r)) = r.size
           /\ r.size = 0 <=> Events(r) = <<>>
<1> DEFINE N == EVENT_BUFFER_SIZE
<1>1. /\ r.buffer \in [0 .. N - 1 -> Entry] /\ r.idx \in 0 .. N - 1 /\ r.size \in Nat
      /\ N \in Nat \ {0}
    BY EventRingAssumption DEF Ring
<1>2. Events(r) = Window(r.buffer, r.idx, r.size, N)
    BY DEF Events, Window
<1>3. \A b \in [0 .. N - 1 -> Entry], i \in 0 .. N - 1, n \in Nat :
          Window(b, i, n, N) \in Seq(Entry) /\ Len(Window(b, i, n, N)) = n
    BY <1>1, WindowType
<1>4. Events(r) \in Seq(Entry) /\ Len(Events(r)) = r.size
    BY <1>1, <1>2, <1>3
<1> QED
    BY <1>2, <1>4, EmptySeq

\* An event pushed goes to the end; the first one leaves if all slots but one are used.
LEMMA PushAppends ==
    ASSUME NEW r \in Ring, NEW e \in Entry
    PROVE  /\ event_push(r, e) \in Ring
           /\ IsAppended(Events(event_push(r, e)),
                         IF r.size < EVENT_BUFFER_SIZE - 1 THEN Events(r)
                         ELSE Tail(Events(r)), e)
<1> DEFINE N == EVENT_BUFFER_SIZE
           full == r.size = N - 1
           w == event_push(r, e)
           idx == IF full THEN (r.idx + 1) % N ELSE r.idx
           n == IF full THEN r.size - 1 ELSE r.size
           at == (r.idx + r.size) % N
           b == [r.buffer EXCEPT ![at] = e]
<1>1. /\ r.buffer \in [0 .. N - 1 -> Entry] /\ r.idx \in 0 .. N - 1 /\ r.size \in 0 .. N - 1
      /\ N \in Nat \ {0} /\ N >= 2
    BY EventRingAssumption DEF Ring
<1>2. idx \in 0 .. N - 1 /\ n \in 0 .. N - 2 /\ at \in 0 .. N - 1
    <2>1. (r.idx + 1) % N \in 0 .. N - 1 /\ (r.idx + r.size) % N \in 0 .. N - 1
        BY <1>1
    <2>2. n \in 0 .. N - 2
        BY <1>1
    <2> QED
        BY <1>1, <2>1, <2>2
<1>3. w = [buffer |-> b, idx |-> idx, size |-> n + 1]
    <2>1. w = [buffer |-> b, idx |-> idx, size |-> IF full THEN r.size ELSE r.size + 1]
        BY DEF event_push
    <2>2. (IF full THEN r.size ELSE r.size + 1) = n + 1
        BY <1>1
    <2> HIDE DEF w, b, idx, n, full
    <2> QED
        BY <2>1, <2>2
<1>4. Window(r.buffer, idx, n, N) = IF full THEN Tail(Events(r)) ELSE Events(r)
    <2>1. Events(r) = Window(r.buffer, r.idx, r.size, N)
        BY EventsType
    <2>2. CASE full
        <3>1. r.size \in 1 .. N
            BY <1>1, <2>2
        <3>2. \A c1 \in [0 .. N - 1 -> Entry], i \in 0 .. N - 1, m \in 1 .. N :
                  Window(c1, (i + 1) % N, m - 1, N) = Tail(Window(c1, i, m, N))
            BY <1>1, WindowTail
        <3>3. Window(r.buffer, (r.idx + 1) % N, r.size - 1, N)
                = Tail(Window(r.buffer, r.idx, r.size, N))
            BY <1>1, <3>1, <3>2
        <3> QED
            BY <2>1, <2>2, <3>3
    <2>3. CASE ~full
        BY <2>1, <2>3
    <2> QED
        BY <2>2, <2>3
<1>5. (idx + n) % N = at
    <2>1. CASE full
        <3>1. N % N = 0
            BY <1>1
        <3>2. PICK x \in Int, k \in Int : x = r.idx + 1 /\ k = r.size - 1
            BY <1>1
        <3>3. ((x % N) + k) % N = (x + k) % N
            <4>1. N \in Nat \ {0}
                BY <1>1
            <4> HIDE DEF N, at, idx, n, full
            <4> QED
                BY <3>1, <4>1, ModOfIndex
        <3>4. x + k = r.idx + r.size
            <4>1. r.idx \in Int /\ r.size \in Int
                BY <1>1
            <4> HIDE DEF N, at, idx, n, full
            <4> QED
                BY <3>2, <4>1
        <3> QED
            BY <2>1, <3>2, <3>3, <3>4
    <2>2. CASE ~full
        BY <2>2
    <2> QED
        BY <2>1, <2>2
<1> HIDE DEF idx, n, full, at
<1>6. b \in [0 .. N - 1 -> Entry]
    BY <1>1
<1>7. IsAppended(Window(b, idx, n + 1, N), Window(r.buffer, idx, n, N), e)
    <2>1. b[at] = e /\ \A k \in 0 .. N - 1 : k # at => b[k] = r.buffer[k]
        BY <1>1, <1>2
    <2>2. n \in 0 .. N - 1
        BY <1>1, <1>2
    <2> HIDE DEF b
    <2> QED
        BY <1>1, <1>2, <1>5, <1>6, <2>1, <2>2, WindowAppend
<1> HIDE DEF b
<1>8. w \in Ring
    <2>1. n + 1 \in 0 .. N - 1
        BY <1>1, <1>2
    <2> QED
        BY <1>1, <1>2, <1>3, <1>6, <2>1 DEF Ring
<1>9. Events(w) = Window(b, idx, n + 1, N)
    BY <1>3 DEF Events, Window
<1>10. full <=> ~(r.size < N - 1)
    BY <1>1 DEF full
<1> QED
    BY <1>4, <1>7, <1>8, <1>9, <1>10

\* An event popped is the first, and leaves the ring.
LEMMA PopTakes ==
    ASSUME NEW r \in Ring
    PROVE  /\ event_after_pop(r) \in Ring
           /\ IF r.size = 0
              THEN event_pop(r) = NoEvent /\ event_after_pop(r) = r
              ELSE /\ event_pop(r) = Head(Events(r))
                   /\ Events(event_after_pop(r)) = Tail(Events(r))
<1> DEFINE N == EVENT_BUFFER_SIZE
           g == event_after_pop(r)
<1>1. /\ r.buffer \in [0 .. N - 1 -> Entry] /\ r.idx \in 0 .. N - 1 /\ r.size \in 0 .. N - 1
      /\ N \in Nat \ {0}
    BY EventRingAssumption DEF Ring
<1>2. CASE r.size = 0
    BY <1>2 DEF event_pop, event_after_pop
<1>3. CASE r.size # 0
    <2>1. /\ g = [r EXCEPT !.idx = (@ + 1) % N, !.size = @ - 1]
          /\ event_pop(r) = r.buffer[r.idx % N]
        BY <1>3 DEF event_pop, event_after_pop
    <2>a. r.idx % N = r.idx
        BY <1>1
    <2>2. g.buffer = r.buffer /\ g.idx = (r.idx + 1) % N /\ g.size = r.size - 1
        BY <2>1 DEF Ring
    <2>3. (r.idx + 1) % N \in 0 .. N - 1 /\ r.size - 1 \in 0 .. N - 1 /\ r.size \in 1 .. N
        BY <1>1, <1>3
    <2>4. g \in Ring
        <3>1. g = [buffer |-> r.buffer, idx |-> (r.idx + 1) % N, size |-> r.size - 1]
            BY <2>1 DEF Ring
        <3> QED
            BY <1>1, <2>3, <3>1 DEF Ring
    <2>5. /\ Events(r) = Window(r.buffer, r.idx, r.size, N)
          /\ Events(g) = Window(r.buffer, (r.idx + 1) % N, r.size - 1, N)
        BY <2>2, <2>4, EventsType
    <2>6. \A c1 \in [0 .. N - 1 -> Entry], i \in 0 .. N - 1, m \in 1 .. N :
              /\ Head(Window(c1, i, m, N)) = c1[i]
              /\ Window(c1, (i + 1) % N, m - 1, N) = Tail(Window(c1, i, m, N))
        BY <1>1, WindowTail
    <2>7. Head(Events(r)) = r.buffer[r.idx] /\ Events(g) = Tail(Events(r))
        <3>1. /\ Head(Window(r.buffer, r.idx, r.size, N)) = r.buffer[r.idx]
              /\ Window(r.buffer, (r.idx + 1) % N, r.size - 1, N)
                    = Tail(Window(r.buffer, r.idx, r.size, N))
            <4> HIDE DEF N
            <4> QED
                BY <1>1, <2>3, <2>6
        <3> QED
            BY <2>5, <3>1
    <2> QED
        BY <1>3, <2>1, <2>a, <2>4, <2>7
<1> QED
    BY <1>2, <1>3

-----------------------------------------------------------------------------
(* Events in order. *)

LEMMA AnEventType ==
    /\ \A e \in AnEvent : /\ e.from \in Device /\ e.nth \in 1 .. MaxMade[e.from] /\ e.nth \in Nat
                         /\ e = Event(e.from, e.nth)
    /\ \A d \in Device : \A n \in 1 .. MaxMade[d] : Event(d, n) \in AnEvent
    /\ NoEvent \notin AnEvent
    /\ \A d \in Device : MaxMade[d] \in Nat
<1>1. \A d \in Device : MaxMade[d] \in Nat
    BY InputAssumption
<1>2. ASSUME NEW e \in AnEvent
      PROVE  \E d \in Device : \E n \in 1 .. MaxMade[d] : e = [from |-> d, nth |-> n]
    <2>1. PICK d \in Device : e \in [from : {d}, nth : 1 .. MaxMade[d]]
        BY DEF AnEvent
    <2> QED
        BY <2>1
<1>3. ASSUME NEW e \in AnEvent
      PROVE  e.from \in Device /\ e.nth \in 1 .. MaxMade[e.from] /\ e.nth \in Nat
             /\ e = Event(e.from, e.nth)
    <2>1. PICK d \in Device : \E n \in 1 .. MaxMade[d] : e = [from |-> d, nth |-> n]
        BY <1>2
    <2>2. PICK n \in 1 .. MaxMade[d] : e = [from |-> d, nth |-> n]
        BY <2>1
    <2> QED
        BY <1>1, <2>2 DEF Event
<1>4. ASSUME NEW d \in Device, NEW n \in 1 .. MaxMade[d] PROVE Event(d, n) \in AnEvent
    <2>1. Event(d, n) \in [from : {d}, nth : 1 .. MaxMade[d]]
        BY DEF Event
    <2> QED
        BY <2>1 DEF AnEvent
<1>5. NoEvent \notin AnEvent
    BY <1>2, InputAssumption
<1> QED
    BY <1>1, <1>3, <1>4, <1>5

\* Those of a device are in order, behind the last one popped of it, and not past the
\* last one pushed.
Ordered(held, last, most) ==
    \A i \in 1 .. Len(held) :
        /\ held[i] \in AnEvent
        /\ held[i].nth > last[held[i].from]
        /\ held[i].nth <= most[held[i].from]
        /\ \A j \in 1 .. i - 1 : held[j].from = held[i].from => held[j].nth < held[i].nth

LEMMA OrderedPush ==
    ASSUME NEW held \in Seq(Entry), NEW last \in [Device -> Nat], NEW most \in [Device -> Nat],
           Ordered(held, last, most), NEW d \in Device, last[d] <= most[d],
           NEW e \in AnEvent, e = Event(d, most[d] + 1),
           NEW after, IsAppended(after, held, e)
    PROVE  Ordered(after, last, [most EXCEPT ![d] = @ + 1])
<1> DEFINE n == Len(held)
           m == [most EXCEPT ![d] = @ + 1]
<1>1. /\ n \in Nat /\ Len(after) = n + 1 /\ after[n + 1] = e
      /\ \A i \in 1 .. n : after[i] = held[i]
    <2>1. e \in Entry
        BY DEF Entry
    <2> QED
        BY <2>1, LenProperties, AppendProperties DEF IsAppended
<1>2. e.from = d /\ e.nth = most[d] + 1
    BY DEF Event
<1>3. \A f \in Device : most[f] \in Nat /\ last[f] \in Nat /\ m[f] \in Nat
                         /\ m[f] = IF f = d THEN most[f] + 1 ELSE most[f]
    OBVIOUS
<1> HIDE DEF n, m
<1>4. ASSUME NEW i \in 1 .. n
      PROVE  /\ held[i] \in AnEvent /\ held[i].from \in Device /\ held[i].nth \in Nat
             /\ held[i].nth > last[held[i].from]
             /\ held[i].nth <= most[held[i].from]
             /\ \A j \in 1 .. i - 1 : held[j].from = held[i].from => held[j].nth < held[i].nth
    BY AnEventType DEF Ordered, n
<1>5. ASSUME NEW i \in 1 .. n + 1
      PROVE  /\ after[i] \in AnEvent
             /\ after[i].nth > last[after[i].from]
             /\ after[i].nth <= m[after[i].from]
             /\ \A j \in 1 .. i - 1 :
                    after[j].from = after[i].from => after[j].nth < after[i].nth
    <2>1. CASE i \in 1 .. n
        <3>1. after[i] = held[i] /\ \A j \in 1 .. i - 1 : after[j] = held[j]
            BY <1>1, <2>1
        <3>2. most[held[i].from] <= m[held[i].from]
            BY <1>3, <1>4, <2>1
        <3>3. held[i].nth <= m[held[i].from]
            BY <1>3, <1>4, <2>1, <3>2
        <3> QED
            BY <1>4, <2>1, <3>1, <3>3
    <2>2. CASE i = n + 1
        <3>1. after[i] = e /\ m[d] = most[d] + 1 /\ i - 1 = n
            BY <1>1, <1>3, <2>2
        <3>2. ASSUME NEW j \in 1 .. n, after[j].from = d PROVE after[j].nth < e.nth
            <4>1. after[j] = held[j] /\ held[j].nth <= most[d] /\ held[j].nth \in Nat
                BY <1>1, <1>4, <3>2
            <4> QED
                BY <1>2, <1>3, <4>1
        <3>3. e.nth > last[d] /\ e.nth <= m[d]
            BY <1>2, <1>3, <3>1
        <3> QED
            BY <1>2, <3>1, <3>2, <3>3
    <2> QED
        BY <1>1, <2>1, <2>2
<1> QED
    BY <1>1, <1>5 DEF Ordered, m

LEMMA OrderedTail ==
    ASSUME NEW held \in Seq(Entry), held # <<>>,
           NEW last \in [Device -> Nat], NEW most \in [Device -> Nat],
           Ordered(held, last, most)
    PROVE  /\ Head(held) \in AnEvent /\ Head(held).nth <= most[Head(held).from]
           /\ Ordered(Tail(held), last, most)
           /\ Ordered(Tail(held), [last EXCEPT ![Head(held).from] = Head(held).nth], most)
<1> DEFINE n == Len(held) - 1
           t == Tail(held)
           h == Head(held)
           l == [last EXCEPT ![h.from] = h.nth]
<1>1. /\ n \in Nat /\ Len(held) = n + 1 /\ Len(t) = n /\ h = held[1]
      /\ \A i \in 1 .. n : t[i] = held[i + 1]
    BY EmptySeq, HeadTailProperties
<1> HIDE DEF n, t, h
<1>2. ASSUME NEW i \in 1 .. n + 1
      PROVE  /\ held[i] \in AnEvent /\ held[i].from \in Device /\ held[i].nth \in Nat
             /\ held[i].nth > last[held[i].from]
             /\ held[i].nth <= most[held[i].from]
             /\ \A j \in 1 .. i - 1 : held[j].from = held[i].from => held[j].nth < held[i].nth
    BY <1>1, AnEventType DEF Ordered
<1>3. /\ h \in AnEvent /\ h.from \in Device /\ h.nth \in Nat /\ h.nth <= most[h.from]
    BY <1>1, <1>2
<1>4. \A f \in Device : l[f] = IF f = h.from THEN h.nth ELSE last[f]
    OBVIOUS
<1> HIDE DEF l
<1>5. ASSUME NEW i \in 1 .. n
      PROVE  /\ t[i] \in AnEvent
             /\ t[i].nth > last[t[i].from]
             /\ t[i].nth > l[t[i].from]
             /\ t[i].nth <= most[t[i].from]
             /\ \A j \in 1 .. i - 1 : t[j].from = t[i].from => t[j].nth < t[i].nth
    <2>1. t[i] = held[i + 1] /\ i + 1 \in 1 .. n + 1 /\ \A j \in 1 .. i - 1 : j + 1 \in 1 .. (i + 1) - 1
        BY <1>1
    <2>2. \A j \in 1 .. i - 1 : t[j] = held[j + 1]
        BY <1>1
    <2>3. t[i].from = h.from => t[i].nth > h.nth
        <3>1. 1 \in 1 .. (i + 1) - 1
            BY <1>1
        <3>2. held[1].from = held[i + 1].from => held[1].nth < held[i + 1].nth
            BY <1>2, <2>1, <3>1
        <3> QED
            BY <1>1, <1>2, <1>3, <2>1, <3>2
    <2>4. /\ t[i] \in AnEvent /\ t[i].from \in Device /\ t[i].nth \in Nat
          /\ t[i].nth > last[t[i].from] /\ t[i].nth <= most[t[i].from]
          /\ \A j \in 1 .. (i + 1) - 1 :
                held[j].from = t[i].from => held[j].nth < t[i].nth
        BY <1>2, <2>1
    <2>5. \A j \in 1 .. i - 1 : t[j].from = t[i].from => t[j].nth < t[i].nth
        BY <2>1, <2>2, <2>4
    <2>6. t[i].nth > l[t[i].from]
        BY <1>4, <2>3, <2>4
    <2> QED
        BY <2>4, <2>5, <2>6
<1> QED
    BY <1>1, <1>3, <1>5 DEF Ordered, t, h, l

-----------------------------------------------------------------------------
(* The inductive invariant. *)

\* The events the handler has done with.
Acked(d) == pushed[d] - InHand(d)

Counts ==
    /\ made \in [Device -> Nat] /\ pushed \in [Device -> Nat] /\ latest \in [Device -> Nat]
    /\ \A d \in Device :
          /\ latest[d] <= pushed[d] /\ pushed[d] <= made[d]
          /\ Acked(d) \in Nat /\ made[d] <= Acked(d) + QUEUE_SIZE

Indices ==
    \A d \in Device :
        /\ used_idx[d] = made[d] % IDX_MOD
        /\ last_avail[d] = made[d] % IDX_MOD
        /\ ack_idx[d] = Acked(d) % IDX_MOD
        /\ avail_idx[d] = (Acked(d) + QUEUE_SIZE) % IDX_MOD

\* Every event that is not acknowledged is in its buffer.
Buffers ==
    \A d \in Device : \A n \in Nat :
        Acked(d) <= n /\ n < made[d] =>
            /\ used_ring[d][n % QUEUE_SIZE] = n % QUEUE_SIZE
            /\ event_buffer[d][n % QUEUE_SIZE] = Event(d, n + 1)

Handling ==
    pc = "push" => pushed[device] < made[device] /\ event = Event(device, pushed[device] + 1)

InOrder == Ordered(Events(ring), latest, pushed)

IInv == TypeOK /\ Counts /\ Indices /\ Buffers /\ Handling /\ InOrder /\ WithinUserBuffer

LEMMA Constants ==
    /\ QUEUE_SIZE \in Nat \ {0} /\ IDX_MOD \in Nat \ {0} /\ IDX_MOD % QUEUE_SIZE = 0
    /\ QUEUE_SIZE < IDX_MOD
    /\ Device # {} /\ Devices[1] \in Device
    /\ MaxMade \in [Device -> Nat]
<1>1. Devices \in Seq(Device) /\ Devices # <<>>
    BY InputAssumption
<1>2. Devices[1] \in Device
    BY <1>1, EmptySeq, ElementOfSeq
<1> QED
    BY <1>2, InputAssumption

LEMMA IndexOfSlot == \A x \in Int : (x % IDX_MOD) % QUEUE_SIZE = x % QUEUE_SIZE
<1> QED
    BY Constants, ModTwice

LEMMA IndexMovedOn ==
    \A x \in Int, k \in Int : ((x % IDX_MOD) + k) % QUEUE_SIZE = (x + k) % QUEUE_SIZE
<1> QED
    BY Constants, ModOfIndex

LEMMA IndexDistance ==
    \A x \in Int, y \in Int :
        y - x \in 0 .. IDX_MOD - 1 => ((y % IDX_MOD) - (x % IDX_MOD)) % IDX_MOD = y - x
<1> QED
    BY Constants, ModDifference

LEMMA RingOfType == TypeOK => ring \in Ring
<1> QED
    BY DEF TypeOK, Ring, Entry

LEMMA InitIInv == Init => IInv
<1> SUFFICES ASSUME Init PROVE IInv
    OBVIOUS
<1> USE DEF Init
<1>1. ring \in Ring /\ Len(Events(ring)) = 0
    <2>1. EmptyRing \in Ring /\ EmptyRing.size = 0
        BY EventRingAssumption DEF EmptyRing, Ring, Entry
    <2> QED
        BY <2>1, EventsType
<1>2. \A n \in Nat : n % IDX_MOD \in 0 .. IDX_MOD - 1
    BY Constants
<1>3. 0 % IDX_MOD = 0
    BY Constants
<1>4. TypeOK
    <2>1. {avail_idx, used_idx, last_avail, ack_idx} \subseteq [Device -> 0 .. IDX_MOD - 1]
        BY <1>2, Constants
    <2>2. used_ring \in [Device -> [Slots -> Slots]]
        BY Constants DEF Slots
    <2>3. event_buffer \in [Device -> [Slots -> AnEvent \cup {NoEvent}]]
        BY DEF Slots
    <2>4. \A d \in Device : {made[d], pushed[d], latest[d]} \subseteq 0 .. MaxMade[d]
        BY Constants
    <2>5. ring \in [buffer : [0 .. EVENT_BUFFER_SIZE - 1 -> AnEvent \cup {NoEvent}],
                    idx : 0 .. EVENT_BUFFER_SIZE - 1, size : 0 .. EVENT_BUFFER_SIZE - 1]
        BY <1>1 DEF Ring, Entry
    <2> QED
        BY <2>1, <2>2, <2>3, <2>4, <2>5, Constants DEF TypeOK
<1>5. Counts
    BY Constants DEF Counts, Acked, InHand
<1>6. Indices
    <2>1. \A d \in Device : Acked(d) = 0
        BY DEF Acked, InHand
    <2>2. 0 + QUEUE_SIZE = QUEUE_SIZE
        BY Constants
    <2> QED
        BY <1>3, <2>1, <2>2 DEF Indices
<1>7. Buffers
    BY DEF Buffers, Acked, InHand
<1>8. Handling /\ InOrder
    BY <1>1 DEF Handling, InOrder, Ordered
<1>9. WithinUserBuffer
    BY DEF WithinUserBuffer
<1> QED
    BY <1>4, <1>5, <1>6, <1>7, <1>8, <1>9 DEF IInv

\* A device delivers an event.
LEMMA DeliverKeeps ==
    ASSUME IInv, NEW d \in Device, Deliver(d)
    PROVE  IInv'
<1> DEFINE n == made[d]
           id == n % QUEUE_SIZE
           M == IDX_MOD
           Q == QUEUE_SIZE
<1>1. n \in Nat /\ n < MaxMade[d] /\ id \in Slots /\ n % M \in 0 .. M - 1
      /\ (n + 1) % M \in 0 .. M - 1
    <2>1. n \in Nat /\ n < MaxMade[d]
        BY DEF IInv, Counts, Deliver
    <2> QED
        BY <2>1, Constants DEF Slots
<1>2. AvailRing(last_avail[d]) = id /\ used_idx[d] % Q = id
    <2>1. PICK x \in Int : x = n
        BY <1>1
    <2>2. (x % M) % Q = x % Q
        BY IndexOfSlot
    <2>4. (n % M) % Q = id
        BY <2>1, <2>2
    <2> QED
        BY <2>4 DEF IInv, Indices, AvailRing
<1>3. Incr(n % M) = (n + 1) % M
    BY <1>1, Constants, ModStep DEF Incr
<1>4. /\ made' = [made EXCEPT ![d] = n + 1]
      /\ event_buffer' = [event_buffer EXCEPT ![d] = [@ EXCEPT ![id] = Event(d, n + 1)]]
      /\ used_ring' = [used_ring EXCEPT ![d] = [@ EXCEPT ![id] = id]]
      /\ used_idx' = [used_idx EXCEPT ![d] = (n + 1) % M]
      /\ last_avail' = [last_avail EXCEPT ![d] = (n + 1) % M]
      /\ isr' = [isr EXCEPT ![d] = TRUE]
      /\ UNCHANGED <<avail_idx, ack_idx, pc, device, event, pushed, ring, reader_vars>>
      /\ last_avail[d] # avail_idx[d]
    <2>1. used_idx[d] = n % M /\ last_avail[d] = n % M
        BY DEF IInv, Indices
    <2>2. made' = [made EXCEPT ![d] = n + 1] /\ made'[d] = n + 1
        BY DEF Deliver, IInv, Counts
    <2> QED
        BY <1>2, <1>3, <2>1, <2>2 DEF Deliver, handler_vars
<1>5. \A e \in Device : Acked(e)' = Acked(e)
    BY <1>4 DEF Acked, InHand
<1>6. n < Acked(d) + Q
    <2>1. n % M # (Acked(d) + Q) % M
        BY <1>4 DEF IInv, Indices
    <2>2. n # Acked(d) + Q
        BY <2>1
    <2>3. n <= Acked(d) + Q /\ Acked(d) \in Nat
        BY DEF IInv, Counts
    <2> QED
        BY <1>1, <2>2, <2>3, Constants
<1> HIDE DEF n, id, M, Q
<1>7. TypeOK'
    <2>1. Event(d, n + 1) \in AnEvent
        BY <1>1, Constants, AnEventType
    <2>2. {avail_idx, used_idx, last_avail, ack_idx}' \subseteq [Device -> 0 .. IDX_MOD - 1]
        BY <1>1, <1>4 DEF IInv, TypeOK, M
    <2>3. used_ring' \in [Device -> [Slots -> Slots]]
        BY <1>1, <1>4 DEF IInv, TypeOK
    <2>4. event_buffer' \in [Device -> [Slots -> AnEvent \cup {NoEvent}]]
        BY <1>4, <2>1 DEF IInv, TypeOK
    <2>5. \A e \in Device : {made[e], pushed[e], latest[e]}' \subseteq 0 .. MaxMade[e]
        <3>1. n + 1 \in 0 .. MaxMade[d]
            BY <1>1, Constants
        <3> QED
            BY <1>4, <3>1 DEF IInv, TypeOK, Counts, reader_vars
    <2>6. isr' \in [Device -> BOOLEAN]
        BY <1>4 DEF IInv, TypeOK
    <2> QED
        BY <1>4, <2>2, <2>3, <2>4, <2>5, <2>6 DEF IInv, TypeOK, reader_vars
<1>8. Counts'
    <2>1. made' \in [Device -> Nat] /\ made'[d] = n + 1 /\ \A e \in Device \ {d} : made'[e] = made[e]
        BY <1>1, <1>4 DEF IInv, Counts
    <2>2. pushed' = pushed /\ latest' = latest
        BY <1>4 DEF reader_vars
    <2>3. n + 1 <= Acked(d) + Q /\ Acked(d) \in Nat /\ pushed[d] <= n + 1 /\ pushed[d] \in Nat
        BY <1>1, <1>6, Constants DEF IInv, Counts, n, Q
    <2> QED
        BY <1>5, <2>1, <2>2, <2>3 DEF IInv, Counts, Q
<1>9. Indices'
    <2>1. /\ made'[d] = n + 1 /\ used_idx'[d] = (n + 1) % M /\ last_avail'[d] = (n + 1) % M
          /\ \A e \in Device \ {d} : /\ made'[e] = made[e] /\ used_idx'[e] = used_idx[e]
                                      /\ last_avail'[e] = last_avail[e]
        BY <1>4 DEF IInv, TypeOK, Counts
    <2> QED
        BY <1>4, <1>5, <2>1 DEF IInv, Indices, M
<1>10. Buffers'
    <2> SUFFICES ASSUME NEW e \in Device, NEW k \in Nat, Acked(e)' <= k, k < made'[e]
                 PROVE  /\ used_ring'[e][k % Q] = k % Q
                        /\ event_buffer'[e][k % Q] = Event(e, k + 1)
        BY DEF Buffers, Q
    <2>1. Acked(e) <= k /\ Acked(e) \in Nat
        BY <1>5 DEF IInv, Counts
    <2>2. k % Q \in Slots
        BY Constants DEF Q, Slots
    <2>3. CASE e # d
        <3>1. made'[e] = made[e] /\ used_ring'[e] = used_ring[e] /\ event_buffer'[e] = event_buffer[e]
            BY <1>4, <2>3 DEF IInv, Counts, TypeOK
        <3> QED
            BY <2>1, <3>1 DEF IInv, Buffers, Q
    <2>4. CASE e = d
        <3>1. /\ used_ring'[d] = [used_ring[d] EXCEPT ![id] = id]
              /\ event_buffer'[d] = [event_buffer[d] EXCEPT ![id] = Event(d, n + 1)]
              /\ used_ring[d] \in [Slots -> Slots] /\ made'[d] = n + 1
              /\ event_buffer[d] \in [Slots -> AnEvent \cup {NoEvent}]
            BY <1>4 DEF IInv, Counts, TypeOK
        <3>2. CASE k = n
            <4>1. k % Q = id
                BY <3>2 DEF id, Q
            <4> QED
                BY <1>1, <2>4, <3>1, <3>2, <4>1
        <3>3. CASE k < n
            <4>1. n - k \in 1 .. Q - 1 /\ Q \in Nat \ {0}
                BY <1>1, <1>6, <2>1, <2>4, <3>3, Constants DEF Q
            <4>2. k % Q # n % Q
                BY <1>1, <4>1, ModApart
            <4>3. k % Q # id
                BY <4>2 DEF id, Q
            <4>4. used_ring[d][k % Q] = k % Q /\ event_buffer[d][k % Q] = Event(d, k + 1)
                BY <2>1, <2>4, <3>3 DEF IInv, Buffers, Q, n
            <4> QED
                BY <2>2, <2>4, <3>1, <4>3, <4>4
        <3> QED
            BY <1>1, <2>4, <3>1, <3>2, <3>3
    <2> QED
        BY <2>3, <2>4
<1>11. Handling'
    <2>1. \A e \in Device : made[e] <= made'[e] /\ made[e] \in Nat /\ made'[e] \in Nat
        BY <1>1, <1>4 DEF IInv, Counts, n
    <2> QED
        BY <1>4, <2>1 DEF IInv, Handling, Counts, TypeOK
<1>12. InOrder' /\ WithinUserBuffer'
    BY <1>4 DEF IInv, InOrder, WithinUserBuffer, reader_vars
<1> QED
    BY <1>7, <1>8, <1>9, <1>10, <1>11, <1>12 DEF IInv

\* The interrupt handlers start, read an event and return.
LEMMA HandlerKeeps ==
    ASSUME IInv, virtio_handle_irq \/ ReadEvent \/ HandlerReturns
    PROVE  IInv'
<1>1. /\ UNCHANGED <<avail_idx, used_idx, used_ring, event_buffer, last_avail, ack_idx, made,
                     pushed, ring, taken, max_events, num_events, latest>>
      /\ pc # "give_back" /\ pc' # "give_back"
    BY DEF virtio_handle_irq, ReadEvent, HandlerReturns, queue_vars, reader_vars
<1>2. isr' \in [Device -> BOOLEAN] /\ device' \in Device /\ pc' \in {"idle", "loop", "push"}
    BY DEF IInv, TypeOK, virtio_handle_irq, ReadEvent, HandlerReturns, queue_vars, Device
<1>3. \A d \in Device : InHand(d) = 0 /\ InHand(d)' = 0 /\ Acked(d)' = Acked(d)
    BY <1>1 DEF InHand, Acked
<1>4. CASE ReadEvent
    <2> DEFINE n == pushed[device]
    <2>1. device \in Device /\ device' = device
        BY <1>4 DEF IInv, TypeOK, ReadEvent
    <2>2. Acked(device) = n /\ n \in Nat
        BY <1>3, <2>1 DEF Acked, IInv, Counts
    <2>3. n < made[device] /\ made[device] <= MaxMade[device] /\ made[device] \in Nat
        <3>1. n % IDX_MOD # made[device] % IDX_MOD
            BY <1>4, <2>1, <2>2 DEF ReadEvent, IInv, Indices
        <3>2. n # made[device]
            BY <3>1
        <3>3. n <= made[device] /\ made[device] \in 0 .. MaxMade[device]
            BY <2>1, <2>2 DEF IInv, Counts, TypeOK
        <3>4. MaxMade[device] \in Nat
            BY <2>1, Constants
        <3> HIDE DEF n
        <3> QED
            BY <2>2, <3>2, <3>3, <3>4
    <2>4. event' = Event(device, n + 1)
        <3>1. PICK x \in Int : x = n
            BY <2>2
        <3>2. (x % IDX_MOD) % QUEUE_SIZE = x % QUEUE_SIZE
            BY IndexOfSlot
        <3>3. ack_idx[device] = n % IDX_MOD
            BY <2>1, <2>2 DEF IInv, Indices
        <3>4. /\ used_ring[device][n % QUEUE_SIZE] = n % QUEUE_SIZE
              /\ event_buffer[device][n % QUEUE_SIZE] = Event(device, n + 1)
            BY <2>1, <2>2, <2>3 DEF IInv, Buffers
        <3> QED
            BY <1>4, <3>1, <3>2, <3>3, <3>4 DEF ReadEvent
    <2>5. Event(device, n + 1) \in AnEvent
        BY <2>1, <2>2, <2>3, Constants, AnEventType
    <2>6. Handling'
        BY <1>1, <2>1, <2>3, <2>4 DEF Handling
    <2>7. TypeOK'
        BY <1>1, <1>2, <2>4, <2>5 DEF IInv, TypeOK
    <2> QED
        BY <1>1, <1>3, <2>6, <2>7
        DEF IInv, Counts, Indices, Buffers, InOrder, WithinUserBuffer
<1>5. CASE virtio_handle_irq \/ HandlerReturns
    <2>1. event' = event /\ pc' # "push"
        BY <1>5 DEF virtio_handle_irq, HandlerReturns
    <2>2. TypeOK' /\ Handling'
        BY <1>1, <1>2, <2>1 DEF IInv, TypeOK, Handling
    <2> QED
        BY <1>1, <1>3, <2>2
        DEF IInv, Counts, Indices, Buffers, InOrder, WithinUserBuffer
<1> QED
    BY <1>4, <1>5

\* The handler pushes the event.
LEMMA PushKeeps ==
    ASSUME IInv, PushEvent
    PROVE  IInv'
<1> DEFINE n == pushed[device]
<1>1. /\ device \in Device /\ pc = "push" /\ pc' = "give_back"
      /\ n \in Nat /\ n < made[device] /\ event = Event(device, n + 1)
      /\ made[device] <= MaxMade[device] /\ made[device] \in Nat
    <2>1. device \in Device /\ pc = "push" /\ pc' = "give_back"
        BY DEF PushEvent, IInv, TypeOK
    <2>2. n < made[device] /\ event = Event(device, n + 1)
        BY <2>1 DEF IInv, Handling
    <2>3. n \in Nat /\ made[device] \in Nat
        BY <2>1 DEF IInv, Counts
    <2>4. made[device] \in 0 .. MaxMade[device]
        BY <2>1 DEF IInv, TypeOK
    <2> QED
        BY <2>1, <2>2, <2>3, <2>4, Constants
<1>2. /\ ring' = event_push(ring, event)
      /\ pushed' = [pushed EXCEPT ![device] = @ + 1]
      /\ pushed'[device] = n + 1 /\ \A d \in Device \ {device} : pushed'[d] = pushed[d]
      /\ UNCHANGED <<avail_idx, used_idx, used_ring, event_buffer, last_avail, isr, made, ack_idx,
                     device, event, taken, max_events, num_events, latest>>
    BY <1>1 DEF PushEvent, IInv, Counts, queue_vars, reader_vars
<1>3. \A d \in Device : Acked(d)' = Acked(d)
    <2>1. ASSUME NEW d \in Device PROVE Acked(d)' = Acked(d)
        <3>1. pushed[d] \in Nat
            BY DEF IInv, Counts
        <3> QED
            BY <1>1, <1>2, <3>1 DEF Acked, InHand
    <2> QED
        BY <2>1
<1>4. event \in AnEvent
    BY <1>1, Constants, AnEventType
<1>5. /\ ring \in Ring /\ ring' \in Ring
      /\ IsAppended(Events(ring'),
                    IF ring.size < EVENT_BUFFER_SIZE - 1 THEN Events(ring) ELSE Tail(Events(ring)),
                    event)
    BY <1>2, <1>4, RingOfType, PushAppends DEF IInv, Entry
<1>6. TypeOK'
    <2>1. pushed' \in [Device -> Nat]
        BY <1>1, <1>2 DEF IInv, Counts
    <2>2. \A d \in Device : {made[d], pushed[d], latest[d]}' \subseteq 0 .. MaxMade[d]
        <3>1. n + 1 \in 0 .. MaxMade[device]
            BY <1>1, Constants
        <3> QED
            BY <1>2, <3>1 DEF IInv, TypeOK
    <2> QED
        BY <1>1, <1>2, <1>4, <1>5, <2>2 DEF IInv, TypeOK, Ring, Entry
<1>7. Counts'
    <2>1. pushed' \in [Device -> Nat]
        BY <1>1, <1>2 DEF IInv, Counts
    <2>2. latest[device] <= n + 1 /\ n + 1 <= made[device]
        BY <1>1 DEF IInv, Counts
    <2> QED
        BY <1>2, <1>3, <2>1, <2>2 DEF IInv, Counts
<1>8. Indices' /\ Buffers' /\ Handling' /\ WithinUserBuffer'
    BY <1>1, <1>2, <1>3 DEF IInv, Indices, Buffers, Handling, WithinUserBuffer
<1>9. InOrder'
    <2> DEFINE kept == IF ring.size < EVENT_BUFFER_SIZE - 1 THEN Events(ring) ELSE Tail(Events(ring))
    <2>1. Events(ring) \in Seq(Entry) /\ Ordered(Events(ring), latest, pushed)
        BY <1>5, EventsType DEF IInv, InOrder
    <2>2. latest \in [Device -> Nat] /\ pushed \in [Device -> Nat] /\ latest[device] <= pushed[device]
        BY <1>1 DEF IInv, Counts
    <2>3. kept \in Seq(Entry) /\ Ordered(kept, latest, pushed)
        <3>1. CASE ring.size < EVENT_BUFFER_SIZE - 1
            BY <2>1, <3>1
        <3>2. CASE ~(ring.size < EVENT_BUFFER_SIZE - 1)
            <4>1. ring.size # 0
                BY <1>5, <3>2, EventRingAssumption DEF Ring
            <4>2. Events(ring) # <<>>
                BY <1>5, <4>1, EventsType
            <4>3. Tail(Events(ring)) \in Seq(Entry)
                BY <2>1, <4>2, HeadTailProperties
            <4>4. Ordered(Tail(Events(ring)), latest, pushed)
                BY <2>1, <2>2, <4>2, OrderedTail
            <4> QED
                BY <3>2, <4>3, <4>4
        <3> QED
            BY <3>1, <3>2
    <2>4. IsAppended(Events(ring'), kept, event)
        BY <1>5
    <2> HIDE DEF kept
    <2>5. Ordered(Events(ring'), latest, [pushed EXCEPT ![device] = @ + 1])
        BY <1>1, <1>4, <2>2, <2>3, <2>4, OrderedPush
    <2> QED
        BY <1>2, <2>5 DEF InOrder
<1> QED
    BY <1>6, <1>7, <1>8, <1>9 DEF IInv

\* The handler lends the buffer again.
LEMMA GiveBackKeeps ==
    ASSUME IInv, GiveBack
    PROVE  IInv'
<1> DEFINE n == Acked(device)
           M == IDX_MOD
<1>1. /\ device \in Device /\ device' = device /\ pc = "give_back" /\ pc' = "loop"
      /\ n \in Nat /\ pushed[device] = n + 1 /\ pushed[device] \in Nat
      /\ pushed[device] <= made[device] /\ made[device] <= n + QUEUE_SIZE
      /\ made[device] \in Nat
    BY DEF GiveBack, IInv, TypeOK, Counts, Acked, InHand
<1>2. /\ avail_idx' = [avail_idx EXCEPT ![device] = Incr(@)]
      /\ ack_idx' = [ack_idx EXCEPT ![device] = Incr(@)]
      /\ UNCHANGED <<used_idx, used_ring, event_buffer, last_avail, isr, made, event,
                     pushed, ring, taken, max_events, num_events, latest>>
    BY DEF GiveBack, reader_vars
<1>3. /\ Acked(device)' = n + 1
      /\ \A d \in Device \ {device} : Acked(d)' = Acked(d)
    <2>1. Acked(device)' = n + 1
        BY <1>1, <1>2 DEF Acked, InHand
    <2>2. ASSUME NEW d \in Device \ {device} PROVE Acked(d)' = Acked(d)
        BY <1>1, <1>2 DEF Acked, InHand
    <2> QED
        BY <2>1, <2>2
<1>4. /\ Incr(n % M) = (n + 1) % M
      /\ Incr((n + QUEUE_SIZE) % M) = (n + 1 + QUEUE_SIZE) % M
    <2>1. PICK x \in Int, y \in Int, z \in Int :
              x = n /\ y = n + QUEUE_SIZE /\ z = n + 1 + QUEUE_SIZE /\ z = y + 1
        BY <1>1, Constants
    <2>2. ((x % M) + 1) % M = (x + 1) % M /\ ((y % M) + 1) % M = (y + 1) % M
        BY Constants, ModStep
    <2> HIDE DEF n, M
    <2> QED
        BY <2>1, <2>2 DEF Incr, M
<1>5. Indices'
    <2>1. /\ ack_idx[device] = n % M /\ avail_idx[device] = (n + QUEUE_SIZE) % M
        BY <1>1 DEF IInv, Indices
    <2>2. /\ ack_idx'[device] = (n + 1) % M /\ avail_idx'[device] = (n + 1 + QUEUE_SIZE) % M
          /\ \A d \in Device \ {device} : ack_idx'[d] = ack_idx[d] /\ avail_idx'[d] = avail_idx[d]
        <3>1. /\ ack_idx' = [ack_idx EXCEPT ![device] = (n + 1) % M]
              /\ avail_idx' = [avail_idx EXCEPT ![device] = (n + 1 + QUEUE_SIZE) % M]
            BY <1>2, <1>4, <2>1
        <3>2. ack_idx \in [Device -> 0 .. IDX_MOD - 1] /\ avail_idx \in [Device -> 0 .. IDX_MOD - 1]
            BY DEF IInv, TypeOK
        <3> HIDE DEF n, M
        <3> QED
            BY <1>1, <3>1, <3>2
    <2> SUFFICES ASSUME NEW d \in Device
                 PROVE  /\ used_idx'[d] = made'[d] % M /\ last_avail'[d] = made'[d] % M
                        /\ ack_idx'[d] = Acked(d)' % M
                        /\ avail_idx'[d] = (Acked(d)' + QUEUE_SIZE) % M
        BY DEF Indices
    <2>3. used_idx'[d] = made'[d] % M /\ last_avail'[d] = made'[d] % M
        BY <1>2 DEF IInv, Indices
    <2>4. CASE d = device
        BY <1>1, <1>3, <2>2, <2>3, <2>4
    <2>5. CASE d # device
        <3>1. ack_idx[d] = Acked(d) % M /\ avail_idx[d] = (Acked(d) + QUEUE_SIZE) % M
            BY DEF IInv, Indices
        <3> QED
            BY <1>3, <2>2, <2>3, <2>5, <3>1
    <2> QED
        BY <2>4, <2>5
<1>6. TypeOK'
    <2>1. \A i \in Nat : Incr(i) \in 0 .. IDX_MOD - 1
        BY Constants DEF Incr
    <2>2. {avail_idx, used_idx, last_avail, ack_idx}' \subseteq [Device -> 0 .. IDX_MOD - 1]
        <3>1. /\ ack_idx \in [Device -> 0 .. IDX_MOD - 1] /\ avail_idx \in [Device -> 0 .. IDX_MOD - 1]
              /\ used_idx \in [Device -> 0 .. IDX_MOD - 1] /\ last_avail \in [Device -> 0 .. IDX_MOD - 1]
            BY DEF IInv, TypeOK
        <3>2. Incr(ack_idx[device]) \in 0 .. IDX_MOD - 1 /\ Incr(avail_idx[device]) \in 0 .. IDX_MOD - 1
            BY <1>1, <2>1, <3>1, Constants
        <3>3. /\ ack_idx' \in [Device -> 0 .. IDX_MOD - 1] /\ avail_idx' \in [Device -> 0 .. IDX_MOD - 1]
            BY <1>2, <3>1, <3>2
        <3> QED
            BY <1>2, <3>1, <3>3
    <2> QED
        BY <1>1, <1>2, <2>2 DEF IInv, TypeOK
<1>7. Counts'
    <2>1. made[device] <= n + 1 + QUEUE_SIZE
        BY <1>1, Constants
    <2> HIDE DEF n
    <2> QED
        BY <1>1, <1>2, <1>3, <2>1 DEF IInv, Counts
<1>8. Buffers'
    <2> SUFFICES ASSUME NEW d \in Device, NEW k \in Nat, Acked(d)' <= k, k < made'[d]
                 PROVE  /\ used_ring'[d][k % QUEUE_SIZE] = k % QUEUE_SIZE
                        /\ event_buffer'[d][k % QUEUE_SIZE] = Event(d, k + 1)
        BY DEF Buffers
    <2>1. Acked(d) <= k
        BY <1>1, <1>3
    <2> QED
        BY <1>2, <2>1 DEF IInv, Buffers
<1>9. Handling' /\ InOrder' /\ WithinUserBuffer'
    BY <1>1, <1>2 DEF IInv, Handling, InOrder, WithinUserBuffer
<1> QED
    BY <1>5, <1>6, <1>7, <1>8, <1>9 DEF IInv

\* A program asks for events.
LEMMA GetEventsKeeps ==
    ASSUME IInv, NEW r \in Readers, NEW max \in Nat, GetEvents(r, max)
    PROVE  IInv'
<1>1. UNCHANGED <<queue_vars, handler_vars, ring, taken, latest>>
    BY DEF GetEvents
<1>2. TypeOK'
    BY <1>1 DEF IInv, TypeOK, GetEvents, queue_vars, handler_vars
<1>3. WithinUserBuffer'
    <2>1. /\ max_events' = [max_events EXCEPT ![r] = max] /\ num_events' = [num_events EXCEPT ![r] = 0]
          /\ max_events \in [Readers -> Nat \cup {-1}] /\ num_events \in [Readers -> Nat]
          /\ max > 0
        BY DEF GetEvents, IInv, TypeOK
    <2> QED
        BY <2>1 DEF IInv, WithinUserBuffer
<1> QED
    BY <1>1, <1>2, <1>3
    DEF IInv, Counts, Acked, InHand, Indices, Buffers, Handling, InOrder, queue_vars, handler_vars

\* A program gets an event, or is told that there is none.
LEMMA PopEventKeeps ==
    ASSUME IInv, NEW r \in Readers, PopEvent(r)
    PROVE  IInv'
<1>1. UNCHANGED <<queue_vars, handler_vars>>
    BY DEF PopEvent
<1>2. /\ ring \in Ring /\ ring' \in Ring
      /\ IF ring.size = 0 THEN taken' = NoEvent /\ ring' = ring
         ELSE /\ taken' = Head(Events(ring)) /\ Events(ring') = Tail(Events(ring))
              /\ Events(ring) # <<>>
      /\ Events(ring) \in Seq(Entry)
    BY RingOfType, PopTakes, EventsType DEF IInv, PopEvent
<1>3. /\ latest \in [Device -> Nat] /\ pushed \in [Device -> Nat]
      /\ max_events \in [Readers -> Nat \cup {-1}] /\ num_events \in [Readers -> Nat]
      /\ max_events[r] \in Nat /\ num_events[r] \in Nat /\ num_events[r] < max_events[r]
    <2>1. /\ max_events \in [Readers -> Nat \cup {-1}] /\ num_events \in [Readers -> Nat]
          /\ max_events[r] # -1
        BY DEF IInv, TypeOK, PopEvent
    <2>2. num_events[r] < max_events[r]
        BY <2>1 DEF IInv, WithinUserBuffer
    <2> QED
        BY <2>1, <2>2 DEF IInv, Counts
<1>4. CASE ring.size = 0
    <2>1. /\ ring' = ring /\ taken' = NoEvent /\ num_events' = num_events /\ latest' = latest
          /\ max_events' = [max_events EXCEPT ![r] = -1]
        BY <1>2, <1>4 DEF PopEvent
    <2>2. TypeOK'
        BY <1>1, <2>1 DEF IInv, TypeOK, queue_vars, handler_vars
    <2>3. WithinUserBuffer'
        BY <1>3, <2>1 DEF IInv, WithinUserBuffer
    <2> QED
        BY <1>1, <2>1, <2>2, <2>3
        DEF IInv, Counts, Acked, InHand, Indices, Buffers, Handling, InOrder, queue_vars, handler_vars
<1>5. CASE ring.size # 0
    <2> DEFINE e == Head(Events(ring))
    <2>1. /\ e \in AnEvent /\ e.nth <= pushed[e.from]
          /\ Ordered(Tail(Events(ring)), [latest EXCEPT ![e.from] = e.nth], pushed)
        <3>1. Ordered(Events(ring), latest, pushed)
            BY DEF IInv, InOrder
        <3> QED
            BY <1>2, <1>3, <1>5, <3>1, OrderedTail
    <2>2. taken' = e /\ Events(ring') = Tail(Events(ring))
        BY <1>2, <1>5
    <2> HIDE DEF e
    <2>3. e.from \in Device /\ e.nth \in Nat /\ e.nth \in 1 .. MaxMade[e.from] /\ e # NoEvent
        BY <2>1, AnEventType
    <2>4. /\ num_events' = [num_events EXCEPT ![r] = @ + 1]
          /\ latest' = [latest EXCEPT ![e.from] = e.nth]
          /\ max_events' = IF num_events'[r] = max_events[r]
                           THEN [max_events EXCEPT ![r] = -1] ELSE max_events
        BY <2>2, <2>3 DEF PopEvent
    <2>5. TypeOK'
        <3>1. \A d \in Device : {made[d], pushed[d], latest[d]}' \subseteq 0 .. MaxMade[d]
            <4>1. e.nth \in 0 .. MaxMade[e.from]
                BY <2>3, Constants
            <4>2. made' = made /\ pushed' = pushed
                BY <1>1 DEF queue_vars, handler_vars
            <4>3. \A d \in Device : {made[d], pushed[d], latest[d]} \subseteq 0 .. MaxMade[d]
                BY DEF IInv, TypeOK
            <4>4. \A d \in Device : latest'[d] \in 0 .. MaxMade[d]
                BY <1>3, <2>3, <2>4, <4>1, <4>3
            <4> QED
                BY <4>2, <4>3, <4>4
        <3>2. {event, taken}' \subseteq AnEvent \cup {NoEvent}
            BY <1>1, <2>1, <2>2 DEF IInv, TypeOK, handler_vars
        <3>3. max_events' \in [Readers -> Nat \cup {-1}] /\ num_events' \in [Readers -> Nat]
            BY <1>3, <2>4
        <3> QED
            BY <1>1, <1>2, <3>1, <3>2, <3>3
            DEF IInv, TypeOK, Ring, Entry, queue_vars, handler_vars
    <2>6. Counts'
        <3>1. latest' \in [Device -> Nat]
            BY <1>3, <2>3, <2>4
        <3>2. \A d \in Device : latest'[d] <= pushed[d]
            BY <1>3, <2>1, <2>3, <2>4 DEF IInv, Counts
        <3> QED
            BY <1>1, <3>1, <3>2 DEF IInv, Counts, Acked, InHand, queue_vars, handler_vars
    <2>7. InOrder'
        BY <1>1, <2>1, <2>2, <2>4 DEF InOrder, handler_vars
    <2>8. WithinUserBuffer'
        <3>1. num_events'[r] = num_events[r] + 1
              /\ \A q \in Readers \ {r} : num_events'[q] = num_events[q]
            BY <1>3, <2>4
        <3>2. /\ max_events'[r] = IF num_events'[r] = max_events[r] THEN -1 ELSE max_events[r]
              /\ \A q \in Readers \ {r} : max_events'[q] = max_events[q]
            BY <1>3, <2>4
        <3>3. max_events'[r] # -1 => num_events'[r] < max_events'[r]
            BY <1>3, <3>1, <3>2
        <3> QED
            BY <3>1, <3>2, <3>3 DEF IInv, WithinUserBuffer
    <2>9. Indices' /\ Buffers' /\ Handling'
        BY <1>1 DEF IInv, Acked, InHand, Indices, Buffers, Handling, queue_vars, handler_vars
    <2> QED
        BY <2>5, <2>6, <2>7, <2>8, <2>9 DEF IInv
<1> QED
    BY <1>4, <1>5

\* The invariant gives the properties.
LEMMA IInvGives == IInv => EventsInOrder
<1> SUFFICES ASSUME IInv PROVE EventsInOrder
    OBVIOUS
<1>1. NoEventOverwritten
    <2> SUFFICES ASSUME NEW d \in Device
                 PROVE  /\ Unacked(d) <= QUEUE_SIZE
                        /\ made[d] = pushed[d] + Unacked(d) - InHand(d)
                        /\ \A k \in InHand(d) .. Unacked(d) - 1 :
                              Delivered(d, k) = Event(d, pushed[d] + k + 1 - InHand(d))
        BY DEF NoEventOverwritten
    <2>1. PICK m \in Nat, a \in Nat, p \in Nat, h \in 0 .. 1 :
              /\ m = made[d] /\ a = Acked(d) /\ p = pushed[d] /\ h = InHand(d)
              /\ a = p - h /\ p <= m /\ m <= a + QUEUE_SIZE
        BY DEF IInv, Counts, Acked, InHand
    <2>2. Unacked(d) = m - a
        <3>1. m - a \in 0 .. IDX_MOD - 1
            BY <2>1, Constants
        <3>2. ((m % IDX_MOD) - (a % IDX_MOD)) % IDX_MOD = m - a
            BY <3>1, IndexDistance
        <3> QED
            BY <2>1, <3>2 DEF Unacked, IInv, Indices
    <2>3. ASSUME NEW k \in h .. m - a - 1 PROVE Delivered(d, k) = Event(d, p + k + 1 - h)
        <3>1. PICK n \in Nat : n = a + k /\ a <= n /\ n < m /\ n + 1 = p + k + 1 - h
            BY <2>1
        <3>2. ((a % IDX_MOD) + k) % QUEUE_SIZE = n % QUEUE_SIZE
            <4>1. k \in Int
                OBVIOUS
            <4>2. ((a % IDX_MOD) + k) % QUEUE_SIZE = (a + k) % QUEUE_SIZE
                BY <4>1, IndexMovedOn
            <4> QED
                BY <3>1, <4>2
        <3>3. ack_idx[d] = a % IDX_MOD
            BY <2>1 DEF IInv, Indices
        <3>4. /\ used_ring[d][n % QUEUE_SIZE] = n % QUEUE_SIZE
              /\ event_buffer[d][n % QUEUE_SIZE] = Event(d, n + 1)
            BY <2>1, <3>1 DEF IInv, Buffers
        <3>5. Delivered(d, k) = Event(d, n + 1)
            BY <3>2, <3>3, <3>4 DEF Delivered
        <3> QED
            BY <3>1, <3>5
    <2> QED
        BY <2>1, <2>2, <2>3, Constants
<1>2. NewestLast
    BY DEF IInv, InOrder, Ordered, NewestLast
<1> QED
    BY <1>1, <1>2 DEF IInv, EventsInOrder

-----------------------------------------------------------------------------
(* The theorems. *)

LEMMA EventBufSize == EVENT_BUF_SIZE \in Nat /\ Painter \in Readers /\ MaxEventsArgs \subseteq Nat
<1> QED
    BY PaintAssumption, InputAssumption

LEMMA NextIInv == IInv /\ [PaintNext]_<<vars, paint_vars>> => IInv'
<1> SUFFICES ASSUME IInv, [PaintNext]_<<vars, paint_vars>> PROVE IInv'
    OBVIOUS
<1>1. CASE UNCHANGED <<vars, paint_vars>>
    BY <1>1 DEF vars, queue_vars, handler_vars, reader_vars, IInv, TypeOK, Counts, Acked, InHand,
                Indices, Buffers, Handling, InOrder, WithinUserBuffer
<1>2. CASE get_events
    BY <1>2, EventBufSize, GetEventsKeeps DEF get_events
<1>3. CASE app_loop
    BY <1>3, EventBufSize, PopEventKeeps DEF app_loop
<1>4. CASE Handler
    BY <1>4, HandlerKeeps, PushKeeps, GiveBackKeeps DEF Handler
<1>5. CASE \E d \in Device : Deliver(d)
    BY <1>5, DeliverKeeps
<1>6. CASE \E r \in Readers \ {Painter} :
               PopEvent(r) \/ \E max \in MaxEventsArgs : GetEvents(r, max)
    BY <1>6, EventBufSize, PopEventKeeps, GetEventsKeeps
<1> QED
    BY <1>1, <1>2, <1>3, <1>4, <1>5, <1>6 DEF PaintNext

\* The inductive invariant holds of every run.
THEOREM Invariance == PaintSpec => []IInv
<1>1. PaintInit => IInv
    BY InitIInv DEF PaintInit
<1> QED
    BY <1>1, NextIInv, PTL DEF PaintSpec

\* Every variable of Input has its type.
THEOREM TypeCorrect == PaintSpec => []TypeOK
<1>1. IInv => TypeOK
    BY DEF IInv
<1> QED
    BY <1>1, Invariance, PTL

\* Programs get the events of a device in the order it produced them, each at most once,
\* none is overwritten before the handler has read it, however often the virtqueue's
\* indices wrap and the ring overruns.
THEOREM EventsInOrderAlways == PaintSpec => []EventsInOrder
<1> QED
    BY IInvGives, Invariance, PTL

\* What a step does to the ring is a put, a take, or nothing.
LEMMA NextQueue == IInv /\ [PaintNext]_<<vars, paint_vars>> => [Queue!Next]_(Queue!vars)
<1> SUFFICES ASSUME IInv, [PaintNext]_<<vars, paint_vars>> PROVE [Queue!Next]_(Queue!vars)
    OBVIOUS
<1>0. ring \in Ring /\ Len(Events(ring)) = ring.size /\ (ring.size = 0 <=> Events(ring) = <<>>)
    BY RingOfType, EventsType DEF IInv
<1>1. CASE PushEvent
    <2>1. PICK e \in AnEvent : e = event
        <3>1. device \in Device /\ pushed[device] \in Nat
              /\ pushed[device] < made[device] /\ event = Event(device, pushed[device] + 1)
            BY <1>1 DEF PushEvent, IInv, TypeOK, Counts, Handling
        <3>2. made[device] \in 0 .. MaxMade[device]
            BY <3>1 DEF IInv, TypeOK
        <3> QED
            BY <3>1, <3>2, Constants, AnEventType
    <2>2. ring' = event_push(ring, e) /\ taken' = taken
        BY <1>1, <2>1 DEF PushEvent, reader_vars
    <2>3. Events(ring')
            = Append(IF ring.size < EVENT_BUFFER_SIZE - 1 THEN Events(ring)
                     ELSE Tail(Events(ring)), e)
        BY <1>0, <2>2, PushAppends DEF Entry, IsAppended
    <2>4. Queue!Put(e)
        BY <1>0, <2>2, <2>3, Zenon DEF Queue!Put
    <2> QED
        BY <2>4 DEF Queue!Next
<1>2. ASSUME NEW r \in Readers, PopEvent(r) PROVE Queue!Next
    <2>1. taken' = event_pop(ring) /\ ring' = event_after_pop(ring)
        BY <1>2 DEF PopEvent
    <2>2. CASE ring.size = 0
        <3>1. Events(ring') = Events(ring) /\ taken' = NoEvent
            BY <1>0, <2>1, <2>2, PopTakes
        <3> QED
            BY <1>0, <2>2, <3>1 DEF Queue!Next, Queue!TakeNone
    <2>3. CASE ring.size # 0
        <3>1. Events(ring') = Tail(Events(ring)) /\ taken' = Head(Events(ring))
            BY <1>0, <2>1, <2>3, PopTakes
        <3> QED
            BY <1>0, <2>3, <3>1 DEF Queue!Next, Queue!Take
    <2> QED
        BY <2>2, <2>3
<1>3. CASE ~PushEvent /\ ~ \E r \in Readers : PopEvent(r)
    <2>1. ring' = ring /\ taken' = taken
        BY <1>3, EventBufSize
        DEF PaintNext, vars, queue_vars, handler_vars, reader_vars, get_events, app_loop, Handler,
            virtio_handle_irq, ReadEvent, GiveBack, HandlerReturns, Deliver, GetEvents
    <2> QED
        BY <2>1 DEF Queue!vars
<1> QED
    BY <1>1, <1>2, <1>3

\* The kernel's ring, pushed to by the handlers of every device and popped by every
\* program's system calls, is a bounded queue that drops its oldest event.
THEOREM RingIsQueue == PaintSpec => QueueSpec
<1>1. PaintInit => Queue!Init
    <2>1. EmptyRing \in Ring /\ EmptyRing.size = 0
        BY EventRingAssumption DEF EmptyRing, Ring, Entry
    <2>2. Events(EmptyRing) = <<>>
        BY <2>1, EventsType
    <2> QED
        BY <2>2 DEF PaintInit, Init, Queue!Init
<1> QED
    BY <1>1, Invariance, NextQueue, PTL DEF PaintSpec, QueueSpec, Queue!Spec

-----------------------------------------------------------------------------
(* The lines of paint. *)

LEMMA Sizes ==
    /\ BRUSH_SIZE \in Nat /\ BRUSH_SIZE >= 2 /\ BRUSH_SIZE % 2 = 0
    /\ NUM_COLORS \in Nat \ {0}
    /\ WIDTH \in Nat /\ HEIGHT \in Nat /\ COLORS_HEIGHT \in Nat
    /\ WIDTH > 6 * BRUSH_SIZE /\ HEIGHT > 2 * COLORS_HEIGHT + 6 * BRUSH_SIZE
<1> QED
    BY PaintAssumption

LEMMA DivBounds ==
    ASSUME NEW n \in Nat, NEW d \in Nat \ {0}
    PROVE  n \div d \in Nat /\ n \div d <= n /\ (n >= d => n \div d >= 1)
<1> QED
    OBVIOUS

LEMMA DivSelf ==
    ASSUME NEW n \in Nat \ {0}
    PROVE  n \div n = 1
<1> QED
    OBVIOUS

\* A turn of draw_line moves each coordinate that is not there yet by one at least and by
\* a brush at most, and not beyond.
LEMMA Moved ==
    ASSUME NEW n \in Int, NEW by \in Nat \ {0}, n = 0 \/ by <= Absolute(n),
           NEW m, m = Limited(Quotient(n, by), Absolute(n) \div by)
    PROVE  /\ m \in Int
           /\ n = 0 => m = 0
           /\ n > 0 => 1 <= m /\ m <= n /\ m <= BRUSH_SIZE
           /\ n < 0 => n <= m /\ m <= -1 /\ -BRUSH_SIZE <= m
<1>1. PICK k \in Nat, a \in Nat :
          k = Absolute(n) /\ a = k \div by /\ a <= k /\ (k >= by => a >= 1)
    <2>1. Absolute(n) \in Nat
        BY DEF Absolute
    <2> QED
        BY <2>1, DivBounds
<1>2. k = IF n < 0 THEN -n ELSE n
    BY <1>1 DEF Absolute
<1>3. CASE n = 0
    <2>1. k = 0 /\ a = 0 /\ ~(a > BRUSH_SIZE)
        BY <1>1, <1>2, <1>3, Sizes
    <2>2. Quotient(n, by) = a
        BY <1>1, <1>2, <1>3 DEF Quotient
    <2>3. m = a
        BY <1>1, <2>1, <2>2 DEF Limited
    <2> QED
        BY <1>3, <2>1, <2>3
<1>4. CASE n > 0
    <2>1. Quotient(n, by) = a /\ k = n /\ a >= 1 /\ ~(a < 0)
        BY <1>1, <1>2, <1>4 DEF Quotient
    <2>2. Quotient(a, a) = 1
        BY <2>1, DivSelf DEF Quotient
    <2>3. m = IF a > BRUSH_SIZE THEN 1 * (BRUSH_SIZE - 1) ELSE a
        BY <1>1, <2>1, <2>2 DEF Limited
    <2> QED
        BY <1>1, <1>4, <2>1, <2>3, Sizes
<1>5. CASE n < 0
    <2>1. Quotient(n, by) = -a /\ k = -n /\ a >= 1 /\ -a < 0 /\ -(-a) = a
        BY <1>1, <1>2, <1>5 DEF Quotient
    <2>2. Quotient(-a, a) = -1
        BY <2>1, DivSelf DEF Quotient
    <2>3. m = IF a > BRUSH_SIZE THEN (-1) * (BRUSH_SIZE - 1) ELSE -a
        BY <1>1, <2>1, <2>2 DEF Limited
    <2> QED
        BY <1>1, <1>5, <2>1, <2>3, Sizes
<1> QED
    BY <1>3, <1>4, <1>5

Rectangles == [x : Int, y : Int, width : Int, height : Int]

\* b lies between a and c.
Between(a, b, c) == IF a <= c THEN a <= b /\ b <= c ELSE c <= b /\ b <= a

LEMMA StepNearer ==
    ASSUME NEW at \in Rectangles, NEW to \in Rectangles, NEW next, next = Step(at, to)
    PROVE  /\ next \in Rectangles /\ next.width = at.width /\ next.height = at.height
           /\ Between(at.x, next.x, to.x) /\ Between(at.y, next.y, to.y)
           /\ Absolute(next.x - at.x) <= BRUSH_SIZE /\ Absolute(next.y - at.y) <= BRUSH_SIZE
           /\ (at.x # to.x => next.x # at.x) /\ (at.y # to.y => next.y # at.y)
<1>1. PICK ax \in Int, ay \in Int, tx \in Int, ty \in Int, w \in Int, h \in Int :
          at = [x |-> ax, y |-> ay, width |-> w, height |-> h] /\ to.x = tx /\ to.y = ty
    BY DEF Rectangles
<1>2. PICK run \in Int, rise \in Int : run = tx - ax /\ rise = ty - ay
    OBVIOUS
<1> DEFINE d == IF Absolute(rise) > Absolute(run) THEN Absolute(run) ELSE Absolute(rise)
           by == IF d = 0 THEN 1 ELSE d
<1>3. by \in Nat \ {0} /\ (run = 0 \/ by <= Absolute(run)) /\ (rise = 0 \/ by <= Absolute(rise))
    BY DEF Absolute
<1> DEFINE mx == Limited(Quotient(run, by), Absolute(run) \div by)
           my == Limited(Quotient(rise, by), Absolute(rise) \div by)
<1>4. next = [at EXCEPT !.x = @ + mx, !.y = @ + my]
    BY <1>1, <1>2 DEF Step
<1> HIDE DEF by, d
<1>5. PICK dx \in Int : /\ dx = mx /\ (run = 0 => dx = 0)
                        /\ run > 0 => 1 <= dx /\ dx <= run /\ dx <= BRUSH_SIZE
                        /\ run < 0 => run <= dx /\ dx <= -1 /\ -BRUSH_SIZE <= dx
    <2> HIDE DEF mx
    <2> QED
        BY <1>3, Moved DEF mx
<1>6. PICK dy \in Int : /\ dy = my /\ (rise = 0 => dy = 0)
                        /\ rise > 0 => 1 <= dy /\ dy <= rise /\ dy <= BRUSH_SIZE
                        /\ rise < 0 => rise <= dy /\ dy <= -1 /\ -BRUSH_SIZE <= dy
    <2> HIDE DEF my
    <2> QED
        BY <1>3, Moved DEF my
<1> HIDE DEF mx, my
<1>7. next = [x |-> ax + dx, y |-> ay + dy, width |-> w, height |-> h]
    BY <1>1, <1>4, <1>5, <1>6
<1>8. /\ next.x = ax + dx /\ next.y = ay + dy /\ next \in Rectangles
      /\ next.width = at.width /\ next.height = at.height /\ at.x = ax /\ at.y = ay
    BY <1>1, <1>7 DEF Rectangles
<1>9. Between(ax, ax + dx, tx) /\ Absolute(ax + dx - ax) <= BRUSH_SIZE /\ (ax # tx => dx # 0)
    BY <1>2, <1>5, Sizes DEF Between, Absolute
<1>10. Between(ay, ay + dy, ty) /\ Absolute(ay + dy - ay) <= BRUSH_SIZE /\ (ay # ty => dy # 0)
    BY <1>2, <1>6, Sizes DEF Between, Absolute
<1> QED
    BY <1>1, <1>8, <1>9, <1>10

\* The body of draw_line's recursion.
LineTurn(f, n, from, to) ==
    IF n = 0 THEN <<from>>
    ELSE LET before == f[n - 1]
             at == Last(before)
         IN  IF at.x = to.x /\ at.y = to.y THEN before ELSE Append(before, Step(at, to))

LEMMA LineTurnsExist ==
    ASSUME NEW N \in Nat, NEW from, NEW to
    PROVE  \E f : f = [n \in 0 .. N |-> LineTurn(f, n, from, to)]
<1> DEFINE S == {n \in Nat : \E f : f = [j \in 0 .. n |-> LineTurn(f, j, from, to)]}
<1>1. 0 \in S
    <2> DEFINE g == [j \in 0 .. 0 |-> <<from>>]
    <2>1. g = [j \in 0 .. 0 |-> LineTurn(g, j, from, to)]
        BY DEF LineTurn
    <2> QED
        BY <2>1
<1>2. ASSUME NEW n \in Nat, n \in S PROVE n + 1 \in S
    <2>1. PICK f : f = [j \in 0 .. n |-> LineTurn(f, j, from, to)]
        BY <1>2
    <2> DEFINE last == LineTurn([j \in 0 .. n |-> f[n]], n + 1, from, to)
               g == [j \in 0 .. n + 1 |-> IF j = n + 1 THEN last ELSE f[j]]
    <2>2. ASSUME NEW j \in 0 .. n + 1
          PROVE  (IF j = n + 1 THEN last ELSE f[j]) = LineTurn(g, j, from, to)
        <3>1. CASE j = n + 1
            <4>1. g[j - 1] = f[n] /\ [i \in 0 .. n |-> f[n]][j - 1] = f[n] /\ j # 0
                BY <3>1
            <4> HIDE DEF g
            <4> QED
                BY <3>1, <4>1 DEF LineTurn
        <3>2. CASE j # n + 1
            <4>1. j \in 0 .. n /\ (j # 0 => g[j - 1] = f[j - 1])
                BY <3>2
            <4>2. f[j] = LineTurn(f, j, from, to)
                BY <2>1, <4>1
            <4> HIDE DEF g, last
            <4> QED
                BY <3>2, <4>1, <4>2 DEF LineTurn
        <3> QED
            BY <3>1, <3>2
    <2>3. g = [j \in 0 .. n + 1 |-> LineTurn(g, j, from, to)]
        BY <2>2
    <2> HIDE DEF g
    <2> QED
        BY <2>3
<1>3. \A n \in Nat : n \in S
    <2> HIDE DEF S
    <2> QED
        BY <1>1, <1>2, InductionOverNat
<1> QED
    BY <1>3

\* The brush on its way: in the rectangle that from and to span, of the size of from, and
\* never further than a brush from where it was a turn before.
OnTheWay(s, from, to) ==
    /\ s \in Seq(Rectangles) /\ s # <<>>
    /\ \A i \in 1 .. Len(s) :
          /\ Between(from.x, s[i].x, to.x) /\ Between(from.y, s[i].y, to.y)
          /\ s[i].width = from.width /\ s[i].height = from.height
          /\ i > 1 => /\ Absolute(s[i].x - s[i - 1].x) <= BRUSH_SIZE
                      /\ Absolute(s[i].y - s[i - 1].y) <= BRUSH_SIZE

\* How far a brush is away, in coordinates.
Away(at, to) == Absolute(to.x - at.x) + Absolute(to.y - at.y)

LEMMA AwayType ==
    ASSUME NEW at \in Rectangles, NEW to \in Rectangles
    PROVE  Away(at, to) \in Nat /\ (Away(at, to) = 0 <=> at.x = to.x /\ at.y = to.y)
<1>1. PICK a \in Int, b \in Int, c \in Int, d \in Int :
          a = at.x /\ b = at.y /\ c = to.x /\ d = to.y
    BY DEF Rectangles
<1>2. Absolute(c - a) + Absolute(d - b) \in Nat
      /\ (Absolute(c - a) + Absolute(d - b) = 0 <=> a = c /\ b = d)
    BY DEF Absolute
<1> QED
    BY <1>1, <1>2 DEF Away

LEMMA TurnOnTheWay ==
    ASSUME NEW from \in Rectangles, NEW to \in Rectangles, NEW s, OnTheWay(s, from, to),
           ~(Last(s).x = to.x /\ Last(s).y = to.y)
    PROVE  /\ OnTheWay(Append(s, Step(Last(s), to)), from, to)
           /\ Away(Last(Append(s, Step(Last(s), to))), to) < Away(Last(s), to)
<1> DEFINE at == Last(s)
           next == Step(at, to)
           t == Append(s, next)
           n == Len(s)
<1>1. /\ s \in Seq(Rectangles) /\ n \in Nat \ {0} /\ at = s[n] /\ at \in Rectangles
      /\ \A i \in 1 .. n : s[i] \in Rectangles
    BY EmptySeq, ElementOfSeq DEF OnTheWay, Last
<1>2. /\ next \in Rectangles /\ next.width = at.width /\ next.height = at.height
      /\ Between(at.x, next.x, to.x) /\ Between(at.y, next.y, to.y)
      /\ Absolute(next.x - at.x) <= BRUSH_SIZE /\ Absolute(next.y - at.y) <= BRUSH_SIZE
      /\ (at.x # to.x => next.x # at.x) /\ (at.y # to.y => next.y # at.y)
    <2> HIDE DEF at
    <2> QED
        BY <1>1, StepNearer
<1> HIDE DEF next
<1>3. /\ t \in Seq(Rectangles) /\ Len(t) = n + 1 /\ t[n + 1] = next
      /\ \A i \in 1 .. n : t[i] = s[i]
    <2> HIDE DEF at
    <2> QED
        BY <1>1, <1>2, AppendProperties
<1>4. Last(t) = next /\ t # <<>>
    BY <1>1, <1>3, EmptySeq DEF Last
<1> HIDE DEF at, t
<1>5. PICK fx \in Int, fy \in Int, tx \in Int, ty \in Int, ax \in Int, ay \in Int,
           nx \in Int, ny \in Int :
          /\ fx = from.x /\ fy = from.y /\ tx = to.x /\ ty = to.y
          /\ ax = at.x /\ ay = at.y /\ nx = next.x /\ ny = next.y
    BY <1>1, <1>2 DEF Rectangles
<1>6. /\ Between(fx, ax, tx) /\ Between(fy, ay, ty)
      /\ at.width = from.width /\ at.height = from.height
    BY <1>1, <1>5 DEF OnTheWay
<1>7. Between(fx, nx, tx) /\ Between(fy, ny, ty)
    BY <1>2, <1>5, <1>6 DEF Between
<1>8. ASSUME NEW i \in 1 .. n + 1
      PROVE  /\ Between(from.x, t[i].x, to.x) /\ Between(from.y, t[i].y, to.y)
             /\ t[i].width = from.width /\ t[i].height = from.height
             /\ i > 1 => /\ Absolute(t[i].x - t[i - 1].x) <= BRUSH_SIZE
                         /\ Absolute(t[i].y - t[i - 1].y) <= BRUSH_SIZE
    <2>1. CASE i = n + 1
        <3>1. i - 1 = n /\ t[i - 1] = at /\ t[i] = next
            BY <1>1, <1>3, <2>1
        <3> QED
            BY <1>2, <1>5, <1>6, <1>7, <3>1
    <2>2. CASE i # n + 1
        <3>1. i \in 1 .. n /\ t[i] = s[i] /\ (i > 1 => t[i - 1] = s[i - 1])
            BY <1>1, <1>3, <2>2
        <3> QED
            BY <3>1 DEF OnTheWay
    <2> QED
        BY <2>1, <2>2
<1>9. OnTheWay(t, from, to)
    BY <1>3, <1>4, <1>8 DEF OnTheWay
<1>10. Away(next, to) < Away(at, to)
    <2>1. ~(ax = tx /\ ay = ty)
        BY <1>5 DEF at
    <2>2. \A a \in Int, b \in Int, c \in Int :
              Between(a, b, c) => /\ Absolute(c - b) <= Absolute(c - a)
                                  /\ b # a => Absolute(c - b) < Absolute(c - a)
        BY DEF Between, Absolute
    <2>3. /\ Between(ax, nx, tx) /\ Between(ay, ny, ty)
          /\ (ax # tx => nx # ax) /\ (ay # ty => ny # ay)
        BY <1>2, <1>5
    <2>4. /\ Absolute(tx - nx) <= Absolute(tx - ax) /\ Absolute(ty - ny) <= Absolute(ty - ay)
          /\ \/ Absolute(tx - nx) < Absolute(tx - ax)
             \/ Absolute(ty - ny) < Absolute(ty - ay)
        BY <2>1, <2>2, <2>3
    <2>5. /\ Absolute(tx - nx) \in Int /\ Absolute(tx - ax) \in Int
          /\ Absolute(ty - ny) \in Int /\ Absolute(ty - ay) \in Int
        BY DEF Absolute
    <2>6. Absolute(tx - nx) + Absolute(ty - ny) < Absolute(tx - ax) + Absolute(ty - ay)
        BY <2>4, <2>5
    <2> QED
        BY <1>5, <2>6 DEF Away
<1> QED
    BY <1>4, <1>9, <1>10 DEF at, t, next

\* The loop of draw_line ends, and at to; on its way there it leaves no gap.
LEMMA LineDrawn ==
    ASSUME NEW from \in Rectangles, NEW to \in Rectangles
    PROVE  \E s : /\ OnTheWay(s, from, to) /\ Last(s).x = to.x /\ Last(s).y = to.y
                  /\ draw_line(from, to) = Append(Front(s), to)
<1> DEFINE far == Absolute(to.x - from.x) + Absolute(to.y - from.y)
           turn == CHOOSE f : f = [n \in 0 .. far |-> LineTurn(f, n, from, to)]
           there(s) == Last(s).x = to.x /\ Last(s).y = to.y
           Good(s, n) == /\ OnTheWay(s, from, to)
                         /\ there(s) \/ Away(Last(s), to) <= far - n
           S == {n \in Nat : n <= far => Good(turn[n], n)}
<1>1. far = Away(from, to) /\ far \in Nat
    BY AwayType DEF Away
<1> HIDE DEF far
<1>2. turn = [n \in 0 .. far |-> LineTurn(turn, n, from, to)]
    BY <1>1, LineTurnsExist
<1>3. draw_line(from, to) = Append(Front(turn[far]), to)
    BY DEF draw_line, LineTurn, far
<1> HIDE DEF turn
<1>4. 0 \in S
    <2>1. turn[0] = <<from>>
        BY <1>1, <1>2 DEF LineTurn
    <2>2. /\ <<from>> \in Seq(Rectangles) /\ <<from>> # <<>> /\ Len(<<from>>) = 1
          /\ <<from>>[1] = from /\ Last(<<from>>) = from
        BY DEF Last
    <2>3. Between(from.x, from.x, to.x) /\ Between(from.y, from.y, to.y)
        BY DEF Between, Rectangles
    <2>4. \A i \in 1 .. 1 : i = 1 /\ ~(i > 1)
        OBVIOUS
    <2>5. OnTheWay(<<from>>, from, to)
        BY <2>2, <2>3, <2>4 DEF OnTheWay
    <2>6. Away(from, to) <= far - 0
        BY <1>1
    <2> QED
        BY <2>1, <2>2, <2>5, <2>6
<1>5. ASSUME NEW n \in Nat, n \in S PROVE n + 1 \in S
    <2> SUFFICES ASSUME n + 1 <= far PROVE Good(turn[n + 1], n + 1)
        OBVIOUS
    <2> DEFINE s == turn[n]
    <2>1. Good(s, n) /\ n \in 0 .. far /\ n + 1 \in 0 .. far
        BY <1>1, <1>5
    <2>2. turn[n + 1] = IF there(s) THEN s ELSE Append(s, Step(Last(s), to))
        <3>1. turn[n + 1] = LineTurn(turn, n + 1, from, to)
            BY <1>2, <2>1
        <3>2. n + 1 # 0 /\ n + 1 - 1 = n
            OBVIOUS
        <3> QED
            BY <3>1, <3>2 DEF LineTurn
    <2> HIDE DEF s
    <2>3. CASE there(s)
        BY <2>1, <2>2, <2>3
    <2>4. CASE ~there(s)
        <3> DEFINE t == Append(s, Step(Last(s), to))
        <3>1. OnTheWay(s, from, to) /\ Away(Last(s), to) <= far - n
            BY <2>1, <2>4
        <3>2. OnTheWay(t, from, to) /\ Away(Last(t), to) < Away(Last(s), to)
            BY <2>4, <3>1, TurnOnTheWay
        <3>3. Last(s) \in Rectangles /\ Last(t) \in Rectangles
            <4>1. \A q : OnTheWay(q, from, to) => Last(q) \in Rectangles
                BY EmptySeq, ElementOfSeq DEF OnTheWay, Last
            <4> QED
                BY <3>1, <3>2, <4>1
        <3> HIDE DEF t
        <3>4. PICK a \in Nat, b \in Nat : a = Away(Last(s), to) /\ b = Away(Last(t), to)
            BY <3>3, AwayType
        <3>5. b <= far - (n + 1)
            BY <1>1, <3>1, <3>2, <3>4
        <3> QED
            BY <2>2, <2>4, <3>2, <3>4, <3>5 DEF t
    <2> QED
        BY <2>3, <2>4
<1>6. \A n \in Nat : n \in S
    <2> HIDE DEF S
    <2> QED
        BY <1>4, <1>5, InductionOverNat
<1>7. Good(turn[far], far)
    BY <1>1, <1>6
<1>8. there(turn[far])
    <2>1. Last(turn[far]) \in Rectangles
        BY <1>7, EmptySeq, ElementOfSeq DEF OnTheWay, Last
    <2>2. far - far = 0 /\ \A k \in Nat : k <= far - far => k = 0
        BY <1>1
    <2> QED
        BY <1>7, <2>1, <2>2, AwayType
<1> QED
    BY <1>3, <1>7, <1>8

\* A line between brushes of one size in the canvas is as LinesShown has it.
Filled(fills, from, to) ==
    \A i \in DOMAIN fills :
        /\ Within(fills[i], Canvas) /\ Within(fills[i], Flushed(from, to))
        /\ i > 1 => /\ Absolute(fills[i].x - fills[i - 1].x) <= BRUSH_SIZE
                    /\ Absolute(fills[i].y - fills[i - 1].y) <= BRUSH_SIZE

LEMMA CanvasIs ==
    Canvas.x = 0 /\ Canvas.y = COLORS_HEIGHT /\ Canvas.width = WIDTH
    /\ Canvas.height = HEIGHT - COLORS_HEIGHT
<1> QED
    BY DEF Canvas, Rectangle

LEMMA LineFilled ==
    ASSUME NEW size \in Nat, NEW from \in Rectangles, NEW to \in Rectangles,
           from.width = size, to.width = size, from.height = size, to.height = size,
           Within(from, Canvas), Within(to, Canvas)
    PROVE  Filled(draw_line(from, to), from, to)
<1>1. PICK s : /\ OnTheWay(s, from, to) /\ Last(s).x = to.x /\ Last(s).y = to.y
               /\ draw_line(from, to) = Append(Front(s), to)
    BY LineDrawn
<1> DEFINE n == Len(s)
           fills == draw_line(from, to)
<1>2. /\ s \in Seq(Rectangles) /\ n \in Nat \ {0} /\ Last(s) = s[n]
      /\ \A i \in 1 .. n : s[i] \in Rectangles
    BY <1>1, EmptySeq, ElementOfSeq DEF OnTheWay, Last
<1>3. /\ Front(s) \in Seq(Rectangles) /\ Len(Front(s)) = n - 1
      /\ \A i \in 1 .. n - 1 : Front(s)[i] = s[i]
    BY <1>1, <1>2, FrontType DEF OnTheWay
<1>4. /\ fills \in Seq(Rectangles) /\ Len(fills) = n /\ fills[n] = to
      /\ \A i \in 1 .. n - 1 : fills[i] = s[i]
    <2>1. n - 1 + 1 = n
        BY <1>2
    <2> QED
        BY <1>1, <1>3, <2>1, AppendProperties
<1>5. ASSUME NEW i \in 1 .. n
      PROVE  /\ fills[i] \in Rectangles
             /\ fills[i].x = s[i].x /\ fills[i].y = s[i].y
             /\ fills[i].width = size /\ fills[i].height = size
    <2>1. CASE i = n
        BY <1>1, <1>2, <1>4, <2>1
    <2>2. CASE i # n
        <3>1. i \in 1 .. n - 1
            BY <1>2, <2>2
        <3> QED
            BY <1>1, <1>2, <1>4, <3>1 DEF OnTheWay
    <2> QED
        BY <2>1, <2>2
<1> HIDE DEF fills
<1>6. ASSUME NEW i \in 1 .. n
      PROVE  Within(fills[i], Canvas) /\ Within(fills[i], Flushed(from, to))
    <2>1. PICK fx \in Int, fy \in Int, tx \in Int, ty \in Int, x \in Int, y \in Int :
              /\ fx = from.x /\ fy = from.y /\ tx = to.x /\ ty = to.y
              /\ x = fills[i].x /\ y = fills[i].y
        BY <1>5 DEF Rectangles
    <2>2. Between(fx, x, tx) /\ Between(fy, y, ty)
        BY <1>1, <1>5, <2>1 DEF OnTheWay
    <2>3. /\ fx >= 0 /\ fx + size <= WIDTH /\ tx >= 0 /\ tx + size <= WIDTH
          /\ fy >= COLORS_HEIGHT /\ fy + size <= HEIGHT
          /\ ty >= COLORS_HEIGHT /\ ty + size <= HEIGHT
        <3>1. 0 + WIDTH = WIDTH /\ COLORS_HEIGHT + (HEIGHT - COLORS_HEIGHT) = HEIGHT
            BY Sizes
        <3> QED
            BY <2>1, <3>1, CanvasIs DEF Within
    <2>4. /\ x >= 0 /\ x + size <= 0 + WIDTH
          /\ y >= COLORS_HEIGHT /\ y + size <= COLORS_HEIGHT + (HEIGHT - COLORS_HEIGHT)
        BY <2>2, <2>3, Sizes DEF Between
    <2>5. Within(fills[i], Canvas)
        BY <1>5, <2>1, <2>4, CanvasIs DEF Within
    <2> DEFINE low(a, b) == IF a < b THEN a ELSE b
               long(a, b) == IF a < b THEN b - a + size ELSE a - b + size
    <2>6. Flushed(from, to) = [x |-> low(fx, tx), y |-> low(fy, ty),
                               width |-> long(fx, tx), height |-> long(fy, ty)]
        BY <2>1 DEF Flushed, Rectangle
    <2>7. /\ Flushed(from, to).x = low(fx, tx) /\ Flushed(from, to).y = low(fy, ty)
          /\ Flushed(from, to).width = long(fx, tx) /\ Flushed(from, to).height = long(fy, ty)
        BY <2>6
    <2>8. x >= low(fx, tx) /\ x + size <= low(fx, tx) + long(fx, tx)
        BY <2>2 DEF Between
    <2>9. y >= low(fy, ty) /\ y + size <= low(fy, ty) + long(fy, ty)
        BY <2>2 DEF Between
    <2> HIDE DEF low, long
    <2>10. Within(fills[i], Flushed(from, to))
        BY <1>5, <2>1, <2>7, <2>8, <2>9 DEF Within
    <2> QED
        BY <2>5, <2>10
<1>7. ASSUME NEW i \in 1 .. n, i > 1
      PROVE  /\ Absolute(fills[i].x - fills[i - 1].x) <= BRUSH_SIZE
             /\ Absolute(fills[i].y - fills[i - 1].y) <= BRUSH_SIZE
    <2>1. i - 1 \in 1 .. n
        BY <1>7
    <2> QED
        BY <1>1, <1>5, <1>7, <2>1 DEF OnTheWay
<1>8. DOMAIN fills = 1 .. n
    BY <1>4
<1> QED
    BY <1>6, <1>7, <1>8 DEF Filled, fills

-----------------------------------------------------------------------------
(* What paint does with an event. *)

\* A brush in the canvas, to draw or to erase.
Brush(r) ==
    /\ r \in Rectangles /\ r.width \in {BRUSH_SIZE, 5 * BRUSH_SIZE} /\ r.height = r.width
    /\ Within(r, Canvas)

LEMMA BrushPlace ==
    ASSUME NEW size \in Nat, NEW half \in Nat, size = 2 * half, NEW pos \in Int,
           NEW first \in Nat, NEW length \in Nat, NEW screen \in Nat, length <= screen,
           first <= pos, pos < screen, screen > 2 * first + size, length = screen - first
    PROVE  /\ BrushFrom(pos, size, first, length, screen) \in Int
           /\ BrushFrom(pos, size, first, length, screen) >= first
           /\ BrushFrom(pos, size, first, length, screen) + size <= screen
<1>1. size \div 2 = half
    OBVIOUS
<1> DEFINE from == IF pos - half < first THEN first ELSE pos - half
           to == IF pos - half < first THEN first + size ELSE pos + half
           b == IF to >= length THEN screen - 1 - size ELSE from
<1>2. BrushFrom(pos, size, first, length, screen) = b
    BY <1>1 DEF BrushFrom
<1>3. screen - 1 - size = screen - size - 1
    OBVIOUS
<1>4. b \in Int /\ b >= first /\ b + size <= screen
    BY <1>3
<1> QED
    BY <1>2, <1>4

LEMMA BrushOf ==
    ASSUME NEW s, NEW size \in {BRUSH_SIZE, 5 * BRUSH_SIZE}, is_inside_rectangle(s.x, s.y, Canvas)
    PROVE  Brush(get_brush_rect_from_pos(s, size))
<1>1. PICK x \in Int, y \in Int : /\ x = s.x /\ y = s.y /\ 0 <= x /\ x < WIDTH
                                  /\ COLORS_HEIGHT <= y /\ y < HEIGHT
    <2>1. /\ s.x \in 0 .. 0 + WIDTH - 1
          /\ s.y \in COLORS_HEIGHT .. COLORS_HEIGHT + (HEIGHT - COLORS_HEIGHT) - 1
        BY CanvasIs DEF is_inside_rectangle
    <2>2. /\ 0 + WIDTH - 1 = WIDTH - 1
          /\ COLORS_HEIGHT + (HEIGHT - COLORS_HEIGHT) - 1 = HEIGHT - 1
        BY Sizes
    <2> QED
        BY <2>1, <2>2, Sizes
<1>2. PICK half \in Nat : size = 2 * half
    <2>1. PICK b \in Nat, h \in Nat : b = BRUSH_SIZE /\ b = 2 * h
        <3>1. PICK b \in Nat : b = BRUSH_SIZE /\ b % 2 = 0
            BY Sizes
        <3>2. b = 2 * (b \div 2) /\ b \div 2 \in Nat
            BY <3>1
        <3> QED
            BY <3>1, <3>2
    <2>2. 5 * (2 * h) = 2 * (5 * h) /\ 5 * h \in Nat
        OBVIOUS
    <2>3. size = 2 * h \/ size = 2 * (5 * h)
        BY <2>1, <2>2
    <2> QED
        BY <2>2, <2>3
<1>3. size \in Nat /\ size <= 5 * BRUSH_SIZE
    BY Sizes
<1>4. HEIGHT - COLORS_HEIGHT \in Nat
    BY Sizes
<1> DEFINE bx == BrushFrom(x, size, 0, WIDTH, WIDTH)
           by == BrushFrom(y, size, COLORS_HEIGHT, HEIGHT - COLORS_HEIGHT, HEIGHT)
<1>5. bx \in Int /\ bx >= 0 /\ bx + size <= WIDTH
    <2>1. WIDTH > 2 * 0 + size /\ WIDTH = WIDTH - 0 /\ WIDTH <= WIDTH /\ 0 \in Nat
        BY <1>3, Sizes
    <2> QED
        BY <1>1, <1>2, <1>3, <2>1, Sizes, BrushPlace
<1>6. by \in Int /\ by >= COLORS_HEIGHT /\ by + size <= HEIGHT
    <2>1. HEIGHT > 2 * COLORS_HEIGHT + size /\ HEIGHT - COLORS_HEIGHT <= HEIGHT
        BY <1>3, Sizes
    <2> QED
        BY <1>1, <1>2, <1>3, <1>4, <2>1, Sizes, BrushPlace
<1>7. get_brush_rect_from_pos(s, size) = [x |-> bx, y |-> by, width |-> size, height |-> size]
    BY <1>1, CanvasIs DEF get_brush_rect_from_pos, Rectangle
<1> HIDE DEF bx, by
<1>8. /\ bx + size <= 0 + WIDTH
      /\ by + size <= COLORS_HEIGHT + (HEIGHT - COLORS_HEIGHT)
    BY <1>3, <1>5, <1>6, Sizes
<1> QED
    BY <1>3, <1>5, <1>6, <1>7, <1>8, CanvasIs DEF Brush, Rectangles, Within

\* app_state with its fields, whatever they hold.
IsApp(s) ==
    s = [x |-> s.x, y |-> s.y, left |-> s.left, right |-> s.right,
         prev_brush_rect |-> s.prev_brush_rect, active_color |-> s.active_color,
         x_event |-> s.x_event, lines |-> s.lines, at |-> s.at]

Line == [from : Rectangles, to : Rectangles, pixel : 0 .. NUM_COLORS]

\* A line ends at a brush, and begins at one, at the corner, or nowhere near its size.
Drawable(l) == Brush(l.to) /\ (Brush(l.from) \/ l.from = Rectangle(0, 0, 0, 0))

Drawn(s) ==
    /\ s.active_color \in 0 .. NUM_COLORS - 1
    /\ s.lines \in Seq(Line)
    /\ \A k \in 1 .. Len(s.lines) : Drawable(s.lines[k])
    /\ Brush(s.prev_brush_rect) \/ s.prev_brush_rect \in {NoRectangle, Rectangle(0, 0, 0, 0)}

\* The canvas' part in an event leaves the buttons and the cursor as they are.
LEMMA CanvasHandles ==
    ASSUME NEW s, IsApp(s), NEW t, t = app_canvas_handle_cursor_event(s)
    PROVE  /\ IsApp(t) /\ t.x_event = s.x_event /\ t.at = s.at
           /\ t.left = s.left /\ t.right = s.right
           /\ Drawn(s) /\ is_inside_rectangle(s.x, s.y, Canvas) => Drawn(t)
<1> DEFINE size == IF s.left = 1 THEN BRUSH_SIZE ELSE 5 * BRUSH_SIZE
           to == get_brush_rect_from_pos(s, size)
           from == IF s.left = 0 \/ s.prev_brush_rect = NoRectangle THEN to ELSE s.prev_brush_rect
           pixel == IF s.left = 1 THEN s.active_color ELSE White
           line == [from |-> from, to |-> to, pixel |-> pixel]
<1>1. t = IF s.left = 0 /\ s.right = 0 THEN [s EXCEPT !.prev_brush_rect = NoRectangle]
          ELSE [s EXCEPT !.prev_brush_rect = to, !.lines = Append(@, line)]
    BY DEF app_canvas_handle_cursor_event
<1>2. size \in {BRUSH_SIZE, 5 * BRUSH_SIZE}
    OBVIOUS
<1> HIDE DEF line, size
<1>3. CASE s.left = 0 /\ s.right = 0
    <2>1. t = [x |-> s.x, y |-> s.y, left |-> s.left, right |-> s.right,
               prev_brush_rect |-> NoRectangle, active_color |-> s.active_color,
               x_event |-> s.x_event, lines |-> s.lines, at |-> s.at]
        BY <1>1, <1>3 DEF IsApp
    <2> QED
        BY <2>1 DEF IsApp, Drawn
<1>4. CASE ~(s.left = 0 /\ s.right = 0)
    <2> HIDE DEF to
    <2>1. t = [x |-> s.x, y |-> s.y, left |-> s.left, right |-> s.right,
               prev_brush_rect |-> to, active_color |-> s.active_color,
               x_event |-> s.x_event, lines |-> Append(s.lines, line), at |-> s.at]
        BY <1>1, <1>4 DEF IsApp
    <2>2. ASSUME Drawn(s), is_inside_rectangle(s.x, s.y, Canvas) PROVE Drawn(t)
        <3>1. Brush(to)
            BY <1>2, <2>2, BrushOf DEF to
        <3>2. Brush(from) \/ from = Rectangle(0, 0, 0, 0)
            BY <2>2, <3>1 DEF Drawn
        <3>3. pixel \in 0 .. NUM_COLORS
            BY <2>2, Sizes DEF Drawn, White
        <3>4. Rectangle(0, 0, 0, 0) \in Rectangles
            BY DEF Rectangle, Rectangles
        <3>5. from \in Rectangles /\ to \in Rectangles
            BY <3>1, <3>2, <3>4 DEF Brush
        <3> HIDE DEF from, pixel
        <3>6. line \in Line /\ Drawable(line)
            BY <3>1, <3>2, <3>3, <3>5 DEF Line, Drawable, line
        <3>7. s.lines \in Seq(Line) /\ \A k \in 1 .. Len(s.lines) : Drawable(s.lines[k])
            BY <2>2 DEF Drawn
        <3> DEFINE l == Append(s.lines, line)
        <3>8. /\ l \in Seq(Line) /\ Len(l) = Len(s.lines) + 1 /\ l[Len(s.lines) + 1] = line
              /\ \A k \in 1 .. Len(s.lines) : l[k] = s.lines[k]
            BY <3>6, <3>7, AppendProperties
        <3> HIDE DEF l
        <3>9. \A k \in 1 .. Len(l) : Drawable(l[k])
            <4>1. \A k \in 1 .. Len(l) : k \in 1 .. Len(s.lines) \/ k = Len(s.lines) + 1
                BY <3>7, <3>8
            <4> QED
                BY <3>6, <3>7, <3>8, <4>1
        <3>10. t.lines = l /\ t.active_color = s.active_color /\ t.prev_brush_rect = to
            BY <2>1 DEF l
        <3> QED
            BY <2>2, <3>1, <3>8, <3>9, <3>10 DEF Drawn
    <2>3. /\ IsApp(t) /\ t.x_event = s.x_event /\ t.at = s.at
          /\ t.left = s.left /\ t.right = s.right
        BY <2>1 DEF IsApp
    <2> QED
        BY <2>2, <2>3
<1> QED
    BY <1>3, <1>4

\* A pair of coordinates moves the cursor to where they say.
LEMMA CursorMoves ==
    ASSUME NEW s, IsApp(s), NEW ex, NEW ey, NEW t, t = app_handle_cursor_event(s, ex, ey)
    PROVE  /\ IsApp(t) /\ t.x_event = s.x_event /\ t.at = <<ex, ey>>
           /\ t.left = s.left /\ t.right = s.right
           /\ Drawn(s) => Drawn(t)
<1> DEFINE px == (What(ex).value * WIDTH) \div ABS_MAX
           py == (What(ey).value * HEIGHT) \div ABS_MAX
           u == [s EXCEPT !.x = px, !.y = py, !.at = <<ex, ey>>]
<1>1. t = IF is_inside_rectangle(u.x, u.y, Canvas) THEN app_canvas_handle_cursor_event(u) ELSE u
    BY DEF app_handle_cursor_event
<1> HIDE DEF px, py
<1>2. u = [x |-> px, y |-> py, left |-> s.left, right |-> s.right,
           prev_brush_rect |-> s.prev_brush_rect, active_color |-> s.active_color,
           x_event |-> s.x_event, lines |-> s.lines, at |-> <<ex, ey>>]
    <2> DEFINE q == <<ex, ey>>
               v == [s EXCEPT !.x = px]
               w == [v EXCEPT !.y = py]
    <2> HIDE DEF q
    <2>2. v = [x |-> px, y |-> s.y, left |-> s.left, right |-> s.right,
               prev_brush_rect |-> s.prev_brush_rect, active_color |-> s.active_color,
               x_event |-> s.x_event, lines |-> s.lines, at |-> s.at]
        BY DEF IsApp
    <2> HIDE DEF v
    <2>3. w = [x |-> px, y |-> py, left |-> s.left, right |-> s.right,
               prev_brush_rect |-> s.prev_brush_rect, active_color |-> s.active_color,
               x_event |-> s.x_event, lines |-> s.lines, at |-> s.at]
        BY <2>2
    <2>5. u = [w EXCEPT !.at = q]
        BY DEF q, v
    <2> HIDE DEF w, u
    <2>4. u = [x |-> px, y |-> py, left |-> s.left, right |-> s.right,
               prev_brush_rect |-> s.prev_brush_rect, active_color |-> s.active_color,
               x_event |-> s.x_event, lines |-> s.lines, at |-> q]
        BY <2>3, <2>5
    <2> QED
        BY <2>4 DEF q
<1> HIDE DEF u
<1>3. /\ IsApp(u) /\ u.x_event = s.x_event /\ u.at = <<ex, ey>>
      /\ u.left = s.left /\ u.right = s.right
    BY <1>2 DEF IsApp
<1>4. Drawn(s) => Drawn(u)
    BY <1>2 DEF Drawn
<1> QED
    BY <1>1, <1>3, <1>4, CanvasHandles

\* A click sets its button, and at most the colour.
LEMMA ButtonClicked ==
    ASSUME NEW s, IsApp(s), NEW e, NEW t, t = app_handle_click_event(s, e)
    PROVE  /\ IsApp(t) /\ t.x_event = s.x_event /\ t.at = s.at
           /\ IF What(e).code = "BTN_RIGHT" THEN t.right = What(e).value /\ t.left = s.left
              ELSE t.left = What(e).value /\ t.right = s.right
           /\ Drawn(s) => Drawn(t)
<1> DEFINE v == What(e).value
<1> HIDE DEF v
<1>1. CASE What(e).code = "BTN_RIGHT"
    <2>1. t = [x |-> s.x, y |-> s.y, left |-> s.left, right |-> v,
               prev_brush_rect |-> s.prev_brush_rect, active_color |-> s.active_color,
               x_event |-> s.x_event, lines |-> s.lines, at |-> s.at]
        BY <1>1 DEF app_handle_click_event, IsApp, v
    <2> QED
        BY <1>1, <2>1 DEF IsApp, Drawn, v
<1>2. CASE What(e).code # "BTN_RIGHT"
    <2> DEFINE u == [s EXCEPT !.left = v]
               under == {i \in 0 .. NUM_COLORS - 1 : is_inside_rectangle(u.x, u.y, Color(i))}
               color == CHOOSE i \in under : \A j \in under : i <= j
    <2>1. t = u \/ (under # {} /\ t = [u EXCEPT !.active_color = color])
        BY <1>2 DEF app_handle_click_event, app_color_picker_handle_click_event, v
    <2>2. under # {} => color \in 0 .. NUM_COLORS - 1
        <3>1. under \in SUBSET Nat /\ under \subseteq 0 .. NUM_COLORS - 1
            BY Sizes
        <3> HIDE DEF under
        <3>2. under # {} => \E i \in under : \A j \in under : i <= j
            BY <3>1, MinOfNaturals
        <3>3. under # {} => color \in under
            BY <3>2, Zenon
        <3> HIDE DEF color
        <3> QED
            BY <3>1, <3>3
    <2>3. u = [x |-> s.x, y |-> s.y, left |-> v, right |-> s.right,
               prev_brush_rect |-> s.prev_brush_rect, active_color |-> s.active_color,
               x_event |-> s.x_event, lines |-> s.lines, at |-> s.at]
        BY DEF IsApp
    <2> HIDE DEF u, color, under
    <2>4. CASE t = u
        BY <1>2, <2>3, <2>4 DEF IsApp, Drawn, v
    <2>5. CASE under # {} /\ t = [u EXCEPT !.active_color = color]
        <3>1. t = [x |-> s.x, y |-> s.y, left |-> v, right |-> s.right,
                   prev_brush_rect |-> s.prev_brush_rect, active_color |-> color,
                   x_event |-> s.x_event, lines |-> s.lines, at |-> s.at]
            BY <2>3, <2>5
        <3>2. IsApp(t) /\ t.x_event = s.x_event /\ t.at = s.at /\ t.left = v /\ t.right = s.right
            BY <3>1 DEF IsApp
        <3>3. Drawn(s) => Drawn(t)
            BY <2>2, <2>5, <3>1 DEF Drawn
        <3> QED
            BY <1>2, <3>2, <3>3 DEF v
    <2> QED
        BY <2>1, <2>4, <2>5
<1> QED
    BY <1>1, <1>2

\* FollowsReports of the first n events of h.
SaidTo(h, n, code, value) ==
    LET told == {i \in 1 .. n : What(h[i]).code = code}
    IN  \E i \in told \cup {0} :
            /\ value = IF i = 0 THEN 0 ELSE What(h[i]).value
            /\ \A j \in told : j > i => j > 1 /\ What(h[j - 1]).code = "ABS_X"
FollowedTo(s, h, n) ==
    /\ s.x_event # NoEvent => n > 0 /\ s.x_event = h[n] /\ What(h[n]).code = "ABS_X"
    /\ s.at[1] # NoEvent => \E i \in 2 .. n : s.at = <<h[i - 1], h[i]>>
    /\ SaidTo(h, n, "BTN_LEFT", s.left) /\ SaidTo(h, n, "BTN_RIGHT", s.right)

\* A button's last word stands if the next event is not its, or comes behind an x.
LEMMA SaidStill ==
    ASSUME NEW h, NEW n \in Nat, NEW code, NEW value, SaidTo(h, n, code, value),
           What(h[n + 1]).code # code \/ (n > 0 /\ What(h[n]).code = "ABS_X")
    PROVE  SaidTo(h, n + 1, code, value)
<1> DEFINE told(m) == {i \in 1 .. m : What(h[i]).code = code}
<1>1. PICK i \in told(n) \cup {0} :
          /\ value = IF i = 0 THEN 0 ELSE What(h[i]).value
          /\ \A j \in told(n) : j > i => j > 1 /\ What(h[j - 1]).code = "ABS_X"
    BY DEF SaidTo
<1>2. i \in told(n + 1) \cup {0}
    OBVIOUS
<1>3. ASSUME NEW j \in told(n + 1), j > i PROVE j > 1 /\ What(h[j - 1]).code = "ABS_X"
    <2>1. CASE j = n + 1
        BY <1>3, <2>1
    <2>2. CASE j # n + 1
        <3>1. j \in told(n)
            BY <2>2
        <3> QED
            BY <1>1, <1>3, <3>1
    <2> QED
        BY <2>1, <2>2
<1> QED
    BY <1>1, <1>2, <1>3 DEF SaidTo

LEMMA SaidNow ==
    ASSUME NEW h, NEW n \in Nat, NEW code, What(h[n + 1]).code = code
    PROVE  SaidTo(h, n + 1, code, What(h[n + 1]).value)
<1>1. n + 1 \in {i \in 1 .. n + 1 : What(h[i]).code = code} /\ n + 1 # 0
    OBVIOUS
<1>2. \A j \in 1 .. n + 1 : ~(j > n + 1)
    OBVIOUS
<1> QED
    BY <1>1, <1>2 DEF SaidTo

\* An event keeps what the two properties need.
LEMMA EventHandled ==
    ASSUME NEW s, IsApp(s), NEW h, NEW n \in Nat, FollowedTo(s, h, n), Drawn(s),
           NEW t, t = app_handle_event(s, h[n + 1])
    PROVE  IsApp(t) /\ FollowedTo(t, h, n + 1) /\ Drawn(t)
<1> DEFINE e == h[n + 1]
           code == What(e).code
           u == [s EXCEPT !.x_event = NoEvent]
           v == [s EXCEPT !.x_event = e]
<1>1. /\ u = [x |-> s.x, y |-> s.y, left |-> s.left, right |-> s.right,
              prev_brush_rect |-> s.prev_brush_rect, active_color |-> s.active_color,
              x_event |-> NoEvent, lines |-> s.lines, at |-> s.at]
      /\ v = [x |-> s.x, y |-> s.y, left |-> s.left, right |-> s.right,
              prev_brush_rect |-> s.prev_brush_rect, active_color |-> s.active_color,
              x_event |-> e, lines |-> s.lines, at |-> s.at]
    BY DEF IsApp
<1>2. \/ s.x_event = NoEvent /\ code = "ABS_X" /\ t = v
      \/ s.x_event # NoEvent /\ code = "ABS_Y" /\ t = app_handle_cursor_event(u, s.x_event, e)
      \/ s.x_event = NoEvent /\ code \in {"BTN_LEFT", "BTN_RIGHT"} /\ t = app_handle_click_event(u, e)
      \/ (s.x_event = NoEvent => code \notin {"BTN_LEFT", "BTN_RIGHT"}) /\ t = u
    BY DEF app_handle_event
<1> HIDE DEF u, v, e
<1>3. /\ IsApp(u) /\ u.x_event = NoEvent /\ u.at = s.at /\ u.left = s.left /\ u.right = s.right
      /\ Drawn(u)
    BY <1>1 DEF IsApp, Drawn
<1>4. /\ IsApp(v) /\ v.x_event = e /\ v.at = s.at /\ v.left = s.left /\ v.right = s.right
      /\ Drawn(v)
    BY <1>1 DEF IsApp, Drawn
<1>5. s.at[1] # NoEvent => \E i \in 2 .. n + 1 : s.at = <<h[i - 1], h[i]>>
    <2>1. 2 .. n \subseteq 2 .. n + 1
        OBVIOUS
    <2> QED
        BY <2>1 DEF FollowedTo
<1>6. s.x_event # NoEvent => n > 0 /\ s.x_event = h[n] /\ What(h[n]).code = "ABS_X"
    BY DEF FollowedTo
<1>7. ASSUME s.x_event # NoEvent \/ code \notin {"BTN_LEFT", "BTN_RIGHT"}
      PROVE  /\ SaidTo(h, n + 1, "BTN_LEFT", s.left)
             /\ SaidTo(h, n + 1, "BTN_RIGHT", s.right)
    <2>1. \A c \in {"BTN_LEFT", "BTN_RIGHT"} :
              What(h[n + 1]).code # c \/ (n > 0 /\ What(h[n]).code = "ABS_X")
        BY <1>6, <1>7 DEF e
    <2>2. SaidTo(h, n, "BTN_LEFT", s.left) /\ SaidTo(h, n, "BTN_RIGHT", s.right)
        BY DEF FollowedTo
    <2> QED
        BY <2>1, <2>2, SaidStill
<1>8. CASE s.x_event = NoEvent /\ code = "ABS_X" /\ t = v
    <2>1. e = h[n + 1] /\ n + 1 > 0
        BY DEF e
    <2> QED
        BY <1>4, <1>5, <1>7, <1>8, <2>1 DEF FollowedTo
<1>9. CASE s.x_event # NoEvent /\ code = "ABS_Y" /\ t = app_handle_cursor_event(u, s.x_event, e)
    <2>1. /\ IsApp(t) /\ t.x_event = NoEvent /\ t.at = <<h[n], e>>
          /\ t.left = s.left /\ t.right = s.right /\ Drawn(t)
        BY <1>3, <1>6, <1>9, CursorMoves
    <2>2. \E i \in 2 .. n + 1 : t.at = <<h[i - 1], h[i]>>
        <3>1. n + 1 \in 2 .. n + 1 /\ n + 1 - 1 = n
            BY <1>6, <1>9
        <3> QED
            BY <2>1, <3>1 DEF e
    <2> QED
        BY <1>7, <1>9, <2>1, <2>2 DEF FollowedTo
<1>10. CASE /\ s.x_event = NoEvent /\ code \in {"BTN_LEFT", "BTN_RIGHT"}
            /\ t = app_handle_click_event(u, e)
    <2>1. /\ IsApp(t) /\ t.x_event = NoEvent /\ t.at = s.at /\ Drawn(t)
          /\ IF code = "BTN_RIGHT" THEN t.right = What(e).value /\ t.left = s.left
             ELSE t.left = What(e).value /\ t.right = s.right
        BY <1>3, <1>10, ButtonClicked
    <2>2. SaidTo(h, n + 1, code, What(e).value)
        BY SaidNow DEF e
    <2>3. SaidTo(h, n, "BTN_LEFT", s.left) /\ SaidTo(h, n, "BTN_RIGHT", s.right)
        BY DEF FollowedTo
    <2>4. code = "BTN_RIGHT" => SaidTo(h, n + 1, "BTN_LEFT", s.left)
        BY <2>3, SaidStill DEF e
    <2>5. code = "BTN_LEFT" => SaidTo(h, n + 1, "BTN_RIGHT", s.right)
        BY <2>3, SaidStill DEF e
    <2>6. SaidTo(h, n + 1, "BTN_LEFT", t.left) /\ SaidTo(h, n + 1, "BTN_RIGHT", t.right)
        <3>1. CASE code = "BTN_RIGHT"
            BY <2>1, <2>2, <2>4, <3>1
        <3>2. CASE code = "BTN_LEFT"
            BY <2>1, <2>2, <2>5, <3>2
        <3> QED
            BY <1>10, <3>1, <3>2
    <2> QED
        BY <1>5, <2>1, <2>6 DEF FollowedTo
<1>11. CASE (s.x_event = NoEvent => code \notin {"BTN_LEFT", "BTN_RIGHT"}) /\ t = u
    BY <1>3, <1>5, <1>7, <1>11 DEF FollowedTo
<1> QED
    BY <1>2, <1>8, <1>9, <1>10, <1>11

\* The body of handle_events' recursion.
HandleTurn(f, n, s, got) == IF n = 0 THEN s ELSE app_handle_event(f[n - 1], got[n])

\* The events of a whole get_events, behind those heard before.
LEMMA EventsHandled ==
    ASSUME NEW s, IsApp(s), Drawn(s), NEW S, NEW h \in Seq(S), NEW got \in Seq(S),
           FollowedTo(s, h, Len(h)), NEW t, t = handle_events(s, got)
    PROVE  /\ IsApp(t) /\ Drawn(t)
           /\ FollowedTo(t, h \o got, Len(h \o got)) /\ h \o got \in Seq(S)
<1> DEFINE N == Len(got)
           m == Len(h)
           all == h \o got
           turn == CHOOSE f : f = [n \in 0 .. N |-> HandleTurn(f, n, s, got)]
           Good(r, n) == IsApp(r) /\ Drawn(r) /\ FollowedTo(r, all, m + n)
           G == {n \in Nat : n <= N => Good(turn[n], n)}
<1>1. /\ N \in Nat /\ m \in Nat /\ all \in Seq(S) /\ Len(all) = m + N
      /\ \A i \in 1 .. m : all[i] = h[i]
      /\ \A i \in 1 .. N : all[m + i] = got[i]
    <2>1. /\ N \in Nat /\ m \in Nat /\ all \in Seq(S) /\ Len(all) = m + N
          /\ \A i \in 1 .. Len(h) + Len(got) :
                 all[i] = IF i <= Len(h) THEN h[i] ELSE got[i - Len(h)]
        BY ConcatProperties
    <2>2. ASSUME NEW i \in 1 .. N PROVE all[m + i] = got[i]
        <3>1. m + i \in 1 .. m + N /\ ~(m + i <= m) /\ m + i - m = i
            BY <2>1
        <3> QED
            BY <2>1, <3>1
    <2>3. \A i \in 1 .. m : i \in 1 .. m + N /\ i <= m
        BY <2>1
    <2> QED
        BY <2>1, <2>2, <2>3
<1>3. t = turn[N]
    BY DEF handle_events, HandleTurn
<1> HIDE DEF N
<1>2. turn = [n \in 0 .. N |-> HandleTurn(turn, n, s, got)]
    <2> DEFINE Until == {n \in Nat : \E f : f = [j \in 0 .. n |-> HandleTurn(f, j, s, got)]}
    <2>1. 0 \in Until
        <3> DEFINE g == [j \in 0 .. 0 |-> s]
        <3>1. g = [j \in 0 .. 0 |-> HandleTurn(g, j, s, got)]
            BY DEF HandleTurn
        <3> QED
            BY <3>1
    <2>2. ASSUME NEW n \in Nat, n \in Until PROVE n + 1 \in Until
        <3>1. PICK f : f = [j \in 0 .. n |-> HandleTurn(f, j, s, got)]
            BY <2>2
        <3> DEFINE last == app_handle_event(f[n], got[n + 1])
                   g == [j \in 0 .. n + 1 |-> IF j = n + 1 THEN last ELSE f[j]]
        <3>2. ASSUME NEW j \in 0 .. n + 1
              PROVE  (IF j = n + 1 THEN last ELSE f[j]) = HandleTurn(g, j, s, got)
            <4>1. CASE j = n + 1
                <5>1. g[j - 1] = f[n] /\ j # 0
                    BY <4>1
                <5> HIDE DEF g
                <5> QED
                    BY <4>1, <5>1 DEF HandleTurn
            <4>2. CASE j # n + 1
                <5>1. j \in 0 .. n /\ (j # 0 => g[j - 1] = f[j - 1])
                    BY <4>2
                <5>2. f[j] = HandleTurn(f, j, s, got)
                    BY <3>1, <5>1
                <5> HIDE DEF g, last
                <5> QED
                    BY <4>2, <5>1, <5>2 DEF HandleTurn
            <4> QED
                BY <4>1, <4>2
        <3>3. g = [j \in 0 .. n + 1 |-> HandleTurn(g, j, s, got)]
            BY <3>2
        <3> HIDE DEF g
        <3> QED
            BY <3>3
    <2>3. \A n \in Nat : n \in Until
        <3> HIDE DEF Until
        <3> QED
            BY <2>1, <2>2, InductionOverNat
    <2>4. \E f : f = [n \in 0 .. N |-> HandleTurn(f, n, s, got)]
        BY <1>1, <2>3
    <2> QED
        BY <2>4, Zenon
<1> HIDE DEF turn, all, m
<1>4. 0 \in G
    <2>1. turn[0] = s
        BY <1>1, <1>2 DEF HandleTurn
    <2>2. \A c, v : SaidTo(h, m, c, v) => SaidTo(all, m, c, v)
        <3> SUFFICES ASSUME NEW c, NEW v, SaidTo(h, m, c, v) PROVE SaidTo(all, m, c, v)
            OBVIOUS
        <3>1. {i \in 1 .. m : What(h[i]).code = c} = {i \in 1 .. m : What(all[i]).code = c}
            BY <1>1
        <3>2. \A j \in 1 .. m : j > 1 => j - 1 \in 1 .. m
            BY <1>1
        <3> DEFINE told == {i \in 1 .. m : What(h[i]).code = c}
        <3>3. PICK i \in told \cup {0} :
                  /\ v = IF i = 0 THEN 0 ELSE What(h[i]).value
                  /\ \A j \in told : j > i => j > 1 /\ What(h[j - 1]).code = "ABS_X"
            BY DEF SaidTo
        <3>4. v = IF i = 0 THEN 0 ELSE What(all[i]).value
            BY <1>1, <3>3
        <3>5. \A j \in told : j > i => j > 1 /\ What(all[j - 1]).code = "ABS_X"
            BY <1>1, <3>2, <3>3
        <3> QED
            BY <3>1, <3>3, <3>4, <3>5 DEF SaidTo
    <2>3. m + 0 = m /\ FollowedTo(s, h, m)
        BY <1>1 DEF m
    <2>4. m > 0 => all[m] = h[m]
        BY <1>1
    <2>5. \A i \in 2 .. m : all[i] = h[i] /\ all[i - 1] = h[i - 1]
        BY <1>1
    <2>6. FollowedTo(s, all, m)
        BY <2>2, <2>3, <2>4, <2>5 DEF FollowedTo
    <2> QED
        BY <2>1, <2>3, <2>6
<1>5. ASSUME NEW n \in Nat, n \in G PROVE n + 1 \in G
    <2> SUFFICES ASSUME n + 1 <= N PROVE Good(turn[n + 1], n + 1)
        OBVIOUS
    <2>1. Good(turn[n], n) /\ n + 1 \in 0 .. N /\ n + 1 \in 1 .. N
        BY <1>1, <1>5
    <2>2. turn[n + 1] = app_handle_event(turn[n], got[n + 1])
        <3>1. turn[n + 1] = HandleTurn(turn, n + 1, s, got)
            BY <1>2, <2>1
        <3>2. n + 1 # 0 /\ n + 1 - 1 = n
            OBVIOUS
        <3> QED
            BY <3>1, <3>2 DEF HandleTurn
    <2>3. got[n + 1] = all[(m + n) + 1] /\ m + n \in Nat /\ m + (n + 1) = (m + n) + 1
        BY <1>1, <2>1
    <2> QED
        BY <2>1, <2>2, <2>3, EventHandled
<1>6. \A n \in Nat : n \in G
    <2> HIDE DEF G
    <2> QED
        BY <1>4, <1>5, InductionOverNat
<1>7. Good(turn[N], N)
    BY <1>1, <1>6
<1> QED
    BY <1>1, <1>3, <1>7 DEF all, m

-----------------------------------------------------------------------------
(* Paint follows the tablet, and shows its lines. *)

PaintInv ==
    /\ IsApp(app) /\ Drawn(app) /\ FollowedTo(app, heard, Len(heard))
    /\ heard \in Seq(Entry) /\ events \in Seq(Entry)

LEMMA InitPaint == PaintInit => PaintInv
<1> SUFFICES ASSUME PaintInit PROVE PaintInv
    OBVIOUS
<1>1. /\ app = [x |-> 0, y |-> 0, left |-> 0, right |-> 0,
                prev_brush_rect |-> Rectangle(0, 0, 0, 0), active_color |-> 0,
                x_event |-> NoEvent, lines |-> <<>>, at |-> <<NoEvent, NoEvent>>]
      /\ heard = <<>> /\ events = <<>>
    BY DEF PaintInit
<1>2. IsApp(app)
    BY <1>1 DEF IsApp
<1>3. Drawn(app)
    BY <1>1, Sizes DEF Drawn
<1>4. \A c : SaidTo(<<>>, 0, c, 0)
    BY DEF SaidTo
<1>5. FollowedTo(app, heard, Len(heard))
    <2>1. Len(<<>>) = 0 /\ app.at[1] = NoEvent
        BY <1>1
    <2> QED
        BY <1>1, <1>4, <2>1 DEF FollowedTo
<1> QED
    BY <1>1, <1>2, <1>3, <1>5 DEF PaintInv

LEMMA PaintSame ==
    ASSUME reports' = reports, IsApp(app'), Drawn(app'),
           FollowedTo(app', heard', Len(heard')), heard' \in Seq(Entry), events' \in Seq(Entry)
    PROVE  PaintInv'
<1>1. SaidTo(heard, Len(heard), "BTN_LEFT", app.left)'
    BY DEF FollowedTo, SaidTo, What
<1>2. SaidTo(heard, Len(heard), "BTN_RIGHT", app.right)'
    BY DEF FollowedTo, SaidTo, What
<1>3. (app.x_event # NoEvent => /\ Len(heard) > 0 /\ app.x_event = heard[Len(heard)]
                                /\ What(heard[Len(heard)]).code = "ABS_X")'
      /\ (app.at[1] # NoEvent =>
             \E i \in 2 .. Len(heard) : app.at = <<heard[i - 1], heard[i]>>)'
    BY DEF FollowedTo, What
<1>4. FollowedTo(app, heard, Len(heard))'
    BY <1>1, <1>2, <1>3 DEF FollowedTo
<1>5. IsApp(app)' /\ Drawn(app)'
    OBVIOUS
<1> QED
    BY <1>4, <1>5 DEF PaintInv

LEMMA NextPaint == IInv /\ PaintInv /\ [PaintNext]_<<vars, paint_vars>> => PaintInv'
<1> SUFFICES ASSUME IInv, PaintInv, [PaintNext]_<<vars, paint_vars>> PROVE PaintInv'
    OBVIOUS
<1>1. CASE UNCHANGED paint_vars
    BY <1>1, PaintSame DEF paint_vars, PaintInv
<1>2. CASE app_loop
    <2> DEFINE got == IF taken' = NoEvent THEN events ELSE Append(events, taken')
    <2>1. got \in Seq(Entry)
        <3>1. taken' \in Entry
            BY <1>2, EventBufSize, PopEventKeeps DEF app_loop, IInv, TypeOK, Entry
        <3> QED
            BY <3>1 DEF PaintInv
    <2>2. reports' = reports
        BY <1>2 DEF app_loop
    <2>3. CASE max_events'[Painter] # -1
        <3>1. events' = got /\ app' = app /\ heard' = heard
            BY <1>2, <2>3 DEF app_loop
        <3> QED
            BY <2>1, <2>2, <3>1, PaintSame DEF PaintInv
    <2>4. CASE max_events'[Painter] = -1
        <3> DEFINE s == [app EXCEPT !.lines = <<>>]
        <3>1. events' = <<>> /\ app' = handle_events(s, got) /\ heard' = heard \o got
            BY <1>2, <2>4 DEF app_loop
        <3>2. s = [x |-> app.x, y |-> app.y, left |-> app.left, right |-> app.right,
                   prev_brush_rect |-> app.prev_brush_rect, active_color |-> app.active_color,
                   x_event |-> app.x_event, lines |-> <<>>, at |-> app.at]
            BY DEF PaintInv, IsApp
        <3> HIDE DEF s, got
        <3>3. IsApp(s)
            BY <3>2 DEF IsApp
        <3>4. Drawn(s)
            BY <3>2 DEF PaintInv, Drawn
        <3>5. FollowedTo(s, heard, Len(heard))
            BY <3>2 DEF PaintInv, FollowedTo
        <3>6. heard \in Seq(Entry)
            BY DEF PaintInv
        <3>7. /\ IsApp(app') /\ Drawn(app') /\ FollowedTo(app', heard', Len(heard'))
              /\ heard' \in Seq(Entry)
            BY <2>1, <3>1, <3>3, <3>4, <3>5, <3>6, EventsHandled
        <3> QED
            BY <2>2, <3>1, <3>7, PaintSame
    <2> QED
        BY <2>3, <2>4
<1> QED
    BY <1>1, <1>2 DEF PaintNext, get_events

\* The state that a line or a pair of coordinates is judged by.
THEOREM PaintInvariance == PaintSpec => []PaintInv
<1> QED
    BY InitPaint, NextPaint, Invariance, PTL DEF PaintSpec

\* The cursor of paint is a pair that it got one right after the other, and a button is
\* as an event of it last said, whatever the ring drops and other programs take.
THEOREM FollowsReportsAlways == PaintSpec => []FollowsReports
<1>1. PaintInv => FollowsReports
    <2>1. heard \in Seq(Entry) => DOMAIN heard = 1 .. Len(heard)
        OBVIOUS
    <2> QED
        BY <2>1 DEF PaintInv, FollowedTo, SaidTo, FollowsReports, Said
<1> QED
    BY <1>1, PaintInvariance, PTL

\* Every line of paint ends in the canvas; one between brushes of one size lies in it,
\* has no gap, and is flushed as a whole, for any screen and brush.
THEOREM LinesShownAlways == PaintSpec => []LinesShown
<1>1. PaintInv => LinesShown
    <2> SUFFICES ASSUME PaintInv, NEW k \in DOMAIN app.lines
                 PROVE  LET from  == app.lines[k].from
                            to    == app.lines[k].to
                        IN  /\ Within(to, Canvas)
                            /\ from.width = to.width => Filled(draw_line(from, to), from, to)
        BY DEF LinesShown, Filled
    <2> DEFINE from == app.lines[k].from
               to == app.lines[k].to
    <2>1. Drawable(app.lines[k])
        BY DEF PaintInv, Drawn
    <2>2. Brush(to) /\ (Brush(from) \/ from = Rectangle(0, 0, 0, 0))
        BY <2>1 DEF Drawable
    <2> HIDE DEF from, to
    <2>3. Within(to, Canvas) /\ to.width \in Nat \ {0}
        BY <2>2, Sizes DEF Brush
    <2>4. ASSUME from.width = to.width PROVE Filled(draw_line(from, to), from, to)
        <3>1. Brush(from)
            BY <2>2, <2>3, <2>4 DEF Rectangle
        <3> QED
            BY <2>2, <2>3, <2>4, <3>1, LineFilled DEF Brush
    <2> QED
        BY <2>3, <2>4 DEF from, to
<1> QED
    BY <1>1, PaintInvariance, PTL
=============================================================================
