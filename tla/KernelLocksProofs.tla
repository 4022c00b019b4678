-------------------------- MODULE KernelLocksProofs --------------------------
(***************************************************************************)
(* The properties of KernelLocks, for any number of harts.                 *)
(*                                                                         *)
(* A routine is a sequence of operations.  Goes(w, s, x, y) says that s,   *)
(* run by w from the state x of its own (the locks it holds, the device    *)
(* whose answer it waits for), takes locks in order only, and ends in y.   *)
(* It composes as the routines do, and each suffix of a routine goes from  *)
(* the state where it is; the inductive invariant says no more than that   *)
(* every hart has such a suffix left.                                      *)
(***************************************************************************)
EXTENDS KernelLocks, ListLemmas

Device == {"gpu", "block", "rng"}
Handlers == {"gpu", "block", "rng", "input"}
Runner == {"console", "trap"} \cup Handlers
Op == [op : {"lock", "unlock", "notify", "poll", "complete"}, on : Locks \cup {"input"}]
Outer == {"schedule", "gpu", "block", "rng"}

Rank(m) == IF m \in Outer THEN 1 ELSE IF m = "kmalloc" THEN 2 ELSE IF m = "mmu" THEN 3 ELSE 4

\* The order of the locks.  The ring is a leaf that hart 0 takes in its handler only; on
\* the other harts page tables change for the heap only; a handler takes one lock at a time.
MayLock(w, m, H) ==
    /\ m \in Locks
    /\ \A x \in H : Rank(x) < Rank(m)
    /\ m = "input_ring" => H = {} /\ w # "console"
    /\ w = "trap" /\ m = "page_alloc" /\ "mmu" \in H => "kmalloc" \in H
    /\ w \in Handlers => H = {} /\ m \in (CASE w = "gpu"   -> {"kmalloc"}
                                            [] w = "block" -> {"page_alloc", "kmalloc"}
                                            [] w = "rng"   -> {}
                                            [] w = "input" -> {"input_ring"})

On(H, d) == [held |-> H, on |-> d]

State(w) ==
    {x \in [held : SUBSET Locks, on : Device \cup {"none"}] :
        /\ x.on # "none" => x.held \subseteq {x.on}
        /\ w = "trap" => x.on \in {"none", "gpu"}
        /\ w = "console" => "input_ring" \notin x.held
        /\ w \in Handlers => x.on = "none"}

\* One operation of w, from the state x to the state y.
Step(w, e, x, y) ==
    \/ /\ e.op = "lock" /\ x.on = "none" /\ MayLock(w, e.on, x.held)
       /\ y = On(x.held \cup {e.on}, "none")
    \/ /\ e.op = "unlock" /\ e.on \in x.held /\ x.on \in {"none", e.on}
       /\ y = On(x.held \ {e.on}, x.on)
    \/ /\ e.op = "notify" /\ w \notin Handlers /\ e.on \in Device /\ (w = "trap" => e.on = "gpu")
       /\ x = On({e.on}, "none") /\ y = On({e.on}, e.on)
    \/ /\ e.op = "poll" /\ w \notin Handlers /\ e.on \in Device
       /\ x.on = e.on /\ y = On(x.held, "none")
    \/ /\ e.op = "complete" /\ w \in Device /\ x = On({}, "none") /\ y = x

Goes(w, s, x, y) ==
    /\ s \in Seq(Op)
    /\ \E tr \in [1 .. Len(s) + 1 -> State(w)] :
          /\ tr[1] = x /\ tr[Len(s) + 1] = y
          /\ \A i \in 1 .. Len(s) : Step(w, s[i], tr[i], tr[i + 1])

Neutral(w, s, H) == Goes(w, s, On(H, "none"), On(H, "none"))

-----------------------------------------------------------------------------
(* Goes. *)

LEMMA GoesNothing ==
    ASSUME NEW w, NEW x \in State(w)
    PROVE  Goes(w, <<>>, x, x)
<1> DEFINE tr == [i \in 1 .. 1 |-> x]
<1>1. Len(<<>>) = 0 /\ <<>> \in Seq(Op) /\ 0 + 1 = 1
    BY EmptySeq
<1>2. tr \in [1 .. 0 + 1 -> State(w)] /\ tr[1] = x /\ tr[0 + 1] = x
    OBVIOUS
<1> HIDE DEF tr
<1>3. \A i \in 1 .. 0 : Step(w, <<>>[i], tr[i], tr[i + 1])
    OBVIOUS
<1> QED
    BY <1>1, <1>2, <1>3 DEF Goes

LEMMA GoesNowhere ==
    ASSUME NEW w, NEW x, NEW y, Goes(w, <<>>, x, y)
    PROVE  x = y /\ x \in State(w)
<1>1. Len(<<>>) = 0 /\ 0 + 1 = 1
    BY EmptySeq
<1>2. PICK tr \in [1 .. 1 -> State(w)] : tr[1] = x /\ tr[1] = y
    BY <1>1 DEF Goes
<1> QED
    BY <1>2

LEMMA GoesOne ==
    ASSUME NEW w, NEW e \in Op, NEW x \in State(w), NEW y \in State(w), Step(w, e, x, y)
    PROVE  Goes(w, <<e>>, x, y)
<1> DEFINE tr == [i \in 1 .. 2 |-> IF i = 1 THEN x ELSE y]
<1>1. Len(<<e>>) = 1 /\ <<e>> \in Seq(Op) /\ <<e>>[1] = e
    OBVIOUS
<1>2. tr \in [1 .. 1 + 1 -> State(w)] /\ tr[1] = x /\ tr[1 + 1] = y
    OBVIOUS
<1> HIDE DEF tr
<1>3. \A i \in 1 .. 1 : Step(w, <<e>>[i], tr[i], tr[i + 1])
    <2>1. \A i \in 1 .. 1 : i = 1
        OBVIOUS
    <2> QED
        BY <1>1, <1>2, <2>1
<1> QED
    BY <1>1, <1>2, <1>3 DEF Goes

LEMMA GoesOn ==
    ASSUME NEW w, NEW s, NEW t, NEW x, NEW y, NEW z, Goes(w, s, x, y), Goes(w, t, y, z)
    PROVE  Goes(w, s \o t, x, z)
<1>1. PICK p \in [1 .. Len(s) + 1 -> State(w)] :
          /\ p[1] = x /\ p[Len(s) + 1] = y
          /\ \A i \in 1 .. Len(s) : Step(w, s[i], p[i], p[i + 1])
    BY DEF Goes
<1>2. PICK q \in [1 .. Len(t) + 1 -> State(w)] :
          /\ q[1] = y /\ q[Len(t) + 1] = z
          /\ \A i \in 1 .. Len(t) : Step(w, t[i], q[i], q[i + 1])
    BY DEF Goes
<1>3. /\ s \in Seq(Op) /\ t \in Seq(Op) /\ Len(s) \in Nat /\ Len(t) \in Nat
      /\ s \o t \in Seq(Op) /\ Len(s \o t) = Len(s) + Len(t)
      /\ \A i \in 1 .. Len(s) + Len(t) :
            (s \o t)[i] = IF i <= Len(s) THEN s[i] ELSE t[i - Len(s)]
    BY ConcatProperties, LenProperties DEF Goes
<1> DEFINE a == Len(s)
           b == Len(t)
           tr == [i \in 1 .. a + b + 1 |-> IF i <= a THEN p[i] ELSE q[i - a]]
<1>4. a \in Nat /\ b \in Nat
    BY <1>3
<1>5. \A i \in 1 .. a : i \in 1 .. a + 1 /\ i \in 1 .. a + b + 1 /\ i \in 1 .. a + b
    BY <1>4
<1>6. \A i \in 1 .. a + b + 1 : i > a => i - a \in 1 .. b + 1
    BY <1>4
<1>7. tr \in [1 .. a + b + 1 -> State(w)]
    BY <1>1, <1>2, <1>5, <1>6
<1>8. tr[1] = x
    <2>1. CASE a = 0
        BY <1>1, <1>2, <1>4, <2>1
    <2>2. CASE a > 0
        BY <1>1, <1>4, <2>2
    <2> QED
        BY <1>4, <2>1, <2>2
<1>9. tr[a + b + 1] = z
    <2>1. a + b + 1 \in 1 .. a + b + 1 /\ ~ (a + b + 1 <= a) /\ (a + b + 1) - a = b + 1
        BY <1>4
    <2> QED
        BY <1>2, <2>1
<1>10. ASSUME NEW i \in 1 .. a + b
       PROVE  Step(w, (s \o t)[i], tr[i], tr[i + 1])
    <2>1. i \in 1 .. a + b + 1 /\ i + 1 \in 1 .. a + b + 1
        BY <1>4
    <2>2. CASE i < a
        <3>1. i \in 1 .. a /\ i + 1 <= a /\ i <= a
            BY <1>4, <2>2
        <3>2. tr[i] = p[i] /\ tr[i + 1] = p[i + 1] /\ (s \o t)[i] = s[i]
            BY <1>3, <2>1, <3>1
        <3> QED
            BY <1>1, <3>1, <3>2
    <2>3. CASE i = a
        <3>1. i \in 1 .. a /\ ~ (i + 1 <= a) /\ (i + 1) - a = 1 /\ i <= a
            BY <1>4, <2>3
        <3>2. tr[i] = p[i] /\ tr[i + 1] = q[1] /\ (s \o t)[i] = s[i]
            BY <1>3, <2>1, <3>1
        <3>3. q[1] = p[i + 1]
            BY <1>1, <1>2, <2>3
        <3> QED
            BY <1>1, <3>1, <3>2, <3>3
    <2>4. CASE i > a
        <3>1. i - a \in 1 .. b /\ ~ (i <= a) /\ ~ (i + 1 <= a) /\ (i + 1) - a = (i - a) + 1
            BY <1>4, <2>4
        <3>2. tr[i] = q[i - a] /\ tr[i + 1] = q[(i - a) + 1] /\ (s \o t)[i] = t[i - a]
            BY <1>3, <2>1, <3>1
        <3> QED
            BY <1>2, <3>1, <3>2
    <2> QED
        BY <1>4, <2>2, <2>3, <2>4
<1> HIDE DEF tr
<1> QED
    BY <1>3, <1>7, <1>8, <1>9, <1>10 DEF Goes

\* What is left of a routine after its first operation goes on from there.
LEMMA GoesTail ==
    ASSUME NEW w, NEW s, s # <<>>, NEW x, NEW y, Goes(w, s, x, y)
    PROVE  /\ s \in Seq(Op) /\ Tail(s) \in Seq(Op) /\ Head(s) \in Op
           /\ \E v \in State(w) : Step(w, Head(s), x, v) /\ Goes(w, Tail(s), v, y)
<1>1. PICK p \in [1 .. Len(s) + 1 -> State(w)] :
          /\ p[1] = x /\ p[Len(s) + 1] = y
          /\ \A i \in 1 .. Len(s) : Step(w, s[i], p[i], p[i + 1])
    BY DEF Goes
<1>2. s \in Seq(Op)
    BY DEF Goes
<1> DEFINE n == Len(s) - 1
           tr == [i \in 1 .. n + 1 |-> p[i + 1]]
<1>3. /\ n \in Nat /\ Len(s) = n + 1 /\ Head(s) = s[1] /\ Tail(s) \in Seq(Op) /\ Len(Tail(s)) = n
      /\ Head(s) \in Op /\ \A i \in 1 .. n : Tail(s)[i] = s[i + 1]
    BY <1>2, EmptySeq, HeadTailProperties, ElementOfSeq
<1> HIDE DEF n
<1>4. \A i \in 1 .. n + 1 : i + 1 \in 1 .. (n + 1) + 1
    BY <1>3
<1>5. tr \in [1 .. n + 1 -> State(w)] /\ tr[1] = p[2] /\ tr[n + 1] = y
    BY <1>1, <1>3, <1>4
<1>6. ASSUME NEW i \in 1 .. n PROVE Step(w, Tail(s)[i], tr[i], tr[i + 1])
    <2>1. i + 1 \in 1 .. n + 1 /\ i \in 1 .. n + 1
        BY <1>3
    <2> QED
        BY <1>1, <1>3, <2>1
<1> HIDE DEF tr
<1>7. Goes(w, Tail(s), p[2], y)
    BY <1>3, <1>5, <1>6 DEF Goes
<1>8. 1 \in 1 .. Len(s) /\ 1 + 1 \in 1 .. Len(s) + 1
    BY <1>3
<1> QED
    BY <1>1, <1>2, <1>3, <1>7, <1>8

\* A lock held at first and not at the end is given back on the way.
LEMMA GivesBack ==
    ASSUME NEW w, NEW s, NEW x, NEW y, Goes(w, s, x, y),
           NEW m \in x.held, m \notin y.held
    PROVE  \E k \in DOMAIN s : s[k].op = "unlock" /\ s[k].on = m
<1>1. PICK p \in [1 .. Len(s) + 1 -> State(w)] :
          /\ p[1] = x /\ p[Len(s) + 1] = y
          /\ \A i \in 1 .. Len(s) : Step(w, s[i], p[i], p[i + 1])
    BY DEF Goes
<1>2. s \in Seq(Op) /\ Len(s) \in Nat /\ DOMAIN s = 1 .. Len(s)
    BY LenProperties DEF Goes
<1> SUFFICES ASSUME \A k \in 1 .. Len(s) : ~ (s[k].op = "unlock" /\ s[k].on = m)
             PROVE  FALSE
    BY <1>2
<1> DEFINE S == {n \in Nat : n <= Len(s) => m \in p[n + 1].held}
<1>3. 0 \in S
    BY <1>1
<1>4. ASSUME NEW n \in Nat, n \in S PROVE n + 1 \in S
    <2> SUFFICES ASSUME n + 1 <= Len(s) PROVE m \in p[(n + 1) + 1].held
        OBVIOUS
    <2>1. n + 1 \in 1 .. Len(s) /\ m \in p[n + 1].held
        BY <1>2, <1>4
    <2>2. Step(w, s[n + 1], p[n + 1], p[(n + 1) + 1])
        BY <1>1, <2>1
    <2> QED
        BY <2>1, <2>2 DEF Step, On
<1> HIDE DEF S
<1>5. Len(s) \in S
    BY <1>2, <1>3, <1>4, InductionOverNat
<1> QED
    BY <1>1, <1>2, <1>5 DEF S

-----------------------------------------------------------------------------
(* The kernel's routines. *)

LEMMA GoesStates ==
    ASSUME NEW w, NEW s, NEW x, NEW y, Goes(w, s, x, y)
    PROVE  x \in State(w) /\ y \in State(w)
<1>1. PICK p \in [1 .. Len(s) + 1 -> State(w)] : p[1] = x /\ p[Len(s) + 1] = y
    BY DEF Goes
<1>2. Len(s) \in Nat
    BY LenProperties DEF Goes
<1>3. 1 \in 1 .. Len(s) + 1 /\ Len(s) + 1 \in 1 .. Len(s) + 1
    BY <1>2
<1> QED
    BY <1>1, <1>3

\* On a hart's own account, not in a handler.
Caller == {"console", "trap"}

LEMMA Fits ==
    ASSUME NEW w \in Caller, NEW H \in SUBSET (Locks \ {"input_ring"})
    PROVE  On(H, "none") \in State(w)
BY DEF Caller, On, State, Handlers

LEMMA OpFields ==
    /\ \A m \in Locks : [op |-> "lock", on |-> m] \in Op /\ [op |-> "unlock", on |-> m] \in Op
    /\ \A d \in Device : /\ d \in Locks
                         /\ [op |-> "notify", on |-> d] \in Op /\ [op |-> "poll", on |-> d] \in Op
                         /\ [op |-> "complete", on |-> d] \in Op
    /\ \A o, m : [op |-> o, on |-> m].op = o /\ [op |-> o, on |-> m].on = m
BY DEF Op, Device, Locks

LEMMA OnFields ==
    /\ \A H, d : On(H, d).held = H /\ On(H, d).on = d
    /\ \A H, d, G, e : H = G /\ d = e => On(H, d) = On(G, e)
BY DEF On

\* What is done under m, between its lock and its unlock.
LEMMA GoesUnder ==
    ASSUME NEW w, NEW m \in Locks, NEW H, NEW body, NEW p \in {"none", m},
           MayLock(w, m, H), On(H, "none") \in State(w), On(H, p) \in State(w),
           Goes(w, body, On(H \cup {m}, "none"), On(H \cup {m}, p))
    PROVE  Goes(w, Under(m, body), On(H, "none"), On(H, p))
<1> DEFINE lock == [op |-> "lock", on |-> m]
           unlock == [op |-> "unlock", on |-> m]
<1>1. On(H \cup {m}, "none") \in State(w) /\ On(H \cup {m}, p) \in State(w)
    BY GoesStates
<1>2. lock \in Op /\ unlock \in Op /\ lock.op = "lock" /\ lock.on = m
      /\ unlock.op = "unlock" /\ unlock.on = m
    BY OpFields
<1>3. m \notin H
    <2>1. ~ (Rank(m) < Rank(m))
        BY DEF Rank
    <2> QED
        BY <2>1 DEF MayLock
<1>4. (H \cup {m}) \ {m} = H /\ m \in H \cup {m}
    BY <1>3
<1> HIDE DEF lock, unlock
<1>5. Step(w, lock, On(H, "none"), On(H \cup {m}, "none"))
    BY <1>2, OnFields DEF Step
<1>6. Step(w, unlock, On(H \cup {m}, p), On(H, p))
    <2> DEFINE x == On(H \cup {m}, p)
    <2>1. x.held = H \cup {m} /\ x.on = p
        BY OnFields
    <2>2. On(x.held \ {unlock.on}, x.on) = On(H, p)
        BY <1>2, <1>4, <2>1
    <2> HIDE DEF x
    <2>3. Step(w, unlock, x, On(H, p))
        BY <1>2, <1>4, <2>1, <2>2 DEF Step
    <2> QED
        BY <2>3 DEF x
<1>7. Goes(w, <<lock>>, On(H, "none"), On(H \cup {m}, "none"))
    BY <1>1, <1>2, <1>5, GoesOne
<1>8. Goes(w, <<unlock>>, On(H \cup {m}, p), On(H, p))
    BY <1>1, <1>2, <1>6, GoesOne
<1>9. Goes(w, <<lock>> \o body, On(H, "none"), On(H \cup {m}, p))
    BY <1>7, GoesOn
<1>10. Goes(w, (<<lock>> \o body) \o <<unlock>>, On(H, "none"), On(H, p))
    BY <1>8, <1>9, GoesOn
<1> QED
    BY <1>10 DEF Under, Lock, Unlock, lock, unlock

LEMMA NeutralNothing ==
    ASSUME NEW w, NEW H, On(H, "none") \in State(w)
    PROVE  Neutral(w, <<>>, H)
BY GoesNothing DEF Neutral

LEMMA NeutralOn ==
    ASSUME NEW w, NEW H, NEW s, NEW t, Neutral(w, s, H), Neutral(w, t, H)
    PROVE  Neutral(w, s \o t, H)
BY GoesOn DEF Neutral

LEMMA NeutralUnder ==
    ASSUME NEW w \in Caller, NEW H \in SUBSET (Locks \ {"input_ring"}), NEW m \in Locks,
           MayLock(w, m, H), NEW body, Neutral(w, body, H \cup {m})
    PROVE  Neutral(w, Under(m, body), H)
BY Fits, GoesUnder DEF Neutral

LEMMA Ranks ==
    /\ \A m \in Outer : Rank(m) = 1
    /\ Rank("kmalloc") = 2 /\ Rank("mmu") = 3
    /\ Rank("page_alloc") = 4 /\ Rank("input_ring") = 4
    /\ Outer \cup {"kmalloc", "mmu", "page_alloc"} = Locks \ {"input_ring"}
    /\ Caller \cap Handlers = {}
BY DEF Rank, Outer, Locks, Caller, Handlers

LEMMA PagesNeutral ==
    ASSUME NEW w \in Caller, NEW H \in SUBSET (Outer \cup {"kmalloc", "mmu"}),
           w = "trap" /\ "mmu" \in H => "kmalloc" \in H
    PROVE  /\ Neutral(w, page_alloc, H) /\ Neutral(w, zero_pages, H)
           /\ Neutral(w, page_zalloc, H) /\ Neutral(w, page_dealloc, H)
<1>1. H \in SUBSET (Locks \ {"input_ring"}) /\ "page_alloc" \in Locks /\ w \notin Handlers
      /\ H \cup {"page_alloc"} \in SUBSET (Locks \ {"input_ring"})
    BY Ranks
<1>2. MayLock(w, "page_alloc", H)
    BY <1>1, Ranks DEF MayLock
<1>3. Neutral(w, Under("page_alloc", <<>>), H)
    BY <1>1, <1>2, NeutralUnder, NeutralNothing, Fits
<1> QED
    BY <1>3, NeutralOn DEF page_alloc, zero_pages, page_zalloc, page_dealloc

LEMMA TablesNeutral ==
    ASSUME NEW w \in Caller, NEW H \in SUBSET (Outer \cup {"kmalloc"})
    PROVE  /\ Neutral(w, mmu_translate, H)
           /\ (w = "trap" => "kmalloc" \in H) => \A r \in mmu_map : Neutral(w, r, H)
<1>1. /\ H \in SUBSET (Locks \ {"input_ring"}) /\ "mmu" \in Locks /\ w \notin Handlers
      /\ H \cup {"mmu"} \in SUBSET (Locks \ {"input_ring"})
      /\ H \cup {"mmu"} \in SUBSET (Outer \cup {"kmalloc", "mmu"})
    BY Ranks
<1>2. MayLock(w, "mmu", H)
    BY <1>1, Ranks DEF MayLock
<1>3. Neutral(w, Under("mmu", <<>>), H)
    BY <1>1, <1>2, NeutralUnder, NeutralNothing, Fits
<1>4. ASSUME w = "trap" => "kmalloc" \in H PROVE \A r \in mmu_map : Neutral(w, r, H)
    <2>1. Neutral(w, page_zalloc, H \cup {"mmu"})
        BY <1>1, <1>4, PagesNeutral
    <2>2. Neutral(w, Under("mmu", page_zalloc), H)
        BY <1>1, <1>2, <2>1, NeutralUnder
    <2> QED
        BY <1>3, <2>2 DEF mmu_map
<1> QED
    BY <1>3, <1>4 DEF mmu_translate

LEMMA HeapNeutral ==
    ASSUME NEW w \in Caller, NEW H \in SUBSET Outer
    PROVE  /\ \A r \in kmalloc : Neutral(w, r, H)
           /\ Neutral(w, kfree, H) /\ Neutral(w, quick_kzalloc, H)
<1> DEFINE G == H \cup {"kmalloc"}
<1>1. /\ H \in SUBSET (Locks \ {"input_ring"}) /\ "kmalloc" \in Locks /\ w \notin Handlers
      /\ G \in SUBSET (Locks \ {"input_ring"})
      /\ G \in SUBSET (Outer \cup {"kmalloc"}) /\ G \in SUBSET (Outer \cup {"kmalloc", "mmu"})
      /\ "kmalloc" \in G
    BY Ranks
<1>2. MayLock(w, "kmalloc", H)
    BY <1>1, Ranks DEF MayLock
<1>3. /\ Neutral(w, <<>>, G) /\ Neutral(w, page_zalloc, G)
      /\ \A r \in mmu_map : Neutral(w, page_zalloc \o r, G)
    BY <1>1, NeutralNothing, Fits, PagesNeutral, TablesNeutral, NeutralOn
<1> HIDE DEF G
<1>4. ASSUME NEW body, Neutral(w, body, G) PROVE Neutral(w, Under("kmalloc", body), H)
    BY <1>1, <1>2, <1>4, NeutralUnder DEF G
<1> QED
    BY <1>3, <1>4 DEF kmalloc, kfree, quick_kzalloc

LEMMA ScheduleNeutral ==
    ASSUME NEW w \in Caller
    PROVE  /\ \A r \in schedule_add : Neutral(w, r, {})
           /\ \A r \in schedule_remove : Neutral(w, r, {})
           /\ \A r \in schedule_pop : Neutral(w, r, {})
           /\ Neutral(w, schedule_print, {})
<1>1. /\ {"schedule"} \in SUBSET Outer /\ "schedule" \in Locks /\ w \notin Handlers
      /\ {"schedule"} \in SUBSET (Locks \ {"input_ring"}) /\ {} \cup {"schedule"} = {"schedule"}
    BY Ranks DEF Outer
<1>2. MayLock(w, "schedule", {})
    BY <1>1 DEF MayLock
<1>3. ASSUME NEW body, Neutral(w, body, {"schedule"}) PROVE Neutral(w, Under("schedule", body), {})
    BY <1>1, <1>2, <1>3, NeutralUnder
<1>4. /\ \A r \in kmalloc : Neutral(w, r, {"schedule"})
      /\ Neutral(w, kfree, {"schedule"}) /\ Neutral(w, <<>>, {"schedule"})
    BY <1>1, HeapNeutral, NeutralNothing, Fits
<1> QED
    BY <1>3, <1>4
    DEF schedule_add, schedule_remove, schedule_pop, schedule_print, UnderAll, list_insert,
        list_remove

LEMMA RingPopNeutral == Neutral("trap", virtio_input_event_pop, {})
<1>1. /\ "trap" \in Caller /\ "trap" \notin Handlers /\ "input_ring" \in Locks
      /\ {} \cup {"input_ring"} = {"input_ring"}
    BY DEF Caller, Handlers, Locks
<1>2. MayLock("trap", "input_ring", {})
    BY <1>1 DEF MayLock
<1>3. On({"input_ring"}, "none") \in State("trap") /\ On({}, "none") \in State("trap")
    BY <1>1 DEF On, State
<1>4. Goes("trap", <<>>, On({} \cup {"input_ring"}, "none"), On({} \cup {"input_ring"}, "none"))
    BY <1>1, <1>3, GoesNothing
<1> QED
    BY <1>1, <1>2, <1>3, <1>4, GoesUnder DEF Neutral, virtio_input_event_pop

\* A request's notification and the wait for its answer, the lock given back or not.
LEMMA GoesRequest ==
    ASSUME NEW w \in Caller, NEW d \in Device, w = "trap" => d = "gpu"
    PROVE  /\ On({d}, "none") \in State(w) /\ On({d}, d) \in State(w) /\ On({}, d) \in State(w)
           /\ On({}, "none") \in State(w)
           /\ Goes(w, Notify(d), On({d}, "none"), On({d}, d))
           /\ Goes(w, Poll(d), On({d}, d), On({d}, "none"))
           /\ Goes(w, Poll(d), On({}, d), On({}, "none"))
<1>1. /\ On({d}, "none") \in State(w) /\ On({d}, d) \in State(w) /\ On({}, d) \in State(w)
      /\ On({}, "none") \in State(w)
    BY DEF On, State, Device, Caller, Handlers, Locks
<1>2. w \notin Handlers
    BY Ranks
<1> DEFINE notify == [op |-> "notify", on |-> d]
           poll == [op |-> "poll", on |-> d]
<1>3. notify \in Op /\ poll \in Op /\ notify.op = "notify" /\ notify.on = d
      /\ poll.op = "poll" /\ poll.on = d
    BY OpFields
<1> HIDE DEF notify, poll
<1>4. Step(w, notify, On({d}, "none"), On({d}, d))
    BY <1>2, <1>3 DEF Step
<1>5. Step(w, poll, On({d}, d), On({d}, "none")) /\ Step(w, poll, On({}, d), On({}, "none"))
    BY <1>2, <1>3, OnFields DEF Step
<1>6. /\ Goes(w, <<notify>>, On({d}, "none"), On({d}, d))
      /\ Goes(w, <<poll>>, On({d}, d), On({d}, "none"))
      /\ Goes(w, <<poll>>, On({}, d), On({}, "none"))
    BY <1>1, <1>3, <1>4, <1>5, GoesOne
<1> QED
    BY <1>1, <1>6 DEF Notify, Poll, notify, poll

\* A request made under its device's lock and polled after it.
LEMMA RequestNeutral ==
    ASSUME NEW w \in Caller, NEW d \in Device, w = "trap" => d = "gpu",
           NEW body, Neutral(w, body, {d})
    PROVE  Neutral(w, Under(d, body \o Notify(d)) \o Poll(d) \o kfree, {})
<1>1. /\ d \in Locks /\ w \notin Handlers /\ {} \cup {d} = {d} /\ d # "input_ring"
      /\ d # "page_alloc" /\ {} \in SUBSET Outer
    BY Ranks DEF Device, Locks, Outer
<1>2. MayLock(w, d, {})
    BY <1>1 DEF MayLock
<1>3. Goes(w, body \o Notify(d), On({d}, "none"), On({d}, d))
    BY GoesRequest, GoesOn DEF Neutral
<1>4. Goes(w, Under(d, body \o Notify(d)), On({}, "none"), On({}, d))
    BY <1>1, <1>2, <1>3, GoesUnder, GoesRequest
<1>5. Goes(w, Under(d, body \o Notify(d)) \o Poll(d), On({}, "none"), On({}, "none"))
    BY <1>4, GoesRequest, GoesOn
<1>6. Neutral(w, kfree, {})
    BY <1>1, HeapNeutral
<1> QED
    BY <1>5, <1>6, GoesOn DEF Neutral

LEMMA GpuNeutral ==
    ASSUME NEW w \in Caller
    PROVE  \A r \in gpu_request : Neutral(w, r, {})
<1>1. "gpu" \in Device /\ {"gpu"} \in SUBSET Outer /\ {"gpu"} \in SUBSET (Outer \cup {"kmalloc"})
    BY DEF Device, Outer
<1>2. ASSUME NEW response \in kmalloc
      PROVE  Neutral(w, Under("gpu", response \o mmu_translate \o mmu_translate \o quick_kzalloc
                                        \o Notify("gpu")) \o Poll("gpu") \o kfree, {})
    <2>1. /\ Neutral(w, response, {"gpu"}) /\ Neutral(w, mmu_translate, {"gpu"})
          /\ Neutral(w, quick_kzalloc, {"gpu"})
        BY <1>1, HeapNeutral, TablesNeutral
    <2>2. Neutral(w, response \o mmu_translate \o mmu_translate \o quick_kzalloc, {"gpu"})
        BY <2>1, NeutralOn
    <2> QED
        BY <1>1, <2>2, RequestNeutral
<1> QED
    BY <1>2 DEF gpu_request

LEMMA RngNeutral == \A r \in rng_request : Neutral("console", r, {})
<1>1. /\ "rng" \in Device /\ {"rng"} \in SUBSET Outer /\ {"rng"} \in SUBSET (Outer \cup {"kmalloc"})
      /\ "console" \in Caller
    BY DEF Device, Outer, Caller
<1>2. ASSUME NEW info \in kmalloc
      PROVE  Neutral("console", Under("rng", mmu_translate \o info \o Notify("rng")) \o Poll("rng")
                                    \o kfree, {})
    <2>1. Neutral("console", info, {"rng"}) /\ Neutral("console", mmu_translate, {"rng"})
        BY <1>1, HeapNeutral, TablesNeutral
    <2>2. Neutral("console", mmu_translate \o info, {"rng"})
        BY <2>1, NeutralOn
    <2> QED
        BY <1>1, <2>2, RequestNeutral
<1> QED
    BY <1>2 DEF rng_request

BlockTaken(header, fill) ==
    header \o page_alloc \o fill \o quick_kzalloc \o mmu_translate \o mmu_translate
           \o mmu_translate \o quick_kzalloc

LEMMA BlockTakenNeutral ==
    ASSUME NEW header, NEW fill,
           Neutral("console", header, {"block"}), Neutral("console", fill, {"block"})
    PROVE  Neutral("console", BlockTaken(header, fill), {"block"})
<1>1. /\ {"block"} \in SUBSET Outer /\ {"block"} \in SUBSET (Outer \cup {"kmalloc"})
      /\ {"block"} \in SUBSET (Outer \cup {"kmalloc", "mmu"}) /\ "console" \in Caller
    BY DEF Outer, Caller
<1>2. /\ Neutral("console", quick_kzalloc, {"block"})
      /\ Neutral("console", mmu_translate, {"block"})
      /\ Neutral("console", page_alloc, {"block"})
    BY <1>1, HeapNeutral, TablesNeutral, PagesNeutral
<1>3. Neutral("console", header \o page_alloc, {"block"})
    BY <1>2, NeutralOn
<1>4. Neutral("console", header \o page_alloc \o fill, {"block"})
    BY <1>3, NeutralOn
<1>5. Neutral("console", header \o page_alloc \o fill \o quick_kzalloc \o mmu_translate, {"block"})
    BY <1>2, <1>4, NeutralOn
<1>6. Neutral("console", header \o page_alloc \o fill \o quick_kzalloc \o mmu_translate
                             \o mmu_translate \o mmu_translate, {"block"})
    BY <1>2, <1>5, NeutralOn
<1> QED
    BY <1>2, <1>6, NeutralOn DEF BlockTaken

LEMMA BlockNeutral ==
    /\ \A r \in block_read_poll : Neutral("console", r, {})
    /\ \A r \in block_write_poll : Neutral("console", r, {})
<1>1. /\ {"block"} \in SUBSET Outer /\ "console" \in Caller /\ "block" \in Device
      /\ {"block"} \in SUBSET (Locks \ {"input_ring"})
    BY Ranks DEF Outer, Caller, Device
<1>2. \A header, fill : BlockBody(header, fill) = BlockTaken(header, fill) \o Notify("block")
    BY DEF BlockBody, BlockTaken
<1>3. ASSUME NEW fill, Neutral("console", fill, {"block"})
      PROVE  \A r \in block_request(fill) : Neutral("console", r, {})
    <2>1. ASSUME NEW header \in kmalloc
          PROVE  Neutral("console", Under("block", BlockBody(header, fill))
                                        \o Poll("block") \o kfree, {})
        <3>1. Neutral("console", header, {"block"})
            BY <1>1, HeapNeutral
        <3>2. Neutral("console", BlockTaken(header, fill), {"block"})
            BY <1>3, <3>1, BlockTakenNeutral
        <3>3. Neutral("console", Under("block", BlockTaken(header, fill) \o Notify("block"))
                                     \o Poll("block") \o kfree, {})
            BY <1>1, <3>2, RequestNeutral
        <3> QED
            BY <1>2, <3>3
    <2> QED
        BY <2>1 DEF block_request
<1>4. Neutral("console", <<>>, {"block"})
    BY <1>1, NeutralNothing, Fits
<1>5. Neutral("console", BlockBody(quick_kzalloc, <<>>) \o Poll("block") \o kfree, {"block"})
    <2>1. Neutral("console", quick_kzalloc, {"block"}) /\ Neutral("console", kfree, {"block"})
        BY <1>1, HeapNeutral
    <2>2. Neutral("console", BlockTaken(quick_kzalloc, <<>>), {"block"})
        BY <1>4, <2>1, BlockTakenNeutral
    <2>3. Goes("console", BlockTaken(quick_kzalloc, <<>>) \o Notify("block"),
               On({"block"}, "none"), On({"block"}, "block"))
        BY <1>1, <2>2, GoesRequest, GoesOn DEF Neutral
    <2>4. Goes("console", BlockBody(quick_kzalloc, <<>>) \o Poll("block"),
               On({"block"}, "none"), On({"block"}, "none"))
        BY <1>1, <1>2, <2>3, GoesRequest, GoesOn
    <2> QED
        BY <2>1, <2>4, GoesOn DEF Neutral
<1> QED
    BY <1>3, <1>4, <1>5 DEF block_read_poll, block_write_poll

\* Every call of hart 0, and every trap of another hart.
LEMMA CallsNeutral ==
    /\ \A r \in Commands : Neutral("console", r, {})
    /\ \A r \in Traps : Neutral("trap", r, {})
<1>1. /\ "console" \in Caller /\ "trap" \in Caller /\ {} \in SUBSET Outer
      /\ {} \in SUBSET (Outer \cup {"kmalloc"}) /\ {} \in SUBSET (Outer \cup {"kmalloc", "mmu"})
    BY DEF Caller
<1>2. \A w \in Caller :
        /\ \A r \in kmalloc : Neutral(w, r, {})
        /\ Neutral(w, kfree, {}) /\ Neutral(w, mmu_translate, {})
        /\ Neutral(w, page_zalloc, {}) /\ Neutral(w, page_dealloc, {})
    BY <1>1, HeapNeutral, TablesNeutral, PagesNeutral
<1>3. \A r \in mmu_map : Neutral("console", r, {})
    BY <1>1, TablesNeutral
<1>4. \A r \in Commands : Neutral("console", r, {})
    BY <1>1, <1>2, <1>3, ScheduleNeutral, GpuNeutral, RngNeutral, BlockNeutral DEF Commands
<1>5. \A r \in Traps : Neutral("trap", r, {})
    BY <1>1, <1>2, ScheduleNeutral, GpuNeutral, RingPopNeutral DEF Traps
<1> QED
    BY <1>4, <1>5

\* The handlers: one lock at a time, and the device's own answer.
LEMMA HandlersNeutral == \A d \in Handlers : Neutral(d, Handler(d), {})
<1>1. \A d \in Handlers : On({}, "none") \in State(d)
    BY DEF On, State, Handlers
<1>2. ASSUME NEW d \in Handlers, NEW m \in Locks, MayLock(d, m, {})
      PROVE  Neutral(d, Under(m, <<>>), {})
    <2>1. {} \cup {m} = {m} /\ On({m}, "none") \in State(d)
        BY DEF On, State, Handlers
    <2>2. Goes(d, <<>>, On({} \cup {m}, "none"), On({} \cup {m}, "none"))
        BY <2>1, GoesNothing
    <2> QED
        BY <1>1, <1>2, <2>2, GoesUnder DEF Neutral
<1>3. ASSUME NEW d \in Device PROVE Neutral(d, Complete(d), {})
    <2> DEFINE complete == [op |-> "complete", on |-> d]
    <2>1. complete \in Op /\ complete.op = "complete" /\ d \in Handlers
        BY OpFields DEF Device, Handlers
    <2> HIDE DEF complete
    <2>2. Step(d, complete, On({}, "none"), On({}, "none"))
        BY <2>1 DEF Step
    <2>3. Goes(d, <<complete>>, On({}, "none"), On({}, "none"))
        BY <1>1, <2>1, <2>2, GoesOne
    <2> QED
        BY <2>3 DEF Neutral, Complete, complete
<1>4. /\ MayLock("gpu", "kmalloc", {}) /\ MayLock("block", "kmalloc", {})
      /\ MayLock("block", "page_alloc", {}) /\ MayLock("input", "input_ring", {})
      /\ {"kmalloc", "page_alloc", "input_ring"} \subseteq Locks
    BY DEF MayLock, Locks, Handlers
<1>5. /\ "gpu" \in Handlers /\ "block" \in Handlers /\ "rng" \in Handlers /\ "input" \in Handlers
      /\ "gpu" \in Device /\ "block" \in Device /\ "rng" \in Device
    BY DEF Handlers, Device
<1>6. /\ Neutral("gpu", kfree, {}) /\ Neutral("block", kfree, {})
      /\ Neutral("block", page_dealloc, {}) /\ Neutral("input", virtio_input_event_push, {})
    BY <1>2, <1>4, <1>5 DEF kfree, page_dealloc, virtio_input_event_push
<1>7. Neutral("gpu", Complete("gpu") \o kfree \o kfree, {})
    BY <1>3, <1>5, <1>6, NeutralOn
<1>8. Neutral("block", Complete("block") \o page_dealloc \o kfree \o kfree, {})
    <2>1. Neutral("block", Complete("block") \o page_dealloc, {})
        BY <1>3, <1>5, <1>6, NeutralOn
    <2> QED
        BY <1>6, <2>1, NeutralOn
<1> QED
    BY <1>3, <1>5, <1>6, <1>7, <1>8 DEF Handler, Handlers

-----------------------------------------------------------------------------
(* The inductive invariant. *)

Idle == On({}, "none")
AnyState == [held : SUBSET Locks, on : Device \cup {"none"}]
Who(h) == IF h = 0 THEN "console" ELSE "trap"

\* b: what is left of each hart's routine, and x: where it is; hs and hx: what is left of
\* the handler on hart 0, and where that is.
Left(b, hs) == [h \in Harts |-> IF h = 0 /\ InHandler THEN hs \o Return \o b[0] ELSE b[h]]

Routines(b, x, hs, hx) ==
    /\ b \in [Harts -> Seq(Op)] /\ x \in [Harts -> AnyState] /\ hs \in Seq(Op) /\ hx \in AnyState
    /\ \A h \in Harts : Goes(Who(h), b[h], x[h], Idle)
    /\ todo = Left(b, hs)
    /\ InHandler => irq[1] \in Handlers /\ irq[2] \in Harts /\ Goes(irq[1], hs, hx, Idle)
    /\ ~ InHandler => hx = Idle

Holding(x, hx) ==
    /\ held \in [Locks -> Harts \cup {None}]
    /\ \A m \in Locks, h \in Harts :
          held[m] = h <=> m \in x[h].held \/ (h = 0 /\ m \in hx.held)
    /\ x[0].held \cap hx.held = {}

Asking(x) ==
    /\ asked \in [Device -> SUBSET Harts]
    /\ \A d \in Device : \A h \in asked[d] : x[h].on = d
    /\ InHandler => /\ irq[1] \in {"block", "rng"} => irq[2] = 0
                    /\ irq[1] \in Device /\ irq[2] = 0 => x[0].on = irq[1]

Inv(b, x, hs, hx) == Routines(b, x, hs, hx) /\ Holding(x, hx) /\ Asking(x)

IInv == \E b, x, hs, hx : Inv(b, x, hs, hx)

LEMMA HartZero == 0 \in Harts /\ None \notin Harts /\ \A h \in Harts : Who(h) \in Caller
BY HartsAssumption DEF None, Who, Caller

LEMMA StateIsAny == \A w : State(w) \subseteq AnyState
BY DEF State, AnyState

LEMMA HeadOfConcat ==
    ASSUME NEW S, NEW s \in Seq(S), NEW t \in Seq(S), s # <<>>
    PROVE  /\ s \o t \in Seq(S) /\ s \o t # <<>>
           /\ Head(s \o t) = Head(s) /\ Tail(s \o t) = Tail(s) \o t
<1> DEFINE n == Len(s) - 1
           k == Len(t)
           c == s \o t
           l == Tail(c)
           r == Tail(s) \o t
<1>1. n \in Nat /\ k \in Nat /\ Len(s) = n + 1 /\ Tail(s) \in Seq(S) /\ Len(Tail(s)) = n
      /\ Head(s) = s[1] /\ \A i \in 1 .. n : Tail(s)[i] = s[i + 1]
    BY EmptySeq, HeadTailProperties, LenProperties
<1> HIDE DEF n
<1>2. /\ c \in Seq(S) /\ Len(c) = n + 1 + k
      /\ \A i \in 1 .. n + 1 + k : c[i] = IF i <= n + 1 THEN s[i] ELSE t[i - (n + 1)]
    BY <1>1, ConcatProperties
<1>3. /\ r \in Seq(S) /\ Len(r) = n + k
      /\ \A i \in 1 .. n + k : r[i] = IF i <= n THEN Tail(s)[i] ELSE t[i - n]
    BY <1>1, ConcatProperties
<1> HIDE DEF k, c, r
<1>4. c # <<>>
    BY <1>1, <1>2, EmptySeq
<1>5. /\ l \in Seq(S) /\ Len(l) = n + k /\ Head(c) = c[1]
      /\ \A i \in 1 .. n + k : l[i] = c[i + 1]
    BY <1>1, <1>2, <1>4, HeadTailProperties
<1> HIDE DEF l
<1>6. c[1] = s[1]
    BY <1>1, <1>2
<1>7. ASSUME NEW i \in 1 .. n + k PROVE l[i] = r[i]
    <2>1. i + 1 \in 1 .. n + 1 + k /\ (i + 1) - (n + 1) = i - n /\ (i + 1 <= n + 1 <=> i <= n)
        BY <1>1
    <2>2. l[i] = IF i <= n THEN s[i + 1] ELSE t[i - n]
        BY <1>2, <1>5, <2>1
    <2>3. i <= n => Tail(s)[i] = s[i + 1]
        BY <1>1
    <2> QED
        BY <1>3, <2>2, <2>3
<1>8. l = r
    BY <1>1, <1>3, <1>5, <1>7, SeqEqual
<1> QED
    BY <1>1, <1>2, <1>4, <1>5, <1>6, <1>8 DEF c, l, r

\* The next operation is the handler's, its return, or the hart's routine's.
LEMMA NextOperation ==
    ASSUME NEW b, NEW x, NEW hs, NEW hx, Routines(b, x, hs, hx),
           NEW h \in Harts, todo[h] # <<>>
    PROVE  \/ /\ h = 0 /\ InHandler /\ hs # <<>>
              /\ Next1(h) = Head(hs) /\ Tail(todo[h]) = Tail(hs) \o Return \o b[0]
           \/ /\ h = 0 /\ InHandler /\ hs = <<>>
              /\ Next1(h).op = "return" /\ Tail(todo[h]) = b[0]
           \/ /\ ~ (h = 0 /\ InHandler) /\ b[h] # <<>>
              /\ Next1(h) = Head(b[h]) /\ Tail(todo[h]) = Tail(b[h])
<1> DEFINE E == Op \cup {[op |-> "return", on |-> "none"]}
<1>1. /\ b \in [Harts -> Seq(Op)] /\ hs \in Seq(Op) /\ todo[h] = Left(b, hs)[h] /\ b[0] \in Seq(Op)
    BY HartZero DEF Routines
<1>2. hs \in Seq(E) /\ b[0] \in Seq(E) /\ Return \in Seq(E)
    <2>1. Op \subseteq E
        OBVIOUS
    <2>2. Return \in Seq(E)
        BY DEF Return
    <2> HIDE DEF E
    <2> QED
        BY <1>1, <2>1, <2>2, SeqMonotonic
<1>3. Return # <<>> /\ Head(Return).op = "return" /\ Tail(Return) = <<>>
    BY DEF Return
<1> HIDE DEF E
<1>4. CASE h = 0 /\ InHandler /\ hs # <<>>
    <2>1. todo[h] = (hs \o Return) \o b[0]
        BY <1>1, <1>4 DEF Left
    <2>2. /\ hs \o Return \in Seq(E) /\ hs \o Return # <<>>
          /\ Head(hs \o Return) = Head(hs) /\ Tail(hs \o Return) = Tail(hs) \o Return
        BY <1>2, <1>4, HeadOfConcat
    <2> DEFINE c == hs \o Return
    <2>3. Head(c \o b[0]) = Head(c) /\ Tail(c \o b[0]) = Tail(c) \o b[0]
        <3>1. c \in Seq(E) /\ c # <<>> /\ b[0] \in Seq(E)
            BY <1>2, <2>2
        <3> HIDE DEF c
        <3> QED
            BY <3>1, HeadOfConcat
    <2> QED
        BY <1>4, <2>1, <2>2, <2>3 DEF Next1
<1>5. CASE h = 0 /\ InHandler /\ hs = <<>>
    <2>1. todo[h] = Return \o b[0]
        <3>1. hs \o Return = Return
            BY <1>2, <1>5, ConcatEmptySeq
        <3> QED
            BY <1>1, <1>5, <3>1 DEF Left
    <2>2. Head(Return \o b[0]) = Head(Return) /\ Tail(Return \o b[0]) = Tail(Return) \o b[0]
        <3>1. Return \in Seq(E) /\ Return # <<>> /\ b[0] \in Seq(E)
            BY <1>2, <1>3
        <3> QED
            BY <3>1, HeadOfConcat
    <2>3. <<>> \o b[0] = b[0]
        BY <1>2, ConcatEmptySeq
    <2> QED
        BY <1>3, <1>5, <2>1, <2>2, <2>3 DEF Next1
<1>6. CASE ~ (h = 0 /\ InHandler)
    <2>1. todo[h] = b[h]
        BY <1>1, <1>6 DEF Left
    <2> QED
        BY <1>6, <2>1 DEF Next1
<1> QED
    BY <1>4, <1>5, <1>6

\* A hart's routine goes on.
LEMMA RoutineMoves ==
    ASSUME NEW b, NEW x, NEW hs, NEW hx, Routines(b, x, hs, hx),
           NEW h \in Harts, ~ (h = 0 /\ InHandler), NEW t, NEW v, Goes(Who(h), t, v, Idle),
           todo' = [todo EXCEPT ![h] = t], irq' = irq
    PROVE  Routines([b EXCEPT ![h] = t], [x EXCEPT ![h] = v], hs, hx)'
<1> DEFINE c == [b EXCEPT ![h] = t]
           y == [x EXCEPT ![h] = v]
<1>1. t \in Seq(Op) /\ v \in AnyState
    BY GoesStates, StateIsAny DEF Goes
<1>2. /\ b \in [Harts -> Seq(Op)] /\ x \in [Harts -> AnyState]
      /\ todo = Left(b, hs) /\ \A g \in Harts : Goes(Who(g), b[g], x[g], Idle)
    BY DEF Routines
<1>3. /\ c \in [Harts -> Seq(Op)] /\ y \in [Harts -> AnyState] /\ c[h] = t /\ y[h] = v
      /\ \A g \in Harts \ {h} : c[g] = b[g] /\ y[g] = x[g]
    BY <1>1, <1>2
<1> HIDE DEF c, y
<1>4. \A g \in Harts : Goes(Who(g), c[g], y[g], Idle)
    <2> TAKE g \in Harts
    <2> QED
        BY <1>2, <1>3
<1>5. todo' = Left(c, hs)'
    <2>1. todo' = [g \in Harts |-> IF g = h THEN t ELSE Left(b, hs)[g]]
        BY <1>2 DEF Left
    <2>2. InHandler' = InHandler
        BY DEF InHandler
    <2>3. \A g \in Harts : (IF g = h THEN t ELSE Left(b, hs)[g])
                           = IF g = 0 /\ InHandler THEN hs \o Return \o c[0] ELSE c[g]
        BY <1>3, HartZero DEF Left
    <2> QED
        BY <2>1, <2>2, <2>3 DEF Left
<1>6. Routines(c, y, hs, hx)'
    BY <1>3, <1>4, <1>5 DEF Routines, InHandler
<1> QED
    BY <1>6 DEF c, y

\* The handler goes on.
LEMMA HandlerMoves ==
    ASSUME NEW b, NEW x, NEW hs, NEW hx, Routines(b, x, hs, hx),
           InHandler, NEW t, NEW v, Goes(irq[1], t, v, Idle),
           todo' = [todo EXCEPT ![0] = t \o Return \o b[0]], irq' = irq
    PROVE  Routines(b, x, t, v)'
<1>1. t \in Seq(Op) /\ v \in AnyState
    BY GoesStates, StateIsAny DEF Goes
<1>2. todo' = Left(b, t)'
    <2>1. todo = Left(b, hs)
        BY DEF Routines
    <2> QED
        BY <2>1, HartZero DEF Left, InHandler
<1> QED
    BY <1>1, <1>2 DEF Routines, InHandler

\* What the next operation of a hart does to the places and the states.
LEMMA NextStep ==
    ASSUME NEW b, NEW x, NEW hs, NEW hx, Routines(b, x, hs, hx),
           NEW h \in Harts, todo[h] # <<>>, Advance(h)
    PROVE  \/ /\ h = 0 /\ InHandler
              /\ \E v \in State(irq[1]) :
                    /\ Step(irq[1], Next1(h), hx, v)
                    /\ irq' = irq => Routines(b, x, Tail(hs), v)'
           \/ /\ h = 0 /\ InHandler /\ hs = <<>>
              /\ Next1(h).op = "return" /\ todo' = [todo EXCEPT ![0] = b[0]]
           \/ /\ ~ (h = 0 /\ InHandler)
              /\ \E v \in State(Who(h)) :
                    /\ Step(Who(h), Next1(h), x[h], v)
                    /\ irq' = irq => Routines([b EXCEPT ![h] = Tail(b[h])],
                                              [x EXCEPT ![h] = v], hs, hx)'
<1>1. todo' = [todo EXCEPT ![h] = Tail(todo[h])]
    BY DEF Advance
<1> DEFINE InIt == /\ h = 0 /\ InHandler /\ hs # <<>>
                   /\ Next1(h) = Head(hs) /\ Tail(todo[h]) = Tail(hs) \o Return \o b[0]
           AtEnd == /\ h = 0 /\ InHandler /\ hs = <<>>
                    /\ Next1(h).op = "return" /\ Tail(todo[h]) = b[0]
           OnItsOwn == /\ ~ (h = 0 /\ InHandler) /\ b[h] # <<>>
                       /\ Next1(h) = Head(b[h]) /\ Tail(todo[h]) = Tail(b[h])
<1>0. InIt \/ AtEnd \/ OnItsOwn
    BY NextOperation
<1>2. CASE InIt
    <2>1. Goes(irq[1], hs, hx, Idle)
        BY <1>2 DEF Routines
    <2>2. PICK v \in State(irq[1]) :
              Step(irq[1], Head(hs), hx, v) /\ Goes(irq[1], Tail(hs), v, Idle)
        BY <1>2, <2>1, GoesTail
    <2>3. irq' = irq => Routines(b, x, Tail(hs), v)'
        BY <1>1, <1>2, <2>2, HandlerMoves
    <2> QED
        BY <1>2, <2>2, <2>3
<1>3. CASE AtEnd
    BY <1>1, <1>3
<1>4. CASE OnItsOwn
    <2>1. Goes(Who(h), b[h], x[h], Idle)
        BY DEF Routines
    <2>2. PICK v \in State(Who(h)) :
              Step(Who(h), Head(b[h]), x[h], v) /\ Goes(Who(h), Tail(b[h]), v, Idle)
        BY <1>4, <2>1, GoesTail
    <2>3. irq' = irq => Routines([b EXCEPT ![h] = Tail(b[h])], [x EXCEPT ![h] = v], hs, hx)'
        BY <1>1, <1>4, <2>2, RoutineMoves
    <2> QED
        BY <1>4, <2>2, <2>3
<1> HIDE DEF InIt, AtEnd, OnItsOwn
<1> QED
    BY <1>0, <1>2, <1>3, <1>4

-----------------------------------------------------------------------------
(* The steps. *)

Has(x, hx, h, m) == m \in x[h].held \/ (h = 0 /\ m \in hx.held)

\* From x and hx to y and hy, h has got m, or given it back.
Gets(x, hx, y, hy, h, m) ==
    /\ y[0].held \cap hy.held = {}
    /\ \A n \in Locks, g \in Harts : Has(y, hy, g, n) <=> Has(x, hx, g, n) \/ (g = h /\ n = m)
GivesUp(x, hx, y, hy, h, m) ==
    /\ y[0].held \cap hy.held = {}
    /\ \A n \in Locks, g \in Harts : Has(y, hy, g, n) <=> Has(x, hx, g, n) /\ ~ (g = h /\ n = m)

LEMMA HoldingLock ==
    ASSUME NEW x, NEW hx, NEW y, NEW hy, NEW h \in Harts, NEW m \in Locks,
           Gets(x, hx, y, hy, h, m), Holding(x, hx), held[m] = None,
           held' = [held EXCEPT ![m] = h]
    PROVE  Holding(y, hy)'
<1> USE DEF Gets
<1>1. /\ held \in [Locks -> Harts \cup {None}]
      /\ \A n \in Locks, g \in Harts : held[n] = g <=> Has(x, hx, g, n)
    BY DEF Holding, Has
<1>2. held' \in [Locks -> Harts \cup {None}]
    BY <1>1
<1>3. ASSUME NEW n \in Locks, NEW g \in Harts PROVE held'[n] = g <=> Has(y, hy, g, n)
    BY <1>1, HartZero
<1> QED
    BY <1>2, <1>3 DEF Holding, Has

LEMMA HoldingUnlock ==
    ASSUME NEW x, NEW hx, NEW y, NEW hy, NEW h \in Harts, NEW m \in Locks,
           GivesUp(x, hx, y, hy, h, m), Holding(x, hx), Has(x, hx, h, m),
           held' = [held EXCEPT ![m] = None]
    PROVE  Holding(y, hy)'
<1> USE DEF GivesUp
<1>1. /\ held \in [Locks -> Harts \cup {None}]
      /\ \A n \in Locks, g \in Harts : held[n] = g <=> Has(x, hx, g, n)
    BY DEF Holding, Has
<1>2. held' \in [Locks -> Harts \cup {None}]
    BY <1>1
<1>3. ASSUME NEW n \in Locks, NEW g \in Harts PROVE held'[n] = g <=> Has(y, hy, g, n)
    BY <1>1, HartZero
<1> QED
    BY <1>2, <1>3 DEF Holding, Has

LEMMA LockKeeps ==
    ASSUME NEW b, NEW x, NEW hs, NEW hx, Inv(b, x, hs, hx), NEW h \in Harts, mutex_sbi_lock(h)
    PROVE  IInv'
<1> DEFINE m == Next1(h).on
<1>1. /\ todo[h] # <<>> /\ Next1(h).op = "lock" /\ Advance(h) /\ held[m] = None
      /\ held' = [held EXCEPT ![m] = h] /\ asked' = asked /\ irq' = irq
      /\ Routines(b, x, hs, hx) /\ Holding(x, hx) /\ Asking(x)
      /\ x \in [Harts -> AnyState] /\ hx \in AnyState
    BY DEF mutex_sbi_lock, At, Inv, Routines
<1>2. \A w, y, v : Step(w, Next1(h), y, v) =>
          m \in Locks /\ y.on = "none" /\ v.held = y.held \cup {m} /\ v.on = "none"
    BY <1>1, OnFields DEF Step, MayLock
<1> HIDE DEF m
<1>3. ASSUME h = 0, InHandler, NEW v \in State(irq[1]), Step(irq[1], Next1(h), hx, v),
             Routines(b, x, Tail(hs), v)'
      PROVE  IInv'
    <2>1. m \in Locks /\ v.held = hx.held \cup {m}
        BY <1>2, <1>3
    <2>2. ~ Has(x, hx, 0, m)
        BY <1>1, <2>1, HartZero DEF Holding, Has
    <2>3. x[0].held \cap v.held = {}
        BY <1>1, <2>1, <2>2 DEF Holding, Has
    <2>4. Gets(x, hx, x, v, h, m)
        BY <1>3, <2>1, <2>3 DEF Has, Gets
    <2>5. Holding(x, v)'
        BY <1>1, <2>1, <2>4, HoldingLock
    <2>6. Asking(x)'
        BY <1>1 DEF Asking, InHandler
    <2> QED
        BY <1>3, <2>5, <2>6 DEF IInv, Inv
<1>4. ASSUME ~ (h = 0 /\ InHandler), NEW v \in State(Who(h)), Step(Who(h), Next1(h), x[h], v),
             Routines([b EXCEPT ![h] = Tail(b[h])], [x EXCEPT ![h] = v], hs, hx)'
      PROVE  IInv'
    <2> DEFINE y == [x EXCEPT ![h] = v]
               c == [b EXCEPT ![h] = Tail(b[h])]
    <2>1. m \in Locks /\ x[h].on = "none" /\ v.held = x[h].held \cup {m} /\ v.on = "none"
        BY <1>2, <1>4
    <2>2. y[h] = v /\ \A g \in Harts \ {h} : y[g] = x[g]
        BY <1>1
    <2>3. h = 0 => hx.held = {}
        BY <1>1, <1>4, OnFields DEF Routines, Idle
    <2>4. Routines(c, y, hs, hx)'
        BY <1>4
    <2> HIDE DEF y, c
    <2>5. y[0].held \cap hx.held = {}
        BY <1>1, <2>2, <2>3, HartZero DEF Holding
    <2>6. Gets(x, hx, y, hx, h, m)
        BY <2>1, <2>2, <2>5 DEF Has, Gets
    <2>7. Holding(y, hx)'
        BY <1>1, <2>1, <2>6, HoldingLock
    <2>8. Asking(y)'
        <3>1. \A g \in Harts : y[g].on = x[g].on
            BY <2>1, <2>2
        <3> QED
            BY <1>1, <3>1, HartZero DEF Asking, InHandler
    <2> QED
        BY <2>4, <2>7, <2>8 DEF IInv, Inv
<1> QED
    BY <1>1, <1>3, <1>4, NextStep

LEMMA UnlockKeeps ==
    ASSUME NEW b, NEW x, NEW hs, NEW hx, Inv(b, x, hs, hx), NEW h \in Harts, mutex_unlock(h)
    PROVE  IInv'
<1> DEFINE m == Next1(h).on
<1>1. /\ todo[h] # <<>> /\ Next1(h).op = "unlock" /\ Advance(h)
      /\ held' = [held EXCEPT ![m] = None] /\ asked' = asked /\ irq' = irq
      /\ Routines(b, x, hs, hx) /\ Holding(x, hx) /\ Asking(x)
      /\ x \in [Harts -> AnyState] /\ hx \in AnyState
    BY DEF mutex_unlock, At, Inv, Routines
<1>2. \A w, y, v : Step(w, Next1(h), y, v) =>
          m \in y.held /\ v.held = y.held \ {m} /\ v.on = y.on
    BY <1>1, OnFields DEF Step
<1> HIDE DEF m
<1>3. ASSUME h = 0, InHandler, NEW v \in State(irq[1]), Step(irq[1], Next1(h), hx, v),
             Routines(b, x, Tail(hs), v)'
      PROVE  IInv'
    <2>1. m \in hx.held /\ v.held = hx.held \ {m} /\ m \in Locks
        BY <1>1, <1>2, <1>3 DEF AnyState
    <2>2. Has(x, hx, 0, m) /\ m \notin x[0].held
        BY <1>1, <2>1 DEF Holding, Has
    <2>3. x[0].held \cap v.held = {}
        BY <1>1, <2>1 DEF Holding
    <2>4. GivesUp(x, hx, x, v, h, m)
        <3>1. \A n \in Locks, g \in Harts :
                  Has(x, v, g, n) <=> Has(x, hx, g, n) /\ ~ (g = h /\ n = m)
            <4>1. ASSUME NEW g \in Harts \ {0} PROVE ~ Has(x, hx, g, m) \/ g # 0
                OBVIOUS
            <4> QED
                BY <1>3, <2>1, <2>2 DEF Has
        <3> QED
            BY <2>3, <3>1 DEF GivesUp
    <2>5. Holding(x, v)'
        BY <1>1, <1>3, <2>1, <2>2, <2>4, HoldingUnlock
    <2>6. Asking(x)'
        BY <1>1 DEF Asking, InHandler
    <2> QED
        BY <1>3, <2>5, <2>6 DEF IInv, Inv
<1>4. ASSUME ~ (h = 0 /\ InHandler), NEW v \in State(Who(h)), Step(Who(h), Next1(h), x[h], v),
             Routines([b EXCEPT ![h] = Tail(b[h])], [x EXCEPT ![h] = v], hs, hx)'
      PROVE  IInv'
    <2> DEFINE y == [x EXCEPT ![h] = v]
               c == [b EXCEPT ![h] = Tail(b[h])]
    <2>1. m \in x[h].held /\ v.held = x[h].held \ {m} /\ v.on = x[h].on /\ m \in Locks
        BY <1>1, <1>2, <1>4 DEF AnyState
    <2>2. y[h] = v /\ \A g \in Harts \ {h} : y[g] = x[g]
        BY <1>1
    <2>3. h = 0 => hx.held = {}
        BY <1>1, <1>4, OnFields DEF Routines, Idle
    <2>4. Routines(c, y, hs, hx)'
        BY <1>4
    <2> HIDE DEF y, c
    <2>5. y[0].held \cap hx.held = {}
        BY <1>1, <2>2, <2>3, HartZero DEF Holding
    <2>6. GivesUp(x, hx, y, hx, h, m)
        BY <2>1, <2>2, <2>3, <2>5 DEF Has, GivesUp
    <2>7. Holding(y, hx)'
        BY <1>1, <2>1, <2>6, HoldingUnlock DEF Has
    <2>8. Asking(y)'
        <3>1. \A g \in Harts : y[g].on = x[g].on
            BY <2>1, <2>2
        <3> QED
            BY <1>1, <3>1, HartZero DEF Asking, InHandler
    <2> QED
        BY <2>4, <2>7, <2>8 DEF IInv, Inv
<1> QED
    BY <1>1, <1>3, <1>4, NextStep

LEMMA AskKeeps ==
    ASSUME NEW b, NEW x, NEW hs, NEW hx, Inv(b, x, hs, hx), NEW h \in Harts, Ask(h)
    PROVE  IInv'
<1> DEFINE d == Next1(h).on
<1>1. /\ todo[h] # <<>> /\ Next1(h).op = "notify" /\ Advance(h)
      /\ held' = held /\ asked' = [asked EXCEPT ![d] = @ \cup {h}] /\ irq' = irq
      /\ Routines(b, x, hs, hx) /\ Holding(x, hx) /\ Asking(x)
      /\ x \in [Harts -> AnyState] /\ hx \in AnyState
    BY DEF Ask, At, Inv, Routines
<1>2. \A w, y, v : Step(w, Next1(h), y, v) =>
          w \notin Handlers /\ d \in Device /\ y.on = "none" /\ v.held = y.held /\ v.on = d
    BY <1>1, OnFields DEF Step
<1> HIDE DEF d
<1>3. ASSUME h = 0, InHandler, NEW v \in State(irq[1]), Step(irq[1], Next1(h), hx, v)
      PROVE  FALSE
    BY <1>1, <1>2, <1>3 DEF Routines
<1>4. ASSUME ~ (h = 0 /\ InHandler), NEW v \in State(Who(h)), Step(Who(h), Next1(h), x[h], v),
             Routines([b EXCEPT ![h] = Tail(b[h])], [x EXCEPT ![h] = v], hs, hx)'
      PROVE  IInv'
    <2> DEFINE y == [x EXCEPT ![h] = v]
               c == [b EXCEPT ![h] = Tail(b[h])]
    <2>1. d \in Device /\ x[h].on = "none" /\ v.held = x[h].held /\ v.on = d
        BY <1>2, <1>4
    <2>2. y[h] = v /\ \A g \in Harts \ {h} : y[g] = x[g]
        BY <1>1
    <2>3. Routines(c, y, hs, hx)'
        BY <1>4
    <2> HIDE DEF y, c
    <2>4. \A g \in Harts : y[g].held = x[g].held
        BY <2>1, <2>2
    <2>5. Holding(y, hx)'
        BY <1>1, <2>4, HartZero DEF Holding
    <2>6. Asking(y)'
        <3>1. /\ asked \in [Device -> SUBSET Harts]
              /\ \A e \in Device : \A g \in asked[e] : g \in Harts /\ x[g].on = e
            BY <1>1 DEF Asking
        <3>2. asked' \in [Device -> SUBSET Harts]
            BY <1>1, <2>1, <3>1
        <3>3. ASSUME NEW e \in Device, NEW g \in asked'[e] PROVE y[g].on = e
            <4>1. CASE g = h
                <5>1. g \notin asked[e]
                    <6>1. "none" \notin Device
                        BY DEF Device
                    <6> QED
                        BY <2>1, <3>1, <4>1, <6>1
                <5>2. e = d
                    BY <1>1, <3>1, <3>3, <5>1
                <5> QED
                    BY <2>1, <2>2, <4>1, <5>2
            <4>2. CASE g # h
                <5>1. g \in asked[e]
                    BY <1>1, <3>1, <3>3, <4>2
                <5> QED
                    BY <2>2, <3>1, <4>2, <5>1
            <4> QED
                BY <4>1, <4>2
        <3>4. InHandler => h # 0
            BY <1>4
        <3> QED
            BY <1>1, <2>2, <3>2, <3>3, <3>4, HartZero DEF Asking, InHandler
    <2> QED
        BY <2>3, <2>5, <2>6 DEF IInv, Inv
<1> QED
    BY <1>1, <1>3, <1>4, NextStep

LEMMA PollKeeps ==
    ASSUME NEW b, NEW x, NEW hs, NEW hx, Inv(b, x, hs, hx), NEW h \in Harts, PollReturns(h)
    PROVE  IInv'
<1> DEFINE d == Next1(h).on
<1>1. /\ todo[h] # <<>> /\ Next1(h).op = "poll" /\ Advance(h) /\ h \notin asked[d]
      /\ held' = held /\ asked' = asked /\ irq' = irq
      /\ Routines(b, x, hs, hx) /\ Holding(x, hx) /\ Asking(x)
      /\ x \in [Harts -> AnyState] /\ hx \in AnyState
    BY DEF PollReturns, At, Inv, Routines
<1>2. \A w, y, v : Step(w, Next1(h), y, v) =>
          w \notin Handlers /\ d \in Device /\ y.on = d /\ v.held = y.held /\ v.on = "none"
    BY <1>1, OnFields DEF Step
<1> HIDE DEF d
<1>3. ASSUME h = 0, InHandler, NEW v \in State(irq[1]), Step(irq[1], Next1(h), hx, v)
      PROVE  FALSE
    BY <1>1, <1>2, <1>3 DEF Routines
<1>4. ASSUME ~ (h = 0 /\ InHandler), NEW v \in State(Who(h)), Step(Who(h), Next1(h), x[h], v),
             Routines([b EXCEPT ![h] = Tail(b[h])], [x EXCEPT ![h] = v], hs, hx)'
      PROVE  IInv'
    <2> DEFINE y == [x EXCEPT ![h] = v]
               c == [b EXCEPT ![h] = Tail(b[h])]
    <2>1. d \in Device /\ x[h].on = d /\ v.held = x[h].held /\ v.on = "none"
        BY <1>2, <1>4
    <2>2. y[h] = v /\ \A g \in Harts \ {h} : y[g] = x[g]
        BY <1>1
    <2>3. Routines(c, y, hs, hx)'
        BY <1>4
    <2> HIDE DEF y, c
    <2>4. \A g \in Harts : y[g].held = x[g].held
        BY <2>1, <2>2
    <2>5. Holding(y, hx)'
        BY <1>1, <2>4, HartZero DEF Holding
    <2>6. Asking(y)'
        <3>1. \A e \in Device : \A g \in asked[e] : g \in Harts /\ x[g].on = e /\ g # h
            BY <1>1, <2>1 DEF Asking
        <3>2. InHandler => h # 0
            BY <1>4
        <3> QED
            BY <1>1, <2>2, <3>1, <3>2, HartZero DEF Asking, InHandler
    <2> QED
        BY <2>3, <2>5, <2>6 DEF IInv, Inv
<1> QED
    BY <1>1, <1>3, <1>4, NextStep

\* Hart 0 is not done while it is in a handler: what is left of the handler, the return
\* and its own routine are all still to come.
LEMMA HandlerLeft ==
    ASSUME NEW b, NEW x, NEW hs, NEW hx, Routines(b, x, hs, hx), InHandler
    PROVE  /\ todo[0] # <<>>
           /\ \E k \in DOMAIN todo[0] : todo[0][k] = Return[1]
           /\ \A k \in DOMAIN hs : \E l \in DOMAIN todo[0] : todo[0][l] = hs[k]
           /\ \A k \in DOMAIN b[0] : \E l \in DOMAIN todo[0] : todo[0][l] = b[0][k]
<1> DEFINE E == Op \cup {[op |-> "return", on |-> "none"]}
           c == hs \o Return
           d == c \o b[0]
           n == Len(hs)
           k0 == Len(b[0])
<1>1. hs \in Seq(E) /\ b[0] \in Seq(E) /\ Return \in Seq(E) /\ Len(Return) = 1
    <2>1. hs \in Seq(Op) /\ b[0] \in Seq(Op) /\ Op \subseteq E
        BY HartZero DEF Routines
    <2>2. Return \in Seq(E) /\ Len(Return) = 1
        BY DEF Return
    <2> HIDE DEF E
    <2> QED
        BY <2>1, <2>2, SeqMonotonic
<1>2. todo[0] = d
    BY HartZero DEF Routines, Left
<1> HIDE DEF E
<1>3. /\ n \in Nat /\ k0 \in Nat /\ DOMAIN hs = 1 .. n /\ DOMAIN b[0] = 1 .. k0
    BY <1>1, LenProperties
<1>4. /\ c \in Seq(E) /\ Len(c) = n + 1
      /\ \A i \in 1 .. n + 1 : c[i] = IF i <= n THEN hs[i] ELSE Return[i - n]
    <2>1. /\ c \in Seq(E) /\ Len(c) = Len(hs) + Len(Return)
          /\ \A i \in 1 .. Len(hs) + Len(Return) :
                c[i] = IF i <= Len(hs) THEN hs[i] ELSE Return[i - Len(hs)]
        BY <1>1, ConcatProperties
    <2> QED
        BY <1>1, <2>1
<1> HIDE DEF n, k0, c
<1>5. /\ d \in Seq(E) /\ Len(d) = n + 1 + k0
      /\ \A i \in 1 .. n + 1 + k0 : d[i] = IF i <= n + 1 THEN c[i] ELSE b[0][i - (n + 1)]
    BY <1>1, <1>4, ConcatProperties DEF k0
<1> HIDE DEF d
<1>6. DOMAIN d = 1 .. n + 1 + k0 /\ d # <<>>
    <2>1. DOMAIN d = 1 .. n + 1 + k0
        BY <1>5, LenProperties
    <2> QED
        BY <1>3, <1>5, <2>1, EmptySeq
<1>7. n + 1 \in DOMAIN d /\ d[n + 1] = Return[1]
    <2>1. n + 1 \in 1 .. n + 1 + k0 /\ n + 1 \in 1 .. n + 1 /\ ~(n + 1 <= n) /\ (n + 1) - n = 1
        BY <1>3
    <2> QED
        BY <1>4, <1>5, <1>6, <2>1
<1>8. ASSUME NEW k \in 1 .. n PROVE k \in DOMAIN d /\ d[k] = hs[k]
    <2>1. k \in 1 .. n + 1 + k0 /\ k \in 1 .. n + 1 /\ k <= n /\ k <= n + 1
        BY <1>3
    <2> QED
        BY <1>4, <1>5, <1>6, <2>1
<1>9. ASSUME NEW k \in 1 .. k0 PROVE n + 1 + k \in DOMAIN d /\ d[n + 1 + k] = b[0][k]
    <2>1. n + 1 + k \in 1 .. n + 1 + k0 /\ ~(n + 1 + k <= n + 1) /\ (n + 1 + k) - (n + 1) = k
        BY <1>3
    <2> QED
        BY <1>5, <1>6, <2>1
<1> QED
    BY <1>2, <1>3, <1>6, <1>7, <1>8, <1>9

LEMMA CallKeeps ==
    ASSUME NEW b, NEW x, NEW hs, NEW hx, Inv(b, x, hs, hx), NEW h \in Harts, Call(h)
    PROVE  IInv'
<1>1. /\ todo[h] = <<>> /\ UNCHANGED <<held, asked, irq>>
      /\ Routines(b, x, hs, hx) /\ Holding(x, hx) /\ Asking(x)
    BY DEF Call, Inv
<1>2. ~ (h = 0 /\ InHandler)
    BY <1>1, HandlerLeft
<1>3. PICK routine \in IF h = 0 THEN Commands ELSE Traps :
          todo' = [todo EXCEPT ![h] = routine]
    BY DEF Call
<1>4. Goes(Who(h), routine, Idle, Idle)
    BY <1>3, CallsNeutral DEF Neutral, Idle, Who
<1>5. x[h] = Idle
    <2>1. b[h] = <<>>
        BY <1>1, <1>2 DEF Routines, Left
    <2>2. Goes(Who(h), b[h], x[h], Idle)
        BY <1>1 DEF Routines
    <2> QED
        BY <2>1, <2>2, GoesNowhere
<1>6. Routines([b EXCEPT ![h] = routine], [x EXCEPT ![h] = Idle], hs, hx)'
    BY <1>1, <1>2, <1>3, <1>4, RoutineMoves
<1>7. [x EXCEPT ![h] = Idle] = x
    BY <1>1, <1>5 DEF Routines
<1>8. Holding(x, hx)' /\ Asking(x)'
    BY <1>1 DEF Holding, Asking, InHandler
<1> QED
    BY <1>6, <1>7, <1>8 DEF IInv, Inv

\* Only hart 0 asks the disk and the entropy device, and a device that answers has asked.
LEMMA TakeIrqKeeps ==
    ASSUME NEW b, NEW x, NEW hs, NEW hx, Inv(b, x, hs, hx), TakeIrq
    PROVE  IInv'
<1> DEFINE d == irq'[1]
<1>1. /\ ~ InHandler /\ Routines(b, x, hs, hx) /\ Holding(x, hx) /\ Asking(x)
      /\ UNCHANGED <<held, asked>>
      /\ todo' = [todo EXCEPT ![0] = Handler(irq'[1]) \o Return \o todo[0]]
    BY DEF TakeIrq, Inv
<1>2. DOMAIN asked = Device
    BY <1>1 DEF Asking
<1>3. /\ irq' # <<>> /\ d \in Handlers /\ irq'[2] \in Harts
      /\ d \in Device => irq'[2] \in asked[d]
    <2>1. irq' \in {<<e, g>> : e \in Device, g \in Harts} \cup {<<"input", 0>>}
        BY <1>2 DEF TakeIrq
    <2>2. irq' # <<>> /\ d \in Handlers /\ irq'[2] \in Harts
        <3>1. CASE irq' = <<"input", 0>>
            BY <3>1, HartZero DEF Handlers
        <3>2. CASE \E e \in Device, g \in Harts : irq' = <<e, g>>
            BY <3>2 DEF Device, Handlers
        <3> QED
            BY <2>1, <3>1, <3>2
    <2> QED
        BY <1>2, <2>2 DEF TakeIrq
<1>4. PICK r : r = Handler(d) /\ Goes(d, r, Idle, Idle)
    <2>1. Goes(d, Handler(d), Idle, Idle)
        BY <1>3, HandlersNeutral DEF Neutral, Idle
    <2> QED
        BY <2>1
<1>5. r \in Seq(Op)
    BY <1>4 DEF Goes
<1>6. Idle \in AnyState
    BY <1>4, GoesStates, StateIsAny
<1>7. todo' = Left(b, r)'
    <2>1. todo = [h \in Harts |-> b[h]]
        BY <1>1 DEF Routines, Left
    <2>2. InHandler'
        BY <1>3 DEF InHandler
    <2>3. Left(b, r)' = [h \in Harts |-> IF h = 0 THEN r \o Return \o b[0] ELSE b[h]]
        BY <2>2 DEF Left
    <2>4. todo' = [todo EXCEPT ![0] = r \o Return \o b[0]]
        BY <1>1, <1>4, <2>1, HartZero
    <2> QED
        BY <2>1, <2>3, <2>4, HartZero
<1>8. Routines(b, x, r, Idle)'
    BY <1>1, <1>3, <1>4, <1>5, <1>6, <1>7 DEF Routines, InHandler
<1>9. Holding(x, Idle)'
    BY <1>1 DEF Holding, Routines
<1>10. Asking(x)'
    <2>1. ASSUME NEW e \in {"block", "rng"}, NEW g \in asked[e] PROVE g = 0
        <3>1. e \in Device /\ g \in Harts /\ x[g].on = e
            BY <1>1 DEF Device, Asking
        <3>2. x[g] \in State(Who(g))
            BY <1>1, <3>1, GoesStates DEF Routines
        <3>3. Who(g) # "trap"
            BY <3>1, <3>2 DEF State
        <3> QED
            BY <3>3 DEF Who
    <2>2. d \in {"block", "rng"} => irq'[2] = 0
        BY <1>3, <2>1 DEF Device
    <2>3. d \in Device /\ irq'[2] = 0 => x[0].on = d
        BY <1>1, <1>3 DEF Asking
    <2> QED
        BY <1>1, <2>2, <2>3 DEF Asking, InHandler
<1> QED
    BY <1>8, <1>9, <1>10 DEF IInv, Inv

LEMMA CompleteKeeps ==
    ASSUME NEW b, NEW x, NEW hs, NEW hx, Inv(b, x, hs, hx), SetComplete
    PROVE  IInv'
<1>1. /\ 0 \in Harts /\ todo[0] # <<>> /\ Next1(0).op = "complete" /\ Advance(0)
      /\ asked' = [asked EXCEPT ![irq[1]] = @ \ {irq[2]}] /\ held' = held /\ irq' = irq
      /\ Routines(b, x, hs, hx) /\ Holding(x, hx) /\ Asking(x)
    BY HartZero DEF SetComplete, At, Inv
<1>2. \A w, y, v : Step(w, Next1(0), y, v) => w \in Device /\ y = Idle /\ v = y
    BY <1>1 DEF Step, Idle
<1>3. Who(0) \notin Device
    BY DEF Who, Device
<1>4. /\ InHandler
      /\ \E v \in State(irq[1]) : Step(irq[1], Next1(0), hx, v) /\ Routines(b, x, Tail(hs), v)'
    <2>1. \A y, v : ~ Step(Who(0), Next1(0), y, v)
        BY <1>2, <1>3
    <2>2. Next1(0).op # "return"
        BY <1>1
    <2>3. \/ /\ InHandler
             /\ \E v \in State(irq[1]) :
                   /\ Step(irq[1], Next1(0), hx, v)
                   /\ irq' = irq => Routines(b, x, Tail(hs), v)'
          \/ Next1(0).op = "return"
          \/ \E v \in State(Who(0)) : Step(Who(0), Next1(0), x[0], v)
        BY <1>1, NextStep
    <2> QED
        BY <1>1, <2>1, <2>2, <2>3
<1>5. irq[1] \in Device /\ Routines(b, x, Tail(hs), hx)'
    BY <1>2, <1>4
<1>6. Holding(x, hx)'
    BY <1>1 DEF Holding
<1>7. Asking(x)'
    <2>1. asked' \in [Device -> SUBSET Harts] /\ \A d \in Device : asked'[d] \subseteq asked[d]
        BY <1>1, <1>5 DEF Asking
    <2> QED
        BY <1>1, <2>1 DEF Asking, InHandler
<1> QED
    BY <1>5, <1>6, <1>7 DEF IInv, Inv

LEMMA ReturnKeeps ==
    ASSUME NEW b, NEW x, NEW hs, NEW hx, Inv(b, x, hs, hx), IrqReturn
    PROVE  IInv'
<1>1. /\ 0 \in Harts /\ todo[0] # <<>> /\ Next1(0).op = "return" /\ Advance(0)
      /\ irq' = <<>> /\ held' = held /\ asked' = asked
      /\ Routines(b, x, hs, hx) /\ Holding(x, hx) /\ Asking(x)
    BY HartZero DEF IrqReturn, At, Inv
<1>2. \A w, y, v : ~ Step(w, Next1(0), y, v)
    BY <1>1 DEF Step
<1>3. InHandler /\ hs = <<>> /\ todo' = [todo EXCEPT ![0] = b[0]]
    BY <1>1, <1>2, NextStep
<1>4. hx = Idle
    BY <1>1, <1>3, GoesNowhere DEF Routines
<1>5. ~ InHandler' /\ todo' = Left(b, hs)'
    <2>1. ~ InHandler'
        BY <1>1 DEF InHandler
    <2>2. Left(b, hs)' = [h \in Harts |-> b[h]]
        BY <2>1 DEF Left
    <2>3. todo = Left(b, hs)
        BY <1>1 DEF Routines
    <2> QED
        BY <1>3, <2>1, <2>2, <2>3, HartZero DEF Left
<1>6. Routines(b, x, hs, hx)'
    BY <1>1, <1>4, <1>5 DEF Routines
<1>7. Holding(x, hx)' /\ Asking(x)'
    BY <1>1, <1>5 DEF Holding, Asking
<1> QED
    BY <1>6, <1>7 DEF IInv, Inv

-----------------------------------------------------------------------------
(* The theorems. *)

LEMMA InitIInv == Init => IInv
<1> SUFFICES ASSUME Init PROVE IInv
    OBVIOUS
<1> DEFINE b == [h \in Harts |-> <<>>]
           x == [h \in Harts |-> Idle]
<1>1. \A w \in Caller : Idle \in State(w)
    BY Fits DEF Idle
<1>2. Idle \in AnyState /\ Idle.held = {} /\ Idle.on = "none"
    BY OnFields DEF Idle, On, AnyState
<1>3. ~ InHandler /\ <<>> \in Seq(Op)
    BY DEF Init, InHandler
<1>4. \A h \in Harts : Goes(Who(h), <<>>, Idle, Idle)
    BY <1>1, HartZero, GoesNothing
<1>5. todo = Left(b, <<>>)
    BY <1>3 DEF Init, Left
<1>6. Routines(b, x, <<>>, Idle)
    BY <1>2, <1>3, <1>4, <1>5 DEF Routines
<1>7. Holding(x, Idle)
    BY <1>2, HartZero DEF Init, Holding
<1>8. Asking(x)
    BY <1>3 DEF Init, Asking, Device
<1> QED
    BY <1>6, <1>7, <1>8 DEF IInv, Inv

LEMMA NextIInv == IInv /\ [Next]_vars => IInv'
<1> SUFFICES ASSUME IInv, [Next]_vars PROVE IInv'
    OBVIOUS
<1>1. PICK b, x, hs, hx : Inv(b, x, hs, hx)
    BY DEF IInv
<1>2. CASE UNCHANGED vars
    <2>1. Inv(b, x, hs, hx)'
        BY <1>1, <1>2 DEF vars, Inv, Routines, Left, Holding, Asking, InHandler
    <2> QED
        BY <2>1 DEF IInv
<1>3. CASE TakeIrq
    BY <1>1, <1>3, TakeIrqKeeps
<1>4. CASE SetComplete
    BY <1>1, <1>4, CompleteKeeps
<1>5. CASE IrqReturn
    BY <1>1, <1>5, ReturnKeeps
<1>6. ASSUME NEW h \in Harts, Call(h) PROVE IInv'
    BY <1>1, <1>6, CallKeeps
<1>7. ASSUME NEW h \in Harts, mutex_sbi_lock(h) PROVE IInv'
    BY <1>1, <1>7, LockKeeps
<1>8. ASSUME NEW h \in Harts, mutex_unlock(h) PROVE IInv'
    BY <1>1, <1>8, UnlockKeeps
<1>9. ASSUME NEW h \in Harts, Ask(h) PROVE IInv'
    BY <1>1, <1>9, AskKeeps
<1>10. ASSUME NEW h \in Harts, PollReturns(h) PROVE IInv'
    BY <1>1, <1>10, PollKeeps
<1> QED
    BY <1>2, <1>3, <1>4, <1>5, <1>6, <1>7, <1>8, <1>9, <1>10 DEF Next

\* Every hart has a suffix of a routine left that goes from where it is.
THEOREM Invariance == Spec => []IInv
BY InitIInv, NextIInv, PTL DEF Spec

\* A mutex that is held is given back in what is left for its holder.
LEMMA UnlockLeft ==
    ASSUME NEW b, NEW x, NEW hs, NEW hx, Inv(b, x, hs, hx), NEW m \in Locks, held[m] # None
    PROVE  held[m] \in Harts /\ \E k \in DOMAIN todo[held[m]] : todo[held[m]][k] = Unlock(m)[1]
<1>1. Routines(b, x, hs, hx) /\ Holding(x, hx) /\ Idle.held = {}
    BY OnFields DEF Inv, Idle
<1>2. PICK h \in Harts : held[m] = h
    BY <1>1 DEF Holding
<1>3. ASSUME NEW w, NEW s, NEW y, Goes(w, s, y, Idle), m \in y.held
      PROVE  \E k \in DOMAIN s : s[k] = Unlock(m)[1]
    <2>1. PICK k \in DOMAIN s : s[k].op = "unlock" /\ s[k].on = m
        BY <1>1, <1>3, GivesBack
    <2>2. s[k] \in Op
        BY <1>3, LenProperties, ElementOfSeq DEF Goes
    <2> QED
        BY <2>1, <2>2 DEF Op, Unlock
<1>4. CASE m \in x[h].held
    <2>1. PICK k \in DOMAIN b[h] : b[h][k] = Unlock(m)[1]
        BY <1>1, <1>3, <1>4 DEF Routines
    <2>2. CASE h = 0 /\ InHandler
        BY <1>1, <1>2, <2>1, <2>2, HandlerLeft
    <2>3. CASE ~ (h = 0 /\ InHandler)
        <3>1. todo[h] = b[h]
            BY <1>1, <2>3 DEF Routines, Left
        <3> QED
            BY <1>2, <2>1, <3>1
    <2> QED
        BY <2>2, <2>3
<1>5. CASE h = 0 /\ m \in hx.held
    <2>1. InHandler /\ Goes(irq[1], hs, hx, Idle)
        BY <1>1, <1>5 DEF Routines
    <2>2. PICK k \in DOMAIN hs : hs[k] = Unlock(m)[1]
        BY <1>3, <1>5, <2>1
    <2> QED
        BY <1>1, <1>2, <1>5, <2>1, <2>2, HandlerLeft
<1> QED
    BY <1>1, <1>2, <1>4, <1>5 DEF Holding

\* Whoever holds a mutex is still to give it back: no path through the kernel leaves one
\* locked, on any number of harts.
THEOREM TypeCorrect == Spec => []TypeOK
<1>1. IInv => TypeOK
    <2> SUFFICES ASSUME NEW b, NEW x, NEW hs, NEW hx, Inv(b, x, hs, hx) PROVE TypeOK
        BY DEF IInv
    <2>1. held \in [Locks -> Harts \cup {None}] /\ asked \in [Device -> SUBSET Harts]
        BY DEF Inv, Holding, Asking
    <2>2. DOMAIN todo = Harts
        BY DEF Inv, Routines, Left
    <2>3. InHandler => \E k \in DOMAIN todo[0] : todo[0][k] = Return[1]
        BY HandlerLeft DEF Inv
    <2>4. \A m \in Locks : held[m] # None => Unlock(m)[1] \in Range(todo[held[m]])
        BY UnlockLeft DEF Range
    <2> QED
        BY <2>1, <2>2, <2>3, <2>4 DEF TypeOK, Device
<1> QED
    BY <1>1, Invariance, PTL

-----------------------------------------------------------------------------
(* Who waits for whom. *)

Wanted(h) == Next1(h).on

\* A handler never polls, and it waits for a lock with none in its hands.
LEMMA HandlerWaits ==
    ASSUME NEW b, NEW x, NEW hs, NEW hx, Inv(b, x, hs, hx), InHandler
    PROVE  /\ ~ At(0, "poll")
           /\ At(0, "lock") => /\ MayLock(irq[1], Wanted(0), {}) /\ hx.held = {}
                               /\ irq[1] \in Handlers
<1>1. Routines(b, x, hs, hx) /\ 0 \in Harts
    BY HartZero DEF Inv
<1>2. irq[1] \in Handlers /\ Goes(irq[1], hs, hx, Idle)
    BY <1>1 DEF Routines
<1>3. CASE hs # <<>> /\ Next1(0) = Head(hs)
    <2>1. PICK v : Step(irq[1], Next1(0), hx, v)
        BY <1>2, <1>3, GoesTail
    <2>2. ~ At(0, "poll")
        BY <1>2, <2>1 DEF At, Step
    <2>3. At(0, "lock") => MayLock(irq[1], Wanted(0), hx.held)
        BY <2>1 DEF At, Step, Wanted
    <2>4. MayLock(irq[1], Wanted(0), hx.held) => hx.held = {}
        BY <1>2 DEF MayLock
    <2>5. MayLock(irq[1], Wanted(0), hx.held) => MayLock(irq[1], Wanted(0), {})
        BY <2>4
    <2> QED
        BY <1>2, <2>2, <2>3, <2>4, <2>5
<1>4. CASE Next1(0).op = "return"
    BY <1>4 DEF At
<1>5. todo[0] # <<>>
    BY <1>1, HandlerLeft
<1> QED
    BY <1>1, <1>3, <1>4, <1>5, NextOperation

\* A hart in a routine of its own waits for a lock above those it holds, and for a device
\* with at most the lock of that device.
LEMMA RoutineWaits ==
    ASSUME NEW b, NEW x, NEW hs, NEW hx, Inv(b, x, hs, hx),
           NEW h \in Harts, ~ (h = 0 /\ InHandler)
    PROVE  /\ x[h] \in State(Who(h))
           /\ At(h, "lock") => MayLock(Who(h), Wanted(h), x[h].held)
           /\ At(h, "poll") => x[h].held \subseteq Device
<1>1. Routines(b, x, hs, hx)
    BY DEF Inv
<1>2. Goes(Who(h), b[h], x[h], Idle)
    BY <1>1 DEF Routines
<1>3. x[h] \in State(Who(h))
    BY <1>2, GoesStates
<1>4. CASE todo[h] = <<>>
    BY <1>3, <1>4 DEF At
<1>5. CASE todo[h] # <<>>
    <2>1. b[h] # <<>> /\ Next1(h) = Head(b[h])
        BY <1>1, <1>5, NextOperation
    <2>2. PICK v : Step(Who(h), Next1(h), x[h], v)
        BY <1>2, <2>1, GoesTail
    <2>3. At(h, "lock") => MayLock(Who(h), Wanted(h), x[h].held)
        BY <2>2 DEF At, Step, Wanted
    <2>4. At(h, "poll") => x[h].on \in Device
        BY <2>2 DEF At, Step
    <2>5. x[h].on \in Device => x[h].held \subseteq Device
        BY <1>3 DEF State, Device
    <2> QED
        BY <1>3, <2>3, <2>4, <2>5
<1> QED
    BY <1>4, <1>5

LEMMA Holder ==
    ASSUME NEW b, NEW x, NEW hs, NEW hx, Inv(b, x, hs, hx), NEW m \in Locks,
           NEW h \in Harts, held[m] = h
    PROVE  m \in x[h].held \/ (h = 0 /\ m \in hx.held)
BY DEF Inv, Holding

\* A hart of a circle spins on a lock that one of them holds, or polls.
LEMMA InCircle ==
    ASSUME NEW S \in Circles, NEW h \in S
    PROVE  /\ h \in Harts
           /\ \/ At(h, "lock") /\ held[Wanted(h)] \in S
              \/ At(h, "poll") /\ InHandler /\ 0 \in S
BY DEF Circles, WaitsFor, Wanted

LEMMA RankRange == \A m : Rank(m) \in 1 .. 4
BY DEF Rank

\* The order of the locks rules out every circle but through a handler.
THEOREM LocksNestAlways == Spec => []LocksNest
<1>1. IInv => LocksNest
    <2> SUFFICES ASSUME NEW b, NEW x, NEW hs, NEW hx, Inv(b, x, hs, hx),
                        NEW S \in Circles, ~ (0 \in S /\ InHandler)
                 PROVE  FALSE
        BY DEF IInv, LocksNest
    <2>1. ASSUME NEW h \in S
          PROVE  /\ MayLock(Who(h), Wanted(h), x[h].held) /\ Wanted(h) \in Locks
                 /\ held[Wanted(h)] \in S /\ held[Wanted(h)] \in Harts
        <3>1. At(h, "lock") /\ held[Wanted(h)] \in S /\ h \in Harts
            BY InCircle
        <3>2. MayLock(Who(h), Wanted(h), x[h].held)
            BY <3>1, RoutineWaits
        <3> QED
            BY <3>1, <3>2, InCircle DEF MayLock
    <2>2. ASSUME NEW h \in S PROVE \E g \in S : Rank(Wanted(h)) < Rank(Wanted(g))
        <3>1. PICK g \in S : held[Wanted(h)] = g /\ g \in Harts
            BY <2>1
        <3>2. Wanted(h) \in x[g].held
            <4>1. hx.held = {} \/ g # 0
                BY OnFields DEF Inv, Routines, Idle
            <4> QED
                BY <2>1, <3>1, <4>1, Holder
        <3> QED
            BY <2>1, <3>2 DEF MayLock
    <2>3. \E h \in S : Rank(Wanted(h)) >= 1
        BY RankRange DEF Circles
    <2>4. \E h \in S : Rank(Wanted(h)) >= 2
        BY <2>2, <2>3, RankRange
    <2>5. \E h \in S : Rank(Wanted(h)) >= 3
        BY <2>2, <2>4, RankRange
    <2>6. \E h \in S : Rank(Wanted(h)) >= 4
        BY <2>2, <2>5, RankRange
    <2> QED
        BY <2>2, <2>6, RankRange
<1> QED
    BY <1>1, Invariance, PTL

\* What waits for the heap inside a handler: the handler of the GPU for another hart's
\* request, and it has come upon the heap's lock, or on one that is needed to grow it.
THEOREM OnlyTheHeapWedgesAlways == Spec => []OnlyTheHeapWedges
<1>1. IInv /\ LocksNest => OnlyTheHeapWedges
    <2> SUFFICES ASSUME NEW b, NEW x, NEW hs, NEW hx, Inv(b, x, hs, hx), LocksNest,
                        NEW S \in Circles
                 PROVE  /\ At(0, "lock") /\ Next1(0).on = "kmalloc"
                        /\ irq[1] = "gpu" /\ irq[2] # 0
                        /\ \/ held["kmalloc"] = 0
                           \/ \E m \in {"mmu", "page_alloc"} :
                                /\ held[m] = 0 /\ At(held["kmalloc"], "lock")
                                /\ Next1(held["kmalloc"]).on = m
        BY DEF IInv, OnlyTheHeapWedges
    <2>1. 0 \in S /\ InHandler /\ 0 \in Harts
        BY HartZero DEF LocksNest
    <2> DEFINE m0 == Wanted(0)
               g0 == held[m0]
    <2>2. /\ At(0, "lock") /\ g0 \in S /\ MayLock(irq[1], m0, {}) /\ hx.held = {}
          /\ irq[1] \in Handlers /\ m0 \in Locks
        BY <2>1, InCircle, HandlerWaits DEF MayLock
    <2>3. /\ m0 \in {"kmalloc", "page_alloc", "input_ring"}
          /\ m0 # "input_ring" => irq[1] \in {"gpu", "block"}
          /\ irq[1] = "gpu" => m0 = "kmalloc"
        BY <2>2 DEF MayLock, Handlers
    <2>4. ASSUME NEW m \in {"kmalloc", "mmu", "page_alloc"}, m \in x[0].held
          PROVE  irq[1] \in {"gpu", "block"} => irq[1] = "gpu" /\ irq[2] # 0
        <3>1. x[0] \in State(Who(0))
            BY <2>1, GoesStates DEF Inv, Routines
        <3>2. x[0].on \notin Device
            BY <2>4, <3>1 DEF State, Device
        <3> QED
            BY <2>1, <3>2 DEF Inv, Asking, Device
    <2>5. ASSUME NEW g \in S \ {0}, NEW m \in Locks \ Device, held[m] = g
          PROVE  /\ g \in Harts /\ At(g, "lock") /\ held[Wanted(g)] \in S
                 /\ MayLock("trap", Wanted(g), x[g].held) /\ m \in x[g].held
                 /\ Wanted(g) \in Locks /\ Rank(m) < Rank(Wanted(g))
                 /\ Wanted(g) # "input_ring"
        <3>1. g \in Harts /\ m \in x[g].held
            BY <2>5, InCircle, Holder
        <3>2. ~ At(g, "poll")
            BY <3>1, RoutineWaits
        <3>3. At(g, "lock") /\ held[Wanted(g)] \in S
            BY <3>2, InCircle
        <3>4. MayLock("trap", Wanted(g), x[g].held)
            BY <3>1, <3>3, RoutineWaits DEF Who
        <3> QED
            BY <3>1, <3>3, <3>4 DEF MayLock
    <2>6. {"kmalloc", "mmu", "page_alloc", "input_ring"} \subseteq Locks \ Device
        BY DEF Locks, Device
    <2> HIDE DEF m0
    <2>7. CASE g0 = 0
        <3>1. m0 \in x[0].held
            BY <2>1, <2>2, <2>7, Holder
        <3>2. m0 # "input_ring"
            <4>1. x[0] \in State("console")
                BY <2>1, GoesStates DEF Inv, Routines, Who
            <4> QED
                BY <3>1, <4>1 DEF State
        <3>3. irq[1] = "gpu" /\ irq[2] # 0 /\ m0 = "kmalloc"
            BY <2>3, <2>4, <3>1, <3>2
        <3> QED
            BY <2>2, <2>7, <3>3 DEF m0, Wanted
    <2>8. CASE g0 # 0
        <3>1. /\ g0 \in Harts /\ At(g0, "lock") /\ held[Wanted(g0)] \in S
              /\ Rank(m0) < Rank(Wanted(g0)) /\ m0 \in x[g0].held
              /\ Wanted(g0) \in Locks /\ Wanted(g0) # "input_ring"
            BY <2>2, <2>3, <2>5, <2>6, <2>8
        <3>2. m0 = "kmalloc" /\ Wanted(g0) \in {"mmu", "page_alloc"} /\ irq[1] \in {"gpu", "block"}
            BY <2>3, <3>1, RankRange, Ranks
        <3> DEFINE m1 == Wanted(g0)
                   g1 == held[m1]
        <3>3. CASE g1 = 0
            <4>1. m1 \in x[0].held
                BY <2>1, <2>2, <3>1, <3>3, Holder
            <4>2. irq[1] = "gpu" /\ irq[2] # 0
                BY <2>4, <3>2, <4>1
            <4> QED
                BY <2>2, <3>1, <3>2, <3>3, <4>2 DEF m0, Wanted
        <3>4. CASE g1 # 0
            <4> HIDE DEF g0, m1
            <4>1. /\ g1 \in Harts /\ m1 \in x[g1].held /\ Rank(m1) < Rank(Wanted(g1))
                  /\ MayLock("trap", Wanted(g1), x[g1].held)
                  /\ Wanted(g1) \in Locks /\ Wanted(g1) # "input_ring"
                BY <2>5, <2>6, <3>1, <3>2, <3>4 DEF m1
            <4>2. m1 = "mmu" /\ Wanted(g1) = "page_alloc"
                BY <3>2, <4>1, RankRange, Ranks DEF m1
            <4>3. "kmalloc" \in x[g1].held
                BY <4>1, <4>2 DEF MayLock
            <4>4. held["kmalloc"] = g1
                BY <2>6, <4>1, <4>3 DEF Inv, Holding
            <4>5. g1 = g0
                BY <3>2, <4>4 DEF g0
            <4> QED
                BY <4>1, <4>5, RankRange DEF m1
        <3> QED
            BY <3>3, <3>4
    <2> QED
        BY <2>7, <2>8
<1> QED
    BY <1>1, Invariance, LocksNestAlways, PTL
=============================================================================
