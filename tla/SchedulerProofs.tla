--------------------------- MODULE SchedulerProofs ---------------------------
(***************************************************************************)
(* The invariants of Scheduler, for any number of harts and processes.     *)
(* IInv is inductive: beside the properties it says what a hart's pc       *)
(* implies of the process it is working on.                                *)
(***************************************************************************)
EXTENDS Scheduler, ListLemmas

\* Where a hart's code has a process in hand.
HartInv(h) ==
    LET c == current_processes[h]
        s == stack[h]
    IN  /\ c \in Users => pc[h] \in {"start", "user", "wfi", "park"}
        /\ c \in Users /\ pc[h] \in {"start", "user", "wfi"} => state[c] = "RUNNING"
        /\ pc[h] \in {"boot", "park_add", "park_save", "exit_remove", "exit_free"} => c = NULL
        /\ c # NULL /\ pc[h] = "park" => s = c
        /\ c = NULL /\ pc[h] = "park" => s \notin Users
        /\ pc[h] \in {"boot", "user"} => s = NULL
        /\ pc[h] = "wfi" => s = c
        /\ c \in Users /\ pc[h] \in {"user", "park"}
              => vruntime[c] <= starttime[c] /\ starttime[c] <= time
        /\ pc[h] = "run" /\ chosen[h] \in Users
              => state[chosen[h]] # "DEAD" /\ sleep_until[chosen[h]] <= time
        /\ pc[h] = "user" => mtimer[h] \/ stip[h]

\* A hart in SYS_EXIT, from the trap to process_free.
ExitInv(h) ==
    LET s == stack[h]
    IN  /\ pc[h] \in {"exit_remove", "exit_free"} => exiting[h]
        /\ exiting[h] => /\ pc[h] \in {"park", "park_add", "park_save", "exit_remove", "exit_free"}
                         /\ s \in allocated
                         /\ state[s] = "DEAD"
                         /\ pc[h] = "park" => current_processes[h] = s
                         /\ pc[h] \in {"park_save", "exit_remove"} => s \in Range(schedule_processes)
                         /\ \A g \in Harts : exiting[g] /\ stack[g] = s => g = h

ProcessInv(p) ==
    /\ state[p] = "RUNNING" => sleep_until[p] <= time
    /\ vruntime[p] <= time

\* exec runs only after every hart has started.
BootInv == allocated # {} => \A h \in Harts : status[h] = "STARTED"

IInv ==
    /\ TypeOK
    /\ OneHart
    /\ Sorted
    /\ Accounted
    /\ DeadNeverRuns
    /\ BootInv
    /\ \A h \in Harts : HartInv(h)
    /\ \A h \in Harts : ExitInv(h)
    /\ \A p \in Users : ProcessInv(p)

-----------------------------------------------------------------------------
(* What the list operations of schedule.c do. *)

\* The order of a list depends on the vruntimes of its members alone.
LEMMA InOrderOfMembers ==
    ASSUME NEW list \in Seq(Users), NEW vr, NEW wr, InOrder(list, vr),
           \A q \in Range(list) : wr[q] = vr[q]
    PROVE  InOrder(list, wr)
<1>1. DOMAIN list = 1 .. Len(list)
    BY LenProperties
<1>2. \A i \in 1 .. Len(list) : list[i] \in Range(list)
    BY <1>1 DEF Range
<1> QED
    BY <1>2 DEF InOrder

\* schedule_remove takes out the process and keeps the order of the others.
LEMMA RemoveListed ==
    ASSUME NEW list \in Seq(Users), NEW vr, IsInjective(list), InOrder(list, vr), NEW p
    PROVE  /\ schedule_remove(list, p) \in Seq(Users)
           /\ IsInjective(schedule_remove(list, p))
           /\ InOrder(schedule_remove(list, p), vr)
           /\ p \in Users => Range(schedule_remove(list, p)) = Range(list) \ {p}
           /\ p \notin Users => schedule_remove(list, p) = list
<1>1. CASE p \notin Users
    BY <1>1 DEF schedule_remove
<1>2. CASE p \in Users
    <2> DEFINE r == RemoveFirst(list, p)
    <2>1. schedule_remove(list, p) = r
        BY <1>2 DEF schedule_remove
    <2>2. /\ r \in Seq(Users)
          /\ IsInjective(r)
          /\ Range(r) = Range(list) \ {p}
          /\ \A x, y \in 1 .. Len(r) : x < y =>
                \E u, v \in 1 .. Len(list) : u < v /\ r[x] = list[u] /\ r[y] = list[v]
        BY RemoveFirstRange
    <2> HIDE DEF r
    <2>3. InOrder(r, vr)
        BY <2>2 DEF InOrder
    <2> QED
        BY <1>2, <2>1, <2>2, <2>3
<1> QED
    BY <1>1, <1>2

\* Where schedule_add inserts: after every smaller vruntime, before the others.
LEMMA InsertionPoint ==
    ASSUME NEW list \in Seq(Users), NEW vr \in [Users -> Nat], NEW p \in Users
    PROVE  /\ InsertionIndex(list, vr, p) \in 1 .. Len(list) + 1
           /\ \A k \in 1 .. Len(list) :
                k < InsertionIndex(list, vr, p) => vr[list[k]] < vr[p]
           /\ InsertionIndex(list, vr, p) \in 1 .. Len(list)
                => vr[list[InsertionIndex(list, vr, p)]] >= vr[p]
<1> DEFINE I == {k \in 1 .. Len(list) : vr[list[k]] >= vr[p]}
           at == InsertionIndex(list, vr, p)
<1>0. Len(list) \in Nat /\ \A k \in 1 .. Len(list) : list[k] \in Users
    BY LenProperties, ElementOfSeq
<1>1. vr[p] \in Nat /\ \A k \in 1 .. Len(list) : vr[list[k]] \in Nat
    BY <1>0
<1>2. I \in SUBSET Nat
    BY <1>0
<1>3. (I # {} => Min(I) # 0) => at = IF I # {} THEN Min(I) ELSE Len(list) + 1
    BY DEF InsertionIndex, SelectInSeq
<1> HIDE DEF at
<1>4. CASE I = {}
    <2>1. \A k \in 1 .. Len(list) : vr[list[k]] < vr[p]
        BY <1>1, <1>4
    <2> QED
        BY <1>0, <1>3, <1>4, <2>1 DEF at
<1>5. CASE I # {}
    <2> DEFINE m == Min(I)
    <2>1. m \in I /\ \A k \in I : m <= k
        BY <1>2, <1>5, MinOfNaturals
    <2> HIDE DEF m
    <2>2. m \in 1 .. Len(list) /\ vr[list[m]] >= vr[p]
        BY <2>1
    <2>3. at = m
        BY <1>3, <1>5, <2>2 DEF m
    <2>4. ASSUME NEW k \in 1 .. Len(list), k < m PROVE vr[list[k]] < vr[p]
        <3>1. k \notin I
            BY <1>0, <2>1, <2>2, <2>4
        <3> QED
            BY <1>1, <3>1
    <2> QED
        BY <1>0, <2>2, <2>3, <2>4 DEF at
<1> QED
    BY <1>4, <1>5

\* schedule_add lists a new process and keeps the list in order.
LEMMA AddListed ==
    ASSUME NEW list \in Seq(Users), NEW vr \in [Users -> Nat], IsInjective(list),
           InOrder(list, vr), NEW p, p \notin Range(list)
    PROVE  /\ schedule_add(list, vr, p) \in Seq(Users)
           /\ IsInjective(schedule_add(list, vr, p))
           /\ InOrder(schedule_add(list, vr, p), vr)
           /\ p \in Users => Range(schedule_add(list, vr, p)) = Range(list) \cup {p}
           /\ p \notin Users => schedule_add(list, vr, p) = list
<1>1. CASE p \notin Users
    BY <1>1 DEF schedule_add
<1>2. CASE p \in Users
    <2> DEFINE at == InsertionIndex(list, vr, p)
               r == InsertAt(list, at, p)
    <2>1. schedule_add(list, vr, p) = r
        BY <1>2 DEF schedule_add
    <2>2. /\ at \in 1 .. Len(list) + 1
          /\ \A k \in 1 .. Len(list) : k < at => vr[list[k]] < vr[p]
          /\ at \in 1 .. Len(list) => vr[list[at]] >= vr[p]
        BY <1>2, InsertionPoint
    <2> HIDE DEF at
    <2>3. /\ r \in Seq(Users)
          /\ Len(r) = Len(list) + 1
          /\ \A k \in 1 .. Len(list) + 1 :
                r[k] = IF k < at THEN list[k] ELSE IF k = at THEN p ELSE list[k - 1]
        <3>1. at \in 1 .. Len(list) + 1
            BY <2>2
        <3> QED
            BY <1>2, <3>1, InsertAtElements
    <2>4. IsInjective(r) /\ Range(r) = Range(list) \cup {p}
        BY <1>2, <2>2, InsertAtRange
    <2> HIDE DEF r
    <2>0. Len(list) \in Nat /\ \A k \in 1 .. Len(list) : vr[list[k]] \in Nat
        BY LenProperties, ElementOfSeq
    <2>5. InOrder(r, vr)
        <3> SUFFICES ASSUME NEW x \in 1 .. Len(list) + 1, NEW y \in 1 .. Len(list) + 1, x < y
                     PROVE  vr[r[x]] <= vr[r[y]]
            BY <2>3 DEF InOrder
        <3>0. /\ x \in Int /\ y \in Int /\ at \in Int
              /\ r[x] = IF x < at THEN list[x] ELSE IF x = at THEN p ELSE list[x - 1]
              /\ r[y] = IF y < at THEN list[y] ELSE IF y = at THEN p ELSE list[y - 1]
            BY <2>0, <2>2, <2>3
        <3>1. \A u, v \in 1 .. Len(list) : u < v => vr[list[u]] <= vr[list[v]]
            BY DEF InOrder
        <3>2. \A k \in 1 .. Len(list) : k >= at => vr[p] <= vr[list[k]]
            BY <2>0, <2>2, <3>1, <1>2
        <3>3. CASE y < at
            <4>1. x < at /\ x \in 1 .. Len(list) /\ y \in 1 .. Len(list)
                BY <2>0, <2>2, <3>0, <3>3
            <4> QED
                BY <3>0, <3>1, <3>3, <4>1
        <3>4. CASE y = at
            <4>1. x < at /\ x \in 1 .. Len(list)
                BY <2>0, <2>2, <3>0, <3>4
            <4>2. r[x] = list[x] /\ r[y] = p
                BY <3>0, <3>4, <4>1
            <4>3. vr[list[x]] < vr[p]
                BY <2>2, <4>1
            <4>4. vr[list[x]] \in Nat /\ vr[p] \in Nat
                BY <1>2, <2>0, <4>1
            <4> QED
                BY <4>2, <4>3, <4>4
        <3>5. CASE y > at
            <4>1. r[y] = list[y - 1] /\ y - 1 \in 1 .. Len(list) /\ y - 1 >= at
                BY <2>0, <2>2, <2>3, <3>5
            <4>2. CASE x < at
                <5>1. r[x] = list[x] /\ x \in 1 .. Len(list) /\ x < y - 1
                    BY <2>0, <2>2, <3>0, <4>1, <4>2
                <5> QED
                    BY <3>1, <4>1, <5>1
            <4>3. CASE x = at
                BY <2>0, <2>2, <2>3, <3>2, <4>1, <4>3
            <4>4. CASE x > at
                <5>1. r[x] = list[x - 1] /\ x - 1 \in 1 .. Len(list) /\ x - 1 < y - 1
                    BY <2>0, <2>2, <2>3, <4>4
                <5> QED
                    BY <3>1, <4>1, <5>1
            <4> QED
                BY <3>0, <4>2, <4>3, <4>4
        <3> QED
            BY <3>0, <3>3, <3>4, <3>5
    <2> QED
        BY <1>2, <2>1, <2>3, <2>4, <2>5
<1> QED
    BY <1>1, <1>2

\* schedule_pop takes an available process of the list, or an idle one.
LEMMA PoppedIsAvailable ==
    ASSUME schedule_processes \in Seq(Users)
    PROVE  \/ FirstAvailable = Idle
           \/ /\ FirstAvailable \in Range(schedule_processes)
              /\ FirstAvailable \in Users
              /\ Available(FirstAvailable)
<1> DEFINE list == schedule_processes
           I == {k \in 1 .. Len(list) : Available(list[k])}
<1>0. DOMAIN list = 1 .. Len(list) /\ Len(list) \in Nat
      /\ \A k \in 1 .. Len(list) : list[k] \in Users
    BY LenProperties, ElementOfSeq
<1>1. SelectInSeq(list, Available) = IF I # {} THEN Min(I) ELSE 0
    BY DEF SelectInSeq
<1>2. CASE I = {}
    BY <1>1, <1>2 DEF FirstAvailable
<1>3. CASE I # {}
    <2> DEFINE m == Min(I)
    <2>1. m \in I
        <3>1. I \in SUBSET Nat
            BY <1>0
        <3> QED
            BY <1>3, <3>1, MinOfNaturals
    <2>2. SelectInSeq(list, Available) = m
        BY <1>1, <1>3
    <2> HIDE DEF m
    <2>3. m \in 1 .. Len(list) /\ Available(list[m])
        BY <2>1
    <2>4. FirstAvailable = list[m]
        BY <1>0, <2>2, <2>3 DEF FirstAvailable
    <2> QED
        BY <1>0, <2>3, <2>4 DEF Range
<1> QED
    BY <1>2, <1>3

\* Among the available processes of the list, the one taken has the smallest vruntime:
\* it is the first, and the list is in order.  Without any, it is the idle process.
LEMMA PoppedIsLeastServed ==
    ASSUME schedule_processes \in Seq(Users), vruntime \in [Users -> Nat], Sorted,
           NEW ready, ready = {p \in Range(schedule_processes) : Available(p)}
    PROVE  IF ready = {} THEN FirstAvailable = Idle
           ELSE /\ FirstAvailable \in ready
                /\ \A q \in ready : vruntime[FirstAvailable] <= vruntime[q]
<1> DEFINE list == schedule_processes
           I == {k \in 1 .. Len(list) : Available(list[k])}
<1>0. /\ DOMAIN list = 1 .. Len(list) /\ Len(list) \in Nat
      /\ \A k \in 1 .. Len(list) : list[k] \in Users
      /\ I \in SUBSET Nat
    BY LenProperties, ElementOfSeq
<1>1. SelectInSeq(list, Available) = IF I # {} THEN Min(I) ELSE 0
    BY DEF SelectInSeq
<1>2. \A q \in ready : \E k \in I : q = list[k]
    BY <1>0 DEF Range
<1>3. \A k \in I : list[k] \in ready
    BY <1>0 DEF Range
<1>4. CASE I = {}
    BY <1>1, <1>2, <1>4 DEF FirstAvailable
<1>5. CASE I # {}
    <2>1. PICK m \in I : SelectInSeq(list, Available) = m /\ \A k \in I : m <= k
        <3> HIDE DEF I
        <3>1. Min(I) \in I /\ \A k \in I : Min(I) <= k
            BY <1>0, <1>5, MinOfNaturals
        <3> QED
            BY <1>1, <1>5, <3>1
    <2>2. FirstAvailable = list[m]
        BY <1>0, <2>1 DEF FirstAvailable
    <2>3. ASSUME NEW k \in I PROVE vruntime[list[m]] <= vruntime[list[k]]
        <3>1. m \in 1 .. Len(list) /\ k \in 1 .. Len(list) /\ m <= k
            BY <2>1
        <3>2. m = k \/ m < k
            BY <1>0, <3>1
        <3>3. vruntime[list[k]] \in Nat
            BY <1>0, <3>1
        <3> QED
            BY <3>1, <3>2, <3>3 DEF Sorted, InOrder
    <2> QED
        BY <1>2, <1>3, <2>2, <2>3
<1> QED
    BY <1>4, <1>5
-----------------------------------------------------------------------------
(* One lemma per action: it keeps IInv. *)

\* A program counter stays in the program.
LEMMA NextInstrType ==
    ASSUME NEW i \in 0 .. ProgLen - 1
    PROVE  NextInstr(i) \in 0 .. ProgLen - 1
<1>1. ProgLen \in Nat /\ ProgLen > 0 /\ i + 1 \in Nat
    BY BoundsAssumption
<1> QED
    BY <1>1 DEF NextInstr

\* The clock advances.
LEMMA TickKeeps ==
    ASSUME IInv, Tick
    PROVE  IInv'
<1> USE DEF IInv, Tick, process_vars, timer_vars, At
<1>0. \A g \in Harts, p \in Users : Carries(g, p)' <=> Carries(g, p)
    BY DEF TypeOK, Carries
<1>1. TypeOK'
    BY DEF TypeOK, KernelPcs
<1>2. OneHart'
    BY DEF TypeOK, OneHart
<1>3. Sorted'
    BY DEF TypeOK, Sorted
<1>4. Accounted'
    BY <1>0 DEF TypeOK, Accounted
<1>5. DeadNeverRuns'
    BY DEF TypeOK, DeadNeverRuns, ExitInv
<1>6. BootInv'
    BY DEF TypeOK, BootInv
<1>7. \A g \in Harts : HartInv(g)'
    BY DEF TypeOK, HartInv, ProcessInv, KernelPcs
<1>8. \A g \in Harts : ExitInv(g)'
    BY DEF TypeOK, ExitInv, KernelPcs
<1>9. \A p \in Users : ProcessInv(p)'
    BY DEF TypeOK, ProcessInv
<1> QED
    BY <1>1, <1>2, <1>3, <1>4, <1>5, <1>6, <1>7, <1>8, <1>9

\* A program executes an instruction.
LEMMA UserStepKeeps ==
    ASSUME IInv, NEW h \in Harts, UserStep(h)
    PROVE  IInv'
<1> USE DEF IInv, UserStep, process_vars, timer_vars, At
<1>0. \A g \in Harts, p \in Users : Carries(g, p)' <=> Carries(g, p)
    BY DEF TypeOK, Carries
<1>1. TypeOK'
    <2>1. NextInstr(sepc[h]) \in 0 .. ProgLen - 1
        BY NextInstrType DEF TypeOK
    <2> QED
        BY <2>1 DEF TypeOK
<1>2. OneHart'
    BY DEF TypeOK, OneHart
<1>3. Sorted'
    BY DEF TypeOK, Sorted
<1>4. Accounted'
    BY <1>0 DEF TypeOK, Accounted
<1>5. DeadNeverRuns'
    BY DEF TypeOK, DeadNeverRuns, ExitInv
<1>6. BootInv'
    BY DEF TypeOK, BootInv
<1>7. \A g \in Harts : HartInv(g)'
    BY DEF TypeOK, HartInv, ProcessInv, KernelPcs
<1>8. \A g \in Harts : ExitInv(g)'
    BY DEF TypeOK, ExitInv, KernelPcs
<1>9. \A p \in Users : ProcessInv(p)'
    BY DEF TypeOK, ProcessInv
<1> QED
    BY <1>1, <1>2, <1>3, <1>4, <1>5, <1>6, <1>7, <1>8, <1>9

\* A timer interrupt.
LEMMA TimerTrapKeeps ==
    ASSUME IInv, NEW h \in Harts, TimerTrap(h)
    PROVE  IInv'
<1> USE DEF IInv, TimerTrap, process_vars, timer_vars, At, EnterTrap
<1>0. \A g \in Harts, p \in Users : Carries(g, p)' <=> Carries(g, p)
    BY DEF TypeOK, Carries
<1>a. ~ exiting[h]
    BY DEF TypeOK, ExitInv
<1>1. TypeOK'
    BY DEF TypeOK, KernelPcs
<1>2. OneHart'
    BY DEF TypeOK, OneHart
<1>3. Sorted'
    BY DEF TypeOK, Sorted
<1>4. Accounted'
    BY <1>0 DEF TypeOK, Accounted
<1>5. DeadNeverRuns'
    BY DEF TypeOK, DeadNeverRuns, ExitInv
<1>6. BootInv'
    BY DEF TypeOK, BootInv
<1>7. \A g \in Harts : HartInv(g)'
    BY ValuesAssumption DEF TypeOK, HartInv
<1>8. \A g \in Harts : ExitInv(g)'
    BY <1>a DEF TypeOK, ExitInv, KernelPcs
<1>9. \A p \in Users : ProcessInv(p)'
    BY DEF TypeOK, ProcessInv
<1> QED
    BY <1>1, <1>2, <1>3, <1>4, <1>5, <1>6, <1>7, <1>8, <1>9

\* A fault halts the hart.
LEMMA FaultTrapKeeps ==
    ASSUME IInv, NEW h \in Harts, NEW p \in Users, FaultTrap(h, p)
    PROVE  IInv'
<1> USE DEF IInv, FaultTrap, process_vars, timer_vars, At, EnterTrap
<1>0. \A g \in Harts, q \in Users : Carries(g, q)' <=> Carries(g, q)
    BY DEF TypeOK, Carries
<1>a. ~ exiting[h]
    BY DEF TypeOK, ExitInv
<1>1. TypeOK'
    BY DEF TypeOK, KernelPcs
<1>2. OneHart'
    BY DEF TypeOK, OneHart
<1>3. Sorted'
    BY DEF TypeOK, Sorted
<1>4. Accounted'
    BY <1>0 DEF TypeOK, Accounted
<1>5. DeadNeverRuns'
    BY DEF TypeOK, DeadNeverRuns, ExitInv
<1>6. BootInv'
    BY DEF TypeOK, BootInv
<1>7. \A g \in Harts : HartInv(g)'
    BY DEF TypeOK, HartInv, ProcessInv, KernelPcs
<1>8. \A g \in Harts : ExitInv(g)'
    BY <1>a DEF TypeOK, ExitInv, KernelPcs
<1>9. \A q \in Users : ProcessInv(q)'
    BY DEF TypeOK, ProcessInv
<1> QED
    BY <1>1, <1>2, <1>3, <1>4, <1>5, <1>6, <1>7, <1>8, <1>9

\* Nothing to park.
LEMMA ParkNothingKeeps ==
    ASSUME IInv, NEW h \in Harts, ParkNothing(h)
    PROVE  IInv'
<1> USE DEF IInv, ParkNothing, process_vars, timer_vars, At
<1>0. \A g \in Harts, p \in Users : Carries(g, p)' <=> Carries(g, p)
    BY DEF TypeOK, Carries
<1>a. ~ exiting[h]
    BY ValuesAssumption DEF TypeOK, ExitInv
<1>1. TypeOK'
    BY DEF TypeOK, KernelPcs
<1>2. OneHart'
    BY DEF TypeOK, OneHart
<1>3. Sorted'
    BY DEF TypeOK, Sorted
<1>4. Accounted'
    BY <1>0 DEF TypeOK, Accounted
<1>5. DeadNeverRuns'
    BY DEF TypeOK, DeadNeverRuns, ExitInv
<1>6. BootInv'
    BY DEF TypeOK, BootInv
<1>7. \A g \in Harts : HartInv(g)'
    BY ValuesAssumption DEF TypeOK, HartInv
<1>8. \A g \in Harts : ExitInv(g)'
    BY <1>a DEF TypeOK, ExitInv, KernelPcs
<1>9. \A p \in Users : ProcessInv(p)'
    BY DEF TypeOK, ProcessInv
<1> QED
    BY <1>1, <1>2, <1>3, <1>4, <1>5, <1>6, <1>7, <1>8, <1>9

\* The resume address is stored.
LEMMA ParkSaveKeeps ==
    ASSUME IInv, NEW h \in Harts, ParkSave(h)
    PROVE  IInv'
<1> USE DEF IInv, ParkSave, process_vars, timer_vars, At
<1>0. \A g \in Harts, p \in Users : Carries(g, p)' <=> Carries(g, p)
    BY DEF TypeOK, Carries
<1>1. TypeOK'
    BY DEF TypeOK, KernelPcs
<1>2. OneHart'
    BY DEF TypeOK, OneHart
<1>3. Sorted'
    BY DEF TypeOK, Sorted
<1>4. Accounted'
    BY <1>0 DEF TypeOK, Accounted
<1>5. DeadNeverRuns'
    BY DEF TypeOK, DeadNeverRuns, ExitInv
<1>6. BootInv'
    BY DEF TypeOK, BootInv
<1>7. \A g \in Harts : HartInv(g)'
    BY DEF TypeOK, HartInv, ProcessInv, KernelPcs
<1>8. \A g \in Harts : ExitInv(g)'
    BY DEF TypeOK, ExitInv, KernelPcs
<1>9. \A p \in Users : ProcessInv(p)'
    BY DEF TypeOK, ProcessInv
<1> QED
    BY <1>1, <1>2, <1>3, <1>4, <1>5, <1>6, <1>7, <1>8, <1>9

\* A hart starts the process it chose.
LEMMA RunStartKeeps ==
    ASSUME IInv, NEW h \in Harts, RunStart(h)
    PROVE  IInv'
<1> USE DEF IInv, RunStart, process_vars, timer_vars, At, StampAndArm
<1>0. \A g \in Harts, p \in Users : Carries(g, p)' <=> Carries(g, p)
    BY DEF TypeOK, Carries
<1>a. ~ exiting[h]
    BY DEF TypeOK, ExitInv
<1>1. TypeOK'
    <2>1. 0 \in 0 .. ProgLen - 1
        BY BoundsAssumption
    <2> QED
        BY <2>1 DEF TypeOK, KernelPcs
<1>2. OneHart'
    BY DEF TypeOK, OneHart
<1>3. Sorted'
    BY DEF TypeOK, Sorted
<1>4. Accounted'
    BY <1>0 DEF TypeOK, Accounted
<1>5. DeadNeverRuns'
    BY DEF TypeOK, DeadNeverRuns, ExitInv
<1>6. BootInv'
    BY DEF TypeOK, BootInv
<1>7. \A g \in Harts : HartInv(g)'
    BY DEF TypeOK, HartInv, ProcessInv, KernelPcs
<1>8. \A g \in Harts : ExitInv(g)'
    BY <1>a DEF TypeOK, ExitInv, KernelPcs
<1>9. \A p \in Users : ProcessInv(p)'
    BY DEF TypeOK, ProcessInv
<1> QED
    BY <1>1, <1>2, <1>3, <1>4, <1>5, <1>6, <1>7, <1>8, <1>9

\* A start that fails strands no process: before the harts have started there is none.
LEMMA RunFailsKeeps ==
    ASSUME IInv, NEW h \in Harts, RunFails(h)
    PROVE  IInv'
<1> USE DEF IInv, RunFails, process_vars, timer_vars, At, StampAndArm
<1>0. \A g \in Harts, p \in Users : Carries(g, p)' <=> Carries(g, p)
    BY DEF TypeOK, Carries
<1>a. current_processes[h] \notin Users
    <2>1. allocated = {}
        BY DEF BootInv
    <2>2. \A p \in Users : on_hart[p] = -1
        BY <2>1 DEF Accounted
    <2> QED
        BY <2>2 DEF OneHart, Harts
<1>1. TypeOK'
    BY DEF TypeOK, KernelPcs
<1>2. OneHart'
    BY DEF TypeOK, OneHart
<1>3. Sorted'
    BY DEF TypeOK, Sorted
<1>4. Accounted'
    BY <1>0 DEF TypeOK, Accounted
<1>5. DeadNeverRuns'
    BY DEF TypeOK, DeadNeverRuns, ExitInv
<1>6. BootInv'
    BY DEF TypeOK, BootInv
<1>7. \A g \in Harts : HartInv(g)'
    BY <1>a DEF TypeOK, HartInv, ProcessInv, KernelPcs
<1>8. \A g \in Harts : ExitInv(g)'
    BY DEF TypeOK, ExitInv, KernelPcs
<1>9. \A p \in Users : ProcessInv(p)'
    BY DEF TypeOK, ProcessInv
<1> QED
    BY <1>1, <1>2, <1>3, <1>4, <1>5, <1>6, <1>7, <1>8, <1>9

\* main reaches the hart.
LEMMA BootKeeps ==
    ASSUME IInv, NEW h \in Harts, Boot(h)
    PROVE  IInv'
<1> USE DEF IInv, Boot, process_vars, timer_vars, At
<1>0. \A g \in Harts, p \in Users : Carries(g, p)' <=> Carries(g, p)
    BY DEF TypeOK, Carries
<1>1. TypeOK'
    BY DEF TypeOK, KernelPcs
<1>2. OneHart'
    BY DEF TypeOK, OneHart
<1>3. Sorted'
    BY DEF TypeOK, Sorted
<1>4. Accounted'
    BY <1>0 DEF TypeOK, Accounted
<1>5. DeadNeverRuns'
    BY DEF TypeOK, DeadNeverRuns, ExitInv
<1>6. BootInv'
    BY DEF TypeOK, BootInv
<1>7. \A g \in Harts : HartInv(g)'
    BY DEF TypeOK, HartInv, ProcessInv, KernelPcs
<1>8. \A g \in Harts : ExitInv(g)'
    BY DEF TypeOK, ExitInv, KernelPcs
<1>9. \A p \in Users : ProcessInv(p)'
    BY DEF TypeOK, ProcessInv
<1> QED
    BY <1>1, <1>2, <1>3, <1>4, <1>5, <1>6, <1>7, <1>8, <1>9

\* The firmware on the hart is ready.
LEMMA FirmwareReadyKeeps ==
    ASSUME IInv, NEW h \in Harts, FirmwareReady(h)
    PROVE  IInv'
<1> USE DEF IInv, FirmwareReady, process_vars, timer_vars, At
<1>0. \A g \in Harts, p \in Users : Carries(g, p)' <=> Carries(g, p)
    BY DEF TypeOK, Carries
<1>1. TypeOK'
    BY DEF TypeOK, KernelPcs
<1>2. OneHart'
    BY DEF TypeOK, OneHart
<1>3. Sorted'
    BY DEF TypeOK, Sorted
<1>4. Accounted'
    BY <1>0 DEF TypeOK, Accounted
<1>5. DeadNeverRuns'
    BY DEF TypeOK, DeadNeverRuns, ExitInv
<1>6. BootInv'
    BY DEF TypeOK, BootInv
<1>7. \A g \in Harts : HartInv(g)'
    BY DEF TypeOK, HartInv, ProcessInv, KernelPcs
<1>8. \A g \in Harts : ExitInv(g)'
    BY DEF TypeOK, ExitInv, KernelPcs
<1>9. \A p \in Users : ProcessInv(p)'
    BY DEF TypeOK, ProcessInv
<1> QED
    BY <1>1, <1>2, <1>3, <1>4, <1>5, <1>6, <1>7, <1>8, <1>9

\* The machine timer expires.
LEMMA TimerExpiresKeeps ==
    ASSUME IInv, NEW h \in Harts, TimerExpires(h)
    PROVE  IInv'
<1> USE DEF IInv, TimerExpires, process_vars, timer_vars, At
<1>0. \A g \in Harts, p \in Users : Carries(g, p)' <=> Carries(g, p)
    BY DEF TypeOK, Carries
<1>1. TypeOK'
    BY DEF TypeOK, KernelPcs
<1>2. OneHart'
    BY DEF TypeOK, OneHart
<1>3. Sorted'
    BY DEF TypeOK, Sorted
<1>4. Accounted'
    BY <1>0 DEF TypeOK, Accounted
<1>5. DeadNeverRuns'
    BY DEF TypeOK, DeadNeverRuns, ExitInv
<1>6. BootInv'
    BY DEF TypeOK, BootInv
<1>7. \A g \in Harts : HartInv(g)'
    BY DEF TypeOK, HartInv, ProcessInv, KernelPcs
<1>8. \A g \in Harts : ExitInv(g)'
    BY DEF TypeOK, ExitInv, KernelPcs
<1>9. \A p \in Users : ProcessInv(p)'
    BY DEF TypeOK, ProcessInv
<1> QED
    BY <1>1, <1>2, <1>3, <1>4, <1>5, <1>6, <1>7, <1>8, <1>9
\* SYS_SLEEP puts the process to sleep.
LEMMA SleepTrapKeeps ==
    ASSUME IInv, NEW h \in Harts, NEW p \in Users, SleepTrap(h, p)
    PROVE  IInv'
<1> USE DEF IInv, SleepTrap, process_vars, timer_vars, At, EnterTrap
<1>0. \A g \in Harts, q \in Users : Carries(g, q)' <=> Carries(g, q)
    BY DEF TypeOK, Carries
<1>a. ~ exiting[h] /\ state[p] = "RUNNING"
    BY DEF TypeOK, ExitInv, HartInv
<1>b. \A g \in Harts : current_processes[g] = p => g = h
    BY DEF TypeOK, OneHart
<1>c. \A g \in Harts : ~ Carries(g, p)
    BY DEF OneHart, Accounted, Harts
<1>d. \A g \in Harts : exiting[g] => stack[g] # p
    BY <1>a DEF ExitInv
<1>1. TypeOK'
    <2>1. NextInstr(sepc[h]) \in 0 .. ProgLen - 1
        BY NextInstrType DEF TypeOK
    <2>0. time \in Nat
        BY DEF TypeOK
    <2>2. ASSUME NEW d \in SleepTimes PROVE time + d \in Nat
        <3>1. d \in Nat
            BY BoundsAssumption
        <3> QED
            BY <2>0, <3>1
    <2> QED
        BY <2>1, <2>2 DEF TypeOK, KernelPcs
<1>2. OneHart'
    BY DEF TypeOK, OneHart
<1>3. Sorted'
    BY DEF TypeOK, Sorted
<1>4. Accounted'
    BY <1>0 DEF TypeOK, Accounted
<1>5. DeadNeverRuns'
    BY <1>a DEF TypeOK, DeadNeverRuns
<1>6. BootInv'
    BY DEF TypeOK, BootInv
<1>7. \A g \in Harts : HartInv(g)'
    BY <1>a, <1>b, <1>c, ValuesAssumption DEF TypeOK, HartInv, Carries
<1>8. \A g \in Harts : ExitInv(g)'
    BY <1>a, <1>d DEF TypeOK, ExitInv, KernelPcs
<1>9. \A q \in Users : ProcessInv(q)'
    BY DEF TypeOK, ProcessInv
<1> QED
    BY <1>1, <1>2, <1>3, <1>4, <1>5, <1>6, <1>7, <1>8, <1>9

\* SYS_EXIT marks the process dead.
LEMMA ExitTrapKeeps ==
    ASSUME IInv, NEW h \in Harts, NEW p \in Users, ExitTrap(h, p)
    PROVE  IInv'
<1> USE DEF IInv, ExitTrap, process_vars, timer_vars, At, EnterTrap
<1>0. \A g \in Harts, q \in Users : Carries(g, q)' <=> Carries(g, q)
    BY DEF TypeOK, Carries
<1>a. ~ exiting[h] /\ state[p] = "RUNNING"
    BY DEF TypeOK, ExitInv, HartInv
<1>b. \A g \in Harts : current_processes[g] = p => g = h
    BY DEF TypeOK, OneHart
<1>c. p \in allocated /\ p \in Range(schedule_processes)
    BY DEF OneHart, Accounted, Harts
<1>d. \A g \in Harts : exiting[g] => stack[g] # p
    BY <1>a DEF ExitInv
<1>1. TypeOK'
    BY DEF TypeOK, KernelPcs
<1>2. OneHart'
    BY DEF TypeOK, OneHart
<1>3. Sorted'
    BY DEF TypeOK, Sorted
<1>4. Accounted'
    BY <1>0 DEF TypeOK, Accounted
<1>5. DeadNeverRuns'
    BY <1>b DEF TypeOK, DeadNeverRuns, ExitInv
<1>6. BootInv'
    BY DEF TypeOK, BootInv
<1>7. \A g \in Harts : HartInv(g)'
    BY <1>b, <1>c, ValuesAssumption DEF TypeOK, HartInv, Accounted, Carries
<1>8. \A g \in Harts : ExitInv(g)'
    BY <1>a, <1>c, <1>d DEF TypeOK, ExitInv, KernelPcs
<1>9. \A q \in Users : ProcessInv(q)'
    BY DEF TypeOK, ProcessInv
<1> QED
    BY <1>1, <1>2, <1>3, <1>4, <1>5, <1>6, <1>7, <1>8, <1>9

\* process_free gives the block back.
LEMMA ExitFreeKeeps ==
    ASSUME IInv, NEW h \in Harts, ExitFree(h)
    PROVE  IInv'
<1> USE DEF IInv, ExitFree, process_vars, timer_vars, At
<1>0. \A g \in Harts, q \in Users : Carries(g, q)' <=> Carries(g, q) /\ g # h
    BY ValuesAssumption DEF TypeOK, Carries
<1>a. exiting[h] /\ stack[h] \in allocated
    BY DEF ExitInv
<1>b. Carries(h, stack[h]) /\ \A q \in Users : Carries(h, q) => q = stack[h]
    BY DEF Carries
<1>1. TypeOK'
    BY DEF TypeOK, KernelPcs
<1>2. OneHart'
    BY DEF TypeOK, OneHart
<1>3. Sorted'
    BY DEF TypeOK, Sorted
<1>4. Accounted'
    <2> DEFINE s == stack[h]
    <2>1. s \in Users /\ s \notin Range(schedule_processes)
        BY <1>a, <1>b DEF TypeOK, Accounted
    <2>2. \A g \in Harts : Carries(g, s) => g = h
        BY <1>b, <2>1 DEF Accounted
    <2> HIDE DEF s
    <2> QED
        BY <1>0, <1>b, <2>1, <2>2 DEF TypeOK, Accounted, s
<1>5. DeadNeverRuns'
    BY ValuesAssumption DEF TypeOK, DeadNeverRuns, HartInv
<1>6. BootInv'
    BY DEF TypeOK, BootInv
<1>7. \A g \in Harts : HartInv(g)'
    BY ValuesAssumption DEF TypeOK, HartInv
<1>8. \A g \in Harts : ExitInv(g)'
    BY <1>a DEF TypeOK, ExitInv, KernelPcs
<1>9. \A p \in Users : ProcessInv(p)'
    BY DEF TypeOK, ProcessInv
<1> QED
    BY <1>1, <1>2, <1>3, <1>4, <1>5, <1>6, <1>7, <1>8, <1>9

\* schedule_park unlists and charges the process.
LEMMA ParkRemoveKeeps ==
    ASSUME IInv, NEW h \in Harts, ParkRemove(h)
    PROVE  IInv'
<1> USE DEF IInv, ParkRemove, process_vars, timer_vars, At, Charge
<1>l. /\ schedule_processes' \in Seq(Users)
      /\ IsInjective(schedule_processes')
      /\ InOrder(schedule_processes', vruntime)
      /\ current_processes[h] \in Users => Range(schedule_processes') = Range(schedule_processes) \ {current_processes[h]}
      /\ current_processes[h] \notin Users => schedule_processes' = schedule_processes
    BY RemoveListed DEF TypeOK, Accounted, Sorted
<1>a. \A g \in Harts, q \in Users :
        Carries(g, q)' <=> Carries(g, q) \/ (g = h /\ q = current_processes[h])
    BY ValuesAssumption, SMTT(20) DEF TypeOK, Carries, HartInv
<1>b. current_processes[h] \in Users => current_processes[h] \in Range(schedule_processes)
    BY DEF TypeOK, OneHart, Accounted, Harts
<1>c. \A q \in Users, g \in Harts : Carries(g, q) => q # current_processes[h]
    BY <1>b DEF Accounted
<1>d. current_processes[h] \in Users =>
        /\ time - starttime[current_processes[h]] \in Nat
        /\ vruntime[current_processes[h]] + (time - starttime[current_processes[h]]) <= time
    BY DEF TypeOK, HartInv
<1>e. /\ \A g \in Harts : g # -1
      /\ \A q \in Users : on_hart[q] = h <=> q = current_processes[h]
    BY DEF OneHart, Harts
<1>f. \A g \in Harts \ {h} : exiting[g] => stack[g] # current_processes[h]
    <2> SUFFICES ASSUME NEW g \in Harts \ {h}, exiting[g], stack[g] = current_processes[h]
                 PROVE  FALSE
        OBVIOUS
    <2>1. stack[g] \in Users /\ state[stack[g]] = "DEAD"
        BY DEF TypeOK, ExitInv
    <2>2. exiting[h] /\ stack[h] = stack[g]
        BY <2>1 DEF DeadNeverRuns, HartInv
    <2> QED
        BY <2>2 DEF ExitInv
<1>1. TypeOK'
    <2>1. vruntime' \in [Users -> Nat]
        BY <1>d DEF TypeOK
    <2>2. /\ on_hart' \in [Users -> Harts \cup {-1}]
          /\ pc' \in [Harts -> KernelPcs \cup {"boot", "user"}]
          /\ current_processes' \in [Harts -> Users \cup {Idle, NULL}]
        BY DEF TypeOK, KernelPcs
    <2> QED
        BY <1>l, <2>1, <2>2 DEF TypeOK
<1>2. OneHart'
    <2>1. \A g \in Harts : current_processes'[g] = IF g = h THEN NULL ELSE current_processes[g]
        BY DEF TypeOK
    <2>2. \A q \in Users : on_hart'[q] = IF q = current_processes[h] THEN -1 ELSE on_hart[q]
        BY DEF TypeOK
    <2>3. NULL \notin Users
        BY ValuesAssumption
    <2> QED
        BY <1>e, <2>1, <2>2, <2>3 DEF OneHart
<1>3. Sorted'
    <2>1. \A q \in Range(schedule_processes') : vruntime'[q] = vruntime[q]
        BY <1>l DEF TypeOK
    <2> QED
        BY <1>l, <2>1, InOrderOfMembers DEF Sorted
<1>4. Accounted'
    <2>1. IsInjective(schedule_processes') /\ allocated' = allocated
        BY <1>l
    <2>2. \A q \in Users : on_hart'[q] # -1 => on_hart[q] # -1 /\ q # current_processes[h]
        BY DEF TypeOK
    <2>3. \A q \in Users : q \in Range(schedule_processes')
                            <=> q \in Range(schedule_processes) /\ q # current_processes[h]
        BY <1>l
    <2> QED
        BY <1>a, <1>b, <1>c, <2>1, <2>2, <2>3 DEF Accounted
<1>5. DeadNeverRuns'
    BY ValuesAssumption DEF TypeOK, DeadNeverRuns
<1>6. BootInv'
    BY DEF TypeOK, BootInv
<1>7. \A g \in Harts : HartInv(g)'
    BY ValuesAssumption DEF TypeOK, HartInv, OneHart
<1>8. ASSUME NEW g \in Harts PROVE ExitInv(g)'
    <2>1. UNCHANGED <<stack, state, allocated, exiting>> /\ pc[h] = "park"
        OBVIOUS
    <2>2. CASE g = h
        <3>1. pc'[g] = "park_add"
            BY <2>2 DEF TypeOK
        <3> QED
            BY <2>1, <2>2, <3>1 DEF ExitInv
    <2>3. CASE g # h
        <3>1. pc'[g] = pc[g] /\ current_processes'[g] = current_processes[g]
            BY <2>3 DEF TypeOK
        <3>2. exiting[g] /\ stack[g] \in Range(schedule_processes)
              => stack[g] \in Range(schedule_processes')
            BY <1>f, <1>l, <2>3
        <3> QED
            BY <2>1, <3>1, <3>2 DEF ExitInv
    <2> QED
        BY <2>2, <2>3
<1>9. \A p \in Users : ProcessInv(p)'
    BY <1>d DEF TypeOK, ProcessInv
<1> QED
    BY <1>1, <1>2, <1>3, <1>4, <1>5, <1>6, <1>7, <1>8, <1>9

\* schedule_park lists the process again.
LEMMA ParkAddKeeps ==
    ASSUME IInv, NEW h \in Harts, ParkAdd(h)
    PROVE  IInv'
<1> USE DEF IInv, ParkAdd, process_vars, timer_vars, At
<1>n. stack[h] \notin Range(schedule_processes)
    <2>1. CASE stack[h] \in Users
        BY <2>1 DEF Accounted, Carries
    <2>2. CASE stack[h] \notin Users
        BY <2>2 DEF TypeOK, Range
    <2> QED
        BY <2>1, <2>2
<1>l. /\ schedule_processes' \in Seq(Users)
      /\ IsInjective(schedule_processes')
      /\ InOrder(schedule_processes', vruntime)
      /\ stack[h] \in Users => Range(schedule_processes') = Range(schedule_processes) \cup {stack[h]}
      /\ stack[h] \notin Users => schedule_processes' = schedule_processes
    BY <1>n, AddListed DEF TypeOK, Accounted, Sorted
<1>a. \A g \in Harts, q \in Users : Carries(g, q)' <=> Carries(g, q) /\ g # h
    BY DEF TypeOK, Carries
<1>b. \A q \in Users : Carries(h, q) <=> q = stack[h]
    BY DEF Carries
<1>1. TypeOK'
    BY <1>l DEF TypeOK, KernelPcs
<1>2. OneHart'
    BY DEF TypeOK, OneHart
<1>3. Sorted'
    BY <1>l DEF Sorted
<1>4. Accounted'
    BY <1>l, <1>a, <1>b DEF TypeOK, Accounted
<1>5. DeadNeverRuns'
    BY DEF TypeOK, DeadNeverRuns, ExitInv
<1>6. BootInv'
    BY DEF TypeOK, BootInv
<1>7. \A g \in Harts : HartInv(g)'
    BY DEF TypeOK, HartInv, ProcessInv, KernelPcs
<1>8. \A g \in Harts : ExitInv(g)'
    BY <1>l DEF TypeOK, ExitInv, KernelPcs
<1>9. \A p \in Users : ProcessInv(p)'
    BY DEF TypeOK, ProcessInv
<1> QED
    BY <1>1, <1>2, <1>3, <1>4, <1>5, <1>6, <1>7, <1>8, <1>9

\* schedule_pop takes a process out of the list.
LEMMA PopKeeps ==
    ASSUME IInv, NEW h \in Harts, Pop(h)
    PROVE  IInv'
<1> USE DEF IInv, Pop, process_vars, timer_vars, At
<1>f. \/ FirstAvailable = Idle
      \/ /\ FirstAvailable \in Range(schedule_processes)
         /\ FirstAvailable \in Users
         /\ Available(FirstAvailable)
    BY PoppedIsAvailable DEF TypeOK
<1>l. /\ schedule_processes' \in Seq(Users)
      /\ IsInjective(schedule_processes')
      /\ InOrder(schedule_processes', vruntime)
      /\ FirstAvailable \in Users => Range(schedule_processes') = Range(schedule_processes) \ {FirstAvailable}
      /\ FirstAvailable \notin Users => schedule_processes' = schedule_processes
    BY RemoveListed DEF TypeOK, Accounted, Sorted
<1>a. \A g \in Harts, q \in Users :
        Carries(g, q)' <=> Carries(g, q) \/ (g = h /\ q = FirstAvailable)
    BY DEF TypeOK, Carries
<1>b. \A q \in Users, g \in Harts : Carries(g, q) => q # FirstAvailable
    BY <1>f, ValuesAssumption DEF Accounted
<1>c. FirstAvailable \in Users => on_hart[FirstAvailable] = -1 /\ state[FirstAvailable] # "DEAD"
                                  /\ sleep_until[FirstAvailable] <= time
    BY <1>f, ValuesAssumption DEF Available, ProcessInv
<1>1. TypeOK'
    BY <1>f, <1>l DEF TypeOK, KernelPcs
<1>2. OneHart'
    BY DEF TypeOK, OneHart
<1>3. Sorted'
    BY <1>l DEF Sorted
<1>4. Accounted'
    BY <1>l, <1>a, <1>b, <1>c, <1>f, ValuesAssumption DEF TypeOK, Accounted
<1>5. DeadNeverRuns'
    BY DEF TypeOK, DeadNeverRuns, ExitInv
<1>6. BootInv'
    BY DEF TypeOK, BootInv
<1>7. \A g \in Harts : HartInv(g)'
    BY <1>c DEF TypeOK, HartInv
<1>8. \A g \in Harts : ExitInv(g)'
    BY <1>l, <1>c DEF TypeOK, ExitInv, KernelPcs
<1>9. \A p \in Users : ProcessInv(p)'
    BY DEF TypeOK, ProcessInv
<1> QED
    BY <1>1, <1>2, <1>3, <1>4, <1>5, <1>6, <1>7, <1>8, <1>9

\* schedule_run takes the process to the hart and lists it.
LEMMA RunAddKeeps ==
    ASSUME IInv, NEW h \in Harts, RunAdd(h)
    PROVE  IInv'
<1> USE DEF IInv, RunAdd, process_vars, timer_vars, At
<1>n. chosen[h] \notin Range(schedule_processes)
    <2>1. CASE chosen[h] \in Users
        BY <2>1 DEF Accounted, Carries
    <2>2. CASE chosen[h] \notin Users
        BY <2>2 DEF TypeOK, Range
    <2> QED
        BY <2>1, <2>2
<1>l. /\ schedule_processes' \in Seq(Users)
      /\ IsInjective(schedule_processes')
      /\ InOrder(schedule_processes', vruntime)
      /\ chosen[h] \in Users => Range(schedule_processes') = Range(schedule_processes) \cup {chosen[h]}
      /\ chosen[h] \notin Users => schedule_processes' = schedule_processes
    BY <1>n, AddListed DEF TypeOK, Accounted, Sorted
<1>a. \A g \in Harts, q \in Users : Carries(g, q)' <=> Carries(g, q) /\ g # h
    BY DEF TypeOK, Carries
<1>b. \A q \in Users : Carries(h, q) <=> q = chosen[h]
    BY DEF Carries
<1>c. current_processes[h] \notin Users /\ ~ exiting[h]
    BY DEF TypeOK, HartInv, ExitInv
<1>d. chosen[h] \in Users => /\ on_hart[chosen[h]] = -1
                             /\ state[chosen[h]] # "DEAD"
                             /\ sleep_until[chosen[h]] <= time
    BY <1>n, <1>b DEF TypeOK, Accounted, HartInv
<1>e. \A g \in Harts, q \in Users : q = chosen[h] => current_processes[g] # q
    BY <1>d DEF OneHart, Harts
<1>1. TypeOK'
    BY <1>l DEF TypeOK, KernelPcs
<1>2. OneHart'
    BY <1>c, <1>d, <1>e DEF TypeOK, OneHart, Harts
<1>3. Sorted'
    BY <1>l DEF Sorted
<1>4. Accounted'
    BY <1>l, <1>a, <1>b DEF TypeOK, Accounted
<1>5. DeadNeverRuns'
    BY DEF TypeOK, DeadNeverRuns, ExitInv
<1>6. BootInv'
    BY DEF TypeOK, BootInv
<1>7. \A g \in Harts : HartInv(g)'
    BY <1>d, <1>e, <1>a, <1>b DEF TypeOK, HartInv, Accounted, Carries
<1>8. \A g \in Harts : ExitInv(g)'
    BY <1>c, <1>d, <1>l DEF TypeOK, ExitInv, KernelPcs
<1>9. \A p \in Users : ProcessInv(p)'
    BY <1>d DEF TypeOK, ProcessInv
<1> QED
    BY <1>1, <1>2, <1>3, <1>4, <1>5, <1>6, <1>7, <1>8, <1>9

\* SYS_EXIT unlists the dead process.
LEMMA ExitRemoveKeeps ==
    ASSUME IInv, NEW h \in Harts, ExitRemove(h)
    PROVE  IInv'
<1> USE DEF IInv, ExitRemove, process_vars, timer_vars, At
<1>l. /\ schedule_processes' \in Seq(Users)
      /\ IsInjective(schedule_processes')
      /\ InOrder(schedule_processes', vruntime)
      /\ stack[h] \in Users => Range(schedule_processes') = Range(schedule_processes) \ {stack[h]}
      /\ stack[h] \notin Users => schedule_processes' = schedule_processes
    BY RemoveListed DEF TypeOK, Accounted, Sorted
<1>a. \A g \in Harts, q \in Users : Carries(g, q)' <=> Carries(g, q) \/ (g = h /\ q = stack[h])
    BY DEF TypeOK, Carries
<1>b. /\ exiting[h] /\ state[stack[h]] = "DEAD"
      /\ stack[h] \in Users
      /\ stack[h] \in Range(schedule_processes)
    BY DEF TypeOK, ExitInv
<1>c. \A q \in Users, g \in Harts : Carries(g, q) => q # stack[h]
    BY <1>b DEF Accounted
<1>d. on_hart[stack[h]] = -1
    <2>1. \A g \in Harts : current_processes[g] # stack[h]
        BY <1>b, ValuesAssumption DEF DeadNeverRuns, ExitInv, HartInv
    <2> QED
        BY <1>b, <2>1 DEF TypeOK, OneHart
<1>1. TypeOK'
    BY <1>l DEF TypeOK, KernelPcs
<1>2. OneHart'
    BY DEF TypeOK, OneHart
<1>3. Sorted'
    BY <1>l DEF Sorted
<1>4. Accounted'
    BY <1>l, <1>a, <1>b, <1>c, <1>d DEF TypeOK, Accounted
<1>5. DeadNeverRuns'
    BY DEF TypeOK, DeadNeverRuns, ExitInv
<1>6. BootInv'
    BY DEF TypeOK, BootInv
<1>7. \A g \in Harts : HartInv(g)'
    BY DEF TypeOK, HartInv, ProcessInv, KernelPcs
<1>8. \A g \in Harts : ExitInv(g)'
    BY <1>l, <1>b DEF TypeOK, ExitInv, KernelPcs
<1>9. \A p \in Users : ProcessInv(p)'
    BY DEF TypeOK, ProcessInv
<1> QED
    BY <1>1, <1>2, <1>3, <1>4, <1>5, <1>6, <1>7, <1>8, <1>9

\* exec makes a process and lists it.
LEMMA ExecKeeps ==
    ASSUME IInv, NEW p \in Users, Exec(p)
    PROVE  IInv'
<1> USE DEF IInv, Exec, process_vars, timer_vars, At
<1>n. p \notin Range(schedule_processes) /\ on_hart[p] = -1
      /\ \A g \in Harts : ~ Carries(g, p)
    BY DEF Accounted
<1>v. vruntime' \in [Users -> Nat] /\ InOrder(schedule_processes, vruntime')
    <2>1. \A q \in Range(schedule_processes) : vruntime'[q] = vruntime[q]
        BY <1>n DEF TypeOK, Range
    <2> QED
        <3>1. vruntime' \in [Users -> Nat] /\ schedule_processes \in Seq(Users)
            BY DEF TypeOK
        <3>2. InOrder(schedule_processes, vruntime)
            BY DEF Sorted
        <3> HIDE DEF IInv, Exec, At
        <3> QED
            BY <2>1, <3>1, <3>2, InOrderOfMembers
<1>l. /\ schedule_processes' \in Seq(Users)
      /\ IsInjective(schedule_processes')
      /\ InOrder(schedule_processes', vruntime')
      /\ Range(schedule_processes') = Range(schedule_processes) \cup {p}
    BY <1>n, <1>v, AddListed DEF TypeOK, Accounted
<1>a. \A g \in Harts, q \in Users : Carries(g, q)' <=> Carries(g, q)
    BY DEF TypeOK, Carries
<1>b. \A g \in Harts : current_processes[g] # p
    BY <1>n DEF OneHart, Harts
<1>e. /\ \A g \in Harts : g # -1
      /\ \A g \in Harts : exiting[g] => stack[g] # p
    BY DEF Harts, ExitInv
<1>1. TypeOK'
    <2>1. 0 \in 0 .. ProgLen - 1
        BY BoundsAssumption
    <2> QED
        BY <1>l, <1>v, <2>1 DEF TypeOK, KernelPcs
<1>2. OneHart'
    BY <1>b, <1>e DEF TypeOK, OneHart
<1>3. Sorted'
    BY <1>l DEF Sorted
<1>4. Accounted'
    <2>1. IsInjective(schedule_processes')
        BY <1>l
    <2>2. ASSUME NEW q \in Users, q # p
          PROVE  /\ q \in Range(schedule_processes') <=> q \in Range(schedule_processes)
                 /\ q \in allocated' <=> q \in allocated
                 /\ on_hart'[q] = on_hart[q]
        BY <1>l, <2>2 DEF TypeOK
    <2>3. p \in Range(schedule_processes') /\ p \in allocated'
        BY <1>l
    <2> QED
        <3>1. \A q \in Users \ {p} :
                /\ q \in Range(schedule_processes') \/ (\E g \in Harts : Carries(g, q)')
                       <=> q \in allocated'
                /\ q \in Range(schedule_processes') => ~ \E g \in Harts : Carries(g, q)'
                /\ \A g, k \in Harts : Carries(g, q)' /\ Carries(k, q)' => g = k
                /\ on_hart'[q] # -1 => q \in Range(schedule_processes')
            BY <1>a, <2>2 DEF Accounted
        <3>2. \A g \in Harts : ~ Carries(g, p)'
            BY <1>a, <1>n
        <3> QED
            BY <2>1, <2>3, <3>1, <3>2 DEF Accounted
<1>5. DeadNeverRuns'
    BY <1>b DEF TypeOK, DeadNeverRuns
<1>6. BootInv'
    BY DEF TypeOK, BootInv
<1>7. \A g \in Harts : HartInv(g)'
    BY <1>b, <1>n DEF TypeOK, HartInv, Carries
<1>8. ASSUME NEW g \in Harts PROVE ExitInv(g)'
    <2>1. UNCHANGED <<stack, exiting, pc, current_processes>>
        OBVIOUS
    <2>2. exiting[g] /\ state[stack[g]] = "DEAD" /\ stack[g] \in allocated
          => state'[stack[g]] = "DEAD" /\ stack[g] \in allocated'
        BY <1>e DEF TypeOK
    <2>3. Range(schedule_processes) \subseteq Range(schedule_processes')
        BY <1>l
    <2>4. ExitInv(g)
        OBVIOUS
    <2> HIDE DEF IInv, Exec, At
    <2> USE DEF ExitInv
    <2>5. CASE exiting[g]
        <3>1. state[stack[g]] = "DEAD" /\ stack[g] \in allocated
            BY <2>4, <2>5
        <3> QED
            BY <2>1, <2>2, <2>3, <2>4, <2>5, <3>1
    <2>6. CASE ~ exiting[g]
        BY <2>1, <2>4, <2>6
    <2> QED
        BY <2>5, <2>6
<1>9. \A q \in Users : ProcessInv(q)'
    BY DEF TypeOK, ProcessInv
<1> QED
    BY <1>1, <1>2, <1>3, <1>4, <1>5, <1>6, <1>7, <1>8, <1>9
-----------------------------------------------------------------------------
(* The invariants. *)

LEMMA InitIInv == Init => IInv
<1> SUFFICES ASSUME Init PROVE IInv
    OBVIOUS
<1> USE DEF Init
<1>1. TypeOK
    <2>1. 0 \in 0 .. ProgLen - 1
        BY BoundsAssumption
    <2>2. /\ schedule_processes \in Seq(Users)
          /\ current_processes \in [Harts -> Users \cup {Idle, NULL}]
          /\ on_hart \in [Users -> Harts \cup {-1}]
          /\ allocated \subseteq Users
        BY EmptySeq
    <2>3. /\ pc \in [Harts -> KernelPcs \cup {"boot", "user"}]
          /\ stack \in [Harts -> Users \cup {Idle, NULL, Freed}]
          /\ chosen \in [Harts -> Users \cup {Idle, NULL}]
          /\ exiting \in [Harts -> BOOLEAN]
          /\ sepc \in [Harts -> 0 .. ProgLen - 1]
        BY <2>1
    <2>4. /\ mtimer \in [Harts -> BOOLEAN]
          /\ stip \in [Harts -> BOOLEAN]
          /\ status \in [Harts -> {"INVALID", "STOPPED", "STARTED"}]
          /\ time \in Nat /\ wild \in BOOLEAN
        OBVIOUS
    <2>5. /\ state \in [Users -> {"DEAD", "RUNNING", "SLEEPING"}]
          /\ vruntime \in [Users -> Nat]
          /\ starttime \in [Users -> Nat]
          /\ sleep_until \in [Users -> Nat]
          /\ frame_sepc \in [Users -> 0 .. ProgLen - 1]
          /\ left_off \in [Users -> 0 .. ProgLen - 1]
        BY <2>1
    <2> QED
        BY <2>2, <2>3, <2>4, <2>5, Zenon DEF TypeOK
<1>2. OneHart
    BY ValuesAssumption DEF OneHart, Harts
<1>3. Sorted
    BY DEF Sorted, InOrder
<1>4. Accounted
    BY DEF Accounted, Carries, IsInjective, Range
<1>5. DeadNeverRuns /\ BootInv
    BY ValuesAssumption DEF DeadNeverRuns, BootInv
<1>6. /\ \A h \in Harts : HartInv(h)
      /\ \A h \in Harts : ExitInv(h)
      /\ \A p \in Users : ProcessInv(p)
    BY ValuesAssumption DEF HartInv, ExitInv, ProcessInv
<1> QED
    BY <1>1, <1>2, <1>3, <1>4, <1>5, <1>6 DEF IInv

LEMMA NextIInv == IInv /\ [Next]_vars => IInv'
<1> SUFFICES ASSUME IInv, [Next]_vars PROVE IInv'
    OBVIOUS
<1>1. CASE UNCHANGED vars
    BY <1>1 DEF IInv, vars, process_vars, timer_vars, TypeOK, OneHart, Sorted, Accounted,
                Carries, DeadNeverRuns, BootInv, HartInv, ExitInv, ProcessInv
<1>2. CASE Tick
    BY <1>2, TickKeeps
<1>3. ASSUME NEW p \in Users, Exec(p) PROVE IInv'
    BY <1>3, ExecKeeps
<1>4. ASSUME NEW h \in Harts, KernelStep(h) PROVE IInv'
    BY <1>4, ParkNothingKeeps, ParkRemoveKeeps, ParkAddKeeps, ParkSaveKeeps, PopKeeps,
       RunAddKeeps, RunStartKeeps, RunFailsKeeps, ExitRemoveKeeps, ExitFreeKeeps
       DEF KernelStep
<1>5. ASSUME NEW h \in Harts, Trap(h) PROVE IInv'
    BY <1>5, TimerTrapKeeps, SleepTrapKeeps, ExitTrapKeeps, FaultTrapKeeps DEF Trap
<1>6. ASSUME NEW h \in Harts, UserStep(h) PROVE IInv'
    BY <1>6, UserStepKeeps
<1>7. ASSUME NEW h \in Harts, Boot(h) \/ FirmwareReady(h) \/ TimerExpires(h) PROVE IInv'
    BY <1>7, BootKeeps, FirmwareReadyKeeps, TimerExpiresKeeps
<1> QED
    BY <1>1, <1>2, <1>3, <1>4, <1>5, <1>6, <1>7 DEF Next

\* The inductive invariant holds throughout.
THEOREM Invariance == Spec => []IInv
<1> QED
    BY InitIInv, NextIInv, PTL DEF Spec

\* Every variable keeps its type.
THEOREM TypeCorrect == Spec => []TypeOK
<1>1. IInv => TypeOK
    BY DEF IInv
<1> QED
    BY <1>1, Invariance, PTL

\* A process runs on one hart at most, and on_hart agrees with current_processes.
THEOREM OneHartAlways == Spec => []OneHart
<1>1. IInv => OneHart
    BY DEF IInv
<1> QED
    BY <1>1, Invariance, PTL

\* schedule_assert never complains: the run list is in order whenever it can be seen.
THEOREM SortedAlways == Spec => []Sorted
<1>1. IInv => Sorted
    BY DEF IInv
<1> QED
    BY <1>1, Invariance, PTL

\* No process is lost, listed twice, or listed after it was freed.
THEOREM AccountedAlways == Spec => []Accounted
<1>1. IInv => Accounted
    BY DEF IInv
<1> QED
    BY <1>1, Invariance, PTL

\* No hart runs a process that has exited.
THEOREM DeadNeverRunsAlways == Spec => []DeadNeverRuns
<1>1. IInv => DeadNeverRuns
    BY DEF IInv
<1> QED
    BY <1>1, Invariance, PTL

\* No program executes before the sleep_until it asked for.
THEOREM SleepsLongEnoughAlways == Spec => []SleepsLongEnough
<1>1. IInv => SleepsLongEnough
    BY DEF IInv, SleepsLongEnough, HartInv, ProcessInv
<1> QED
    BY <1>1, Invariance, PTL

\* Every hart that runs a program has a timer interrupt ahead of it.
THEOREM PreemptibleAlways == Spec => []Preemptible
<1>1. IInv => Preemptible
    BY DEF IInv, Preemptible, HartInv
<1> QED
    BY <1>1, Invariance, PTL

\* No process is charged for time it did not run.
THEOREM NotOverchargedAlways == Spec => []NotOvercharged
<1>1. IInv => NotOvercharged
    BY DEF IInv, NotOvercharged, HartInv, ProcessInv
<1> QED
    BY <1>1, Invariance, PTL

\* A process that a hart runs may run: it has not exited, and the time it asked to
\* sleep until is past.
THEOREM RunsEligibleAlways == Spec => []RunsEligible
<1>1. SleepsLongEnough /\ DeadNeverRuns => RunsEligible
    BY DEF RunsEligible
<1> QED
    BY <1>1, SleepsLongEnoughAlways, DeadNeverRunsAlways, PTL

\* A process that runs is charged for its time slice only, and the slice ends.
THEOREM TimeSliceAlways == Spec => []TimeSlice
<1>1. Preemptible /\ NotOvercharged => TimeSlice
    BY DEF TimeSlice
<1> QED
    BY <1>1, PreemptibleAlways, NotOverchargedAlways, PTL

\* A trap stack is reachable from two harts only in the window after schedule_park
\* listed its process again.
THEOREM LeavingWindowAlways == Spec => []LeavingWindow
<1>1. IInv => LeavingWindow
    <2> SUFFICES ASSUME IInv, NEW g \in Harts, NEW h \in Harts, NEW p \in Users,
                        stack[g] = p, current_processes[h] = p, g # h
                 PROVE  pc[g] \in {"park_save", "pop", "run", "start"}
        BY DEF LeavingWindow
    <2> USE DEF IInv
    <2>1. on_hart[p] = h /\ h # -1 /\ current_processes[g] # p
        BY DEF OneHart, Harts
    <2>2. ~ Carries(g, p)
        BY <2>1 DEF Accounted
    <2>3. pc[g] \notin {"park_add", "exit_free"}
        BY <2>2 DEF Carries
    <2>4. pc[g] \notin {"boot", "user", "wfi", "park"}
        BY <2>1, ValuesAssumption DEF HartInv
    <2>5. pc[g] # "exit_remove"
        <3> SUFFICES ASSUME exiting[g], pc[g] = "exit_remove" PROVE FALSE
            BY DEF ExitInv
        <3>1. exiting[h] /\ stack[h] = p
            BY DEF ExitInv, DeadNeverRuns, HartInv
        <3> QED
            BY <3>1 DEF ExitInv
    <2> QED
        BY <2>3, <2>4, <2>5 DEF TypeOK, KernelPcs
<1> QED
    BY <1>1, Invariance, PTL

\* schedule_pop hands out the available process that was served least, and an idle
\* process only when none is available.
THEOREM PopsLeastServedAlways == Spec => PopsLeastServed
<1> DEFINE Ready == {p \in Range(schedule_processes) : Available(p)}
           PopsIt(h) == IF Ready = {} THEN chosen'[h] = Idle
                        ELSE /\ chosen'[h] \in Ready
                             /\ \A q \in Ready : vruntime[chosen'[h]] <= vruntime[q]
           A == \A h \in Harts : pc[h] = "pop" /\ pc'[h] = "run" => PopsIt(h)
<1>1. ASSUME IInv, [Next]_vars, NEW h \in Harts, pc[h] = "pop", pc'[h] = "run"
      PROVE  PopsIt(h)
    <2>1. Pop(h)
        <3>1. pc \in [Harts -> KernelPcs \cup {"boot", "user"}]
            BY <1>1 DEF IInv, TypeOK
        <3>2. Next
            BY <1>1 DEF vars
        <3>3. ASSUME NEW g \in Harts,
                     \/ (KernelStep(g) /\ ~ Pop(g)) \/ Trap(g) \/ UserStep(g)
                     \/ Boot(g) \/ FirmwareReady(g) \/ TimerExpires(g)
              PROVE  FALSE
            BY <1>1, <3>1, <3>3 DEF KernelStep, Trap, UserStep, Boot, FirmwareReady, TimerExpires,
               ParkNothing, ParkRemove, ParkAdd, ParkSave, RunAdd, RunStart, RunFails, ExitRemove,
               ExitFree, TimerTrap, SleepTrap, ExitTrap, FaultTrap, EnterTrap, At
        <3>4. ASSUME NEW g \in Harts, Pop(g) PROVE g = h
            BY <1>1, <3>1, <3>4 DEF Pop, At
        <3> QED
            BY <1>1, <3>2, <3>3, <3>4 DEF Next, Tick, Exec
    <2>2. chosen'[h] = FirstAvailable
        BY <1>1, <2>1 DEF Pop, IInv, TypeOK
    <2>3. /\ schedule_processes \in Seq(Users)
          /\ vruntime \in [Users -> Nat]
          /\ Sorted
        BY <1>1 DEF IInv, TypeOK
    <2> QED
        BY <2>2, <2>3, PoppedIsLeastServed
<1>2. IInv /\ [Next]_vars => [A]_vars
    BY <1>1
<1>3. PopsLeastServed <=> [][A]_vars
    BY DEF PopsLeastServed
<1> HIDE DEF A
<1> QED
    BY <1>2, <1>3, Invariance, PTL DEF Spec
=============================================================================
