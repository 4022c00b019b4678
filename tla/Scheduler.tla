------------------------------ MODULE Scheduler ------------------------------
(***************************************************************************)
(* The process scheduler of the kernel: schedule.c, the trap handler that  *)
(* calls it (c_trap), the system calls that change a process's state       *)
(* (SYS_EXIT and SYS_SLEEP), the console's exec, and main's boot loop.     *)
(*                                                                         *)
(* Harts 1 .. NUM_HARTS - 1 run processes; hart 0 runs main and then the   *)
(* console.  A hart in the kernel advances one shared-memory step at a     *)
(* time, pc[h] naming the next one.  A step holds schedule_lock throughout *)
(* or touches nothing another hart can see change halfway, so each         *)
(* critical section is one action.                                         *)
(*                                                                         *)
(* idle_processes[h] never enters the list (its pid is <= NUM_HARTS) and   *)
(* never leaves its hart: the constant Idle stands for it.                 *)
(***************************************************************************)
EXTENDS Integers, Sequences, SequencesExt

CONSTANTS
    NUM_HARTS,      \* harts of the machine, hart 0 included
    Users,          \* the Process blocks kzalloc hands to exec
    Idle, NULL,     \* an idle process; no process
    Freed,          \* a trap stack whose page went back to the allocator
    SleepTimes,     \* what a program passes to SYS_SLEEP
    ProgLen,        \* instructions of a user program, which loops
    MaxTime         \* bound: the clock stops there

Harts == 1 .. NUM_HARTS - 1

ASSUME HartsAssumption == NUM_HARTS \in Nat \ {0}
ASSUME ValuesAssumption ==
    /\ Idle \notin Users /\ NULL \notin Users /\ Freed \notin Users
    /\ Idle # NULL /\ Idle # Freed /\ NULL # Freed
ASSUME BoundsAssumption ==
    /\ SleepTimes \subseteq Nat
    /\ ProgLen \in Nat \ {0}
    /\ MaxTime \in Nat

VARIABLES
    schedule_processes,     \* the run list, by vruntime
    current_processes,      \* per hart
    on_hart, state,         \* Process.on_hart, .state
    vruntime, starttime,    \* Process.stats
    sleep_until,            \* Process.sleep_until
    frame_sepc,             \* Process.frame.sepc: where process_spawn resumes it
    allocated,              \* the Process blocks that exec holds
    pc,                     \* per hart: where its kernel code is
    stack,                  \* per hart: whose trap stack that code runs on
    chosen,                 \* per hart: schedule_schedule's local `process`
    exiting,                \* per hart: is schedule_park called by SYS_EXIT
    sepc,                   \* per hart: the user program counter, the CSR in a trap
    mtimer, stip,           \* per hart: machine timer armed; supervisor timer pending
    status,                 \* per hart: sbi_hart_data[h].status
    time,                   \* rdtime
    left_off,               \* ghost: the next instruction of each process
    wild                    \* ghost: a hart's kernel stack was overwritten

process_vars == <<on_hart, state, vruntime, starttime, sleep_until, frame_sepc, allocated>>
timer_vars == <<mtimer, stip, status, time>>
vars == <<schedule_processes, current_processes, process_vars, pc, stack, chosen,
          exiting, sepc, timer_vars, left_off, wild>>

Init ==
    /\ schedule_processes = <<>>
    /\ current_processes = [h \in Harts |-> NULL]
    /\ on_hart = [p \in Users |-> -1]
    /\ state = [p \in Users |-> "DEAD"]
    /\ vruntime = [p \in Users |-> 0]
    /\ starttime = [p \in Users |-> 0]
    /\ sleep_until = [p \in Users |-> 0]
    /\ frame_sepc = [p \in Users |-> 0]
    /\ allocated = {}
    /\ pc = [h \in Harts |-> "boot"]
    /\ stack = [h \in Harts |-> NULL]
    /\ chosen = [h \in Harts |-> NULL]
    /\ exiting = [h \in Harts |-> FALSE]
    /\ sepc = [h \in Harts |-> 0]
    /\ mtimer = [h \in Harts |-> FALSE]
    /\ stip = [h \in Harts |-> FALSE]
    /\ status = [h \in Harts |-> "INVALID"]
    /\ time = 0
    /\ left_off = [p \in Users |-> 0]
    /\ wild = FALSE

-----------------------------------------------------------------------------
(* The run list. *)

(* Definitions named X_<what> are not part of the system: each is X with a    *)
(* plausible slip, kept to show that a property notices it.                 *)

schedule_add_AtHead(list, vr, p) ==
    IF p \notin Users THEN list ELSE <<p>> \o list

\* Before the first node whose vruntime is not smaller, else at the end.
InsertionIndex(list, vr, p) ==
    LET i == SelectInSeq(list, LAMBDA q : vr[q] >= vr[p])
    IN  IF i = 0 THEN Len(list) + 1 ELSE i

\* An idle process is not added.
schedule_add(list, vr, p) ==
    IF p \notin Users THEN list ELSE InsertAt(list, InsertionIndex(list, vr, p), p)

schedule_remove_Forgotten(list, p) == list

schedule_remove(list, p) ==
    IF p \notin Users THEN list ELSE RemoveFirst(list, p)

Available_OnAnyHart(p) ==
    \/ state[p] = "RUNNING"
    \/ state[p] = "SLEEPING" /\ sleep_until[p] <= time

Available_WhileSleeping(p) == on_hart[p] = -1 /\ state[p] \in {"RUNNING", "SLEEPING"}

Available_WhenDead(p) ==
    on_hart[p] = -1 /\ (state[p] = "SLEEPING" => sleep_until[p] <= time)

\* schedule_pop's test.
Available(p) ==
    /\ on_hart[p] = -1
    /\ \/ state[p] = "RUNNING"
       \/ state[p] = "SLEEPING" /\ sleep_until[p] <= time

FirstAvailable_FromTheEnd ==
    LET i == SelectLastInSeq(schedule_processes, Available)
    IN  IF i = 0 THEN Idle ELSE schedule_processes[i]

FirstAvailable ==
    LET i == SelectInSeq(schedule_processes, Available)
    IN  IF i = 0 THEN Idle ELSE schedule_processes[i]

-----------------------------------------------------------------------------
(* A hart running a process.  Everything a process does that the scheduler *)
(* does not see, the other system calls included, is UserStep.             *)

\* Hart h is at x.  Every action is guarded by ~wild: nothing is said of what
\* follows a wild write.
At(h, x) == ~wild /\ pc[h] = x

NextInstr(i) == (i + 1) % ProgLen

UserStep(h) ==
    LET p == current_processes[h]
    IN  /\ At(h, "user")
        /\ p \in Users
        /\ sepc' = [sepc EXCEPT ![h] = NextInstr(@)]
        /\ left_off' = [left_off EXCEPT ![p] = NextInstr(sepc[h])]
        /\ UNCHANGED <<schedule_processes, current_processes, process_vars, pc, stack,
                       chosen, exiting, timer_vars, wild>>

\* process_trap_vector moves to the trap stack in the process's frame.  Another
\* hart that still runs on that stack loses its return addresses and locals.
EnterTrap(h, p) ==
    /\ At(h, "user")
    /\ current_processes[h] = p
    /\ stack' = [stack EXCEPT ![h] = p]
    /\ wild' = (p \in Users /\ \E g \in Harts \ {h} : stack[g] = p)

\* c_trap, interrupt 5: sbi_ack_timer, then schedule_schedule.
TimerTrap(h) ==
    /\ stip[h]
    /\ EnterTrap(h, current_processes[h])
    /\ mtimer' = [mtimer EXCEPT ![h] = FALSE]
    /\ stip' = [stip EXCEPT ![h] = FALSE]
    /\ pc' = [pc EXCEPT ![h] = "park"]
    /\ UNCHANGED <<schedule_processes, current_processes, process_vars, chosen, exiting,
                   sepc, status, time, left_off>>

\* c_trap, exception 8, with SYS_SLEEP; sepc already names the next instruction.
SleepTrap(h, p) ==
    /\ EnterTrap(h, p)
    /\ state' = [state EXCEPT ![p] = "SLEEPING"]
    /\ \E d \in SleepTimes : sleep_until' = [sleep_until EXCEPT ![p] = time + d]
    /\ sepc' = [sepc EXCEPT ![h] = NextInstr(@)]
    /\ left_off' = [left_off EXCEPT ![p] = NextInstr(sepc[h])]
    /\ pc' = [pc EXCEPT ![h] = "park"]
    /\ UNCHANGED <<schedule_processes, current_processes, on_hart, vruntime, starttime,
                   frame_sepc, allocated, chosen, exiting, timer_vars>>

\* c_trap, exception 8, with SYS_EXIT.
ExitTrap(h, p) ==
    /\ EnterTrap(h, p)
    /\ state' = [state EXCEPT ![p] = "DEAD"]
    /\ exiting' = [exiting EXCEPT ![h] = TRUE]
    /\ pc' = [pc EXCEPT ![h] = "park"]
    /\ UNCHANGED <<schedule_processes, current_processes, on_hart, vruntime, starttime,
                   sleep_until, frame_sepc, allocated, chosen, sepc, timer_vars, left_off>>

\* c_trap, any other exception: WFI_LOOP, with interrupts off, forever.
FaultTrap(h, p) ==
    /\ EnterTrap(h, p)
    /\ pc' = [pc EXCEPT ![h] = "wfi"]
    /\ UNCHANGED <<schedule_processes, current_processes, process_vars, chosen, exiting,
                   sepc, timer_vars, left_off>>

-----------------------------------------------------------------------------
(* schedule_schedule(h), from schedule_park to the start of the next one.   *)

\* schedule_park for a hart with nothing to park: at boot, and after SYS_EXIT.
ParkNothing(h) ==
    /\ At(h, "park")
    /\ current_processes[h] = NULL
    /\ pc' = [pc EXCEPT ![h] = "pop"]
    /\ UNCHANGED <<schedule_processes, current_processes, process_vars, stack, chosen,
                   exiting, sepc, timer_vars, left_off, wild>>

Charge_Swapped(p) == starttime[p] - time

Charge(p) == time - starttime[p]

\* schedule_park takes the process out of the list and charges it; no other
\* hart can reach the process until it is added again.
ParkRemove(h) ==
    LET p == current_processes[h]
    IN  /\ At(h, "park")
        /\ p # NULL
        /\ schedule_processes' = schedule_remove(schedule_processes, p)
        /\ vruntime' = IF p \in Users
                       THEN [vruntime EXCEPT ![p] = @ + Charge(p)]
                       ELSE vruntime
        /\ on_hart' = IF p \in Users THEN [on_hart EXCEPT ![p] = -1] ELSE on_hart
        /\ current_processes' = [current_processes EXCEPT ![h] = NULL]
        /\ pc' = [pc EXCEPT ![h] = "park_add"]
        /\ UNCHANGED <<state, starttime, sleep_until, frame_sepc, allocated, stack, chosen,
                       exiting, sepc, timer_vars, left_off, wild>>

\* From here on another hart can pop the process.
ParkAdd(h) ==
    /\ At(h, "park_add")
    /\ schedule_processes' = schedule_add(schedule_processes, vruntime, stack[h])
    /\ pc' = [pc EXCEPT ![h] = "park_save"]
    /\ UNCHANGED <<current_processes, process_vars, stack, chosen, exiting, sepc, timer_vars,
                   left_off, wild>>

\* Only now is the resume address stored.
ParkSave(h) ==
    LET p == stack[h]
    IN  /\ At(h, "park_save")
        /\ frame_sepc' = IF p \in Users THEN [frame_sepc EXCEPT ![p] = sepc[h]]
                         ELSE frame_sepc
        /\ pc' = [pc EXCEPT ![h] = IF exiting[h] THEN "exit_remove" ELSE "pop"]
        /\ UNCHANGED <<schedule_processes, current_processes, on_hart, state, vruntime,
                       starttime, sleep_until, allocated, stack, chosen, exiting, sepc,
                       timer_vars, left_off, wild>>

Pop(h) ==
    /\ At(h, "pop")
    /\ chosen' = [chosen EXCEPT ![h] = FirstAvailable]
    /\ schedule_processes' = schedule_remove(schedule_processes, FirstAvailable)
    /\ pc' = [pc EXCEPT ![h] = "run"]
    /\ UNCHANGED <<current_processes, process_vars, stack, exiting, sepc, timer_vars,
                   left_off, wild>>

\* schedule_run up to its schedule_add.
RunAdd(h) ==
    LET p == chosen[h]
    IN  /\ At(h, "run")
        /\ current_processes' = [current_processes EXCEPT ![h] = p]
        /\ on_hart' = IF p \in Users THEN [on_hart EXCEPT ![p] = h] ELSE on_hart
        /\ state' = IF p \in Users THEN [state EXCEPT ![p] = "RUNNING"] ELSE state
        /\ schedule_processes' = schedule_add(schedule_processes, vruntime, p)
        /\ chosen' = [chosen EXCEPT ![h] = NULL]
        /\ pc' = [pc EXCEPT ![h] = "start"]
        /\ UNCHANGED <<vruntime, starttime, sleep_until, frame_sepc, allocated, stack,
                       exiting, sepc, timer_vars, left_off, wild>>

StampAndArm_NoTimer(h) ==
    LET p == current_processes[h]
    IN  /\ starttime' = IF p \in Users THEN [starttime EXCEPT ![p] = time] ELSE starttime
        /\ UNCHANGED mtimer

StampAndArm_NoStamp(h) ==
    /\ mtimer' = [mtimer EXCEPT ![h] = TRUE]
    /\ UNCHANGED starttime

\* stats.starttime and sbi_add_timer.
StampAndArm(h) ==
    LET p == current_processes[h]
    IN  /\ starttime' = IF p \in Users THEN [starttime EXCEPT ![p] = time] ELSE starttime
        /\ mtimer' = [mtimer EXCEPT ![h] = TRUE]

\* The rest of schedule_run: hart_start succeeds, the hart leaves its trap stack
\* for process_spawn, and process_spawn resumes the program at frame.sepc.
RunStart(h) ==
    LET p == current_processes[h]
    IN  /\ At(h, "start")
        /\ status[h] # "INVALID"
        /\ StampAndArm(h)
        /\ status' = [status EXCEPT ![h] = "STARTED"]
        /\ sepc' = [sepc EXCEPT ![h] = IF p \in Users THEN frame_sepc[p] ELSE 0]
        /\ stack' = [stack EXCEPT ![h] = NULL]
        /\ pc' = [pc EXCEPT ![h] = "user"]
        /\ UNCHANGED <<schedule_processes, current_processes, on_hart, state, vruntime,
                       sleep_until, frame_sepc, allocated, chosen, exiting, stip, time,
                       left_off, wild>>

\* hart_start fails while the hart has not reached HS_STOPPED: schedule_schedule
\* pops again.
RunFails(h) ==
    /\ At(h, "start")
    /\ status[h] = "INVALID"
    /\ StampAndArm(h)
    /\ pc' = [pc EXCEPT ![h] = "pop"]
    /\ UNCHANGED <<schedule_processes, current_processes, on_hart, state, vruntime,
                   sleep_until, frame_sepc, allocated, stack, chosen, exiting, sepc, stip,
                   status, time, left_off, wild>>

-----------------------------------------------------------------------------
(* The rest of SYS_EXIT, after its schedule_park. *)

ExitRemove(h) ==
    /\ At(h, "exit_remove")
    /\ schedule_processes' = schedule_remove(schedule_processes, stack[h])
    /\ pc' = [pc EXCEPT ![h] = "exit_free"]
    /\ UNCHANGED <<current_processes, process_vars, stack, chosen, exiting, sepc, timer_vars,
                   left_off, wild>>

\* process_free gives back the trap stack that the hart still runs on.
ExitFree(h) ==
    /\ At(h, "exit_free")
    /\ allocated' = allocated \ {stack[h]}
    /\ stack' = [stack EXCEPT ![h] = Freed]
    /\ exiting' = [exiting EXCEPT ![h] = FALSE]
    /\ pc' = [pc EXCEPT ![h] = "park"]
    /\ UNCHANGED <<schedule_processes, current_processes, on_hart, state, vruntime,
                   starttime, sleep_until, frame_sepc, chosen, sepc, timer_vars, left_off,
                   wild>>

-----------------------------------------------------------------------------
(* Hart 0, the firmware and the clock. *)

\* main's loop: schedule_schedule(h), on hart 0, once the harts before it run.
Boot(h) ==
    /\ At(h, "boot")
    /\ \A g \in Harts : g < h => status[g] = "STARTED"
    /\ pc' = [pc EXCEPT ![h] = "park"]
    /\ UNCHANGED <<schedule_processes, current_processes, process_vars, stack, chosen,
                   exiting, sepc, timer_vars, left_off, wild>>

\* The firmware's main on hart h, after the barrier.
FirmwareReady(h) ==
    /\ ~wild
    /\ status[h] = "INVALID"
    /\ status' = [status EXCEPT ![h] = "STOPPED"]
    /\ UNCHANGED <<schedule_processes, current_processes, process_vars, pc, stack, chosen,
                   exiting, sepc, mtimer, stip, time, left_off, wild>>

\* clint_handle_mtip: machine mode interrupts the kernel and programs alike.
TimerExpires(h) ==
    /\ ~wild
    /\ mtimer[h]
    /\ status[h] = "STARTED"
    /\ mtimer' = [mtimer EXCEPT ![h] = FALSE]
    /\ stip' = [stip EXCEPT ![h] = TRUE]
    /\ UNCHANGED <<schedule_processes, current_processes, process_vars, pc, stack, chosen,
                   exiting, sepc, status, time, left_off, wild>>

\* The console's exec.  Its page_zalloc may return, and clear, the page of a
\* trap stack that was freed under a running hart.
Exec(p) ==
    /\ ~wild
    /\ \A h \in Harts : status[h] = "STARTED"
    /\ p \notin allocated
    /\ allocated' = allocated \cup {p}
    /\ state' = [state EXCEPT ![p] = "RUNNING"]
    /\ on_hart' = [on_hart EXCEPT ![p] = -1]
    /\ vruntime' = [vruntime EXCEPT ![p] = 0]
    /\ starttime' = [starttime EXCEPT ![p] = 0]
    /\ sleep_until' = [sleep_until EXCEPT ![p] = 0]
    /\ frame_sepc' = [frame_sepc EXCEPT ![p] = 0]
    /\ left_off' = [left_off EXCEPT ![p] = 0]
    /\ schedule_processes' = schedule_add(schedule_processes, vruntime', p)
    /\ wild' \in {FALSE, \E h \in Harts : stack[h] = Freed}
    /\ UNCHANGED <<current_processes, pc, stack, chosen, exiting, sepc, timer_vars>>

Tick ==
    /\ ~wild
    /\ time < MaxTime
    /\ time' = time + 1
    /\ UNCHANGED <<schedule_processes, current_processes, process_vars, pc, stack, chosen,
                   exiting, sepc, mtimer, stip, status, left_off, wild>>

\* schedule_schedule and its callers on hart h.
KernelStep(h) ==
    \/ ParkNothing(h) \/ ParkRemove(h) \/ ParkAdd(h) \/ ParkSave(h)
    \/ Pop(h) \/ RunAdd(h) \/ RunStart(h) \/ RunFails(h)
    \/ ExitRemove(h) \/ ExitFree(h)

Trap(h) ==
    \/ TimerTrap(h)
    \/ \E p \in Users : SleepTrap(h, p) \/ ExitTrap(h, p) \/ FaultTrap(h, p)

Next ==
    \/ \E h \in Harts : \/ KernelStep(h) \/ Trap(h) \/ UserStep(h)
                        \/ Boot(h) \/ FirmwareReady(h) \/ TimerExpires(h)
    \/ \E p \in Users : Exec(p)
    \/ Tick

Spec == Init /\ [][Next]_vars

-----------------------------------------------------------------------------
(* Properties. *)

KernelPcs == {"park", "park_add", "park_save", "pop", "run", "start", "exit_remove",
              "exit_free", "wfi"}

TypeOK ==
    /\ schedule_processes \in Seq(Users)
    /\ current_processes \in [Harts -> Users \cup {Idle, NULL}]
    /\ on_hart \in [Users -> Harts \cup {-1}]
    /\ state \in [Users -> {"DEAD", "RUNNING", "SLEEPING"}]
    /\ vruntime \in [Users -> Nat]
    /\ starttime \in [Users -> Nat]
    /\ sleep_until \in [Users -> Nat]
    /\ frame_sepc \in [Users -> 0 .. ProgLen - 1]
    /\ allocated \subseteq Users
    /\ pc \in [Harts -> KernelPcs \cup {"boot", "user"}]
    /\ stack \in [Harts -> Users \cup {Idle, NULL, Freed}]
    /\ chosen \in [Harts -> Users \cup {Idle, NULL}]
    /\ exiting \in [Harts -> BOOLEAN]
    /\ sepc \in [Harts -> 0 .. ProgLen - 1]
    /\ mtimer \in [Harts -> BOOLEAN]
    /\ stip \in [Harts -> BOOLEAN]
    /\ status \in [Harts -> {"INVALID", "STOPPED", "STARTED"}]
    /\ time \in Nat
    /\ left_off \in [Users -> 0 .. ProgLen - 1]
    /\ wild \in BOOLEAN

\* A process runs on one hart at most, and on_hart and current_processes, which
\* are written apart and read by different harts, agree.
OneHart ==
    \A p \in Users, h \in Harts : current_processes[h] = p <=> on_hart[p] = h

InOrder(list, vr) ==
    \A i, j \in 1 .. Len(list) : i < j => vr[list[i]] <= vr[list[j]]

\* schedule_assert: the list is in the order of vruntime, whoever changes a
\* vruntime and whenever.
Sorted == InOrder(schedule_processes, vruntime)

\* The hart whose kernel code has taken p out of the list to put it back or free it.
Carries(h, p) ==
    \/ pc[h] = "run" /\ chosen[h] = p
    \/ pc[h] \in {"park_add", "exit_free"} /\ stack[h] = p

\* No process is lost, listed twice, or listed while some hart carries it; and no
\* block that process_free returned is still in the list, on a hart or carried.
Accounted ==
    /\ IsInjective(schedule_processes)
    /\ \A p \in Users :
        /\ p \in Range(schedule_processes) \/ (\E h \in Harts : Carries(h, p))
           <=> p \in allocated
        /\ p \in Range(schedule_processes) => ~ \E h \in Harts : Carries(h, p)
        /\ \A g, h \in Harts : Carries(g, p) /\ Carries(h, p) => g = h
        /\ on_hart[p] # -1 => p \in Range(schedule_processes)

\* SYS_SLEEP: a program never executes before its sleep_until.
SleepsLongEnough ==
    \A h \in Harts, p \in Users :
        pc[h] = "user" /\ current_processes[h] = p => sleep_until[p] <= time

\* A hart that runs a program has a timer interrupt ahead of it, armed or pending:
\* no program keeps a hart.
Preemptible ==
    \A h \in Harts : pc[h] = "user" => mtimer[h] \/ stip[h]

\* schedule_park charges a process for the time since it started and no more: what
\* it was charged before it last started cannot exceed the age of the machine then.
NotOvercharged ==
    \A p \in Users :
        /\ vruntime[p] <= time
        /\ \A h \in Harts : pc[h] = "user" /\ current_processes[h] = p
                               => vruntime[p] <= starttime[p]

\* A slice ends by a timer, and what it is charged is the time it took.
TimeSlice == Preemptible /\ NotOvercharged

\* A dead process stays dead: after SYS_EXIT no hart runs it, whoever pops meanwhile.
DeadNeverRuns ==
    \A h \in Harts, p \in Users :
        state[p] = "DEAD" /\ current_processes[h] = p => exiting[h]

\* Whatever the harts pop meanwhile, no hart runs a program that sleeps or has exited.
RunsEligible == SleepsLongEnough /\ DeadNeverRuns

\* Two harts are on one process's trap stack, or one runs the process whose trap
\* stack another is on, only while the latter is past its schedule_add in
\* schedule_park: the window of the wild writes is that one and no wider.
LeavingWindow ==
    \A g, h \in Harts, p \in Users :
        stack[g] = p /\ current_processes[h] = p /\ g # h
            => pc[g] \in {"park_save", "pop", "run", "start"}

\* schedule_pop hands out an available process of the smallest vruntime, and an
\* idle process only when there is none.
PopsLeastServed ==
    [][\A h \in Harts : pc[h] = "pop" /\ pc'[h] = "run" =>
        LET ready == {p \in Range(schedule_processes) : Available(p)}
        IN  IF ready = {} THEN chosen'[h] = Idle
            ELSE /\ chosen'[h] \in ready
                 /\ \A q \in ready : vruntime[chosen'[h]] <= vruntime[q]]_vars

\* schedule.c: "Store sepc so we can jump back to where we left off": a running
\* program executes the instruction after the last one it executed.
ResumesWhereItLeftOff ==
    \A h \in Harts, p \in Users :
        pc[h] = "user" /\ current_processes[h] = p => sepc[h] = left_off[p]
=============================================================================
