-------------------------------- MODULE Hart --------------------------------
(***************************************************************************)
(* The firmware's hart management: main, hart_start, hart_stop and         *)
(* hart_handle_msip, which share sbi_hart_data[], the per-hart mutexes,    *)
(* the boot barrier and the CLINT's software interrupts.                   *)
(*                                                                         *)
(* fw[h] is where the firmware is on hart h.  At "up" it is in none of its *)
(* handlers: the hart executes at[h], or park in machine mode when at[h]   *)
(* is NULL.  Handlers run with interrupts off.                             *)
(***************************************************************************)
EXTENDS Integers

CONSTANTS
    NUM_HARTS,
    BARRIER_INIT,   \* INT32_MAX
    Programs,       \* what a kernel starts harts at
    Kernel,         \* OS_LOAD_ADDR
    Zero,           \* the address 0x0, where no program is
    NULL,
    MaxCalls        \* bound: the calls a kernel makes to hart_start and hart_stop

Harts == 0 .. NUM_HARTS - 1
Others == Harts \ {0}

ASSUME HartAssumption ==
    /\ NUM_HARTS \in Nat \ {0}
    /\ BARRIER_INIT \in Nat /\ BARRIER_INIT >= NUM_HARTS
    /\ Programs \cap {NULL, Zero} = {} /\ Kernel \notin {NULL, Zero} /\ Zero # NULL
    /\ MaxCalls \in Nat

VARIABLES
    fw,
    barrier,        \* barrier.value
    lock,           \* sbi_hart_data[h].lock.state = 1
    status, target, \* sbi_hart_data[h]
    msip,           \* the CLINT's software interrupt of h
    callee, arg,    \* hart_start's parameters on hart h
    at,             \* the program h executes
    calls           \* the calls made so far

call_vars == <<callee, arg, calls>>
vars == <<fw, barrier, lock, status, target, msip, call_vars, at>>

\* Before clear_bss the firmware's zero-initialised data holds anything.
Init ==
    /\ fw = [h \in Harts |-> "reset"]
    /\ barrier = BARRIER_INIT
    /\ lock \in [Harts -> BOOLEAN]
    /\ status \in [Harts -> {"INVALID", "STARTED"}]
    /\ target = [h \in Harts |-> Zero]
    /\ msip = [h \in Harts |-> FALSE]
    /\ callee = [h \in Harts |-> h]
    /\ arg = [h \in Harts |-> NULL]
    /\ at = [h \in Harts |-> NULL]
    /\ calls = 0

Goto(h, x) == fw' = [fw EXCEPT ![h] = x]

-----------------------------------------------------------------------------
(* main.  An X_<what> is X with a plausible slip, for the properties to notice. *)

ClearBss ==
    /\ fw[0] = "reset"
    /\ lock' = [h \in Harts |-> FALSE]
    /\ status' = [h \in Harts |-> "INVALID"]
    /\ Goto(0, "cleared")
    /\ UNCHANGED <<barrier, target, msip, call_vars, at>>

barrier_release ==
    /\ fw[0] = "cleared"
    /\ barrier' = 0
    /\ Goto(0, "released")
    /\ UNCHANGED <<lock, status, target, msip, call_vars, at>>

barrier_arrive_EverySpin(h) ==
    /\ fw[h] \in {"reset", "barrier"} /\ h # 0
    /\ barrier' = barrier - 1
    /\ Goto(h, "barrier")
    /\ UNCHANGED <<lock, status, target, msip, call_vars, at>>

\* barrier_sbi_wait: the decrement, then the spin.
barrier_arrive(h) ==
    /\ fw[h] = "reset" /\ h # 0
    /\ barrier' = barrier - 1
    /\ Goto(h, "barrier")
    /\ UNCHANGED <<lock, status, target, msip, call_vars, at>>

barrier_pass_Inverted(h) ==
    /\ fw[h] = "barrier"
    /\ barrier >= 0
    /\ Goto(h, "released")
    /\ UNCHANGED <<barrier, lock, status, target, msip, call_vars, at>>

barrier_pass(h) ==
    /\ fw[h] = "barrier"
    /\ barrier <= 0
    /\ Goto(h, "released")
    /\ UNCHANGED <<barrier, lock, status, target, msip, call_vars, at>>

\* The rest of main writes its hart's data without the lock: first the status, with which
\* the other harts may start this one ...
ReadyStatus(h) ==
    /\ fw[h] = "released"
    /\ status' = [status EXCEPT ![h] = IF h = 0 THEN "STARTED" ELSE "STOPPED"]
    /\ Goto(h, "ready")
    /\ UNCHANGED <<barrier, lock, target, msip, call_vars, at>>

\* ... then the target, which such a start has already set; only then are interrupts
\* enabled.
ReadyTarget(h) ==
    /\ fw[h] = "ready"
    /\ target' = [target EXCEPT ![h] = Zero]
    /\ at' = [at EXCEPT ![h] = IF h = 0 THEN Kernel ELSE NULL]
    /\ Goto(h, "up")
    /\ UNCHANGED <<barrier, lock, status, msip, call_vars>>

-----------------------------------------------------------------------------
(* hart_start(g, p), called by the program that hart h executes. *)

Call(h, g, p, x) ==
    /\ fw[h] = "up" /\ at[h] \notin {NULL, Zero}
    /\ calls < MaxCalls
    /\ calls' = calls + 1
    /\ callee' = [callee EXCEPT ![h] = g]
    /\ arg' = [arg EXCEPT ![h] = p]
    /\ Goto(h, x)

\* mutex_trylock: a call that finds the lock taken returns false.
TryLock(h, g, p, x) ==
    /\ ~lock[g]
    /\ Call(h, g, p, x)
    /\ lock' = [lock EXCEPT ![g] = TRUE]
    /\ UNCHANGED <<barrier, status, target, msip, at>>

StartTryLock(h, g, p) == TryLock(h, g, p, "start_check")

StartCheck_NoCheck(h) ==
    /\ fw[h] = "start_check"
    /\ Goto(h, "start_write")
    /\ UNCHANGED <<barrier, lock, status, target, msip, call_vars, at>>

StartCheck(h) ==
    LET g == callee[h]
    IN  /\ fw[h] = "start_check"
        /\ Goto(h, IF g # h /\ status[g] # "STOPPED" THEN "unlock" ELSE "start_write")
        /\ UNCHANGED <<barrier, lock, status, target, msip, call_vars, at>>

\* One step: the handler that reads the three has the lock, and only one of them matters to
\* the check of another start.  main's own write of the target comes before or after all.
StartWrite(h) ==
    /\ fw[h] = "start_write"
    /\ status' = [status EXCEPT ![callee[h]] = "STARTING"]
    /\ target' = [target EXCEPT ![callee[h]] = arg[h]]
    /\ Goto(h, "start_msip")
    /\ UNCHANGED <<barrier, lock, msip, call_vars, at>>

StartMsip(h) ==
    /\ fw[h] = "start_msip"
    /\ msip' = [msip EXCEPT ![callee[h]] = TRUE]
    /\ Goto(h, "unlock")
    /\ UNCHANGED <<barrier, lock, status, target, call_vars, at>>

mutex_unlock(h) ==
    /\ fw[h] = "unlock"
    /\ lock' = [lock EXCEPT ![callee[h]] = FALSE]
    /\ Goto(h, "up")
    /\ UNCHANGED <<barrier, status, target, msip, call_vars, at>>

-----------------------------------------------------------------------------
(* hart_stop, for the hart that calls it. *)

StopTryLock(h) == TryLock(h, h, NULL, "stop_check")

\* The status, then mepc: the hart will not return to its program.
StopCheck(h) ==
    /\ fw[h] = "stop_check"
    /\ IF status[h] = "STARTED"
       THEN /\ status' = [status EXCEPT ![h] = "STOPPED"]
            /\ at' = [at EXCEPT ![h] = NULL]
       ELSE UNCHANGED <<status, at>>
    /\ Goto(h, "unlock")
    /\ UNCHANGED <<barrier, lock, target, msip, call_vars>>

-----------------------------------------------------------------------------
(* hart_handle_msip.  Its mutex_sbi_lock spins. *)

\* A slip: give up when the lock is taken, after the interrupt was acknowledged.
MsipLock_Try(h) ==
    /\ fw[h] = "up" /\ msip[h]
    /\ IF lock[h]
       THEN msip' = [msip EXCEPT ![h] = FALSE] /\ UNCHANGED <<fw, lock>>
       ELSE Goto(h, "msip_unset") /\ lock' = [lock EXCEPT ![h] = TRUE] /\ UNCHANGED msip
    /\ UNCHANGED <<barrier, status, target, call_vars, at>>

\* The interrupt is taken and the lock acquired; until the latter the hart only spins.
MsipLock(h) ==
    /\ fw[h] = "up" /\ msip[h]
    /\ ~lock[h]
    /\ lock' = [lock EXCEPT ![h] = TRUE]
    /\ Goto(h, "msip_unset")
    /\ UNCHANGED <<barrier, status, target, msip, call_vars, at>>

MsipUnset_Forgotten(h) ==
    /\ fw[h] = "msip_unset"
    /\ Goto(h, "msip_test")
    /\ UNCHANGED <<barrier, lock, status, target, msip, call_vars, at>>

MsipUnset(h) ==
    /\ fw[h] = "msip_unset"
    /\ msip' = [msip EXCEPT ![h] = FALSE]
    /\ Goto(h, "msip_test")
    /\ UNCHANGED <<barrier, lock, status, target, call_vars, at>>

MsipTest(h) ==
    /\ fw[h] = "msip_test"
    /\ IF status[h] = "STARTING"
       THEN /\ at' = [at EXCEPT ![h] = target[h]]
            /\ status' = [status EXCEPT ![h] = "STARTED"]
       ELSE UNCHANGED <<at, status>>
    /\ Goto(h, "msip_unlock")
    /\ UNCHANGED <<barrier, lock, target, msip, call_vars>>

MsipUnlock(h) ==
    /\ fw[h] = "msip_unlock"
    /\ lock' = [lock EXCEPT ![h] = FALSE]
    /\ Goto(h, "up")
    /\ UNCHANGED <<barrier, status, target, msip, call_vars, at>>

-----------------------------------------------------------------------------
Calls(h) ==
    \/ StopTryLock(h)
    \/ \E g \in Harts, p \in Programs : StartTryLock(h, g, p)

\* What a hart does once it is in the firmware.
FirmwareStep(h) ==
    \/ h = 0 /\ (ClearBss \/ barrier_release)
    \/ barrier_arrive(h) \/ barrier_pass(h) \/ ReadyStatus(h) \/ ReadyTarget(h)
    \/ StartCheck(h) \/ StartWrite(h) \/ StartMsip(h) \/ mutex_unlock(h)
    \/ StopCheck(h)
    \/ MsipLock(h) \/ MsipUnset(h) \/ MsipTest(h) \/ MsipUnlock(h)

Next == \E h \in Harts : FirmwareStep(h) \/ Calls(h)

\* Every hart keeps executing, and an interrupt that stays pending is taken.  No hart
\* is required to make a call.
Spec == Init /\ [][Next]_vars /\ \A h \in Harts : WF_vars(FirmwareStep(h))

-----------------------------------------------------------------------------
(* Properties. *)

TypeOK ==
    /\ fw \in [Harts -> {"reset", "cleared", "barrier", "released", "ready", "up",
                         "start_check", "start_write", "start_msip", "unlock", "stop_check",
                         "msip_unset", "msip_test", "msip_unlock"}]
    /\ barrier \in -NUM_HARTS .. BARRIER_INIT
    /\ lock \in [Harts -> BOOLEAN]
    /\ status \in [Harts -> {"INVALID", "STOPPED", "STARTING", "STARTED"}]
    /\ target \in [Harts -> Programs \cup {Zero}]
    /\ msip \in [Harts -> BOOLEAN]
    /\ callee \in [Harts -> Harts]
    /\ arg \in [Harts -> Programs \cup {NULL}]
    /\ at \in [Harts -> Programs \cup {Kernel, NULL, Zero}]
    /\ calls \in 0 .. MaxCalls

Booted == fw[0] # "reset"

\* Hart h holds the lock of hart g.
Holds(h, g) ==
    \/ fw[h] \in {"start_check", "start_write", "start_msip", "unlock", "stop_check"}
       /\ callee[h] = g
    \/ fw[h] \in {"msip_unset", "msip_test", "msip_unlock"} /\ g = h

\* A hart's lock is taken exactly while one hart is between its lock and unlock.
LockHeldByOne ==
    Booted => \A g \in Harts :
        /\ lock[g] <=> \E h \in Harts : Holds(h, g)
        /\ \A h, k \in Harts : Holds(h, g) /\ Holds(k, g) => h = k

\* An accepted start is never lost: while a hart is STARTING its interrupt is pending,
\* or about to be raised by the caller, or being handled.
StartNotLost ==
    Booted => \A g \in Harts : status[g] = "STARTING" =>
        \/ msip[g]
        \/ fw[g] = "msip_test"
        \/ \E h \in Harts : fw[h] = "start_msip" /\ callee[h] = g

\* No software interrupt without a start to deliver: a hart that has stopped stays
\* parked, and one that runs is not sent elsewhere.
NoStrayInterrupt ==
    Booted => \A g \in Harts : msip[g] => status[g] = "STARTING"

\* main's clear_bss and the status writes it makes without the lock lose nothing: once
\* a hart has left main its status is never HS_INVALID again.
StaysValid == \A h \in Harts : h \in Others /\ fw[h] \in {"up", "msip_unset"}
                                  => status[h] # "INVALID" /\ Booted

\* From boot on, each lock has one holder at a time, and software interrupts and accepted
\* starts match one to one.
StartsDelivered == LockHeldByOne /\ StartNotLost /\ NoStrayInterrupt /\ StaysValid

\* Hart h is past main's writes to its data.
Settled(h) == fw[h] \notin {"reset", "cleared", "barrier", "released", "ready"}

\* The firmware implements HartService: each call takes effect at once, a refused one not
\* at all; every accepted start is entered, and at the program it asked for unless it was
\* accepted before its hart had settled.
Service == INSTANCE HartService WITH
    Hart0 <- 0,
    state <- [h \in Harts |-> IF Booted THEN status[h] ELSE "INVALID"],
    settled <- [h \in Harts |-> Settled(h)],
    asked <- target
ServiceSpec == Service!Spec
=============================================================================
