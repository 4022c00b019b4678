----------------------------- MODULE HartProofs ------------------------------
(***************************************************************************)
(* The invariants of Hart and its refinement of HartService, for any       *)
(* number of harts.  IInv is inductive: beside the properties it says what *)
(* the place of a hart in the firmware implies of the hart it works on.    *)
(***************************************************************************)
EXTENDS Hart, TLAPS, FiniteSetTheorems

\* The harts that have come to the barrier.
Arrived == {h \in Others : fw[h] # "reset"}

\* Until its release the barrier counts them, and stays above 0.
BarrierInv ==
    /\ fw[0] \in {"reset", "cleared"} => barrier = BARRIER_INIT - Cardinality(Arrived)
    /\ barrier \in Int /\ -Cardinality(Arrived) <= barrier /\ barrier <= BARRIER_INIT

WaitInv == fw[0] \in {"reset", "cleared"} => \A h \in Others : fw[h] \in {"reset", "barrier"}

LockInv ==
    Booted => /\ \A h, g \in Harts : Holds(h, g) => lock[g]
              /\ \A g \in Harts : lock[g] => \E h \in Harts : Holds(h, g)
              /\ \A h, k, g \in Harts : Holds(h, g) /\ Holds(k, g) => h = k

InMain(h) == fw[h] \in {"reset", "cleared", "barrier", "released"}

PlaceInv(h) ==
    /\ h = 0 => fw[h] # "barrier"
    /\ h # 0 => fw[h] # "cleared"
    /\ InMain(h) => /\ at[h] = NULL /\ ~msip[h]
                    /\ Booted => status[h] = "INVALID"
    /\ ~InMain(h) => status[h] # "INVALID"
    /\ fw[h] = "ready" => at[h] = NULL
    /\ fw[h] \in {"start_check", "start_write"} =>
           at[h] \notin {NULL, Zero} /\ arg[h] \in Programs
    /\ fw[h] = "stop_check" => callee[h] = h
    /\ fw[h] = "start_write" => callee[h] = h \/ status[callee[h]] = "STOPPED"
    /\ fw[h] = "start_msip" => status[callee[h]] = "STARTING"
    /\ fw[h] = "msip_unset" => msip[h]
    /\ fw[h] = "msip_test" => ~msip[h] /\ status[h] = "STARTING"

IInv ==
    /\ TypeOK
    /\ BarrierInv
    /\ WaitInv
    /\ LockInv
    /\ \A h \in Harts : PlaceInv(h)
    /\ StartNotLost
    /\ NoStrayInterrupt

-----------------------------------------------------------------------------
(* The barrier. *)

LEMMA HartsAreIntegers == 0 \in Harts /\ Harts \subseteq Int /\ Others \subseteq Harts
BY HartAssumption DEF Harts, Others

LEMMA FewArrive ==
    /\ IsFiniteSet(Arrived)
    /\ Cardinality(Arrived) \in Nat
    /\ Cardinality(Arrived) < NUM_HARTS
<1>1. Others = 1 .. NUM_HARTS - 1
    BY DEF Others, Harts
<1>2. IsFiniteSet(Others) /\ Cardinality(Others) < NUM_HARTS /\ Cardinality(Others) \in Nat
    <2>1. 1 \in Int /\ NUM_HARTS - 1 \in Int
        BY HartAssumption
    <2>2. /\ IsFiniteSet(Others)
          /\ Cardinality(Others) = IF 1 > NUM_HARTS - 1 THEN 0 ELSE NUM_HARTS - 1 - 1 + 1
        BY <1>1, <2>1, FS_Interval
    <2> QED
        BY <2>2, HartAssumption
<1>3. Arrived \in SUBSET Others
    BY DEF Arrived
<1>4. IsFiniteSet(Arrived) /\ Cardinality(Arrived) <= Cardinality(Others)
    BY <1>2, <1>3, FS_Subset
<1>5. Cardinality(Arrived) \in Nat
    BY <1>4, FS_CardinalityType
<1> QED
    BY <1>2, <1>4, <1>5, HartAssumption

\* A step that brings no hart to the barrier leaves the barrier's invariant alone.
LEMMA NobodyArrives ==
    ASSUME BarrierInv, Arrived' = Arrived, barrier' = barrier,
           fw'[0] \in {"reset", "cleared"} => fw[0] \in {"reset", "cleared"}
    PROVE  BarrierInv'
BY DEF BarrierInv

LEMMA BarrierType ==
    ASSUME BarrierInv
    PROVE  barrier \in -NUM_HARTS .. BARRIER_INIT
BY FewArrive, HartAssumption DEF BarrierInv

-----------------------------------------------------------------------------
(* The locks. *)

\* Whoever holds a lock does so after hart 0 has cleared the data.
LEMMA HoldersBooted ==
    ASSUME IInv, NEW h \in Harts, NEW g \in Harts, Holds(h, g)
    PROVE  Booted
<1>1. fw[h] \notin {"reset", "barrier"}
    BY DEF Holds
<1> QED
    BY <1>1 DEF IInv, WaitInv, Booted, Others

\* No other hart works on the hart whose lock h holds.
LEMMA AloneWithLock ==
    ASSUME IInv, NEW h \in Harts, NEW g \in Harts, Holds(h, g)
    PROVE  \A k \in Harts : k # h =>
              /\ fw[k] \in {"start_check", "start_write", "start_msip", "unlock", "stop_check"}
                     => callee[k] # g
              /\ fw[k] \in {"msip_unset", "msip_test", "msip_unlock"} => k # g
<1>1. \A k \in Harts : Holds(k, g) => k = h
    BY HoldersBooted DEF IInv, LockInv
<1> QED
    BY <1>1 DEF Holds

-----------------------------------------------------------------------------
(* The actions. *)

LEMMA ClearBssKeeps ==
    ASSUME IInv, ClearBss
    PROVE  IInv'
<1> USE HartsAreIntegers DEF IInv
<1>resting. \A k \in Harts : fw[k] \in {"reset", "barrier"} /\ at[k] = NULL /\ ~msip[k]
    BY DEF ClearBss, WaitInv, PlaceInv, InMain, Others
<1>arrived. Arrived' = Arrived
    BY DEF ClearBss, Goto, Arrived, Others
<1>1. BarrierInv'
    BY <1>arrived, NobodyArrives DEF ClearBss
<1>2. TypeOK'
    BY DEF ClearBss, Goto, call_vars, TypeOK
<1>3. WaitInv'
    BY DEF ClearBss, Goto, WaitInv, Others
<1>4. LockInv'
    BY <1>resting DEF ClearBss, Goto, LockInv, Holds
<1>5. ASSUME NEW k \in Harts PROVE PlaceInv(k)'
    BY <1>resting DEF ClearBss, Goto, call_vars, PlaceInv, InMain
<1>6. StartNotLost'
    BY DEF ClearBss, StartNotLost
<1>7. NoStrayInterrupt'
    BY <1>resting DEF ClearBss, NoStrayInterrupt
<1> QED
    BY <1>1, <1>2, <1>3, <1>4, <1>5, <1>6, <1>7

LEMMA barrier_releaseKeeps ==
    ASSUME IInv, barrier_release
    PROVE  IInv'
<1> USE HartsAreIntegers DEF IInv
<1>arrived. Arrived' = Arrived
    BY DEF barrier_release, Goto, Arrived
<1>1. BarrierInv'
    BY <1>arrived, FewArrive, HartAssumption DEF barrier_release, Goto, TypeOK, BarrierInv
<1>2. TypeOK'
    BY HartAssumption DEF barrier_release, Goto, call_vars, TypeOK
<1>3. WaitInv'
    BY DEF barrier_release, Goto, WaitInv
<1>4. LockInv'
    BY DEF barrier_release, Goto, call_vars, LockInv, Holds, Booted
<1>5. ASSUME NEW k \in Harts PROVE PlaceInv(k)'
    BY DEF barrier_release, Goto, call_vars, Booted, PlaceInv, InMain
<1>6. StartNotLost'
    BY DEF barrier_release, Goto, call_vars, StartNotLost, Booted
<1>7. NoStrayInterrupt'
    BY DEF barrier_release, NoStrayInterrupt, Booted
<1> QED
    BY <1>1, <1>2, <1>3, <1>4, <1>5, <1>6, <1>7

LEMMA barrier_arriveKeeps ==
    ASSUME IInv, NEW h \in Harts, barrier_arrive(h)
    PROVE  IInv'
<1> USE HartsAreIntegers DEF IInv
<1>arrived. Arrived' = Arrived \cup {h} /\ h \notin Arrived
    BY DEF barrier_arrive, Goto, Arrived, Others, TypeOK
<1>counted. Cardinality(Arrived') = Cardinality(Arrived) + 1
    BY <1>arrived, FewArrive, FS_AddElement
<1>1. BarrierInv'
    <2>1. fw'[0] = fw[0] /\ barrier' = barrier - 1 /\ Cardinality(Arrived) \in Nat
        BY FewArrive DEF barrier_arrive, Goto
    <2> QED
        BY <1>counted, <2>1, HartAssumption DEF BarrierInv
<1>2. TypeOK'
    <2>1. barrier' \in -NUM_HARTS .. BARRIER_INIT
        BY FewArrive, HartAssumption DEF barrier_arrive, BarrierInv
    <2> QED
        BY <2>1 DEF barrier_arrive, Goto, call_vars, TypeOK
<1>3. WaitInv'
    BY DEF barrier_arrive, Goto, WaitInv
<1>4. LockInv'
    BY DEF barrier_arrive, Goto, call_vars, LockInv, Holds, Booted
<1>5. ASSUME NEW k \in Harts PROVE PlaceInv(k)'
    BY DEF barrier_arrive, Goto, call_vars, Booted, PlaceInv, InMain
<1>6. StartNotLost'
    BY DEF barrier_arrive, Goto, call_vars, StartNotLost, Booted
<1>7. NoStrayInterrupt'
    BY DEF barrier_arrive, Goto, NoStrayInterrupt, Booted
<1> QED
    BY <1>1, <1>2, <1>3, <1>4, <1>5, <1>6, <1>7

LEMMA barrier_passKeeps ==
    ASSUME IInv, NEW h \in Harts, barrier_pass(h)
    PROVE  IInv'
<1> USE HartsAreIntegers DEF IInv
<1>arrived. Arrived' = Arrived
    BY DEF barrier_pass, Goto, Arrived
<1>1. BarrierInv'
    BY <1>arrived, NobodyArrives DEF barrier_pass, Goto
<1>2. TypeOK'
    BY DEF barrier_pass, Goto, call_vars, TypeOK
<1>3. WaitInv'
    BY FewArrive, HartAssumption DEF barrier_pass, Goto, WaitInv, BarrierInv
<1>4. LockInv'
    BY DEF barrier_pass, Goto, call_vars, LockInv, Holds, Booted
<1>5. ASSUME NEW k \in Harts PROVE PlaceInv(k)'
    BY DEF barrier_pass, Goto, call_vars, Booted, PlaceInv, InMain
<1>6. StartNotLost'
    BY DEF barrier_pass, Goto, call_vars, StartNotLost, Booted
<1>7. NoStrayInterrupt'
    BY DEF barrier_pass, Goto, NoStrayInterrupt, Booted
<1> QED
    BY <1>1, <1>2, <1>3, <1>4, <1>5, <1>6, <1>7

LEMMA ReadyStatusKeeps ==
    ASSUME IInv, NEW h \in Harts, ReadyStatus(h)
    PROVE  IInv'
<1> USE HartsAreIntegers DEF IInv
<1>callees. \A k \in Harts : fw[k] \in {"start_write", "start_msip"} =>
         callee[k] = k \/ callee[k] # h
    <2> SUFFICES ASSUME NEW k \in Harts, fw[k] \in {"start_write", "start_msip"}, callee[k] = h,
                        k # h
                 PROVE  FALSE
        OBVIOUS
    <2>1. Holds(k, h) /\ PlaceInv(k) /\ PlaceInv(h)
        BY DEF Holds
    <2>2. status[h] = "INVALID"
        BY <2>1, HoldersBooted DEF ReadyStatus, PlaceInv, InMain
    <2> QED
        BY <2>2 DEF PlaceInv
<1>arrived. Arrived' = Arrived
    BY DEF ReadyStatus, Goto, Arrived
<1>1. BarrierInv'
    BY <1>arrived, NobodyArrives DEF ReadyStatus, Goto
<1>2. TypeOK'
    BY DEF ReadyStatus, Goto, call_vars, TypeOK
<1>3. WaitInv'
    BY DEF ReadyStatus, Goto, WaitInv
<1>4. LockInv'
    BY DEF ReadyStatus, Goto, call_vars, LockInv, Holds, Booted
<1>5. ASSUME NEW k \in Harts PROVE PlaceInv(k)'
    <2>1. CASE k = h
        <3>1. fw'[h] = "ready" /\ status'[h] # "INVALID" /\ at'[h] = NULL
            BY DEF ReadyStatus, Goto, TypeOK, PlaceInv, InMain
        <3> QED
            BY <2>1, <3>1 DEF PlaceInv, InMain
    <2>2. CASE k # h
        <3>1. /\ fw'[k] = fw[k] /\ at'[k] = at[k] /\ status'[k] = status[k]
              /\ msip' = msip /\ callee' = callee /\ arg' = arg /\ callee[k] \in Harts
            BY <2>2 DEF ReadyStatus, Goto, call_vars, TypeOK
        <3>2. callee[k] # h => status'[callee[k]] = status[callee[k]]
            BY DEF ReadyStatus
        <3>3. Booted' => Booted
            BY DEF ReadyStatus, Goto, Booted
        <3> QED
            BY <3>1, <3>2, <3>3, <1>callees DEF PlaceInv, InMain
    <2> QED
        BY <2>1, <2>2
<1>6. StartNotLost'
    BY DEF ReadyStatus, Goto, call_vars, StartNotLost, Booted
<1>7. NoStrayInterrupt'
    BY DEF ReadyStatus, Goto, NoStrayInterrupt, Booted, PlaceInv, InMain
<1> QED
    BY <1>1, <1>2, <1>3, <1>4, <1>5, <1>6, <1>7

LEMMA ReadyTargetKeeps ==
    ASSUME IInv, NEW h \in Harts, ReadyTarget(h)
    PROVE  IInv'
<1> USE HartsAreIntegers DEF IInv
<1>arrived. Arrived' = Arrived
    BY DEF ReadyTarget, Goto, Arrived
<1>1. BarrierInv'
    BY <1>arrived, NobodyArrives DEF ReadyTarget, Goto
<1>2. TypeOK'
    BY DEF ReadyTarget, Goto, call_vars, TypeOK
<1>3. WaitInv'
    BY DEF ReadyTarget, Goto, WaitInv
<1>4. LockInv'
    BY DEF ReadyTarget, Goto, call_vars, LockInv, Holds, Booted
<1>5. ASSUME NEW k \in Harts PROVE PlaceInv(k)'
    BY DEF ReadyTarget, Goto, call_vars, TypeOK, Booted, PlaceInv, InMain
<1>6. StartNotLost'
    BY DEF ReadyTarget, Goto, call_vars, StartNotLost, Booted
<1>7. NoStrayInterrupt'
    BY DEF ReadyTarget, Goto, NoStrayInterrupt, Booted
<1> QED
    BY <1>1, <1>2, <1>3, <1>4, <1>5, <1>6, <1>7

LEMMA StartCheckKeeps ==
    ASSUME IInv, NEW h \in Harts, StartCheck(h)
    PROVE  IInv'
<1> USE HartsAreIntegers DEF IInv
<1>arrived. Arrived' = Arrived
    BY DEF StartCheck, Goto, Arrived
<1>1. BarrierInv'
    BY <1>arrived, NobodyArrives DEF StartCheck, Goto
<1>2. TypeOK'
    BY DEF StartCheck, Goto, call_vars, TypeOK
<1>3. WaitInv'
    BY DEF StartCheck, Goto, WaitInv
<1>4. LockInv'
    BY DEF StartCheck, Goto, call_vars, LockInv, Holds, Booted
<1>5. ASSUME NEW k \in Harts PROVE PlaceInv(k)'
    BY DEF StartCheck, Goto, call_vars, Booted, PlaceInv, InMain
<1>6. StartNotLost'
    BY DEF StartCheck, Goto, call_vars, StartNotLost, Booted
<1>7. NoStrayInterrupt'
    BY DEF StartCheck, Goto, NoStrayInterrupt, Booted
<1> QED
    BY <1>1, <1>2, <1>3, <1>4, <1>5, <1>6, <1>7

LEMMA StartWriteKeeps ==
    ASSUME IInv, NEW h \in Harts, StartWrite(h)
    PROVE  IInv'
<1> USE HartsAreIntegers DEF IInv
<1>held. Holds(h, callee[h]) /\ callee[h] \in Harts /\ Booted
    BY HoldersBooted DEF StartWrite, Holds, TypeOK
<1>alone. \A k \in Harts : k # h =>
         /\ fw[k] \in {"start_write", "start_msip"} => callee[k] # callee[h]
         /\ fw[k] = "msip_test" => k # callee[h]
    BY <1>held, AloneWithLock
<1>arrived. Arrived' = Arrived
    BY DEF StartWrite, Goto, Arrived
<1>1. BarrierInv'
    BY <1>arrived, NobodyArrives DEF StartWrite, Goto
<1>2. TypeOK'
    <2>1. arg[h] \in Programs
        BY DEF StartWrite, PlaceInv
    <2>2. target' \in [Harts -> Programs \cup {Zero}]
        BY <2>1 DEF StartWrite, TypeOK
    <2> QED
        BY <2>2 DEF StartWrite, Goto, call_vars, TypeOK
<1>3. WaitInv'
    BY DEF StartWrite, Goto, WaitInv
<1>4. LockInv'
    BY DEF StartWrite, Goto, call_vars, LockInv, Holds, Booted
<1>5. ASSUME NEW k \in Harts PROVE PlaceInv(k)'
    BY <1>held, <1>alone DEF StartWrite, Goto, call_vars, TypeOK, PlaceInv, InMain
<1>6. StartNotLost'
    BY DEF StartWrite, Goto, call_vars, TypeOK, StartNotLost, Booted
<1>7. NoStrayInterrupt'
    BY DEF StartWrite, Goto, NoStrayInterrupt, Booted
<1> QED
    BY <1>1, <1>2, <1>3, <1>4, <1>5, <1>6, <1>7

LEMMA StartMsipKeeps ==
    ASSUME IInv, NEW h \in Harts, StartMsip(h)
    PROVE  IInv'
<1> USE HartsAreIntegers DEF IInv
<1>held. Holds(h, callee[h]) /\ callee[h] \in Harts /\ Booted
    BY HoldersBooted DEF StartMsip, Holds, TypeOK
<1>alone. \A k \in Harts : k # h =>
         /\ fw[k] \in {"start_write", "start_msip"} => callee[k] # callee[h]
         /\ fw[k] = "msip_test" => k # callee[h]
    BY <1>held, AloneWithLock
<1>arrived. Arrived' = Arrived
    BY DEF StartMsip, Goto, Arrived
<1>1. BarrierInv'
    BY <1>arrived, NobodyArrives DEF StartMsip, Goto
<1>2. TypeOK'
    BY DEF StartMsip, Goto, call_vars, TypeOK
<1>3. WaitInv'
    BY DEF StartMsip, Goto, WaitInv
<1>4. LockInv'
    BY DEF StartMsip, Goto, call_vars, LockInv, Holds, Booted
<1>5. ASSUME NEW k \in Harts PROVE PlaceInv(k)'
    BY <1>held, <1>alone DEF StartMsip, Goto, call_vars, PlaceInv, InMain
<1>6. StartNotLost'
    BY DEF StartMsip, Goto, call_vars, TypeOK, StartNotLost, Booted
<1>7. NoStrayInterrupt'
    BY DEF StartMsip, Goto, NoStrayInterrupt, Booted, PlaceInv
<1> QED
    BY <1>1, <1>2, <1>3, <1>4, <1>5, <1>6, <1>7

LEMMA mutex_unlockKeeps ==
    ASSUME IInv, NEW h \in Harts, mutex_unlock(h)
    PROVE  IInv'
<1> USE HartsAreIntegers DEF IInv
<1>arrived. Arrived' = Arrived
    BY DEF mutex_unlock, Goto, Arrived
<1>1. BarrierInv'
    BY <1>arrived, NobodyArrives DEF mutex_unlock, Goto
<1>2. TypeOK'
    BY DEF mutex_unlock, Goto, call_vars, TypeOK
<1>3. WaitInv'
    BY DEF mutex_unlock, Goto, WaitInv
<1>4. LockInv'
    BY DEF mutex_unlock, Goto, call_vars, TypeOK, LockInv, Holds, Booted
<1>5. ASSUME NEW k \in Harts PROVE PlaceInv(k)'
    BY DEF mutex_unlock, Goto, call_vars, Booted, PlaceInv, InMain
<1>6. StartNotLost'
    BY DEF mutex_unlock, Goto, call_vars, StartNotLost, Booted
<1>7. NoStrayInterrupt'
    BY DEF mutex_unlock, Goto, NoStrayInterrupt, Booted
<1> QED
    BY <1>1, <1>2, <1>3, <1>4, <1>5, <1>6, <1>7

LEMMA StopCheckKeeps ==
    ASSUME IInv, NEW h \in Harts, StopCheck(h)
    PROVE  IInv'
<1> USE HartsAreIntegers DEF IInv
<1>held. Holds(h, h) /\ h \in Harts /\ Booted
    BY HoldersBooted DEF StopCheck, Holds, PlaceInv
<1>alone. \A k \in Harts : k # h =>
         /\ fw[k] \in {"start_write", "start_msip"} => callee[k] # h
         /\ fw[k] = "msip_test" => k # h
    BY <1>held, AloneWithLock
<1>arrived. Arrived' = Arrived
    BY DEF StopCheck, Goto, Arrived
<1>1. BarrierInv'
    BY <1>arrived, NobodyArrives DEF StopCheck, Goto
<1>2. TypeOK'
    BY DEF StopCheck, Goto, call_vars, TypeOK
<1>3. WaitInv'
    BY DEF StopCheck, Goto, WaitInv
<1>4. LockInv'
    BY DEF StopCheck, Goto, call_vars, LockInv, Holds, Booted
<1>5. ASSUME NEW k \in Harts PROVE PlaceInv(k)'
    <2>1. CASE k = h
        <3>1. fw'[h] = "unlock" /\ status'[h] # "INVALID"
            BY DEF StopCheck, Goto, TypeOK, PlaceInv, InMain
        <3> QED
            BY <2>1, <3>1 DEF PlaceInv, InMain
    <2>2. CASE k # h
        <3>1. /\ fw'[k] = fw[k] /\ at'[k] = at[k] /\ status'[k] = status[k]
              /\ msip' = msip /\ callee' = callee /\ arg' = arg /\ callee[k] \in Harts
            BY <2>2 DEF StopCheck, Goto, call_vars, TypeOK
        <3>2. callee[k] # h => status'[callee[k]] = status[callee[k]]
            <4>1. status' = [status EXCEPT ![h] = status'[h]]
                BY DEF StopCheck, TypeOK
            <4> QED
                BY <3>1, <4>1 DEF TypeOK
        <3>3. Booted' => Booted
            BY DEF StopCheck, Goto, Booted
        <3> QED
            BY <2>2, <3>1, <3>2, <3>3, <1>alone DEF PlaceInv, InMain
    <2> QED
        BY <2>1, <2>2
<1>6. StartNotLost'
    BY DEF StopCheck, Goto, call_vars, TypeOK, StartNotLost, Booted
<1>7. NoStrayInterrupt'
    BY DEF StopCheck, Goto, TypeOK, NoStrayInterrupt, Booted
<1> QED
    BY <1>1, <1>2, <1>3, <1>4, <1>5, <1>6, <1>7

LEMMA MsipLockKeeps ==
    ASSUME IInv, NEW h \in Harts, MsipLock(h)
    PROVE  IInv'
<1> USE HartsAreIntegers DEF IInv
<1>arrived. Arrived' = Arrived
    BY DEF MsipLock, Goto, Arrived
<1>1. BarrierInv'
    BY <1>arrived, NobodyArrives DEF MsipLock, Goto
<1>2. TypeOK'
    BY DEF MsipLock, Goto, call_vars, TypeOK
<1>3. WaitInv'
    BY DEF MsipLock, Goto, WaitInv
<1>4. LockInv'
    BY DEF MsipLock, Goto, call_vars, TypeOK, LockInv, Holds, Booted
<1>5. ASSUME NEW k \in Harts PROVE PlaceInv(k)'
    BY DEF MsipLock, Goto, call_vars, Booted, PlaceInv, InMain
<1>6. StartNotLost'
    BY DEF MsipLock, Goto, call_vars, StartNotLost, Booted
<1>7. NoStrayInterrupt'
    BY DEF MsipLock, Goto, NoStrayInterrupt, Booted
<1> QED
    BY <1>1, <1>2, <1>3, <1>4, <1>5, <1>6, <1>7

LEMMA MsipUnsetKeeps ==
    ASSUME IInv, NEW h \in Harts, MsipUnset(h)
    PROVE  IInv'
<1> USE HartsAreIntegers DEF IInv
<1>held. Holds(h, h) /\ h \in Harts /\ Booted
    BY HoldersBooted DEF MsipUnset, Holds
<1>arrived. Arrived' = Arrived
    BY DEF MsipUnset, Goto, Arrived
<1>1. BarrierInv'
    BY <1>arrived, NobodyArrives DEF MsipUnset, Goto
<1>2. TypeOK'
    BY DEF MsipUnset, Goto, call_vars, TypeOK
<1>3. WaitInv'
    BY DEF MsipUnset, Goto, WaitInv
<1>4. LockInv'
    BY DEF MsipUnset, Goto, call_vars, LockInv, Holds, Booted
<1>5. ASSUME NEW k \in Harts PROVE PlaceInv(k)'
    BY <1>held DEF MsipUnset, Goto, call_vars, TypeOK, PlaceInv, InMain, NoStrayInterrupt
<1>6. StartNotLost'
    BY DEF MsipUnset, Goto, call_vars, TypeOK, StartNotLost, Booted
<1>7. NoStrayInterrupt'
    BY DEF MsipUnset, Goto, NoStrayInterrupt, Booted
<1> QED
    BY <1>1, <1>2, <1>3, <1>4, <1>5, <1>6, <1>7

LEMMA MsipTestKeeps ==
    ASSUME IInv, NEW h \in Harts, MsipTest(h)
    PROVE  IInv'
<1> USE HartsAreIntegers DEF IInv
<1>held. Holds(h, h) /\ h \in Harts /\ Booted
    BY HoldersBooted DEF MsipTest, Holds
<1>alone. \A k \in Harts : k # h =>
         /\ fw[k] \in {"start_write", "start_msip"} => callee[k] # h
         /\ fw[k] = "msip_test" => k # h
    BY <1>held, AloneWithLock
<1>arrived. Arrived' = Arrived
    BY DEF MsipTest, Goto, Arrived
<1>1. BarrierInv'
    BY <1>arrived, NobodyArrives DEF MsipTest, Goto
<1>2. TypeOK'
    BY DEF MsipTest, Goto, call_vars, TypeOK
<1>3. WaitInv'
    BY DEF MsipTest, Goto, WaitInv
<1>4. LockInv'
    BY DEF MsipTest, Goto, call_vars, LockInv, Holds, Booted
<1>5. ASSUME NEW k \in Harts PROVE PlaceInv(k)'
    <2>1. CASE k = h
        <3>1. fw'[h] = "msip_unlock" /\ status'[h] # "INVALID"
            BY DEF MsipTest, Goto, TypeOK, PlaceInv
        <3> QED
            BY <2>1, <3>1 DEF PlaceInv, InMain
    <2>2. CASE k # h
        <3>1. /\ fw'[k] = fw[k] /\ at'[k] = at[k] /\ status'[k] = status[k]
              /\ msip' = msip /\ callee' = callee /\ arg' = arg /\ callee[k] \in Harts
            BY <2>2 DEF MsipTest, Goto, call_vars, TypeOK
        <3>2. callee[k] # h => status'[callee[k]] = status[callee[k]]
            BY DEF MsipTest, TypeOK
        <3>3. Booted' => Booted
            BY DEF MsipTest, Goto, Booted
        <3> QED
            BY <2>2, <3>1, <3>2, <3>3, <1>alone DEF PlaceInv, InMain
    <2> QED
        BY <2>1, <2>2
<1>6. StartNotLost'
    BY DEF MsipTest, Goto, call_vars, TypeOK, StartNotLost, Booted
<1>7. NoStrayInterrupt'
    BY DEF MsipTest, Goto, TypeOK, NoStrayInterrupt, Booted, PlaceInv
<1> QED
    BY <1>1, <1>2, <1>3, <1>4, <1>5, <1>6, <1>7

LEMMA MsipUnlockKeeps ==
    ASSUME IInv, NEW h \in Harts, MsipUnlock(h)
    PROVE  IInv'
<1> USE HartsAreIntegers DEF IInv
<1>arrived. Arrived' = Arrived
    BY DEF MsipUnlock, Goto, Arrived
<1>1. BarrierInv'
    BY <1>arrived, NobodyArrives DEF MsipUnlock, Goto
<1>2. TypeOK'
    BY DEF MsipUnlock, Goto, call_vars, TypeOK
<1>3. WaitInv'
    BY DEF MsipUnlock, Goto, WaitInv
<1>4. LockInv'
    BY DEF MsipUnlock, Goto, call_vars, TypeOK, LockInv, Holds, Booted
<1>5. ASSUME NEW k \in Harts PROVE PlaceInv(k)'
    BY DEF MsipUnlock, Goto, call_vars, Booted, PlaceInv, InMain
<1>6. StartNotLost'
    BY DEF MsipUnlock, Goto, call_vars, StartNotLost, Booted
<1>7. NoStrayInterrupt'
    BY DEF MsipUnlock, Goto, NoStrayInterrupt, Booted
<1> QED
    BY <1>1, <1>2, <1>3, <1>4, <1>5, <1>6, <1>7

LEMMA StartTryLockKeeps ==
    ASSUME IInv, NEW h \in Harts, NEW g \in Harts, NEW p \in Programs, StartTryLock(h, g, p)
    PROVE  IInv'
<1> USE HartsAreIntegers DEF IInv
<1>arrived. Arrived' = Arrived
    BY DEF StartTryLock, TryLock, Call, Goto, Arrived
<1>1. BarrierInv'
    BY <1>arrived, NobodyArrives DEF StartTryLock, TryLock, Call, Goto
<1>2. TypeOK'
    BY HartAssumption DEF StartTryLock, TryLock, Call, Goto, TypeOK
<1>3. WaitInv'
    BY DEF StartTryLock, TryLock, Call, Goto, WaitInv
<1>4. LockInv'
    BY DEF StartTryLock, TryLock, Call, Goto, TypeOK, LockInv, Holds, Booted
<1>5. ASSUME NEW k \in Harts PROVE PlaceInv(k)'
    BY DEF StartTryLock, TryLock, Call, Goto, TypeOK, Booted, PlaceInv, InMain
<1>6. StartNotLost'
    BY DEF StartTryLock, TryLock, Call, Goto, StartNotLost, Booted
<1>7. NoStrayInterrupt'
    BY DEF StartTryLock, TryLock, Call, Goto, NoStrayInterrupt, Booted
<1> QED
    BY <1>1, <1>2, <1>3, <1>4, <1>5, <1>6, <1>7

LEMMA StopTryLockKeeps ==
    ASSUME IInv, NEW h \in Harts, StopTryLock(h)
    PROVE  IInv'
<1> USE HartsAreIntegers DEF IInv
<1>arrived. Arrived' = Arrived
    BY DEF StopTryLock, TryLock, Call, Goto, Arrived
<1>1. BarrierInv'
    BY <1>arrived, NobodyArrives DEF StopTryLock, TryLock, Call, Goto
<1>2. TypeOK'
    BY HartAssumption DEF StopTryLock, TryLock, Call, Goto, TypeOK
<1>3. WaitInv'
    BY DEF StopTryLock, TryLock, Call, Goto, WaitInv
<1>4. LockInv'
    BY DEF StopTryLock, TryLock, Call, Goto, TypeOK, LockInv, Holds, Booted
<1>5. ASSUME NEW k \in Harts PROVE PlaceInv(k)'
    BY DEF StopTryLock, TryLock, Call, Goto, TypeOK, Booted, PlaceInv, InMain
<1>6. StartNotLost'
    BY DEF StopTryLock, TryLock, Call, Goto, StartNotLost, Booted
<1>7. NoStrayInterrupt'
    BY DEF StopTryLock, TryLock, Call, Goto, NoStrayInterrupt, Booted
<1> QED
    BY <1>1, <1>2, <1>3, <1>4, <1>5, <1>6, <1>7

LEMMA InitIInv == Init => IInv
<1> SUFFICES ASSUME Init PROVE IInv
    OBVIOUS
<1> USE HartsAreIntegers
<1>1. Arrived = {} /\ Cardinality(Arrived) = 0
    BY FS_EmptySet DEF Init, Arrived
<1>2. BarrierInv
    BY <1>1, HartAssumption DEF Init, BarrierInv
<1>3. TypeOK
    BY HartAssumption DEF Init, TypeOK
<1>4. WaitInv
    BY DEF Init, WaitInv
<1>5. LockInv /\ StartNotLost /\ NoStrayInterrupt
    BY DEF Init, LockInv, StartNotLost, NoStrayInterrupt, Booted
<1>6. \A h \in Harts : PlaceInv(h)
    BY DEF Init, PlaceInv, InMain, Booted
<1> QED
    BY <1>2, <1>3, <1>4, <1>5, <1>6 DEF IInv

LEMMA NextIInv == IInv /\ [Next]_vars => IInv'
<1> SUFFICES ASSUME IInv, [Next]_vars PROVE IInv'
    OBVIOUS
<1>1. ASSUME NEW h \in Harts, FirmwareStep(h) PROVE IInv'
    BY <1>1, ClearBssKeeps, barrier_releaseKeeps, barrier_arriveKeeps, barrier_passKeeps,
       ReadyStatusKeeps, ReadyTargetKeeps, StartCheckKeeps, StartWriteKeeps, StartMsipKeeps,
       mutex_unlockKeeps, StopCheckKeeps, MsipLockKeeps, MsipUnsetKeeps, MsipTestKeeps, MsipUnlockKeeps
       DEF FirmwareStep
<1>2. ASSUME NEW h \in Harts, Calls(h) PROVE IInv'
    BY <1>2, StartTryLockKeeps, StopTryLockKeeps DEF Calls
<1>3. CASE UNCHANGED vars
    BY <1>3
       DEF vars, call_vars, IInv, TypeOK, BarrierInv, Arrived, WaitInv, LockInv, Holds,
           PlaceInv, InMain, StartNotLost, NoStrayInterrupt, Booted
<1> QED
    BY <1>1, <1>2, <1>3 DEF Next

-----------------------------------------------------------------------------
(* The theorems. *)

\* The invariant of main, hart_start, hart_stop and hart_handle_msip together.
THEOREM Invariance == Spec => []IInv
BY InitIInv, NextIInv, PTL DEF Spec

\* Every variable keeps its type; the barrier of main, in particular, counts no hart twice
\* and is never passed before hart 0 has cleared the firmware's data.
THEOREM TypeCorrect == Spec => []TypeOK
<1>1. IInv => TypeOK
    BY DEF IInv
<1> QED
    BY <1>1, Invariance, PTL

\* No start that hart_start accepted is lost, no software interrupt is left over, and each
\* lock has one holder, whichever harts start, stop and boot at the same time.
THEOREM StartsDeliveredAlways == Spec => []StartsDelivered
<1>1. IInv => StartsDelivered
    <2> SUFFICES ASSUME IInv PROVE StartsDelivered
        OBVIOUS
    <2> USE HartsAreIntegers
    <2>1. LockHeldByOne
        BY DEF IInv, LockInv, LockHeldByOne
    <2>2. StaysValid
        BY DEF IInv, PlaceInv, InMain, WaitInv, StaysValid, Booted
    <2> QED
        BY <2>1, <2>2 DEF IInv, StartsDelivered
<1> QED
    BY <1>1, Invariance, PTL

-----------------------------------------------------------------------------
(* The refinement. *)

\* What each step of the firmware is to a kernel: most are nothing at all.
LEMMA StepsOfService ==
    ASSUME IInv, IInv', NEW h \in Harts, FirmwareStep(h) \/ Calls(h)
    PROVE  Service!Next \/ UNCHANGED Service!vars
<1> USE HartsAreIntegers DEF IInv
<1>0. ASSUME NEW k \in Harts, fw' = [fw EXCEPT ![k] = fw'[k]], Settled(k)' = Settled(k)
      PROVE  [g \in Harts |-> Settled(g)]' = [g \in Harts |-> Settled(g)]
    BY <1>0 DEF TypeOK, Settled
<1>1. ASSUME Booted' = Booted, status' = status, target' = target, at' = at,
             [g \in Harts |-> Settled(g)]' = [g \in Harts |-> Settled(g)]
      PROVE  UNCHANGED Service!vars
    BY <1>1 DEF Service!vars
<1>2. ASSUME NEW k \in Harts, fw[k] \notin {"reset", "cleared", "barrier"},
             fw' = [fw EXCEPT ![k] = fw'[k]], fw'[k] # "reset"
      PROVE  Booted /\ Booted'
    BY <1>2 DEF TypeOK, WaitInv, Booted, Others
<1>3. ASSUME Booted, Booted'
      PROVE  /\ [k \in Harts |-> IF Booted THEN status[k] ELSE "INVALID"] = status
             /\ [k \in Harts |-> IF Booted' THEN status'[k] ELSE "INVALID"] = status'
    BY <1>3 DEF TypeOK
<1>4. CASE h = 0 /\ ClearBss
    <2>1. \A k \in Harts : (IF Booted THEN status[k] ELSE "INVALID") = "INVALID"
        BY <1>4 DEF ClearBss, Booted
    <2>2. [g \in Harts |-> Settled(g)]' = [g \in Harts |-> Settled(g)]
        BY <1>0, <1>4 DEF ClearBss, Goto, TypeOK, Settled
    <2> QED
        BY <1>4, <2>1, <2>2 DEF ClearBss, Service!vars
<1>5. CASE \/ h = 0 /\ barrier_release
           \/ barrier_arrive(h) \/ barrier_pass(h)
           \/ StartCheck(h) \/ StartMsip(h) \/ mutex_unlock(h)
           \/ MsipLock(h) \/ MsipUnset(h) \/ MsipUnlock(h) \/ Calls(h)
    <2> USE DEF barrier_release, barrier_arrive, barrier_pass, StartCheck, StartMsip,
                mutex_unlock, MsipLock, MsipUnset, MsipUnlock, Calls, StopTryLock,
                StartTryLock, TryLock, Call
    <2>1. status' = status /\ target' = target /\ at' = at
        BY <1>5
    <2>2. Booted' = Booted
        BY <1>5 DEF Goto, Booted, TypeOK
    <2>3. fw' = [fw EXCEPT ![h] = fw'[h]] /\ Settled(h)' = Settled(h)
        BY <1>5 DEF Goto, TypeOK, Settled
    <2> QED
        BY <1>0, <1>1, <2>1, <2>2, <2>3
<1>6. CASE ReadyStatus(h)
    <2>1. Booted /\ Booted'
        BY <1>2, <1>6 DEF ReadyStatus, Goto, TypeOK
    <2>2. status[h] = "INVALID"
        BY <1>6, <2>1 DEF ReadyStatus, PlaceInv, InMain
    <2>3. [g \in Harts |-> Settled(g)]' = [g \in Harts |-> Settled(g)]
        BY <1>0, <1>6 DEF ReadyStatus, Goto, TypeOK, Settled
    <2>4. Service!Ready(h)
        BY <1>3, <1>6, <2>1, <2>2, <2>3 DEF ReadyStatus, Service!Ready
    <2> QED
        BY <2>4 DEF Service!Next
<1>7. CASE ReadyTarget(h)
    <2>1. Booted /\ Booted'
        BY <1>2, <1>7 DEF ReadyTarget, Goto, TypeOK
    <2>2. status[h] # "INVALID" /\ status' = status
        BY <1>7 DEF ReadyTarget, PlaceInv, InMain
    <2>3. /\ ~[g \in Harts |-> Settled(g)][h]
          /\ [g \in Harts |-> Settled(g)]' = [[g \in Harts |-> Settled(g)] EXCEPT ![h] = TRUE]
        BY <1>7 DEF ReadyTarget, Goto, TypeOK, Settled
    <2>4. Service!Settle(h)
        BY <1>3, <1>7, <2>1, <2>2, <2>3 DEF ReadyTarget, Service!Settle
    <2> QED
        BY <2>4 DEF Service!Next
<1>8. CASE StartWrite(h)
    <2>1. Booted /\ Booted'
        BY <1>2, <1>8 DEF StartWrite, Goto, TypeOK
    <2>2. PICK g \in Harts, p \in Programs : g = callee[h] /\ p = arg[h]
        BY <1>8 DEF StartWrite, PlaceInv, TypeOK
    <2>3. at[h] \notin {NULL, Zero} /\ (g # h => status[g] = "STOPPED")
        BY <1>8, <2>2 DEF StartWrite, PlaceInv
    <2>4. [k \in Harts |-> Settled(k)]' = [k \in Harts |-> Settled(k)]
        BY <1>0, <1>8 DEF StartWrite, Goto, TypeOK, Settled
    <2>5. Service!Accept(h, g, p)
        BY <1>3, <1>8, <2>1, <2>2, <2>3, <2>4 DEF StartWrite, Service!Accept
    <2> QED
        BY <2>5 DEF Service!Next
<1>9. CASE MsipTest(h)
    <2>1. Booted /\ Booted'
        BY <1>2, <1>9 DEF MsipTest, Goto, TypeOK
    <2>2. status[h] = "STARTING" /\ Settled(h)
        BY <1>9 DEF MsipTest, PlaceInv, Settled
    <2>3. [g \in Harts |-> Settled(g)]' = [g \in Harts |-> Settled(g)]
        BY <1>0, <1>9 DEF MsipTest, Goto, TypeOK, Settled
    <2>4. Service!Enter(h)
        BY <1>3, <1>9, <2>1, <2>2, <2>3 DEF MsipTest, Service!Enter
    <2> QED
        BY <2>4 DEF Service!Next
<1>10. CASE StopCheck(h)
    <2>1. Booted /\ Booted'
        BY <1>2, <1>10 DEF StopCheck, Goto, TypeOK
    <2>2. [g \in Harts |-> Settled(g)]' = [g \in Harts |-> Settled(g)]
        BY <1>0, <1>10 DEF StopCheck, Goto, TypeOK, Settled
    <2>3. CASE status[h] = "STARTED"
        <3>1. Service!Stop(h)
            BY <1>3, <1>10, <2>1, <2>2, <2>3 DEF StopCheck, Service!Stop
        <3> QED
            BY <3>1 DEF Service!Next
    <2>4. CASE status[h] # "STARTED"
        BY <1>1, <1>10, <2>1, <2>2, <2>4 DEF StopCheck
    <2> QED
        BY <2>3, <2>4
<1> QED
    BY <1>4, <1>5, <1>6, <1>7, <1>8, <1>9, <1>10 DEF FirmwareStep

\* The firmware implements HartService step by step: whatever two harts do at once, each
\* accepted start, entry and stop takes effect as one step, a hart enters the program of
\* its last accepted start, and only a start accepted before the hart has written its
\* target in main can lose its program.
THEOREM ImplementsHartService ==
    Spec => Service!Init /\ [][Service!Next]_Service!vars
<1>1. Init => Service!Init
    BY HartsAreIntegers DEF Init, Service!Init, Booted, Settled
<1>2. IInv /\ IInv' /\ [Next]_vars => [Service!Next]_Service!vars
    <2> SUFFICES ASSUME IInv, IInv', [Next]_vars
                 PROVE  Service!Next \/ UNCHANGED Service!vars
        OBVIOUS
    <2>1. CASE UNCHANGED vars
        BY <2>1 DEF vars, Service!vars, Booted, Settled
    <2> QED
        BY <2>1, StepsOfService DEF Next
<1> QED
    BY <1>1, <1>2, Invariance, PTL DEF Spec
=============================================================================
