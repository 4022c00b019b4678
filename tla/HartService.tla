---------------------------- MODULE HartService ----------------------------
(***************************************************************************)
(* What the firmware's hart management promises a kernel (hart.h): a hart  *)
(* is invalid until it is ready, then stopped, until a start is accepted   *)
(* for it; the hart then enters the program of that start, once.  A hart   *)
(* may restart itself; another hart can start it only while it is stopped. *)
(* The program is promised for harts that have settled.  A hart answers    *)
(* that it is stopped a little before: a start accepted then is entered    *)
(* too, but at address 0.                                                  *)
(***************************************************************************)
CONSTANTS
    Harts, Hart0,
    Programs,       \* what a hart can be started at
    Kernel,         \* the program hart 0 boots into
    Zero,           \* the address 0x0, where no program is
    NULL

VARIABLES
    state,          \* what get_hart_status answers
    settled,        \* the harts whose accepted starts keep their program
    asked,          \* the program of the last accepted start
    at              \* the program a hart executes, or NULL

vars == <<state, settled, asked, at>>

Init ==
    /\ state = [h \in Harts |-> "INVALID"]
    /\ settled = [h \in Harts |-> FALSE]
    /\ asked = [h \in Harts |-> Zero]
    /\ at = [h \in Harts |-> NULL]

Ready(h) ==
    /\ state[h] = "INVALID"
    /\ state' = [state EXCEPT ![h] = IF h = Hart0 THEN "STARTED" ELSE "STOPPED"]
    /\ UNCHANGED <<settled, asked, at>>

\* A start accepted before this loses its program.
Settle(h) ==
    /\ state[h] # "INVALID" /\ ~settled[h]
    /\ settled' = [settled EXCEPT ![h] = TRUE]
    /\ asked' = [asked EXCEPT ![h] = Zero]
    /\ at' = [at EXCEPT ![h] = IF h = Hart0 THEN Kernel ELSE NULL]
    /\ UNCHANGED state

\* Hart h's start of hart g at program p is accepted.
Accept(h, g, p) ==
    /\ at[h] \notin {NULL, Zero}
    /\ g # h => state[g] = "STOPPED"
    /\ state' = [state EXCEPT ![g] = "STARTING"]
    /\ asked' = [asked EXCEPT ![g] = p]
    /\ UNCHANGED <<settled, at>>

Enter(h) ==
    /\ state[h] = "STARTING" /\ settled[h]
    /\ state' = [state EXCEPT ![h] = "STARTED"]
    /\ at' = [at EXCEPT ![h] = asked[h]]
    /\ UNCHANGED <<settled, asked>>

Stop(h) ==
    /\ state[h] = "STARTED"
    /\ state' = [state EXCEPT ![h] = "STOPPED"]
    /\ at' = [at EXCEPT ![h] = NULL]
    /\ UNCHANGED <<settled, asked>>

Next ==
    \E h \in Harts : \/ Ready(h) \/ Settle(h) \/ Enter(h) \/ Stop(h)
                     \/ \E g \in Harts, p \in Programs : Accept(h, g, p)

\* Every hart becomes ready and settles, and no accepted start is forgotten.
Fairness == \A h \in Harts : WF_vars(Ready(h)) /\ WF_vars(Settle(h)) /\ WF_vars(Enter(h))

Spec == Init /\ [][Next]_vars /\ Fairness
=============================================================================
