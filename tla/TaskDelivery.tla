---------------------------- MODULE TaskDelivery ----------------------------
(***************************************************************************)
(* What the cloud-to-edge task channel promises: at-most-once delivery.    *)
(* A task the cloud creates is handed to the edge application once or is   *)
(* lost; it is never handed over twice and never handed over after it was  *)
(* lost.  The channel has no acknowledgement, so nothing stronger holds:   *)
(* GET /api/v1/edge/tasks removes what it returns.                         *)
(***************************************************************************)
CONSTANT TaskIds

VARIABLES
    pending,    \* created, on its way
    received,   \* handed to the edge application
    lost        \* gone with a response, a queue or a process

vars == <<pending, received, lost>>

Init ==
    /\ pending = {}
    /\ received = {}
    /\ lost = {}

Create(i) ==
    /\ i \notin pending \cup received \cup lost
    /\ pending' = pending \cup {i}
    /\ UNCHANGED <<received, lost>>

Receive(i) ==
    /\ i \in pending
    /\ pending' = pending \ {i}
    /\ received' = received \cup {i}
    /\ UNCHANGED lost

Lose(S) ==
    /\ S \subseteq pending
    /\ pending' = pending \ S
    /\ lost' = lost \cup S
    /\ UNCHANGED received

Next ==
    \/ \E i \in TaskIds : Create(i) \/ Receive(i)
    \/ \E S \in SUBSET TaskIds : Lose(S)

Spec == Init /\ [][Next]_vars
=============================================================================
