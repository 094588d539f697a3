---------------------------- MODULE CloudRequest ----------------------------
(***************************************************************************)
(* What a caller of EdgeCloudClient may count on: one request at a time,   *)
(* results reported only while it is in progress, nothing after its end.   *)
(* TaskDispatch uses the client at this grain (WorkerFinished, WorkerEnds, *)
(* WorkerFails, CheckHealth); SseClient implements it.                     *)
(***************************************************************************)

VARIABLES
    busy,       \* a request is in progress
    reachable,  \* what is_reachable() says
    results     \* the results reported of the request begun last

vars == <<busy, reachable, results>>

Init == busy = FALSE /\ reachable = FALSE /\ results = {}

Begin ==
    /\ ~busy
    /\ busy' = TRUE
    /\ results' = {}
    /\ UNCHANGED reachable

Finished ==
    /\ busy
    /\ \E r \in {"ok", "error"} : results' = results \cup {r}
    /\ UNCHANGED <<busy, reachable>>

Ends ==
    /\ busy
    /\ busy' = FALSE
    /\ UNCHANGED <<reachable, results>>

\* A health check says yes or no, a failing request says no.
Learns == reachable' \in BOOLEAN /\ UNCHANGED <<busy, results>>

Next == Begin \/ Finished \/ Ends \/ Learns

Spec == Init /\ [][Next]_vars
=============================================================================
