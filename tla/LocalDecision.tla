---------------------------- MODULE LocalDecision ----------------------------
(***************************************************************************)
(* The decisions of the edge without the cloud: edge_local_decision.cpp,   *)
(* and what app.cpp does with it on the UI thread.  Two places assess the  *)
(* network: every message (submit_message) and the update of once a        *)
(* second, which flushes the log of decisions when it sees a recovery.     *)
(* Both measure first, which blocks the UI thread, then read, one after    *)
(* the other, what other threads have found meanwhile.  Heartbeat has the  *)
(* sender whose failures are counted; here its thread only counts.         *)
(*                                                                         *)
(* Nothing in app.cpp calls check_health or update_cloud_params: Spec has  *)
(* them as calls of the components' users, AppSpec is the program.         *)
(***************************************************************************)
EXTENDS Integers, Sequences

CONSTANTS
    DegradedFails, OfflineFails,  \* failed heartbeats that say so (2 and 5)
    Thresholds,     \* values of _cloud_confidence_threshold, in percent (78 at first)
    Confidence,     \* what submit_message passes (70)
    MaxLog,         \* MAX_OFFLINE_LOG (1000)
    MaxDecisions    \* bound: decisions made

ASSUME FailsAssumption ==
    DegradedFails \in Nat \ {0} /\ OfflineFails \in Nat /\ DegradedFails < OfflineFails
ASSUME SizesAssumption == MaxLog \in Nat \ {0} /\ MaxDecisions \in Nat
ASSUME ThresholdsAssumption == Thresholds \subseteq Nat /\ Confidence \in Nat

\* The round trip takes less than 200 ms, up to 500 ms, more, or there is none.  A cloud
\* that refuses answers as fast as one that does not, but with an error.
Links == {"fast", "refusing", "slow", "poor", "down"}

\* What a measurement tells assess_network of it: above 500 ms and -1 are the same to it.
Measured(l) ==
    IF l \in {"fast", "refusing"} THEN "fast" ELSE IF l = "slow" THEN "slow" ELSE "none"

VARIABLES
    link,       \* the network, which changes at any time
    heartbeats, \* the loop of the heartbeats runs
    endpoint,   \* whether heartbeats have an address to go to
    doomed,     \* heartbeats under way that will fail: the loop's and the button's
    fails,      \* consecutive_failures; OfflineFails stands for more, too
    reachable,  \* EdgeCloudClient._reachable
    ui,         \* the UI thread is "free", or has measured for an "update" or a "message"
    rtt,        \* what it has measured
    seen,       \* what is_reachable has told it: "nothing" yet, "yes" or "no"
    threshold,  \* _cloud_confidence_threshold
    condition,  \* _current_condition
    log,        \* _offline_log
    made,       \* history: decisions made
    flushed,    \* history: those made before the last flush
    noticedBy   \* history: who saw the condition change

sender == <<heartbeats, endpoint>>
network == <<link, sender, doomed, fails, reachable>>
thread == <<ui, rtt, seen>>
journal == <<log, made, flushed>>
vars == <<network, thread, threshold, condition, journal, noticedBy>>

Init ==
    /\ link \in Links
    /\ heartbeats = FALSE /\ endpoint = FALSE /\ doomed = 0
    /\ fails = 0 /\ reachable = FALSE
    /\ ui = "free" /\ rtt = "none" /\ seen = "nothing"
    /\ threshold \in Thresholds /\ condition = "Healthy"
    /\ log = <<>> /\ made = 0 /\ flushed = 0
    /\ noticedBy = "update"

-----------------------------------------------------------------------------
(* edge_local_decision.cpp.                                                *)

\* Mutant: any count below the one of an outage is taken for degraded.
assess_network_AnyCount ==
    IF rtt = "none" \/ fails >= OfflineFails \/ seen = "no" THEN "Offline"
    ELSE IF rtt = "slow" \/ fails <= OfflineFails THEN "Degraded"
    ELSE "Healthy"

assess_network ==
    IF rtt = "none" \/ fails >= OfflineFails \/ seen = "no" THEN "Offline"
    ELSE IF rtt = "slow" \/ fails >= DegradedFails THEN "Degraded"
    ELSE "Healthy"

\* Lowered by 15 when offline, but never below 50.
active_confidence_threshold(c) ==
    IF c # "Offline" THEN threshold
    ELSE IF threshold >= 65 THEN threshold - 15 ELSE 50

\* What decide returns, but for a network that is healthy.
Action(c) ==
    IF Confidence >= active_confidence_threshold(c) THEN "LocalInfer"
    ELSE IF c = "Degraded" THEN "QueueForCloud" ELSE "P2PConsensus"

\* Mutant: the log has room for one more.
Logged_OneMore(e) == Append(IF Len(log) <= MaxLog THEN log ELSE Tail(log), e)

\* The oldest decision is dropped when the log is full.
Logged(e) == Append(IF Len(log) < MaxLog THEN log ELSE Tail(log), e)

decide(c) ==
    /\ log' = Logged([no |-> made + 1, condition |-> c, action |-> Action(c)])
    /\ made' = made + 1

-----------------------------------------------------------------------------
(* The UI thread.                                                          *)

\* measure_rtt_ms, a request of its own.
Measure(who) ==
    /\ ui = "free"
    /\ who = "message" => made < MaxDecisions
    /\ rtt' = Measured(link)
    /\ ui' = who
    /\ UNCHANGED <<network, seen, threshold, condition, journal, noticedBy>>

\* is_reachable; consecutive_failures is read next, with the assessment.
ReadReachable ==
    /\ ui # "free" /\ seen = "nothing"
    /\ seen' = IF reachable THEN "yes" ELSE "no"
    /\ UNCHANGED <<network, ui, rtt, threshold, condition, journal, noticedBy>>

Assess ==
    /\ seen # "nothing"
    /\ condition' = assess_network
    /\ noticedBy' = IF condition' = condition THEN noticedBy ELSE ui
    /\ ui' = "free" /\ rtt' = "none" /\ seen' = "nothing"
    /\ UNCHANGED <<network, threshold>>

\* Mutant: a recovery is one from Offline.
Recovers_FromOffline == condition' = "Healthy" /\ condition = "Offline"

\* prev_cond is Degraded or Offline, new_cond Healthy.
Recovers == condition' = "Healthy" /\ condition # "Healthy"

\* Mutant: without the cloud there is nothing to assess.
UpdateMetrics_Skipped ==
    /\ ui = "update" /\ seen # "nothing"
    /\ IF seen = "yes"
       THEN Assess
       ELSE ui' = "free" /\ seen' = "nothing" /\ UNCHANGED <<network, rtt, threshold, condition, noticedBy>>
    /\ UNCHANGED journal

\* The rest of update_device_metrics, with flush_offline_decisions.
UpdateMetrics ==
    /\ ui = "update"
    /\ Assess
    /\ IF Recovers THEN log' = <<>> /\ flushed' = made ELSE UNCHANGED <<log, flushed>>
    /\ UNCHANGED made

\* Mutant: decide is asked in a healthy network, too.
SubmitMessage_Always ==
    /\ ui = "message"
    /\ Assess
    /\ decide(condition')
    /\ UNCHANGED flushed

\* The rest of submit_message: decide is not asked when the network is healthy.
SubmitMessage ==
    /\ ui = "message"
    /\ Assess
    /\ IF condition' # "Healthy" THEN decide(condition') ELSE UNCHANGED <<log, made>>
    /\ UNCHANGED flushed

\* The box of the heartbeat panel: on, it takes the address typed in, if any.
ToggleHeartbeats ==
    /\ ui = "free"
    /\ heartbeats' = ~heartbeats
    /\ IF heartbeats THEN UNCHANGED endpoint ELSE endpoint' \in BOOLEAN
    /\ UNCHANGED <<link, doomed, fails, reachable, thread, threshold, condition, journal,
                   noticedBy>>

-----------------------------------------------------------------------------
(* Others.                                                                 *)

\* A heartbeat of the loop, or of the button that sends one without the loop, too.
HeartbeatSucceeds ==
    /\ endpoint /\ link \notin {"refusing", "down"}
    /\ fails' = 0
    /\ UNCHANGED <<link, sender, doomed, reachable, thread, threshold, condition, journal,
                   noticedBy>>

\* One that will not get through: without an address it is not even sent.
HeartbeatDoomed ==
    /\ link # "fast" \/ ~endpoint
    /\ doomed < 2
    /\ doomed' = doomed + 1
    /\ UNCHANGED <<link, sender, fails, reachable, thread, threshold, condition, journal,
                   noticedBy>>

\* The error, or no answer within three seconds: by then the link may be good again.  The
\* count may come from a copy that is out of date.
HeartbeatFails ==
    /\ doomed > 0
    /\ doomed' = doomed - 1
    /\ fails' \in 1..OfflineFails
    /\ UNCHANGED <<link, sender, reachable, thread, threshold, condition, journal, noticedBy>>

\* A request of the cloud client fails: without a result, or with an exception in the
\* parser, on a good link too (the run sse_null_finish has such a stream).
RequestFails ==
    /\ reachable' = FALSE
    /\ UNCHANGED <<link, sender, doomed, fails, thread, threshold, condition, journal,
                   noticedBy>>

LinkChanges ==
    /\ link' \in Links
    /\ UNCHANGED <<sender, doomed, fails, reachable, thread, threshold, condition, journal,
                   noticedBy>>

\* check_health, by a user of the client: it waits for two seconds.
CheckHealth ==
    /\ reachable' \in {link \notin {"refusing", "down"}, link = "fast"}
    /\ UNCHANGED <<link, sender, doomed, fails, thread, threshold, condition, journal,
                   noticedBy>>

update_cloud_params ==
    /\ threshold' \in Thresholds
    /\ UNCHANGED <<network, thread, condition, journal, noticedBy>>

App ==
    \/ Measure("update") \/ Measure("message") \/ ReadReachable
    \/ UpdateMetrics \/ SubmitMessage \/ ToggleHeartbeats
    \/ HeartbeatSucceeds \/ HeartbeatDoomed \/ HeartbeatFails
    \/ RequestFails \/ LinkChanges

Next == App \/ CheckHealth \/ update_cloud_params

\* The threads run, the loop sends its heartbeats, which succeed on a good link, and the
\* metrics are updated before anything else in the first frame after a second
\* (app.cpp:292, 904): whatever the user does, their turn comes.  Nobody has to check
\* the health of the cloud.
Fairness ==
    /\ WF_vars(ReadReachable) /\ WF_vars(UpdateMetrics) /\ WF_vars(SubmitMessage)
    /\ SF_vars(Measure("update"))
    /\ WF_vars(heartbeats /\ link = "fast" /\ HeartbeatSucceeds)
    /\ WF_vars(HeartbeatFails)

Spec == Init /\ [][Next]_vars /\ Fairness

\* The program, in which nobody checks the health of the cloud.
AppSpec == Init /\ [][App]_vars /\ Fairness

-----------------------------------------------------------------------------
(* Properties.                                                             *)

\* Every variable has its type.
TypeOK ==
    /\ link \in Links /\ heartbeats \in BOOLEAN /\ endpoint \in BOOLEAN
    /\ doomed \in 0..2 /\ fails \in 0..OfflineFails /\ reachable \in BOOLEAN
    /\ ui \in {"free", "update", "message"} /\ rtt \in {"fast", "slow", "none"}
    /\ seen \in {"nothing", "yes", "no"} /\ (ui = "free" => seen = "nothing")
    /\ threshold \in Thresholds
    /\ condition \in {"Healthy", "Degraded", "Offline"}
    /\ log \in Seq([no : Nat, condition : {"Degraded", "Offline"},
                    action : {"LocalInfer", "QueueForCloud", "P2PConsensus"}])
    /\ made \in Nat /\ flushed \in 0..made
    /\ noticedBy \in {"update", "message"}

\* The log holds the decisions made since the last flush, in their order, or the
\* newest MaxLog of them: whatever the network did in between, none is lost, doubled or
\* flushed twice (edge_local_decision.cpp:116-122, 137-141).
LogIsRecent ==
    /\ Len(log) = IF made - flushed < MaxLog THEN made - flushed ELSE MaxLog
    /\ \A i \in DOMAIN log : log[i].no = made - Len(log) + i

\* Decisions outlive a recovery only when a message has seen it before the update of
\* once a second: then they stay until the next outage is over (app.cpp:774, 919-935).
OutlivesRecovery ==
    (condition = "Healthy" /\ log # <<>>) => noticedBy = "message"

\* Heartbeats that have an address run on a good link.
GoodLink == link = "fast" /\ heartbeats /\ endpoint

\* A recovery is noticed, and stays so: once the link stays good, heartbeats get through
\* and the client believes the cloud reachable, the network is found healthy, whatever
\* was counted, measured or on its way before (assess_network, app.cpp:919-925).  That
\* the client believes it takes somebody who calls check_health after the last request
\* that failed.
RecoveryNoticed == <>[](GoodLink /\ reachable) => <>[](condition = "Healthy")

\* "When the network recovers: reconnect automatically [...] switch back to normal"
\* (CLOUD_EDGE_COMMUNICATION.md:503-506): a link that stays good, with heartbeats that
\* have an address, is found healthy and stays so.
Reconnects == <>[]GoodLink => <>[](condition = "Healthy")

\* A link that stays down is found offline, however few heartbeats and requests there
\* are to notice it.
OutageNoticed == <>[](link = "down") => <>[](condition = "Offline")

=============================================================================
