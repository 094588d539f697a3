----------------------------- MODULE Heartbeat -----------------------------
(***************************************************************************)
(* The heartbeat sender (edge-gui/heartbeat.cpp) and the cloud's record of *)
(* the device (cloud_server/storage/device_state.py).  Two threads send:   *)
(* the loop that start begins, and the UI thread when the button of the    *)
(* heartbeat panel is pressed (send_now).  They share _prev_snapshot and   *)
(* _consecutive_failures without a lock; a read or a write of these is one *)
(* step.  The link is "up" when the cloud is reached and answers with 2xx. *)
(*                                                                         *)
(* A snapshot is one of a few levels, any two of which differ by more than *)
(* the thresholds of is_fluctuating.  Its tests of a single snapshot never *)
(* hold: set_network_rtt is called with 0 or -1, update_perf with a queue  *)
(* of 0 or 1 (app.cpp:907-915).  How long the loop waits is a name, not a  *)
(* time.                                                                   *)
(***************************************************************************)
EXTENDS Integers, FiniteSets

CONSTANTS
    Levels,      \* what a snapshot can show
    ZeroLevel,   \* the one that a DeviceSnapshot without values shows
    NoSnapshot,  \* _prev_valid is false
    NoReport,    \* nothing is sent, or the cloud has not heard of the device
    MaxFails,    \* bound: the count of failures stops here
    MaxLate      \* bound: reports under way that their sender has given up

ASSUME LevelsAssumption == ZeroLevel \in Levels /\ NoSnapshot \notin Levels
ASSUME BoundsAssumption == MaxFails \in Nat \ {0} /\ MaxLate \in Nat

Senders == {"loop", "button"}
Reports == [level : Levels, fluctuating : BOOLEAN]
ASSUME ReportsAssumption == NoReport \notin Reports \cup Levels

VARIABLES
    level, link,        \* the device, and the network: "up" or "down"
    running, endpoint,  \* _running; whether _cfg.cloud_endpoint is set
    named,              \* whether _cfg.device_id is: one name, or none
    ui,                 \* the UI thread: "free", "sending" or "joining"
    at,                 \* sender -> where it is
    report, reg,        \* sender -> its snapshot and report, its copy of fails
    wait,               \* the interval that the loop has chosen
    prev,               \* _prev_snapshot and _prev_valid
    fails,              \* _consecutive_failures
    late, cloud         \* what reports given up but under way show; what the cloud's
                        \*   record of the device shows

device == <<level, link>>
config == <<running, endpoint, named>>
work == <<at, report, reg>>
shared == <<prev, fails>>
remote == <<late, cloud>>
vars == <<device, config, ui, work, wait, shared, remote>>

Init ==
    /\ level \in Levels /\ link \in {"up", "down"}
    /\ running = FALSE /\ endpoint = FALSE /\ named = FALSE /\ ui = "free"
    /\ at = [s \in Senders |-> "off"]
    /\ report = [s \in Senders |-> NoReport]
    /\ reg = [s \in Senders |-> 0]
    /\ wait = "long"
    /\ prev = NoSnapshot /\ fails = 0
    /\ late = {} /\ cloud = NoReport

-----------------------------------------------------------------------------
(* The loop.                                                               *)

\* A snapshot, with the answer of is_fluctuating still to come.
Fresh == [level |-> level, fluctuating |-> FALSE]

\* The interval is chosen: the snapshot is compared with the previous one.
LoopSnapshot ==
    /\ at["loop"] = "top" /\ running
    /\ report' = [report EXCEPT !["loop"] = Fresh]
    /\ wait' = IF prev \notin {NoSnapshot, level} THEN "short" ELSE "long"
    /\ at' = [at EXCEPT !["loop"] = "compared"]
    /\ UNCHANGED <<device, config, ui, shared, reg, remote>>

\* It becomes the previous one itself, whatever the button has stored meanwhile.
LoopRemembers ==
    /\ at["loop"] = "compared"
    /\ prev' = report["loop"].level
    /\ at' = [at EXCEPT !["loop"] = "build"]
    /\ UNCHANGED <<device, config, ui, fails, report, reg, wait, remote>>

LoopLeaves ==
    /\ at["loop"] = "top" /\ ~running
    /\ at' = [at EXCEPT !["loop"] = "off"]
    /\ UNCHANGED <<device, config, ui, shared, report, reg, wait, remote>>

\* The interval is over, or running is found false.
LoopWakes ==
    /\ at["loop"] = "wait"
    /\ at' = [at EXCEPT !["loop"] = "top"]
    /\ wait' = "long"
    /\ UNCHANGED <<device, config, ui, shared, report, reg, remote>>

-----------------------------------------------------------------------------
(* build_report_json, send_heartbeat and the count, for either sender.     *)

\* Where a sender goes at the end, and what send_now assigns then.
Done(s) ==
    /\ at' = [at EXCEPT ![s] = IF s = "loop" THEN "wait" ELSE "off"]
    /\ report' = [report EXCEPT ![s] = NoReport]
    /\ prev' = IF s = "button" THEN report[s].level ELSE prev
    /\ ui' = IF s = "button" THEN "free" ELSE ui

\* Mutant: the loop reports a swing only.
Build_IfSwing(s) ==
    /\ at[s] = "build"
    /\ at' = [at EXCEPT ![s] = IF s = "loop" /\ wait = "long" THEN "wait" ELSE "sent"]
    /\ UNCHANGED <<device, config, ui, shared, report, reg, wait, remote>>

\* The report compares the snapshot with the previous one, as it is now.
Build(s) ==
    /\ at[s] = "build"
    /\ report' = [report EXCEPT ![s].fluctuating =
          report[s].level # (IF prev = NoSnapshot THEN ZeroLevel ELSE prev)]
    /\ at' = [at EXCEPT ![s] = "sent"]
    /\ UNCHANGED <<device, config, ui, shared, reg, wait, remote>>

\* update_from_heartbeat: whatever arrives replaces what is there, unless it has no name.
Handle(s) ==
    /\ at[s] = "sent" /\ endpoint /\ link = "up"
    /\ cloud' = IF named THEN report[s].level ELSE cloud
    /\ at' = [at EXCEPT ![s] = "handled"]
    /\ UNCHANGED <<device, config, ui, shared, report, reg, wait, late>>

Answered(s) ==
    /\ at[s] = "handled" /\ link = "up"
    /\ fails' = 0
    /\ Done(s)
    /\ UNCHANGED <<device, config, reg, wait, remote>>

\* Three seconds without an answer, or another status than 2xx (a cloud that records the
\* report and then fails with 503, or is slow, is a link that is up, then down for the
\* answer); without an endpoint nothing is sent at all.  The count is read here, and
\* written in StoreFailure.
GiveUp(s) ==
    /\ at[s] \in {"sent", "handled"}
    /\ endpoint => link = "down"
    /\ \/ UNCHANGED late
       \/ /\ at[s] = "sent" /\ endpoint /\ named /\ Cardinality(late) < MaxLate
          /\ late' = late \cup {report[s].level}
    /\ reg' = [reg EXCEPT ![s] = fails]
    /\ at' = [at EXCEPT ![s] = "failed"]
    /\ UNCHANGED <<device, config, ui, shared, report, wait, cloud>>

StoreFailure(s) ==
    /\ at[s] = "failed"
    /\ fails' = IF reg[s] < MaxFails THEN reg[s] + 1 ELSE MaxFails
    /\ reg' = [reg EXCEPT ![s] = 0]
    /\ Done(s)
    /\ UNCHANGED <<device, config, wait, remote>>

\* A report that its sender has given up reaches the cloud after all, or never.
LateReport ==
    \E l \in late :
        /\ late' = late \ {l}
        /\ cloud' \in {cloud, l}
        /\ UNCHANGED <<device, config, ui, shared, work, wait>>

-----------------------------------------------------------------------------
(* The UI thread: the box and the button of the panel.                     *)

\* Mutant: start does not ask whether the loop runs.
Start_Again ==
    /\ ui = "free"
    /\ running' = TRUE /\ endpoint' \in BOOLEAN /\ named' \in BOOLEAN
    /\ at' = [at EXCEPT !["loop"] = "top"]
    /\ UNCHANGED <<device, ui, shared, report, reg, wait, remote>>

\* configure and start; the loop before has been joined.
Start ==
    /\ ui = "free" /\ ~running
    /\ running' = TRUE /\ endpoint' \in BOOLEAN /\ named' \in BOOLEAN
    /\ at' = [at EXCEPT !["loop"] = "top"]
    /\ UNCHANGED <<device, ui, shared, report, reg, wait, remote>>

\* Mutant: stop only joins.
Stop_OnlyJoins ==
    /\ ui = "free" /\ running
    /\ ui' = "joining"
    /\ UNCHANGED <<device, config, shared, work, wait, remote>>

Stop ==
    /\ ui = "free" /\ running
    /\ running' = FALSE
    /\ ui' = "joining"
    /\ UNCHANGED <<device, endpoint, named, shared, work, wait, remote>>

\* Mutant: the loop is not joined.
Joined_Early ==
    /\ ui = "joining"
    /\ ui' = "free"
    /\ UNCHANGED <<device, config, shared, work, wait, remote>>

Joined ==
    /\ ui = "joining" /\ at["loop"] = "off"
    /\ ui' = "free"
    /\ UNCHANGED <<device, config, shared, work, wait, remote>>

\* send_now; nobody asks whether the loop runs or an endpoint is set.
ButtonSnapshot ==
    /\ ui = "free"
    /\ report' = [report EXCEPT !["button"] = Fresh]
    /\ at' = [at EXCEPT !["button"] = "build"]
    /\ ui' = "sending"
    /\ UNCHANGED <<device, config, shared, reg, wait, remote>>

\* The device and the network change; set_network_rtt and update_perf bring it here.
Environment ==
    /\ level' \in Levels /\ link' \in {"up", "down"}
    /\ UNCHANGED <<config, ui, work, wait, shared, remote>>

Sending(s) == Build(s) \/ Handle(s) \/ Answered(s) \/ GiveUp(s) \/ StoreFailure(s)
Loop == LoopSnapshot \/ LoopRemembers \/ LoopLeaves \/ LoopWakes \/ Sending("loop")

Next ==
    \/ Loop \/ Sending("button") \/ LateReport
    \/ Start \/ Stop \/ Joined \/ ButtonSnapshot \/ Environment

\* Both threads run, a good link delivers, and what is under way arrives or is lost.
Fairness ==
    /\ WF_vars(Loop) /\ WF_vars(Sending("button")) /\ WF_vars(Joined)
    /\ WF_vars(LateReport)

Spec == Init /\ [][Next]_vars /\ Fairness

-----------------------------------------------------------------------------
(* Properties.                                                             *)

\* Every variable has its type, and a sender has a report while it needs one.
TypeOK ==
    /\ level \in Levels /\ link \in {"up", "down"}
    /\ running \in BOOLEAN /\ endpoint \in BOOLEAN /\ named \in BOOLEAN
    /\ ui \in {"free", "sending", "joining"}
    /\ at \in [Senders -> {"off", "top", "compared", "build", "sent", "handled", "failed",
                           "wait"}]
    /\ at["button"] \notin {"top", "compared", "wait"}
    /\ report \in [Senders -> Reports \cup {NoReport}]
    /\ \A s \in Senders : report[s] = NoReport <=> at[s] \in {"off", "top", "wait"}
    /\ reg \in [Senders -> 0..MaxFails]
    /\ wait \in {"short", "long"}
    /\ prev \in Levels \cup {NoSnapshot} /\ fails \in 0..MaxFails
    /\ late \subseteq Levels /\ cloud \in Levels \cup {NoReport}

\* stop returns when the loop has left, so there is one loop at most, and the button
\* is the only other sender (heartbeat.cpp:25-35): whatever the box is used for, while
\* the UI thread does not wait in stop the loop runs exactly when _running says so.
OneLoop ==
    /\ ui # "joining" => (running <=> at["loop"] # "off")
    /\ ui = "sending" <=> at["button"] # "off"

\* On a link that stays good an outage is forgotten at both ends.  The cloud knows the
\* state of a device that keeps its state and has a name, although reports that were
\* given up arrive late and overwrite newer ones (device_state.py:30-80); no failure is
\* counted any more, although the two senders read and write the count without a lock
\* (heartbeat.cpp:78, 111).
CloudConverges ==
    \A l \in Levels :
        <>[](level = l /\ link = "up" /\ running /\ endpoint /\ named)
            => <>[](cloud = l /\ fails = 0)

\* Unchecking the box does not freeze the program: stop's join returns.
StopReturns == (ui = "joining") ~> (ui = "free")

\* "is_fluctuating" (CLOUD_EDGE_COMMUNICATION.md:113, and what the cloud does with it
\* :134): a report sent after a swing that makes the loop wait for a short time only
\* says that there was one.
SwingReported ==
    (at["loop"] = "sent" /\ wait = "short") => report["loop"].fluctuating

=============================================================================
