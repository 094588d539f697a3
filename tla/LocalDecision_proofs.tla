------------------------ MODULE LocalDecision_proofs ------------------------
(***************************************************************************)
(* Proofs about LocalDecision for any thresholds and any size of the log:  *)
(* TypeOK, LogIsRecent and OutlivesRecovery are invariants.  Together they *)
(* are inductive.  One lemma has what an assessment does, one each of the  *)
(* two steps that end with one; the others leave the journal alone.        *)
(* Then what the program can never do, and the states that last: what is   *)
(* found of a link stays found as long as the link stays what it is.       *)
(***************************************************************************)
EXTENDS LocalDecision, SequenceTheorems, TLAPS

Conditions == {"Healthy", "Degraded", "Offline"}
Entries == [no : Nat, condition : {"Degraded", "Offline"},
            action : {"LocalInfer", "QueueForCloud", "P2PConsensus"}]

\* The parts of the type invariant.
NetworkOK ==
    /\ link \in Links /\ heartbeats \in BOOLEAN /\ endpoint \in BOOLEAN
    /\ doomed \in 0..2 /\ fails \in 0..OfflineFails /\ reachable \in BOOLEAN
ThreadOK ==
    /\ ui \in {"free", "update", "message"} /\ rtt \in {"fast", "slow", "none"}
    /\ seen \in {"nothing", "yes", "no"} /\ (ui = "free" => seen = "nothing")
KnownOK ==
    /\ threshold \in Thresholds /\ condition \in Conditions
    /\ noticedBy \in {"update", "message"}
JournalOK == log \in Seq(Entries) /\ made \in Nat /\ flushed \in 0..made

IInv == NetworkOK /\ ThreadOK /\ KnownOK /\ JournalOK /\ LogIsRecent /\ OutlivesRecovery

\* The invariant is what the run local_decision checks.
LEMMA IInvParts == IInv <=> TypeOK /\ LogIsRecent /\ OutlivesRecovery
BY DEF IInv, TypeOK, NetworkOK, ThreadOK, KnownOK, JournalOK, Conditions, Entries

-----------------------------------------------------------------------------
\* The invariant holds at the start, offline and with nothing logged.
LEMMA InitIInv == Init => IInv
<1> SUFFICES ASSUME Init PROVE IInv
  OBVIOUS
<1>1. NetworkOK /\ ThreadOK /\ KnownOK
  <2>1. 0 \in 0..OfflineFails
    BY FailsAssumption
  <2>2. /\ fails \in 0..OfflineFails /\ doomed \in 0..2 /\ link \in Links
        /\ threshold \in Thresholds
    BY <2>1 DEF Init
  <2>3. heartbeats \in BOOLEAN /\ endpoint \in BOOLEAN /\ reachable \in BOOLEAN
    BY DEF Init
  <2>4. ThreadOK /\ condition \in Conditions /\ noticedBy \in {"update", "message"}
    BY DEF Init, ThreadOK, Conditions
  <2> QED  BY <2>2, <2>3, <2>4 DEF NetworkOK, KnownOK
<1>2. log = <<>> /\ made = 0 /\ flushed = 0 /\ noticedBy = "update"
  BY DEF Init
<1>3. <<>> \in Seq(Entries) /\ Len(<<>>) = 0 /\ DOMAIN <<>> = 1..0
  BY EmptySeq
<1>4. JournalOK
  BY <1>2, <1>3 DEF JournalOK
<1>5. LogIsRecent
  BY <1>2, <1>3, SizesAssumption DEF LogIsRecent
<1>6. OutlivesRecovery
  BY <1>2 DEF OutlivesRecovery
<1> QED  BY <1>1, <1>4, <1>5, <1>6 DEF IInv

\* A step that leaves the journal and the condition alone keeps what is about them.
LEMMA JournalAlone ==
    ASSUME IInv, UNCHANGED <<condition, journal, noticedBy>>
    PROVE  JournalOK' /\ LogIsRecent' /\ OutlivesRecovery'
BY DEF IInv, JournalOK, LogIsRecent, OutlivesRecovery, journal

\* An assessment keeps the invariant, whichever state of the network it finds.
LEMMA AssessKeeps ==
    ASSUME IInv, Assess, ui \in {"update", "message"}
    PROVE  /\ NetworkOK' /\ ThreadOK' /\ KnownOK'
           /\ condition' = condition => noticedBy' = noticedBy
           /\ condition' # condition => noticedBy' = ui
<1>1. assess_network \in Conditions
  BY DEF assess_network, Conditions
<1>2. condition' \in Conditions
  BY <1>1 DEF Assess
<1>3. /\ UNCHANGED <<network, threshold>> /\ ui' = "free" /\ rtt' = "none" /\ seen' = "nothing"
      /\ noticedBy' = IF condition' = condition THEN noticedBy ELSE ui
  BY DEF Assess
<1>4. NetworkOK'
  BY <1>3 DEF IInv, NetworkOK, network, sender
<1> QED  BY <1>2, <1>3, <1>4 DEF IInv, ThreadOK, KnownOK

\* A decision is the newest entry, and pushes out the oldest when there is no room.
LEMMA DecideKeeps ==
    ASSUME IInv, NEW c \in {"Degraded", "Offline"}, decide(c), flushed' = flushed
    PROVE  JournalOK' /\ LogIsRecent'
<1> USE SizesAssumption
<1> DEFINE e == [no |-> made + 1, condition |-> c, action |-> Action(c)]
           kept == IF Len(log) < MaxLog THEN log ELSE Tail(log)
           since == made - flushed
<1>1. log \in Seq(Entries) /\ made \in Nat /\ flushed \in Nat /\ since \in Nat
  BY DEF IInv, JournalOK
<1>2. Action(c) \in {"LocalInfer", "QueueForCloud", "P2PConsensus"}
  BY DEF Action
<1>3. e \in Entries /\ e.no = made + 1
  BY <1>1, <1>2 DEF Entries
<1>4. Len(log) \in Nat /\ DOMAIN log = 1..Len(log)
  BY <1>1, LenProperties
<1>5. /\ Len(log) = IF since < MaxLog THEN since ELSE MaxLog
      /\ \A i \in 1..Len(log) : log[i].no = made - Len(log) + i
  BY <1>4 DEF IInv, LogIsRecent
<1>6. /\ kept \in Seq(Entries)
      /\ Len(kept) = IF since < MaxLog THEN since ELSE MaxLog - 1
      /\ \A i \in 1..Len(kept) : kept[i].no = made - Len(kept) + i
  <2>1. CASE Len(log) < MaxLog
    <3>1. kept = log
      BY <2>1
    <3> HIDE DEF kept
    <3> QED  BY <2>1, <3>1, <1>1, <1>4, <1>5
  <2>2. CASE ~(Len(log) < MaxLog)
    <3>1. kept = Tail(log) /\ Len(log) = MaxLog /\ ~(since < MaxLog)
      BY <2>2, <1>1, <1>4, <1>5
    <3>2. log # <<>>
      BY <3>1, <1>1, EmptySeq
    <3>3. /\ Tail(log) \in Seq(Entries) /\ Len(Tail(log)) = Len(log) - 1
          /\ \A i \in 1..Len(Tail(log)) : Tail(log)[i] = log[i + 1]
      BY <3>2, <1>1, HeadTailProperties, Zenon
    <3> HIDE DEF kept, since
    <3>4. Len(kept) = MaxLog - 1 /\ Len(kept) \in Nat
      BY <3>1, <3>3
    <3>5. ASSUME NEW i \in 1..Len(kept) PROVE kept[i].no = made - Len(kept) + i
      <4>1. kept[i] = log[i + 1] /\ i + 1 \in 1..Len(log)
        BY <3>1, <3>3, <3>4
      <4>2. log[i + 1].no = made - Len(log) + (i + 1)
        BY <4>1, <1>5
      <4>3. Len(log) = Len(kept) + 1 /\ i \in Nat /\ made \in Nat
        BY <3>1, <3>4, <1>1
      <4>4. made - Len(log) + (i + 1) = made - Len(kept) + i
        BY <4>3, <3>4
      <4> QED  BY <4>1, <4>2, <4>4
    <3> QED  BY <3>1, <3>3, <3>4, <3>5
  <2> QED  BY <2>1, <2>2
<1>7. log' = Append(kept, e) /\ made' = made + 1
  BY DEF decide, Logged
<1> HIDE DEF e, kept
<1>8. \A s \in Seq(Entries), n \in Entries :
        /\ Append(s, n) \in Seq(Entries) /\ Len(Append(s, n)) = Len(s) + 1
        /\ \A i \in 1..Len(s) : Append(s, n)[i] = s[i]
        /\ Append(s, n)[Len(s) + 1] = n
  BY AppendProperties
<1>9. /\ log' \in Seq(Entries) /\ Len(log') = Len(kept) + 1
      /\ \A i \in 1..Len(kept) : log'[i] = kept[i]
      /\ log'[Len(kept) + 1] = e
  BY <1>3, <1>6, <1>7, <1>8, Zenon
<1>10. DOMAIN log' = 1..Len(log') /\ Len(kept) \in Nat
  BY <1>6, <1>9, LenProperties
<1>11. JournalOK'
  BY <1>1, <1>7, <1>9 DEF IInv, JournalOK
<1>12. Len(log') = IF made' - flushed' < MaxLog THEN made' - flushed' ELSE MaxLog
  BY <1>1, <1>6, <1>7, <1>9
<1>13. \A i \in 1..Len(log') : log'[i].no = made' - Len(log') + i
  <2> TAKE i \in 1..Len(log')
  <2>1. made' - Len(log') = made - Len(kept) /\ i \in Nat
    BY <1>1, <1>7, <1>9, <1>10
  <2>2. CASE i = Len(kept) + 1
    <3>1. log'[i].no = made + 1
      BY <2>2, <1>3, <1>9
    <3> QED  BY <3>1, <2>1, <2>2, <1>1, <1>10
  <2>3. CASE i \in 1..Len(kept)
    BY <2>1, <2>3, <1>6, <1>9
  <2> QED  BY <2>2, <2>3, <1>9, <1>10
<1> QED  BY <1>10, <1>11, <1>12, <1>13 DEF LogIsRecent

\* The update of once a second keeps the invariant, with its flush or without.
LEMMA UpdateKeeps ==
    ASSUME IInv, UpdateMetrics
    PROVE  IInv'
<1>1. ui = "update" /\ Assess /\ made' = made
  BY DEF UpdateMetrics
<1>2. /\ NetworkOK' /\ ThreadOK' /\ KnownOK'
      /\ condition' = condition => noticedBy' = noticedBy
  BY <1>1, AssessKeeps
<1>3. CASE Recovers
  <2>1. log' = <<>> /\ flushed' = made
    BY <1>3 DEF UpdateMetrics
  <2>2. <<>> \in Seq(Entries) /\ Len(<<>>) = 0 /\ DOMAIN <<>> = 1..0
    BY EmptySeq
  <2>3. made \in Nat
    BY DEF IInv, JournalOK
  <2>4. JournalOK'
    BY <1>1, <2>1, <2>2, <2>3 DEF JournalOK
  <2>5. LogIsRecent'
    BY <1>1, <2>1, <2>2, <2>3, SizesAssumption DEF LogIsRecent
  <2>6. OutlivesRecovery'
    BY <2>1 DEF OutlivesRecovery
  <2> QED  BY <1>2, <2>4, <2>5, <2>6 DEF IInv
<1>4. CASE ~Recovers
  <2>1. log' = log /\ flushed' = flushed
    BY <1>4 DEF UpdateMetrics
  <2>2. JournalOK' /\ LogIsRecent'
    BY <1>1, <2>1 DEF IInv, JournalOK, LogIsRecent
  <2>3. OutlivesRecovery'
    BY <1>2, <1>4, <2>1 DEF IInv, OutlivesRecovery, Recovers
  <2> QED  BY <1>2, <2>2, <2>3 DEF IInv
<1> QED  BY <1>3, <1>4

\* A message keeps the invariant, whether a decision is logged or not.
LEMMA SubmitKeeps ==
    ASSUME IInv, SubmitMessage
    PROVE  IInv'
<1>1. ui = "message" /\ Assess /\ flushed' = flushed
  BY DEF SubmitMessage
<1>2. /\ NetworkOK' /\ ThreadOK' /\ KnownOK'
      /\ condition' = condition => noticedBy' = noticedBy
      /\ condition' # condition => noticedBy' = "message"
  BY <1>1, AssessKeeps
<1>3. CASE condition' # "Healthy"
  <2> DEFINE c == condition'
  <2>1. c \in {"Degraded", "Offline"} /\ decide(c)
    BY <1>2, <1>3 DEF KnownOK, Conditions, SubmitMessage
  <2> HIDE DEF c
  <2>2. JournalOK' /\ LogIsRecent'
    BY <1>1, <2>1, DecideKeeps
  <2>3. OutlivesRecovery'
    BY <1>3 DEF OutlivesRecovery
  <2> QED  BY <1>2, <2>2, <2>3 DEF IInv
<1>4. CASE condition' = "Healthy"
  <2>1. log' = log /\ made' = made
    BY <1>4 DEF SubmitMessage
  <2>2. JournalOK' /\ LogIsRecent'
    BY <1>1, <2>1 DEF IInv, JournalOK, LogIsRecent
  <2>3. OutlivesRecovery'
    BY <1>2, <1>4, <2>1 DEF IInv, OutlivesRecovery
  <2> QED  BY <1>2, <2>2, <2>3 DEF IInv
<1> QED  BY <1>3, <1>4

\* Every step of the panels, the heartbeats and the client keeps the invariant.
LEMMA StepIInv == IInv /\ [Next]_vars => IInv'
<1> SUFFICES ASSUME IInv, [Next]_vars PROVE IInv'
  OBVIOUS
<1>1. ASSUME NEW who \in {"update", "message"}, Measure(who) PROVE IInv'
  <2>1. rtt' \in {"fast", "slow", "none"} /\ ui' = who /\ seen' = seen
    BY <1>1, Zenon DEF Measure, Measured
  <2> QED  BY <1>1, <2>1, JournalAlone
           DEF Measure, IInv, NetworkOK, ThreadOK, KnownOK, network, sender
<1>2. CASE UpdateMetrics
  BY <1>2, UpdateKeeps
<1>3. CASE SubmitMessage
  BY <1>3, SubmitKeeps
<1>4. ASSUME NetworkOK', UNCHANGED <<thread, threshold, condition, journal, noticedBy>>
      PROVE  IInv'
  BY <1>4, JournalAlone DEF IInv, ThreadOK, KnownOK, thread
<1>5. CASE ToggleHeartbeats
  <2>1. NetworkOK'
    BY <1>5 DEF ToggleHeartbeats, IInv, NetworkOK
  <2> QED  BY <1>4, <1>5, <2>1 DEF ToggleHeartbeats
<1>6. CASE HeartbeatSucceeds
  <2>1. NetworkOK'
    BY <1>6, FailsAssumption DEF HeartbeatSucceeds, IInv, NetworkOK, sender
  <2> QED  BY <1>4, <1>6, <2>1 DEF HeartbeatSucceeds
<1>7. CASE HeartbeatFails
  <2>1. NetworkOK'
    BY <1>7, FailsAssumption DEF HeartbeatFails, IInv, NetworkOK, sender
  <2> QED  BY <1>4, <1>7, <2>1 DEF HeartbeatFails
<1>8. CASE RequestFails
  <2>1. NetworkOK'
    BY <1>8 DEF RequestFails, IInv, NetworkOK, sender
  <2> QED  BY <1>4, <1>8, <2>1 DEF RequestFails
<1>9. CASE LinkChanges
  <2>1. NetworkOK'
    BY <1>9 DEF LinkChanges, IInv, NetworkOK, sender
  <2> QED  BY <1>4, <1>9, <2>1 DEF LinkChanges
<1>10. CASE CheckHealth
  <2>1. reachable' \in BOOLEAN
    BY <1>10, Zenon DEF CheckHealth
  <2>2. NetworkOK'
    BY <1>10, <2>1 DEF CheckHealth, IInv, NetworkOK, sender
  <2> QED  BY <1>4, <1>10, <2>2 DEF CheckHealth
<1>11. CASE update_cloud_params
  BY <1>11, JournalAlone
     DEF update_cloud_params, IInv, NetworkOK, ThreadOK, KnownOK, network, sender, thread
<1>12. CASE UNCHANGED vars
  BY <1>12, JournalAlone
     DEF vars, IInv, NetworkOK, ThreadOK, KnownOK, network, sender, thread
<1>13. CASE ReadReachable
  BY <1>13, JournalAlone
     DEF ReadReachable, IInv, NetworkOK, ThreadOK, KnownOK, network, sender
<1>14. CASE HeartbeatDoomed
  <2>1. NetworkOK'
    BY <1>14 DEF HeartbeatDoomed, IInv, NetworkOK, sender
  <2> QED  BY <1>4, <1>14, <2>1 DEF HeartbeatDoomed
<1> QED  BY <1>1, <1>2, <1>3, <1>5, <1>6, <1>7, <1>8, <1>9, <1>10, <1>11, <1>12,
            <1>13, <1>14 DEF Next, App

\* The invariants of LocalDecision, whoever calls its components.
THEOREM AllInvariants == Spec => [](TypeOK /\ LogIsRecent /\ OutlivesRecovery)
<1>1. Init => IInv
  BY InitIInv
<1>2. IInv /\ [Next]_vars => IInv'
  BY StepIInv
<1>3. IInv => TypeOK /\ LogIsRecent /\ OutlivesRecovery
  BY IInvParts
<1> QED  BY <1>1, <1>2, <1>3, PTL DEF Spec

\* Every reachable state of LocalDecision is of its type.
THEOREM TypeCorrect == Spec => []TypeOK
BY AllInvariants, PTL

\* The log of decisions holds the newest since the last flush, for any limit.
THEOREM LogIsRecentAlways == Spec => []LogIsRecent
BY AllInvariants, PTL

\* Decisions are left after a recovery only when a message has noticed it first.
THEOREM OutlivesRecoveryAlways == Spec => []OutlivesRecovery
BY AllInvariants, PTL

-----------------------------------------------------------------------------
(* The program, in which nobody checks the health of the cloud.            *)

\* A decision that was made offline and does not wait for the cloud.
OfflineEntries == [no : Nat, condition : {"Offline"}, action : {"LocalInfer", "P2PConsensus"}]

\* In the program the cloud is never reachable: no assessment finds the network healthy
\* or degraded, nothing is queued for the cloud and the log is never flushed
\* (app.cpp:772-804, 919-935; only edge_cloud.cpp:141 could set _reachable).
CloudForgotten ==
    /\ ~reachable /\ seen # "yes" /\ condition # "Degraded"
    /\ condition = "Healthy" => log = <<>>
    /\ log \in Seq(OfflineEntries) /\ flushed = 0

\* The program without check_health has the same invariant.
LEMMA AppIInv == AppSpec => []IInv
<1>1. Init => IInv
  BY InitIInv
<1>2. IInv /\ [App]_vars => IInv'
  BY StepIInv DEF Next
<1> QED  BY <1>1, <1>2, PTL DEF AppSpec

\* While the client believes the cloud unreachable, every assessment says so.
LEMMA AssessOffline ==
    ASSUME IInv, CloudForgotten, Assess
    PROVE  condition' = "Offline" /\ ~reachable' /\ seen' # "yes"
<1>1. seen = "no"
  BY DEF IInv, ThreadOK, CloudForgotten, Assess
<1> QED  BY <1>1 DEF Assess, assess_network, network, CloudForgotten

\* A decision made offline is logged as one, and the log stays one of such decisions.
LEMMA DecideOffline ==
    ASSUME IInv, log \in Seq(OfflineEntries), decide("Offline")
    PROVE  log' \in Seq(OfflineEntries)
<1> USE SizesAssumption
<1> DEFINE e == [no |-> made + 1, condition |-> "Offline", action |-> Action("Offline")]
<1>1. e \in OfflineEntries
  <2>1. Action("Offline") \in {"LocalInfer", "P2PConsensus"} /\ made + 1 \in Nat
    BY DEF Action, IInv, JournalOK
  <2> QED  BY <2>1 DEF OfflineEntries
<1>2. (IF Len(log) < MaxLog THEN log ELSE Tail(log)) \in Seq(OfflineEntries)
  <2>1. CASE Len(log) < MaxLog
    BY <2>1
  <2>2. CASE ~(Len(log) < MaxLog)
    <3>1. log # <<>>
      BY <2>2, EmptySeq
    <3>2. Tail(log) \in Seq(OfflineEntries)
      BY <3>1, HeadTailProperties, Zenon
    <3> QED  BY <2>2, <3>2
  <2> QED  BY <2>1, <2>2
<1>3. log' = Append(IF Len(log) < MaxLog THEN log ELSE Tail(log), e)
  BY DEF decide, Logged
<1> HIDE DEF e
<1> QED  BY <1>1, <1>2, <1>3, AppendProperties, Zenon

\* No step of the program leads back from the state it starts in.
LEMMA ForgottenStep ==
    ASSUME IInv, CloudForgotten, [App]_vars
    PROVE  CloudForgotten' /\ (condition = "Offline" => condition' = "Offline")
<1>1. ASSUME reachable' = FALSE, seen' # "yes", UNCHANGED <<condition, journal>>
      PROVE  CloudForgotten' /\ (condition = "Offline" => condition' = "Offline")
  BY <1>1 DEF CloudForgotten, journal
<1>2. CASE UpdateMetrics
  <2>1. condition' = "Offline" /\ ~reachable' /\ seen' # "yes"
    BY <1>2, AssessOffline DEF UpdateMetrics
  <2>2. UNCHANGED <<log, flushed>>
    BY <1>2, <2>1 DEF UpdateMetrics, Recovers
  <2> QED  BY <2>1, <2>2 DEF CloudForgotten
<1>3. CASE SubmitMessage
  <2>1. condition' = "Offline" /\ ~reachable' /\ seen' # "yes"
    BY <1>3, AssessOffline DEF SubmitMessage
  <2>2. decide("Offline") /\ flushed' = flushed
    BY <1>3, <2>1 DEF SubmitMessage
  <2>3. log' \in Seq(OfflineEntries)
    BY <2>2, DecideOffline DEF CloudForgotten
  <2> QED  BY <2>1, <2>2, <2>3 DEF CloudForgotten
<1>4. CASE Measure("update") \/ Measure("message") \/ ReadReachable
  BY <1>1, <1>4 DEF Measure, ReadReachable, CloudForgotten, network, IInv, NetworkOK
<1>5. CASE \/ ToggleHeartbeats \/ HeartbeatSucceeds \/ HeartbeatDoomed
           \/ HeartbeatFails \/ LinkChanges
  BY <1>1, <1>5 DEF ToggleHeartbeats, HeartbeatSucceeds, HeartbeatDoomed, HeartbeatFails,
                    LinkChanges, CloudForgotten, IInv, NetworkOK, thread
<1>6. CASE RequestFails
  BY <1>1, <1>6 DEF RequestFails, CloudForgotten, thread
<1>7. CASE UNCHANGED vars
  BY <1>1, <1>7 DEF vars, CloudForgotten, network, thread, IInv, NetworkOK
<1> QED  BY <1>2, <1>3, <1>4, <1>5, <1>6, <1>7 DEF App

\* Once the program has found its network offline it never finds anything else again,
\* however good the link: what app_reconnects shows of one instance (app.cpp:772-776).
THEOREM OfflineForEver ==
    AppSpec => []CloudForgotten /\ [](condition = "Offline" => [](condition = "Offline"))
<1>1. Init => CloudForgotten
  <2>1. <<>> \in Seq(OfflineEntries)
    BY EmptySeq
  <2> QED  BY <2>1 DEF Init, CloudForgotten
<1>2. IInv /\ CloudForgotten /\ [App]_vars
        => CloudForgotten' /\ (condition = "Offline" => (condition = "Offline")')
  BY ForgottenStep
<1>3. AppSpec => []IInv
  BY AppIInv
<1> QED  BY <1>1, <1>2, <1>3, PTL DEF AppSpec

-----------------------------------------------------------------------------
(* What lasts as long as the link does.                                    *)

\* The outage is known, and the UI thread holds no measurement from before it.
OutageKnown == condition = "Offline" /\ rtt = "none"

\* An outage that has been noticed is not forgotten before it is over, whatever
\* heartbeats, requests and checks of the health do meanwhile (app.cpp:919-935): with
\* OutageKnown reached, OutageNoticed needs no fairness.
THEOREM OutageLasts ==
    Spec => [](OutageKnown /\ [](link = "down") => []OutageKnown)
<1>1. OutageKnown /\ link = "down" /\ [Next]_vars => OutageKnown'
  <2> SUFFICES ASSUME OutageKnown, link = "down", [Next]_vars PROVE OutageKnown'
    OBVIOUS
  <2>1. CASE UpdateMetrics \/ SubmitMessage
    BY <2>1 DEF UpdateMetrics, SubmitMessage, Assess, assess_network, OutageKnown
  <2>2. CASE Measure("update") \/ Measure("message")
    BY <2>2 DEF Measure, Measured, OutageKnown
  <2>3. CASE \/ ReadReachable \/ ToggleHeartbeats \/ HeartbeatSucceeds \/ HeartbeatDoomed
             \/ HeartbeatFails \/ RequestFails
    BY <2>3 DEF ReadReachable, ToggleHeartbeats, HeartbeatSucceeds, HeartbeatDoomed,
                HeartbeatFails, RequestFails, thread, OutageKnown
  <2>4. CASE LinkChanges \/ CheckHealth \/ update_cloud_params \/ UNCHANGED vars
    BY <2>4 DEF LinkChanges, CheckHealth, update_cloud_params, vars, thread, OutageKnown
  <2> QED  BY <2>1, <2>2, <2>3, <2>4 DEF Next, App
<1> QED  BY <1>1, PTL DEF Spec

\* The recovery is known, and nothing is left from before it: no failure is counted or on
\* its way, and the UI thread holds no older measurement or answer.
RecoveryKnown ==
    /\ condition = "Healthy" /\ fails = 0 /\ doomed = 0 /\ reachable
    /\ seen # "no" /\ (ui # "free" => rtt = "fast")

\* A recovery that has been noticed lasts as long as the link is good and no request of
\* the client fails (CLOUD_EDGE_COMMUNICATION.md:503-506, edge_cloud.cpp:417-432): with
\* RecoveryKnown reached, RecoveryNoticed needs no fairness.
THEOREM RecoveryLasts ==
    Spec => [](RecoveryKnown /\ [](GoodLink /\ reachable) => []RecoveryKnown)
<1> DEFINE Stays == GoodLink /\ reachable
<1>1. RecoveryKnown /\ Stays /\ Stays' /\ [Next]_vars => RecoveryKnown'
  <2> SUFFICES ASSUME RecoveryKnown, Stays, Stays', [Next]_vars PROVE RecoveryKnown'
    OBVIOUS
  <2>1. CASE UpdateMetrics \/ SubmitMessage
    <3>1. Assess /\ rtt = "fast"
      BY <2>1 DEF UpdateMetrics, SubmitMessage, RecoveryKnown
    <3>2. assess_network = "Healthy"
      BY <3>1, FailsAssumption DEF assess_network, RecoveryKnown
    <3> QED  BY <3>1, <3>2 DEF Assess, network, RecoveryKnown
  <2>2. CASE Measure("update") \/ Measure("message")
    BY <2>2 DEF Measure, Measured, network, RecoveryKnown, GoodLink
  <2>3. CASE ReadReachable
    BY <2>3 DEF ReadReachable, network, RecoveryKnown
  <2>4. CASE ToggleHeartbeats \/ HeartbeatSucceeds
    BY <2>4 DEF ToggleHeartbeats, HeartbeatSucceeds, thread, RecoveryKnown
  <2>5. ~HeartbeatDoomed /\ ~HeartbeatFails /\ ~RequestFails
    BY DEF HeartbeatDoomed, HeartbeatFails, RequestFails, RecoveryKnown, GoodLink
  <2>6. CASE LinkChanges \/ CheckHealth \/ update_cloud_params \/ UNCHANGED vars
    BY <2>6 DEF LinkChanges, CheckHealth, update_cloud_params, vars, network, thread,
                RecoveryKnown
  <2> QED  BY <2>1, <2>2, <2>3, <2>4, <2>5, <2>6 DEF Next, App
<1> HIDE DEF Stays
<1>2. Spec => [](RecoveryKnown /\ []Stays => []RecoveryKnown)
  BY <1>1, PTL DEF Spec
<1> QED  BY <1>2 DEF Stays

=============================================================================
