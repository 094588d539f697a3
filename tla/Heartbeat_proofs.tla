-------------------------- MODULE Heartbeat_proofs --------------------------
(***************************************************************************)
(* Proofs about Heartbeat for any levels and any bounds: TypeOK and        *)
(* OneLoop are invariants.  They are inductive with one more fact, that    *)
(* the UI thread joins the loop only when running is false (Stops): it is  *)
(* what makes a second loop impossible, Start asks for running only.       *)
(* From the same invariant: what has converged lasts, the loop reports no  *)
(* swing, and stop waits for one heartbeat at most.                        *)
(***************************************************************************)
EXTENDS Heartbeat, TLAPS

Places == {"off", "top", "compared", "build", "sent", "handled", "failed", "wait"}

\* The parts of the type invariant.
DeviceOK ==
    /\ level \in Levels /\ link \in {"up", "down"}
    /\ late \subseteq Levels /\ cloud \in Levels \cup {NoReport}
ConfigOK == running \in BOOLEAN /\ endpoint \in BOOLEAN /\ named \in BOOLEAN
CountsOK ==
    /\ ui \in {"free", "sending", "joining"} /\ wait \in {"short", "long"}
    /\ prev \in Levels \cup {NoSnapshot} /\ fails \in 0..MaxFails
    /\ reg \in [Senders -> 0..MaxFails]
PlacesOK == at \in [Senders -> Places] /\ at["button"] \notin {"top", "compared", "wait"}
ReportsOK ==
    /\ report \in [Senders -> Reports \cup {NoReport}]
    /\ \A s \in Senders : report[s] = NoReport <=> at[s] \in {"off", "top", "wait"}

Stops == ui = "joining" => ~running

IInv == DeviceOK /\ ConfigOK /\ CountsOK /\ PlacesOK /\ ReportsOK /\ OneLoop /\ Stops

\* The invariant implies the properties that the run heartbeat checks.
LEMMA IInvParts == IInv => TypeOK /\ OneLoop
BY DEF IInv, TypeOK, DeviceOK, ConfigOK, CountsOK, PlacesOK, ReportsOK, Places

\* "No report" is neither a report nor a level.
LEMMA NoReportIsNone == NoReport \notin Reports /\ NoReport \notin Levels
BY ReportsAssumption

\* The invariant holds before the first start.
LEMMA InitIInv == Init => IInv
<1> SUFFICES ASSUME Init PROVE IInv
  OBVIOUS
<1>1. DeviceOK /\ ConfigOK
  BY DEF Init, DeviceOK, ConfigOK
<1>2. CountsOK
  BY BoundsAssumption DEF Init, CountsOK
<1>3. PlacesOK
  BY DEF Init, PlacesOK, Places, Senders
<1>4. ReportsOK
  BY DEF Init, ReportsOK
<1>5. OneLoop /\ Stops
  BY DEF Init, OneLoop, Stops, Senders
<1> QED  BY <1>1, <1>2, <1>3, <1>4, <1>5 DEF IInv

-----------------------------------------------------------------------------
(* What a step of a sender does to the functions.                          *)

\* A sender moves, and its report stays or is no longer needed.
LEMMA Moves ==
    ASSUME IInv, NEW s \in Senders, NEW p \in Places,
           at' = [at EXCEPT ![s] = p],
           s = "button" => p \notin {"top", "compared", "wait"},
           NEW r \in Reports \cup {NoReport},
           report' = [report EXCEPT ![s] = r],
           r = NoReport <=> p \in {"off", "top", "wait"}
    PROVE  PlacesOK' /\ ReportsOK'
<1>1. at \in [Senders -> Places] /\ report \in [Senders -> Reports \cup {NoReport}]
  BY DEF IInv, PlacesOK, ReportsOK
<1>2. /\ at' \in [Senders -> Places] /\ at'[s] = p
      /\ \A t \in Senders : t # s => at'[t] = at[t]
  BY <1>1
<1>3. /\ report' \in [Senders -> Reports \cup {NoReport}] /\ report'[s] = r
      /\ \A t \in Senders : t # s => report'[t] = report[t]
  BY <1>1
<1>4. "button" \in Senders
  BY DEF Senders
<1>5. at'["button"] \notin {"top", "compared", "wait"}
  BY <1>2, <1>4 DEF IInv, PlacesOK
<1>6. ASSUME NEW t \in Senders
      PROVE  report'[t] = NoReport <=> at'[t] \in {"off", "top", "wait"}
  <2>1. report[t] = NoReport <=> at[t] \in {"off", "top", "wait"}
    BY DEF IInv, ReportsOK
  <2> QED  BY <2>1, <1>2, <1>3
<1> QED  BY <1>2, <1>3, <1>5, <1>6 DEF PlacesOK, ReportsOK

\* The same, when the report is left alone.
LEMMA MovesOnly ==
    ASSUME IInv, NEW s \in Senders, NEW p \in Places,
           at' = [at EXCEPT ![s] = p], UNCHANGED report,
           s = "button" => p \notin {"top", "compared", "wait"},
           p \in {"off", "top", "wait"} <=> at[s] \in {"off", "top", "wait"}
    PROVE  PlacesOK' /\ ReportsOK'
<1>1. report \in [Senders -> Reports \cup {NoReport}]
      /\ (report[s] = NoReport <=> at[s] \in {"off", "top", "wait"})
  BY DEF IInv, ReportsOK
<1>2. report[s] \in Reports \cup {NoReport} /\ report' = [report EXCEPT ![s] = report[s]]
  BY <1>1
<1> QED  BY <1>1, <1>2, Moves

\* A sender that stays within its work, or its idleness, keeps OneLoop.
LEMMA StaysBusy ==
    ASSUME IInv, NEW s \in Senders, NEW p \in Places,
           at' = [at EXCEPT ![s] = p], UNCHANGED <<ui, running>>,
           p = "off" <=> at[s] = "off"
    PROVE  OneLoop' /\ Stops'
<1>1. at \in [Senders -> Places]
  BY DEF IInv, PlacesOK
<1>2. \A t \in Senders : at'[t] = "off" <=> at[t] = "off"
  BY <1>1
<1>3. "button" \in Senders /\ "loop" \in Senders
  BY DEF Senders
<1> QED  BY <1>2, <1>3 DEF IInv, OneLoop, Stops

\* A sender at work has a report.
LEMMA HasReport ==
    ASSUME IInv, NEW s \in Senders, at[s] \notin {"off", "top", "wait"}
    PROVE  report[s] \in Reports /\ report[s].level \in Levels
<1>1. report[s] \in Reports
  BY DEF IInv, ReportsOK
<1>2. \A r \in Reports : r.level \in Levels
  BY DEF Reports
<1> QED  BY <1>1, <1>2

\* Fresh is a report.
LEMMA FreshIsReport == DeviceOK => Fresh \in Reports /\ Fresh # NoReport
<1>1. DeviceOK => Fresh \in Reports
  BY DEF DeviceOK, Fresh, Reports
<1> QED  BY <1>1, NoReportIsNone

\* The end of a sender's work.
LEMMA DoneKeeps ==
    ASSUME IInv, NEW s \in Senders, at[s] \in {"build", "sent", "handled", "failed"},
           Done(s), UNCHANGED running
    PROVE  /\ PlacesOK' /\ ReportsOK' /\ OneLoop' /\ Stops'
           /\ prev' \in Levels \cup {NoSnapshot} /\ ui' \in {"free", "sending", "joining"}
<1>1. /\ at' = [at EXCEPT ![s] = IF s = "loop" THEN "wait" ELSE "off"]
      /\ report' = [report EXCEPT ![s] = NoReport]
      /\ prev' = IF s = "button" THEN report[s].level ELSE prev
      /\ ui' = IF s = "button" THEN "free" ELSE ui
  BY DEF Done
<1>2. report[s].level \in Levels
  BY HasReport
<1>3. at \in [Senders -> Places] /\ "button" \in Senders /\ "loop" \in Senders
  BY DEF IInv, PlacesOK, Senders
<1>4. prev' \in Levels \cup {NoSnapshot} /\ ui' \in {"free", "sending", "joining"}
  BY <1>1, <1>2 DEF IInv, CountsOK
<1>5. CASE s = "loop"
  <2>1. at' = [at EXCEPT ![s] = "wait"] /\ UNCHANGED <<ui, running>>
    BY <1>1, <1>5
  <2>2. PlacesOK' /\ ReportsOK'
    BY <2>1, <1>1, <1>5, Moves DEF Places
  <2>3. OneLoop' /\ Stops'
    BY <2>1, StaysBusy DEF Places
  <2> QED  BY <2>2, <2>3, <1>4
<1>6. CASE s = "button"
  <2>1. at' = [at EXCEPT ![s] = "off"] /\ ui' = "free"
    BY <1>1, <1>6
  <2>2. PlacesOK' /\ ReportsOK'
    BY <2>1, <1>1, <1>6, Moves DEF Places
  <2>3. ui = "sending"
    BY <1>6 DEF IInv, OneLoop
  <2>4. at'["button"] = "off" /\ at'["loop"] = at["loop"]
    BY <2>1, <1>3, <1>6
  <2>5. OneLoop' /\ Stops'
    BY <2>1, <2>3, <2>4 DEF IInv, OneLoop, Stops
  <2> QED  BY <2>2, <2>5, <1>4
<1> QED  BY <1>5, <1>6 DEF Senders

-----------------------------------------------------------------------------
\* A step of sending, by the loop or by the button, keeps the invariant.
LEMMA SendingKeeps ==
    ASSUME IInv, NEW s \in Senders, Sending(s)
    PROVE  IInv'
<1>1. CASE Build(s)
  <2> DEFINE f == report[s].level # (IF prev = NoSnapshot THEN ZeroLevel ELSE prev)
             r == [report[s] EXCEPT !.fluctuating = f]
  <2>1. /\ at[s] = "build" /\ at' = [at EXCEPT ![s] = "sent"]
        /\ report' = [report EXCEPT ![s] = r]
        /\ UNCHANGED <<device, config, ui, shared, reg, wait, remote>>
    BY <1>1 DEF Build
  <2>2. f \in BOOLEAN
    OBVIOUS
  <2>3. report[s] \in Reports
    BY <2>1, HasReport
  <2> HIDE DEF f
  <2>4. r \in Reports
    BY <2>2, <2>3, Zenon DEF Reports
  <2>5. r # NoReport
    BY <2>4, NoReportIsNone
  <2> HIDE DEF r
  <2>6. PlacesOK' /\ ReportsOK'
    BY <2>1, <2>4, <2>5, Moves DEF Places
  <2>7. OneLoop' /\ Stops'
    BY <2>1, StaysBusy DEF Places, config
  <2> QED  BY <2>1, <2>6, <2>7
           DEF IInv, DeviceOK, ConfigOK, CountsOK, device, config, shared, remote
<1>2. CASE Handle(s)
  <2>1. /\ at[s] = "sent" /\ at' = [at EXCEPT ![s] = "handled"]
        /\ cloud' = IF named THEN report[s].level ELSE cloud
        /\ UNCHANGED <<device, config, ui, shared, report, reg, wait, late>>
    BY <1>2 DEF Handle
  <2>2. cloud' \in Levels \cup {NoReport}
    BY <2>1, HasReport DEF IInv, DeviceOK
  <2>3. PlacesOK' /\ ReportsOK'
    BY <2>1, MovesOnly DEF Places
  <2>4. OneLoop' /\ Stops'
    BY <2>1, StaysBusy DEF Places, config
  <2> QED  BY <2>1, <2>2, <2>3, <2>4
           DEF IInv, DeviceOK, ConfigOK, CountsOK, device, config, shared
<1>3. CASE Answered(s)
  <2>1. /\ at[s] = "handled" /\ Done(s) /\ fails' = 0
        /\ UNCHANGED <<device, config, reg, wait, remote>>
    BY <1>3 DEF Answered
  <2>2. /\ PlacesOK' /\ ReportsOK' /\ OneLoop' /\ Stops'
        /\ prev' \in Levels \cup {NoSnapshot} /\ ui' \in {"free", "sending", "joining"}
    BY <2>1, DoneKeeps DEF config
  <2>3. fails' \in 0..MaxFails
    BY <2>1, BoundsAssumption
  <2> QED  BY <2>1, <2>2, <2>3
           DEF IInv, DeviceOK, ConfigOK, CountsOK, device, config, remote
<1>4. CASE GiveUp(s)
  <2>1. /\ at[s] \in {"sent", "handled"} /\ at' = [at EXCEPT ![s] = "failed"]
        /\ reg' = [reg EXCEPT ![s] = fails]
        /\ UNCHANGED <<device, config, ui, shared, report, wait, cloud>>
    BY <1>4 DEF GiveUp
  <2>2. late' = late \/ late' = late \cup {report[s].level}
    BY <1>4 DEF GiveUp
  <2>3. late' \subseteq Levels
    BY <2>1, <2>2, HasReport DEF IInv, DeviceOK
  <2>4. reg' \in [Senders -> 0..MaxFails]
    BY <2>1 DEF IInv, CountsOK
  <2>5. PlacesOK' /\ ReportsOK'
    BY <2>1, MovesOnly DEF Places
  <2>6. OneLoop' /\ Stops'
    BY <2>1, StaysBusy DEF Places, config
  <2> QED  BY <2>1, <2>3, <2>4, <2>5, <2>6
           DEF IInv, DeviceOK, ConfigOK, CountsOK, device, config, shared
<1>5. CASE StoreFailure(s)
  <2>1. /\ at[s] = "failed" /\ Done(s)
        /\ fails' = IF reg[s] < MaxFails THEN reg[s] + 1 ELSE MaxFails
        /\ reg' = [reg EXCEPT ![s] = 0]
        /\ UNCHANGED <<device, config, wait, remote>>
    BY <1>5 DEF StoreFailure
  <2>2. /\ PlacesOK' /\ ReportsOK' /\ OneLoop' /\ Stops'
        /\ prev' \in Levels \cup {NoSnapshot} /\ ui' \in {"free", "sending", "joining"}
    BY <2>1, DoneKeeps DEF config
  <2>3. reg[s] \in 0..MaxFails /\ 0 \in 0..MaxFails
    BY BoundsAssumption DEF IInv, CountsOK
  <2>4. fails' \in 0..MaxFails
    BY <2>1, <2>3, BoundsAssumption
  <2>5. reg' \in [Senders -> 0..MaxFails]
    BY <2>1, <2>3 DEF IInv, CountsOK
  <2> QED  BY <2>1, <2>2, <2>4, <2>5
           DEF IInv, DeviceOK, ConfigOK, CountsOK, device, config, remote
<1> QED  BY <1>1, <1>2, <1>3, <1>4, <1>5 DEF Sending

\* The steps that only the loop takes.
LEMMA LoopKeeps ==
    ASSUME IInv, LoopSnapshot \/ LoopRemembers \/ LoopLeaves \/ LoopWakes
    PROVE  IInv'
<1>1. "loop" \in Senders /\ "button" \in Senders
  BY DEF Senders
<1>2. CASE LoopSnapshot
  <2>1. /\ at["loop"] = "top" /\ at' = [at EXCEPT !["loop"] = "compared"]
        /\ report' = [report EXCEPT !["loop"] = Fresh]
        /\ wait' \in {"short", "long"}
        /\ UNCHANGED <<device, config, ui, shared, reg, remote>>
    BY <1>2 DEF LoopSnapshot
  <2>2. Fresh \in Reports /\ Fresh # NoReport
    BY FreshIsReport DEF IInv, DeviceOK
  <2>3. PlacesOK' /\ ReportsOK'
    BY <2>1, <2>2, <1>1, Moves DEF Places
  <2>4. OneLoop' /\ Stops'
    BY <2>1, <1>1, StaysBusy DEF Places, config
  <2> QED  BY <2>1, <2>2, <2>3, <2>4
           DEF IInv, DeviceOK, ConfigOK, CountsOK, device, config, shared, remote
<1>3. CASE LoopLeaves
  <2>1. /\ at["loop"] = "top" /\ ~running /\ at' = [at EXCEPT !["loop"] = "off"]
        /\ UNCHANGED <<device, config, ui, shared, report, reg, wait, remote>>
    BY <1>3 DEF LoopLeaves
  <2>2. PlacesOK' /\ ReportsOK'
    BY <2>1, <1>1, MovesOnly DEF Places
  <2>3. ui = "joining"
    BY <2>1 DEF IInv, OneLoop
  <2>4. at'["button"] = at["button"]
    BY <2>1, <1>1 DEF IInv, PlacesOK
  <2>5. OneLoop' /\ Stops'
    BY <2>1, <2>3, <2>4 DEF IInv, OneLoop, Stops, config
  <2> QED  BY <2>1, <2>2, <2>5
           DEF IInv, DeviceOK, ConfigOK, CountsOK, device, config, shared, remote
<1>4. CASE LoopWakes
  <2>1. /\ at["loop"] = "wait" /\ at' = [at EXCEPT !["loop"] = "top"] /\ wait' = "long"
        /\ UNCHANGED <<device, config, ui, shared, report, reg, remote>>
    BY <1>4 DEF LoopWakes
  <2>2. PlacesOK' /\ ReportsOK'
    BY <2>1, <1>1, MovesOnly DEF Places
  <2>3. OneLoop' /\ Stops'
    BY <2>1, <1>1, StaysBusy DEF Places, config
  <2> QED  BY <2>1, <2>2, <2>3
           DEF IInv, DeviceOK, ConfigOK, CountsOK, device, config, shared, remote
<1>5. CASE LoopRemembers
  <2>1. /\ at["loop"] = "compared" /\ at' = [at EXCEPT !["loop"] = "build"]
        /\ prev' = report["loop"].level
        /\ UNCHANGED <<device, config, ui, fails, report, reg, wait, remote>>
    BY <1>5 DEF LoopRemembers
  <2>2. prev' \in Levels
    BY <1>1, <2>1, HasReport
  <2>3. PlacesOK' /\ ReportsOK'
    BY <2>1, <1>1, MovesOnly DEF Places
  <2>4. OneLoop' /\ Stops'
    BY <2>1, <1>1, StaysBusy DEF Places, config
  <2> QED  BY <2>1, <2>2, <2>3, <2>4
           DEF IInv, DeviceOK, ConfigOK, CountsOK, device, config, remote
<1> QED  BY <1>2, <1>3, <1>4, <1>5

\* The UI thread.
LEMMA PanelKeeps ==
    ASSUME IInv, Start \/ Stop \/ Joined \/ ButtonSnapshot
    PROVE  IInv'
<1>1. /\ "loop" \in Senders /\ "button" \in Senders /\ at \in [Senders -> Places]
      /\ running \in BOOLEAN
  BY DEF Senders, IInv, PlacesOK, ConfigOK
<1>2. CASE Start
  <2>1. /\ ui = "free" /\ ~running /\ running' = TRUE /\ endpoint' \in BOOLEAN /\ named' \in BOOLEAN
        /\ at' = [at EXCEPT !["loop"] = "top"]
        /\ UNCHANGED <<device, ui, shared, report, reg, wait, remote>>
    BY <1>2 DEF Start
  <2>2. at["loop"] = "off"
    BY <2>1 DEF IInv, OneLoop
  <2>3. PlacesOK' /\ ReportsOK'
    BY <2>1, <2>2, <1>1, MovesOnly DEF Places
  <2>4. at'["loop"] = "top" /\ at'["button"] = at["button"]
    BY <2>1, <1>1
  <2>5. OneLoop' /\ Stops'
    BY <2>1, <2>4 DEF IInv, OneLoop, Stops
  <2>6. ConfigOK'
    BY <2>1 DEF ConfigOK
  <2> QED  BY <2>1, <2>3, <2>5, <2>6
           DEF IInv, DeviceOK, CountsOK, device, shared, remote
<1>3. CASE Stop
  <2>1. /\ ui = "free" /\ running' = FALSE /\ ui' = "joining"
        /\ UNCHANGED <<device, endpoint, named, shared, work, wait, remote>>
    BY <1>3 DEF Stop
  <2>2. OneLoop' /\ Stops'
    BY <2>1 DEF IInv, OneLoop, Stops, work
  <2>3. ConfigOK'
    BY <2>1 DEF IInv, ConfigOK
  <2> QED  BY <2>1, <2>2, <2>3
           DEF IInv, DeviceOK, CountsOK, PlacesOK, ReportsOK, device, shared, work, remote
<1>4. CASE Joined
  <2>1. /\ ui = "joining" /\ at["loop"] = "off" /\ ui' = "free"
        /\ UNCHANGED <<device, config, shared, work, wait, remote>>
    BY <1>4 DEF Joined
  <2>2. OneLoop' /\ Stops'
    BY <2>1 DEF IInv, OneLoop, Stops, config, work
  <2> QED  BY <2>1, <2>2
           DEF IInv, DeviceOK, ConfigOK, CountsOK, PlacesOK, ReportsOK,
               device, config, shared, work, remote
<1>5. CASE ButtonSnapshot
  <2>1. /\ ui = "free" /\ ui' = "sending"
        /\ report' = [report EXCEPT !["button"] = Fresh]
        /\ at' = [at EXCEPT !["button"] = "build"]
        /\ UNCHANGED <<device, config, shared, reg, wait, remote>>
    BY <1>5 DEF ButtonSnapshot
  <2>2. Fresh \in Reports /\ Fresh # NoReport
    BY FreshIsReport DEF IInv
  <2>3. PlacesOK' /\ ReportsOK'
    BY <2>1, <2>2, <1>1, Moves DEF Places
  <2>4. at'["button"] = "build" /\ at'["loop"] = at["loop"]
    BY <2>1, <1>1
  <2>5. OneLoop' /\ Stops'
    BY <2>1, <2>4 DEF IInv, OneLoop, Stops, config
  <2> QED  BY <2>1, <2>3, <2>5
           DEF IInv, DeviceOK, ConfigOK, CountsOK, device, config, shared, remote
<1> QED  BY <1>2, <1>3, <1>4, <1>5

\* Every step of the two senders, the user and the link keeps the invariant.
LEMMA StepIInv == IInv /\ [Next]_vars => IInv'
<1> SUFFICES ASSUME IInv, [Next]_vars PROVE IInv'
  OBVIOUS
<1>1. CASE Loop
  BY <1>1, LoopKeeps, SendingKeeps DEF Loop, Senders
<1>2. CASE Sending("button")
  BY <1>2, SendingKeeps DEF Senders
<1>3. CASE Start \/ Stop \/ Joined \/ ButtonSnapshot
  BY <1>3, PanelKeeps
<1>4. CASE LateReport
  <2>1. PICK l \in late : late' = late \ {l} /\ cloud' \in {cloud, l}
    BY <1>4 DEF LateReport
  <2>2. UNCHANGED <<device, config, ui, shared, work, wait>>
    BY <1>4 DEF LateReport
  <2>3. DeviceOK'
    BY <2>1, <2>2 DEF IInv, DeviceOK, device
  <2> QED  BY <2>2, <2>3
           DEF IInv, ConfigOK, CountsOK, PlacesOK, ReportsOK, OneLoop, Stops,
               config, shared, work
<1>5. CASE Environment
  BY <1>5 DEF Environment, IInv, DeviceOK, ConfigOK, CountsOK, PlacesOK, ReportsOK,
              OneLoop, Stops, config, shared, work, remote
<1>6. CASE UNCHANGED vars
  BY <1>6 DEF vars, IInv, DeviceOK, ConfigOK, CountsOK, PlacesOK, ReportsOK,
              OneLoop, Stops, device, config, shared, work, remote
<1> QED  BY <1>1, <1>2, <1>3, <1>4, <1>5, <1>6 DEF Next

\* Every reachable state of the heartbeats is of its type, and has one loop at most.
THEOREM AllInvariants == Spec => [](TypeOK /\ OneLoop)
<1>1. Init => IInv
  BY InitIInv
<1>2. IInv /\ [Next]_vars => IInv'
  BY StepIInv
<1>3. IInv => TypeOK /\ OneLoop
  BY IInvParts
<1> QED  BY <1>1, <1>2, <1>3, PTL DEF Spec

\* Every reachable state is of its type.
THEOREM TypeCorrect == Spec => []TypeOK
BY AllInvariants, PTL

\* stop returns when the loop has left, and the button is the only other sender
\* (heartbeat.cpp:25-35).
THEOREM OneLoopAlways == Spec => []OneLoop
BY AllInvariants, PTL

\* The inductive invariant holds in every behaviour.
LEMMA IInvAlways == Spec => []IInv
<1>1. Init => IInv
  BY InitIInv
<1>2. IInv /\ [Next]_vars => IInv'
  BY StepIInv
<1> QED  BY <1>1, <1>2, PTL DEF Spec

-----------------------------------------------------------------------------
(* What has converged lasts.                                               *)

\* A device that has a name and keeps its state l, on a link that is good.
Steady(l) == level = l /\ link = "up" /\ running /\ endpoint /\ named

\* Both ends know: no failure is counted or about to be, and nothing under way shows
\* another state.
Settled(l) ==
    /\ cloud = l /\ fails = 0 /\ late \subseteq {l}
    /\ \A s \in Senders : at[s] # "failed" /\ (report[s] # NoReport => report[s].level = l)

\* A report sent while both ends agree says what the cloud has recorded.
LEMMA SettledSending ==
    ASSUME IInv, NEW l \in Levels, Steady(l), Settled(l), NEW s \in Senders, Sending(s)
    PROVE  Settled(l)'
<1>1. /\ at \in [Senders -> Places] /\ report \in [Senders -> Reports \cup {NoReport}]
  BY DEF IInv, PlacesOK, ReportsOK
<1>2. CASE Build(s)
  <2> DEFINE f == report[s].level # (IF prev = NoSnapshot THEN ZeroLevel ELSE prev)
             r == [report[s] EXCEPT !.fluctuating = f]
  <2>1. /\ at[s] = "build" /\ at' = [at EXCEPT ![s] = "sent"]
        /\ report' = [report EXCEPT ![s] = r]
        /\ UNCHANGED <<fails, late, cloud>>
    BY <1>2 DEF Build, shared, remote
  <2>2. report[s] \in Reports /\ report[s] # NoReport
    BY <2>1, HasReport, NoReportIsNone
  <2>3. r.level = report[s].level
    BY <2>2 DEF Reports
  <2> HIDE DEF r
  <2> QED  BY <1>1, <2>1, <2>2, <2>3 DEF Settled
<1>3. CASE Handle(s)
  <2>1. /\ at[s] = "sent" /\ at' = [at EXCEPT ![s] = "handled"]
        /\ cloud' = report[s].level
        /\ UNCHANGED <<report, fails, late>>
    BY <1>3 DEF Handle, shared, Steady
  <2>2. report[s] # NoReport
    BY <2>1, HasReport, NoReportIsNone
  <2> QED  BY <1>1, <2>1, <2>2 DEF Settled
<1>4. CASE Answered(s)
  <2>1. /\ at' = [at EXCEPT ![s] = IF s = "loop" THEN "wait" ELSE "off"]
        /\ report' = [report EXCEPT ![s] = NoReport]
        /\ fails' = 0 /\ UNCHANGED <<late, cloud>>
    BY <1>4 DEF Answered, Done, remote
  <2> QED  BY <1>1, <2>1 DEF Settled
<1>5. ~GiveUp(s) /\ ~StoreFailure(s)
  BY DEF GiveUp, StoreFailure, Steady, Settled
<1> QED  BY <1>2, <1>3, <1>4, <1>5 DEF Sending

\* No step undoes what has settled while the device and the link are steady.
LEMMA SettledStep ==
    ASSUME IInv, NEW l \in Levels, Steady(l), Settled(l), [Next]_vars
    PROVE  Settled(l)'
<1>1. /\ at \in [Senders -> Places] /\ report \in [Senders -> Reports \cup {NoReport}]
      /\ "loop" \in Senders /\ "button" \in Senders
  BY DEF IInv, PlacesOK, ReportsOK, Senders
<1>2. CASE \E s \in Senders : Sending(s)
  BY <1>2, SettledSending
<1>3. ASSUME NEW s \in Senders, NEW p \in {"compared", "build"}, at' = [at EXCEPT ![s] = p],
             report' = [report EXCEPT ![s] = Fresh], UNCHANGED <<fails, remote>>
      PROVE  Settled(l)'
  <2>1. Fresh.level = l
    BY DEF Fresh, Steady
  <2> QED  BY <1>1, <1>3, <2>1 DEF Settled, remote
<1>4. CASE LoopSnapshot
  BY <1>1, <1>3, <1>4 DEF LoopSnapshot, shared
<1>5. CASE ButtonSnapshot
  BY <1>1, <1>3, <1>5 DEF ButtonSnapshot, shared
<1>6. CASE LoopRemembers \/ LoopLeaves \/ LoopWakes
  <2>1. /\ \E p \in {"build", "off", "top"} : at' = [at EXCEPT !["loop"] = p]
        /\ UNCHANGED <<report, fails, remote>>
    BY <1>6 DEF LoopRemembers, LoopLeaves, LoopWakes, shared
  <2> QED  BY <1>1, <2>1 DEF Settled, remote
<1>7. CASE LateReport
  <2>1. PICK m \in late : late' = late \ {m} /\ cloud' \in {cloud, m}
    BY <1>7 DEF LateReport
  <2>2. UNCHANGED <<fails, at, report>>
    BY <1>7 DEF LateReport, shared, work
  <2> QED  BY <2>1, <2>2 DEF Settled
<1>8. ~Start
  BY DEF Start, Steady
<1>9. CASE Stop \/ Joined \/ Environment \/ UNCHANGED vars
  BY <1>9 DEF Stop, Joined, Environment, vars, shared, work, remote, Settled
<1> QED  BY <1>1, <1>2, <1>4, <1>5, <1>6, <1>7, <1>8, <1>9 DEF Next, Loop

\* Once the cloud's record is right it stays right while the device and the link do, and
\* no failure is counted: neither a report that was given up long ago nor the unlocked
\* count of the other sender brings an old value back (heartbeat.cpp:78, 111,
\* device_state.py:30-80).  With Settled(l) reached, CloudConverges needs no fairness.
THEOREM SettledLasts ==
    \A l \in Levels : Spec => [](Settled(l) /\ []Steady(l) => []Settled(l))
<1> TAKE l \in Levels
<1>1. IInv /\ Settled(l) /\ Steady(l) /\ [Next]_vars => Settled(l)'
  BY SettledStep
<1> QED  BY IInvAlways, <1>1, PTL DEF Spec

-----------------------------------------------------------------------------
(* What the loop reports of a swing.                                       *)

\* The snapshot that the report of the loop is compared with is its own.
OwnPrevious ==
    /\ at["loop"] = "build" => prev = report["loop"].level
    /\ report["loop"] # NoReport => ~report["loop"].fluctuating

\* As long as only the loop sends, the previous snapshot is the one it sends.
LEMMA OwnPreviousStep ==
    ASSUME IInv, OwnPrevious, at["button"] = "off", at'["button"] = "off", [Next]_vars
    PROVE  OwnPrevious'
<1>1. /\ at \in [Senders -> Places] /\ report \in [Senders -> Reports \cup {NoReport}]
      /\ "loop" \in Senders /\ "button" \in Senders /\ level \in Levels
      /\ NoSnapshot \notin Levels
  BY LevelsAssumption DEF IInv, DeviceOK, PlacesOK, ReportsOK, Senders
<1>2. CASE LoopSnapshot
  <2>1. /\ report' = [report EXCEPT !["loop"] = Fresh]
        /\ at' = [at EXCEPT !["loop"] = "compared"]
    BY <1>2 DEF LoopSnapshot
  <2>2. Fresh.fluctuating = FALSE
    BY DEF Fresh
  <2> QED  BY <1>1, <2>1, <2>2 DEF OwnPrevious
<1>3. CASE Build("loop")
  <2> DEFINE f == report["loop"].level # (IF prev = NoSnapshot THEN ZeroLevel ELSE prev)
             r == [report["loop"] EXCEPT !.fluctuating = f]
  <2>1. /\ at["loop"] = "build" /\ at' = [at EXCEPT !["loop"] = "sent"]
        /\ report' = [report EXCEPT !["loop"] = r]
    BY <1>3 DEF Build
  <2>2. report["loop"] \in Reports /\ report["loop"].level \in Levels
    BY <1>1, <2>1, HasReport
  <2>3. ~f
    BY <1>1, <2>1, <2>2 DEF OwnPrevious
  <2> HIDE DEF f
  <2>4. ~r.fluctuating
    BY <2>2, <2>3, Zenon DEF Reports
  <2> HIDE DEF r
  <2> QED  BY <1>1, <2>1, <2>4 DEF OwnPrevious
<1>4. CASE Answered("loop") \/ StoreFailure("loop")
  <2>1. report' = [report EXCEPT !["loop"] = NoReport]
        /\ at' = [at EXCEPT !["loop"] = "wait"]
    BY <1>4 DEF Answered, StoreFailure, Done
  <2> QED  BY <1>1, <2>1 DEF OwnPrevious
<1>5. CASE Handle("loop") \/ GiveUp("loop") \/ LoopLeaves \/ LoopWakes \/ Start
  <2>1. UNCHANGED <<report, prev>>
    BY <1>5 DEF Handle, GiveUp, LoopLeaves, LoopWakes, Start, shared
  <2>2. at'["loop"] # "build"
    BY <1>1, <1>5 DEF Handle, GiveUp, LoopLeaves, LoopWakes, Start
  <2> QED  BY <2>1, <2>2 DEF OwnPrevious
<1>6. ~Sending("button") /\ ~ButtonSnapshot
  <2>1. ~Sending("button")
    BY DEF Sending, Build, Handle, Answered, GiveUp, StoreFailure
  <2>2. ButtonSnapshot => at'["button"] = "build"
    BY <1>1 DEF ButtonSnapshot
  <2> QED  BY <2>1, <2>2
<1>7. CASE LateReport \/ Stop \/ Joined \/ Environment \/ UNCHANGED vars
  BY <1>7 DEF LateReport, Stop, Joined, Environment, vars, shared, work, OwnPrevious
<1>8. CASE LoopRemembers
  BY <1>1, <1>8 DEF LoopRemembers, OwnPrevious
<1> QED  BY <1>2, <1>3, <1>4, <1>5, <1>6, <1>7, <1>8 DEF Next, Loop, Sending

\* As long as the button is not pressed, no report of the loop ever says "is_fluctuating",
\* however the device swings (heartbeat.cpp:68, 72, 207): run_loop compares the snapshot
\* with itself.  What heartbeat_swing shows of one instance.
THEOREM NoSwingReported ==
    Spec => ([](at["button"] = "off")
                => [](report["loop"] # NoReport => ~report["loop"].fluctuating))
<1>1. Init => OwnPrevious
  BY DEF Init, OwnPrevious, Senders
<1>2. IInv /\ OwnPrevious /\ at["button"] = "off" /\ (at["button"] = "off")' /\ [Next]_vars
        => OwnPrevious'
  BY OwnPreviousStep
<1>3. OwnPrevious => (report["loop"] # NoReport => ~report["loop"].fluctuating)
  BY DEF OwnPrevious
<1> QED  BY IInvAlways, <1>1, <1>2, <1>3, PTL DEF Spec

-----------------------------------------------------------------------------
(* What the UI thread waits for in stop.                                   *)

\* The steps of the loop before it has left, when running is false.
ToGo(place) ==
    CASE place = "off" -> 0
      [] place = "top" -> 1
      [] place = "wait" -> 2
      [] place = "failed" -> 3
      [] place = "handled" -> 4
      [] place = "sent" -> 5
      [] place = "build" -> 6
      [] place = "compared" -> 7

\* While stop joins the loop, every step of the loop brings the end nearer and nobody else
\* moves it: stop waits for the heartbeat under way and for no other one
\* (heartbeat.cpp:32-35, 56-95).  StopReturns adds that the loop runs.
JoinComesNearer ==
    [][ui = "joining" =>
        \/ Loop /\ ToGo(at'["loop"]) < ToGo(at["loop"])
        \/ at'["loop"] = at["loop"]]_vars

\* A stop waits for one heartbeat at most, whatever the other sender does meanwhile.
THEOREM JoinComesNearerAlways == Spec => JoinComesNearer
<1> DEFINE Nearer == ui = "joining" =>
        \/ Loop /\ ToGo(at'["loop"]) < ToGo(at["loop"])
        \/ at'["loop"] = at["loop"]
<1>1. ASSUME IInv, [Next]_vars, ui = "joining" PROVE Nearer
  <2>1. /\ at \in [Senders -> Places] /\ "loop" \in Senders /\ "button" \in Senders /\ ~running
    BY <1>1 DEF IInv, PlacesOK, Senders, Stops
  <2>2. CASE Loop
    <3>1. ~LoopSnapshot
      BY <2>1 DEF LoopSnapshot
    <3>2. CASE LoopLeaves
      <4>1. at["loop"] = "top" /\ at'["loop"] = "off"
        BY <2>1, <3>2 DEF LoopLeaves
      <4> QED  BY <2>2, <4>1 DEF ToGo
    <3>3. CASE LoopWakes
      <4>1. at["loop"] = "wait" /\ at'["loop"] = "top"
        BY <2>1, <3>3 DEF LoopWakes
      <4> QED  BY <2>2, <4>1 DEF ToGo
    <3>4. CASE Build("loop")
      <4>1. at["loop"] = "build" /\ at'["loop"] = "sent"
        BY <2>1, <3>4 DEF Build
      <4> QED  BY <2>2, <4>1 DEF ToGo
    <3>5. CASE Handle("loop")
      <4>1. at["loop"] = "sent" /\ at'["loop"] = "handled"
        BY <2>1, <3>5 DEF Handle
      <4> QED  BY <2>2, <4>1 DEF ToGo
    <3>6. CASE GiveUp("loop")
      <4>1. at["loop"] \in {"sent", "handled"} /\ at'["loop"] = "failed"
        BY <2>1, <3>6 DEF GiveUp
      <4> QED  BY <2>2, <4>1 DEF ToGo
    <3>7. CASE Answered("loop") \/ StoreFailure("loop")
      <4>1. at["loop"] \in {"handled", "failed"} /\ at'["loop"] = "wait"
        BY <2>1, <3>7 DEF Answered, StoreFailure, Done
      <4> QED  BY <2>2, <4>1 DEF ToGo
    <3>8. CASE LoopRemembers
      <4>1. at["loop"] = "compared" /\ at'["loop"] = "build"
        BY <2>1, <3>8 DEF LoopRemembers
      <4> QED  BY <2>2, <4>1 DEF ToGo
    <3> QED  BY <2>2, <3>1, <3>2, <3>3, <3>4, <3>5, <3>6, <3>7, <3>8 DEF Loop, Sending
  <2>3. CASE Sending("button")
    <3>1. at["button"] = "off"
      BY <1>1 DEF IInv, OneLoop
    <3> QED  BY <2>3, <3>1 DEF Sending, Build, Handle, Answered, GiveUp, StoreFailure
  <2>4. ~Start /\ ~Stop /\ ~ButtonSnapshot
    BY <1>1 DEF Start, Stop, ButtonSnapshot
  <2>5. CASE LateReport \/ Joined \/ Environment \/ UNCHANGED vars
    BY <2>5 DEF LateReport, Joined, Environment, vars, work
  <2> QED  BY <1>1, <2>2, <2>3, <2>4, <2>5 DEF Next
<1>2. IInv /\ [Next]_vars => [Nearer]_vars
  BY <1>1
<1> QED  BY IInvAlways, <1>2, PTL DEF Spec, JoinComesNearer

=============================================================================
