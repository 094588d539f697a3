------------------------- MODULE StreamWorker_proofs -------------------------
(***************************************************************************)
(* Proofs about StreamWorker for any bounds and any lines: TypeOK and      *)
(* Accounted are invariants, losses are bounded, nothing that was counted  *)
(* is taken back and every step of the thread brings a waiting item nearer *)
(* to its result.  The first two are inductive together; the three kinds   *)
(* of steps that move an item (submit, Get, Result) have a lemma each.     *)
(***************************************************************************)
EXTENDS StreamWorker, SequenceTheorems, TLAPS

Lines == [no : Nat, kind : Kinds]
Stats == [total : Nat, success : Nat, failed : Nat]

\* The parts of the type invariant.
SourceOK ==
    /\ mode \in {"tcp", "simulate", "watch"}
    /\ main \in {"feeding", "settling", "joining", "over"}
    /\ conn \in BOOLEAN /\ running \in BOOLEAN
    /\ buffer \in Seq(Lines) /\ bare \subseteq Nat
    /\ read \in Nat /\ dropped \in Nat
QueueOK == queue \in Seq(Nat) /\ Len(queue) <= QueueMax /\ accepted \in Seq(Nat)
ThreadOK ==
    /\ worker \in {"top", "get", "infer", "off", "dead"}
    /\ results \in Seq(Nat) /\ Len(results) <= ResultsMax
    /\ hand \in Nat /\ stats \in Stats

\* The parts of Accounted.
LinesInv == read = Len(accepted) + dropped + Len(buffer)
QueueInv ==
    /\ Len(accepted) = stats.total + Len(queue)
    /\ \A i \in DOMAIN queue : queue[i] = accepted[stats.total + i]
HandInv ==
    /\ stats.total = processed + (IF worker = "infer" THEN 1 ELSE 0)
    /\ worker = "infer" => hand = accepted[stats.total]
DeadInv == worker = "dead" => stats.total > 0 /\ accepted[stats.total] \in bare
ResultsInv ==
    /\ Len(results) = IF answered < ResultsMax THEN answered ELSE ResultsMax
    /\ \A i \in DOMAIN results : results[i] = accepted[answered - Len(results) + i]

IInv ==
    /\ SourceOK /\ QueueOK /\ ThreadOK
    /\ LinesInv /\ QueueInv /\ HandInv /\ DeadInv /\ ResultsInv

\* The invariant is what the run stream_worker checks.
LEMMA IInvParts == IInv <=> TypeOK /\ Accounted
BY DEF IInv, TypeOK, Accounted, SourceOK, QueueOK, ThreadOK, Lines, Stats,
       LinesInv, QueueInv, HandInv, DeadInv, ResultsInv

-----------------------------------------------------------------------------
\* A step that leaves the worker's thread and the queue alone keeps their part.
LEMMA ThreadAlone ==
    ASSUME IInv, UNCHANGED <<thread, queue, accepted>>
    PROVE  QueueOK' /\ ThreadOK' /\ QueueInv' /\ HandInv' /\ ResultsInv'
BY DEF IInv, QueueOK, ThreadOK, QueueInv, HandInv, ResultsInv, thread, processed, answered

\* What Append and the statistics' updates do.
LEMMA AppendNat ==
    \A s \in Seq(Nat), n \in Nat :
        /\ Append(s, n) \in Seq(Nat) /\ Len(Append(s, n)) = Len(s) + 1
        /\ \A i \in 1..Len(s) : Append(s, n)[i] = s[i]
        /\ Append(s, n)[Len(s) + 1] = n
BY AppendProperties

\* What the three updates of the statistics change, and what they leave alone.
LEMMA StatsUpdates ==
    ASSUME NEW s \in Stats
    PROVE  /\ [s EXCEPT !.total = @ + 1] =
                [total |-> s.total + 1, success |-> s.success, failed |-> s.failed]
           /\ [s EXCEPT !.success = @ + 1] =
                [total |-> s.total, success |-> s.success + 1, failed |-> s.failed]
           /\ [s EXCEPT !.failed = @ + 1] =
                [total |-> s.total, success |-> s.success, failed |-> s.failed + 1]
           /\ s.total \in Nat /\ s.success \in Nat /\ s.failed \in Nat
BY DEF Stats

\* An item that is submitted is dropped, or becomes the last one of the queue.
LEMMA SubmitKeeps ==
    ASSUME IInv, NEW n \in Nat, submit(n), UNCHANGED thread
    PROVE  /\ QueueOK' /\ ThreadOK' /\ QueueInv' /\ HandInv' /\ ResultsInv'
           /\ dropped' \in Nat
           /\ Len(accepted') + dropped' = Len(accepted) + dropped + 1
<1> USE SizesAssumption
<1>1. CASE Len(queue) < QueueMax
  <2>1. queue' = Append(queue, n) /\ accepted' = Append(accepted, n) /\ dropped' = dropped
    BY <1>1 DEF submit
  <2>2. queue \in Seq(Nat) /\ accepted \in Seq(Nat) /\ stats \in Stats /\ results \in Seq(Nat)
        /\ dropped \in Nat
    BY DEF IInv, QueueOK, ThreadOK, SourceOK
  <2>3. /\ queue' \in Seq(Nat) /\ Len(queue') = Len(queue) + 1
        /\ \A i \in 1..Len(queue) : queue'[i] = queue[i]
        /\ queue'[Len(queue) + 1] = n
    BY <2>1, <2>2, AppendNat, Zenon
  <2>4. /\ accepted' \in Seq(Nat) /\ Len(accepted') = Len(accepted) + 1
        /\ \A i \in 1..Len(accepted) : accepted'[i] = accepted[i]
        /\ accepted'[Len(accepted) + 1] = n
    BY <2>1, <2>2, AppendNat, Zenon
  <2>5. /\ Len(queue) \in Nat /\ Len(accepted) \in Nat /\ Len(results) \in Nat
        /\ DOMAIN queue = 1..Len(queue) /\ DOMAIN queue' = 1..Len(queue')
        /\ DOMAIN results = 1..Len(results)
    BY <2>2, <2>3, LenProperties
  <2>6. stats.total \in Nat /\ processed \in Nat
    BY <2>2 DEF Stats, processed
  <2>7. /\ stats' = stats /\ worker' = worker /\ hand' = hand /\ results' = results
        /\ processed' = processed /\ answered' = answered
    BY DEF thread, processed, answered
  <2> HIDE DEF processed
  <2>8. QueueOK'
    BY <1>1, <2>3, <2>4, <2>5 DEF QueueOK
  <2>9. ThreadOK'
    BY <2>7 DEF IInv, ThreadOK
  <2>10. QueueInv'
    <3>1. \A i \in 1..Len(queue) : queue[i] = accepted[stats.total + i]
      BY <2>5 DEF IInv, QueueInv
    <3>2. Len(accepted) = stats.total + Len(queue)
      BY DEF IInv, QueueInv
    <3>3. /\ Len(accepted') = Len(accepted) + 1 /\ Len(queue') = Len(queue) + 1
          /\ Len(queue) \in Nat /\ stats.total \in Nat
      BY <2>3, <2>4, <2>5, <2>6
    <3>4. Len(accepted') = stats.total + Len(queue')
      BY <3>2, <3>3
    <3>5. ASSUME NEW i \in 1..Len(queue') PROVE queue'[i] = accepted'[stats.total + i]
      <4>1. CASE i = Len(queue) + 1
        <5>1. stats.total + i = Len(accepted) + 1
          BY <4>1, <3>2, <3>3
        <5> QED  BY <4>1, <5>1, <2>3, <2>4
      <4>2. CASE i \in 1..Len(queue)
        <5>1. stats.total + i \in 1..Len(accepted)
          BY <4>2, <3>2, <3>3
        <5> QED  BY <4>2, <5>1, <3>1, <2>3, <2>4
      <4> QED  BY <4>1, <4>2, <3>3
    <3> QED  BY <3>4, <3>5, <2>5, <2>7 DEF QueueInv
  <2>11. stats.total <= Len(accepted) /\ processed <= stats.total
         /\ (worker = "infer" => stats.total >= 1)
    BY <2>5, <2>6 DEF IInv, QueueInv, HandInv
  <2>12. HandInv'
    BY <2>4, <2>5, <2>6, <2>7, <2>11 DEF IInv, HandInv
  <2>13. ResultsInv'
    <3>1. answered \in Nat /\ answered <= processed
      <4>1. worker = "dead" => stats.total > 0 /\ stats.total = processed
        BY <2>6 DEF IInv, DeadInv, HandInv
      <4> QED  BY <4>1, <2>6 DEF answered
    <3>2. \A i \in 1..Len(results) :
             answered - Len(results) + i \in 1..Len(accepted)
      BY <3>1, <2>5, <2>6, <2>11 DEF IInv, ResultsInv
    <3> QED  BY <3>1, <3>2, <2>4, <2>5, <2>6, <2>7 DEF IInv, ResultsInv
  <2> QED  BY <2>1, <2>2, <2>4, <2>5, <2>8, <2>9, <2>10, <2>12, <2>13
<1>2. CASE ~(Len(queue) < QueueMax)
  <2>1. dropped' = dropped + 1 /\ UNCHANGED <<queue, accepted>>
    BY <1>2 DEF submit
  <2>2. dropped \in Nat /\ Len(accepted) \in Nat
    BY LenProperties DEF IInv, SourceOK, QueueOK
  <2> QED  BY <2>1, <2>2, ThreadAlone
<1> QED  BY <1>1, <1>2

\* A result pushes out the oldest one when there are too many.
LEMMA ResultKeeps ==
    ASSUME IInv, worker = "infer", worker' = "top", Result, UNCHANGED <<queue, accepted>>,
           stats' \in Stats, stats'.total = stats.total,
           stats'.success + stats'.failed = stats.success + stats.failed + 1
    PROVE  QueueOK' /\ ThreadOK' /\ QueueInv' /\ HandInv' /\ ResultsInv'
<1> USE SizesAssumption
<1> DEFINE kept == IF Len(results) < ResultsMax THEN results ELSE Tail(results)
<1>1. queue \in Seq(Nat) /\ accepted \in Seq(Nat) /\ stats \in Stats /\ results \in Seq(Nat)
      /\ hand \in Nat /\ Len(results) <= ResultsMax
  BY DEF IInv, QueueOK, ThreadOK
<1>2. /\ stats.total \in Nat /\ processed \in Nat /\ processed' = processed + 1
      /\ answered = processed /\ answered' = processed'
  BY <1>1 DEF Stats, processed, answered
<1> HIDE DEF processed
<1>3. stats.total = processed + 1 /\ hand = accepted[processed + 1]
  BY <1>2 DEF IInv, HandInv
<1>4. Len(results) \in Nat /\ DOMAIN results = 1..Len(results) /\ Len(accepted) \in Nat
  BY <1>1, LenProperties
<1>5. /\ Len(results) = IF processed < ResultsMax THEN processed ELSE ResultsMax
      /\ \A i \in 1..Len(results) : results[i] = accepted[processed - Len(results) + i]
  BY <1>2, <1>4 DEF IInv, ResultsInv
<1>6. /\ kept \in Seq(Nat)
      /\ Len(kept) = IF processed < ResultsMax THEN processed ELSE ResultsMax - 1
      /\ \A i \in 1..Len(kept) : kept[i] = accepted[processed - Len(kept) + i]
  <2>1. CASE Len(results) < ResultsMax
    <3>1. kept = results /\ processed < ResultsMax
      BY <2>1, <1>2, <1>5
    <3> QED  BY <3>1, <1>1, <1>5
  <2>2. CASE ~(Len(results) < ResultsMax)
    <3>1. Len(results) = ResultsMax /\ ~(processed < ResultsMax) /\ results # <<>>
      BY <2>2, <1>1, <1>2, <1>4, <1>5
    <3>2. /\ Tail(results) \in Seq(Nat) /\ Len(Tail(results)) = Len(results) - 1
          /\ \A i \in 1..Len(Tail(results)) : Tail(results)[i] = results[i + 1]
      BY <3>1, <1>1, HeadTailProperties, Zenon
    <3>3. kept = Tail(results)
      BY <2>2
    <3>4. Len(kept) = ResultsMax - 1
      BY <3>1, <3>2, <3>3
    <3> HIDE DEF kept
    <3>5. ASSUME NEW i \in 1..Len(kept)
          PROVE  kept[i] = accepted[processed - Len(kept) + i]
      <4>1. kept[i] = results[i + 1] /\ i + 1 \in 1..Len(results)
        BY <3>1, <3>2, <3>3, <3>4
      <4>2. results[i + 1] = accepted[processed - Len(results) + (i + 1)]
        BY <4>1, <1>5
      <4>3. processed - Len(results) + (i + 1) = processed - Len(kept) + i
        <5>1. Len(results) = Len(kept) + 1 /\ Len(kept) \in Nat /\ i \in Nat
          BY <3>1, <3>4
        <5>2. processed \in Nat
          BY <1>2
        <5> QED  BY <5>1, <5>2
      <4> QED  BY <4>1, <4>2, <4>3
    <3> QED  BY <3>1, <3>2, <3>3, <3>4, <3>5
  <2> QED  BY <2>1, <2>2
<1>7. results' = Append(kept, hand) /\ hand' = 0
  BY DEF Result
<1> HIDE DEF kept
<1>8. /\ results' \in Seq(Nat) /\ Len(results') = Len(kept) + 1
      /\ \A i \in 1..Len(kept) : results'[i] = kept[i]
      /\ results'[Len(kept) + 1] = hand
  BY <1>1, <1>6, <1>7, AppendNat, Zenon
<1>9. DOMAIN results' = 1..Len(results') /\ Len(kept) \in Nat
  BY <1>6, <1>8, LenProperties
<1>10. ThreadOK'
  BY <1>2, <1>6, <1>7, <1>8, <1>9 DEF ThreadOK
<1>11. ResultsInv'
  <2>1. \A i \in 1..Len(results') : results'[i] = accepted[processed' - Len(results') + i]
    <3> TAKE i \in 1..Len(results')
    <3>1. CASE i = Len(kept) + 1
      BY <3>1, <1>2, <1>3, <1>8, <1>9
    <3>2. CASE i \in 1..Len(kept)
      <4>1. results'[i] = accepted[processed - Len(kept) + i]
        BY <3>2, <1>6, <1>8
      <4>2. processed' - Len(results') + i = processed - Len(kept) + i
        BY <1>2, <1>8, <1>9
      <4> QED  BY <4>1, <4>2
    <3> QED  BY <3>1, <3>2, <1>8, <1>9
  <2>2. Len(results') = IF processed' < ResultsMax THEN processed' ELSE ResultsMax
    BY <1>2, <1>6, <1>8
  <2> QED  BY <2>1, <2>2, <1>2, <1>9 DEF ResultsInv
<1>12. HandInv'
  BY <1>2, <1>3 DEF HandInv
<1>13. QueueOK' /\ QueueInv'
  BY DEF IInv, QueueOK, QueueInv
<1> QED  BY <1>10, <1>11, <1>12, <1>13

\* The item taken is the next of those accepted.
LEMMA GetKeeps ==
    ASSUME IInv, Get
    PROVE  QueueOK' /\ ThreadOK' /\ QueueInv' /\ HandInv' /\ ResultsInv'
<1>1. queue \in Seq(Nat) /\ accepted \in Seq(Nat) /\ stats \in Stats /\ results \in Seq(Nat)
      /\ worker = "get" /\ accepted' = accepted /\ results' = results
  BY DEF IInv, QueueOK, ThreadOK, Get
<1>2. stats.total \in Nat /\ processed \in Nat /\ answered = processed
  BY <1>1 DEF Stats, processed, answered
<1>3. CASE queue = <<>>
  <2>1. worker' = "top" /\ UNCHANGED <<hand, stats, queue>>
    BY <1>3 DEF Get
  <2> QED  BY <2>1, <1>1
           DEF IInv, QueueOK, ThreadOK, QueueInv, HandInv, ResultsInv, processed, answered
<1>4. CASE queue # <<>>
  <2>1. /\ hand' = Head(queue) /\ queue' = Tail(queue) /\ worker' = "infer"
        /\ stats' = [stats EXCEPT !.total = @ + 1]
    BY <1>4 DEF Get
  <2>2. stats' \in Stats /\ stats'.total = stats.total + 1 /\ processed' = processed
    <3>1. /\ stats' = [total |-> stats.total + 1, success |-> stats.success,
                       failed |-> stats.failed]
          /\ stats.total \in Nat /\ stats.success \in Nat /\ stats.failed \in Nat
      BY <2>1, <1>1, StatsUpdates
    <3> QED  BY <3>1 DEF Stats, processed
  <2> HIDE DEF processed
  <2>3. /\ hand' \in Nat /\ queue' \in Seq(Nat) /\ Len(queue') = Len(queue) - 1
        /\ \A i \in 1..Len(queue') : queue'[i] = queue[i + 1]
    BY <2>1, <1>1, <1>4, HeadTailProperties, Zenon
  <2>4. hand' = queue[1]
    BY <2>1, <1>1, <1>4
  <2>5. Len(queue) \in Nat /\ DOMAIN queue = 1..Len(queue) /\ DOMAIN queue' = 1..Len(queue')
        /\ Len(queue) >= 1
    BY <1>1, <1>4, <2>3, LenProperties, EmptySeq
  <2>6. /\ Len(accepted) = stats.total + Len(queue)
        /\ \A i \in 1..Len(queue) : queue[i] = accepted[stats.total + i]
        /\ stats.total = processed
    BY <1>1, <1>2, <2>5 DEF IInv, QueueInv, HandInv
  <2>7. QueueInv'
    <3>1. \A i \in 1..Len(queue') : queue'[i] = accepted[stats'.total + i]
      BY <2>2, <2>3, <2>5, <2>6, <1>2
    <3>2. Len(accepted) = stats'.total + Len(queue')
      BY <2>2, <2>3, <2>5, <2>6, <1>2
    <3> QED  BY <3>1, <3>2, <2>5, <1>1 DEF QueueInv
  <2>8. HandInv'
    <3>1. hand' = accepted[stats.total + 1]
      BY <2>4, <2>5, <2>6
    <3> QED  BY <3>1, <2>1, <2>2, <2>6, <1>1, <1>2 DEF HandInv
  <2>9. ResultsInv'
    BY <2>1, <2>2, <1>1, <1>2 DEF IInv, ResultsInv, answered
  <2>10. QueueOK'
    BY <2>3, <2>5, <1>1, SizesAssumption DEF IInv, QueueOK
  <2>11. ThreadOK'
    BY <2>1, <2>2, <2>3, <1>1 DEF IInv, ThreadOK
  <2> QED  BY <2>7, <2>8, <2>9, <2>10, <2>11
<1> QED  BY <1>3, <1>4

-----------------------------------------------------------------------------
\* The invariant holds before the first line.
LEMMA InitIInv == Init => IInv
BY SizesAssumption, EmptySeq
   DEF Init, IInv, SourceOK, QueueOK, ThreadOK, LinesInv, QueueInv, HandInv, DeadInv,
       ResultsInv, Stats, processed, answered

\* The lines that are read at once.
LEMMA ReadKeeps ==
    ASSUME IInv, Read
    PROVE  SourceOK' /\ LinesInv'
<1>1. PICK b \in Batches : /\ buffer' = [i \in DOMAIN b |-> [no |-> read + i, kind |-> b[i]]]
                           /\ read' = read + Len(b)
  BY DEF Read
<1>2. b \in Seq(Kinds) /\ read \in Nat
  BY BatchesAssumption DEF IInv, SourceOK
<1>3. Len(b) \in Nat /\ DOMAIN b = 1..Len(b) /\ \A i \in 1..Len(b) : b[i] \in Kinds
  BY <1>2, LenProperties, ElementOfSeq
<1>4. \A i \in 1..Len(b) : [no |-> read + i, kind |-> b[i]] \in Lines
  BY <1>2, <1>3 DEF Lines
<1>5. buffer' \in [1..Len(b) -> Lines]
  BY <1>1, <1>3, <1>4
<1>6. buffer' \in Seq(Lines) /\ Len(buffer') = Len(b)
  BY <1>3, <1>5
<1>7. buffer = <<>> /\ UNCHANGED <<mode, conn, bare, main, running, accepted, dropped>>
  BY DEF Read
<1>8. SourceOK'
  BY <1>1, <1>2, <1>3, <1>6, <1>7 DEF IInv, SourceOK
<1>9. Len(accepted) \in Nat /\ dropped \in Nat /\ read = Len(accepted) + dropped
  BY <1>7, LenProperties, EmptySeq DEF IInv, SourceOK, QueueOK, LinesInv
<1> QED  BY <1>1, <1>3, <1>6, <1>7, <1>8, <1>9 DEF LinesInv

\* What remains of the lines when one is handled or all are discarded.
LEMMA BufferKeeps ==
    ASSUME IInv
    PROVE  /\ Len(buffer) \in Nat /\ Len(accepted) \in Nat
           /\ buffer # <<>> =>
                 /\ Head(buffer) \in Lines /\ Head(buffer).no \in Nat
                 /\ Tail(buffer) \in Seq(Lines) /\ Len(Tail(buffer)) = Len(buffer) - 1
<1>1. buffer \in Seq(Lines) /\ accepted \in Seq(Nat)
  BY DEF IInv, SourceOK, QueueOK
<1>2. Len(buffer) \in Nat /\ Len(accepted) \in Nat
  BY <1>1, LenProperties
<1>3. ASSUME buffer # <<>>
      PROVE  /\ Head(buffer) \in Lines
             /\ Tail(buffer) \in Seq(Lines) /\ Len(Tail(buffer)) = Len(buffer) - 1
  BY <1>1, <1>3, HeadTailProperties, Zenon
<1>4. \A l \in Lines : l.no \in Nat
  BY DEF Lines
<1> QED  BY <1>2, <1>3, <1>4

\* Discarding the rest of what was read keeps the account of the lines.
LEMMA DiscardKeeps ==
    ASSUME IInv, Discard, UNCHANGED <<mode, read, bare, accepted>>,
           main' \in {"feeding", "settling", "joining", "over"},
           conn' \in BOOLEAN, running' \in BOOLEAN
    PROVE  SourceOK' /\ LinesInv'
<1>1. Len(buffer) \in Nat /\ Len(accepted) \in Nat /\ dropped \in Nat
  BY BufferKeeps DEF IInv, SourceOK
<1>2. buffer' = <<>> /\ buffer' \in Seq(Lines) /\ Len(buffer') = 0
      /\ dropped' = dropped + Len(buffer)
  BY EmptySeq DEF Discard
<1> QED  BY <1>1, <1>2 DEF IInv, SourceOK, LinesInv

\* The thread dies of an item that is no dictionary, and the item stays what it was.
LEMMA DeadKeeps == IInv /\ [Next]_vars => DeadInv'
<1> SUFFICES ASSUME IInv, [Next]_vars PROVE DeadInv'
  OBVIOUS
<1>1. /\ DeadInv /\ stats \in Stats /\ accepted \in Seq(Nat) /\ stats.total \in Nat
      /\ (worker \in {"infer", "dead"} => stats.total \in 1..Len(accepted))
  <2>1. /\ stats \in Stats /\ accepted \in Seq(Nat) /\ queue \in Seq(Nat)
        /\ Len(accepted) = stats.total + Len(queue)
        /\ DeadInv /\ stats.total = processed + (IF worker = "infer" THEN 1 ELSE 0)
    BY DEF IInv, ThreadOK, QueueOK, QueueInv, HandInv
  <2>2. stats.total \in Nat /\ processed \in Nat
    BY <2>1 DEF Stats, processed
  <2>3. Len(queue) \in Nat
    BY <2>1, LenProperties
  <2> HIDE DEF processed
  <2> QED  BY <2>1, <2>2, <2>3 DEF DeadInv
<1>2. CASE HandleLine
  <2>1. worker' = worker /\ stats' = stats /\ bare \subseteq bare'
    BY <1>2 DEF HandleLine, thread
  <2>2. Head(buffer).no \in Nat
    BY <1>2, BufferKeeps DEF HandleLine
  <2>3. accepted' = accepted \/ accepted' = Append(accepted, Head(buffer).no)
    BY <1>2 DEF HandleLine, submit
  <2>4. \A i \in 1..Len(accepted) : accepted'[i] = accepted[i]
    BY <2>2, <2>3, <1>1, AppendNat
  <2> QED  BY <1>1, <2>1, <2>4 DEF DeadInv
<1>3. CASE Get
  BY <1>3 DEF Get, DeadInv
<1>4. CASE Die
  <2>1. stats'.total = stats.total
    BY <1>1, <1>4 DEF Die, Stats
  <2>2. accepted' = accepted /\ bare' = bare /\ hand \in bare /\ worker = "infer"
    BY <1>4 DEF Die, source
  <2>3. hand = accepted[stats.total]
    BY <2>2 DEF IInv, HandInv
  <2> QED  BY <1>1, <2>1, <2>2, <2>3 DEF DeadInv
<1>5. CASE Top \/ Succeed \/ Fail
  BY <1>5 DEF Top, Succeed, Fail, DeadInv
<1>6. CASE Accept \/ Read \/ BrokenLine \/ SourceEnds \/ Interrupt \/ Settled \/ Exit
  BY <1>1, <1>6 DEF Accept, Read, BrokenLine, SourceEnds, Interrupt, Settled, Exit, source,
                    thread, DeadInv
<1>7. CASE UNCHANGED vars
  BY <1>1, <1>7 DEF vars, source, thread, DeadInv
<1> QED  BY <1>2, <1>3, <1>4, <1>5, <1>6, <1>7 DEF Next, Main, Worker

\* Every step of the main thread and of the worker keeps the invariant.
LEMMA StepIInv == IInv /\ [Next]_vars => IInv'
<1> SUFFICES ASSUME IInv, [Next]_vars PROVE IInv'
  OBVIOUS
<1>0. DeadInv'
  BY DeadKeeps
<1>1. CASE Accept
  BY <1>0, <1>1, ThreadAlone DEF Accept, IInv, SourceOK, LinesInv
<1>2. CASE Read
  BY <1>0, <1>2, ThreadAlone, ReadKeeps DEF Read, IInv
<1>3. CASE HandleLine
  <2>1. /\ buffer # <<>> /\ buffer' = Tail(buffer)
        /\ UNCHANGED <<mode, conn, read, main, running, thread>>
    BY <1>3 DEF HandleLine
  <2>2. /\ Head(buffer).no \in Nat /\ Tail(buffer) \in Seq(Lines)
        /\ Len(Tail(buffer)) = Len(buffer) - 1
        /\ Len(buffer) \in Nat /\ Len(accepted) \in Nat /\ dropped \in Nat /\ read \in Nat
    BY <2>1, BufferKeeps DEF IInv, SourceOK
  <2>3. /\ QueueOK' /\ ThreadOK' /\ QueueInv' /\ HandInv' /\ ResultsInv'
        /\ dropped' \in Nat
        /\ Len(accepted') + dropped' = Len(accepted) + dropped + 1
    <3>1. CASE Head(buffer).kind # "skipped"
      BY <3>1, <1>3, <2>1, <2>2, SubmitKeeps DEF HandleLine
    <3>2. CASE Head(buffer).kind = "skipped"
      <4>1. dropped' = dropped + 1 /\ UNCHANGED <<queue, accepted>>
        BY <3>2, <1>3 DEF HandleLine
      <4> QED  BY <4>1, <2>1, <2>2, ThreadAlone
    <3> QED  BY <3>1, <3>2
  <2>4. SourceOK'
    <3>1. bare' \subseteq Nat
      BY <2>2, <1>3 DEF HandleLine, IInv, SourceOK
    <3> QED  BY <3>1, <2>1, <2>2, <2>3 DEF IInv, SourceOK
  <2>5. LinesInv'
    <3>1. accepted' \in Seq(Nat)
      BY <2>3 DEF QueueOK
    <3>2. Len(accepted') \in Nat
      BY <3>1, LenProperties
    <3>3. read = Len(accepted) + dropped + Len(buffer)
      BY DEF IInv, LinesInv
    <3> QED  BY <3>2, <3>3, <2>1, <2>2, <2>3 DEF LinesInv
  <2> QED  BY <1>0, <2>3, <2>4, <2>5 DEF IInv
<1>4. CASE BrokenLine
  <2>1. SourceOK' /\ LinesInv'
    <3>1. main' \in {"feeding", "settling", "joining", "over"} /\ conn' \in BOOLEAN
          /\ running' \in BOOLEAN
      BY <1>4 DEF BrokenLine, IInv, SourceOK
    <3> QED  BY <3>1, <1>4, DiscardKeeps DEF BrokenLine
  <2> QED  BY <1>0, <2>1, <1>4, ThreadAlone DEF BrokenLine, IInv
<1>5. CASE SourceEnds
  BY <1>0, <1>5, ThreadAlone DEF SourceEnds, IInv, SourceOK, LinesInv
<1>6. CASE Interrupt
  <2>1. SourceOK' /\ LinesInv'
    <3>1. main' \in {"feeding", "settling", "joining", "over"} /\ conn' \in BOOLEAN
          /\ running' \in BOOLEAN
      BY <1>6 DEF Interrupt, IInv, SourceOK
    <3> QED  BY <3>1, <1>6, DiscardKeeps DEF Interrupt
  <2> QED  BY <1>0, <2>1, <1>6, ThreadAlone DEF Interrupt, IInv
<1>7. CASE Settled
  BY <1>0, <1>7, ThreadAlone DEF Settled, source, IInv, SourceOK, LinesInv
<1>8. CASE Exit
  BY <1>0, <1>8, ThreadAlone DEF Exit, source, IInv, SourceOK, LinesInv
<1>9. ASSUME UNCHANGED <<source, main, running, accepted, dropped>>
      PROVE  SourceOK' /\ LinesInv'
  BY <1>9 DEF source, IInv, SourceOK, LinesInv
<1>10. CASE Top
  <2>1. QueueOK' /\ QueueInv' /\ ResultsInv' /\ ThreadOK' /\ HandInv'
    BY <1>10 DEF Top, IInv, QueueOK, ThreadOK, QueueInv, HandInv, ResultsInv, processed,
           answered
  <2> QED  BY <1>0, <2>1, <1>9, <1>10 DEF Top, IInv
<1>11. CASE Get
  BY <1>0, <1>11, <1>9, GetKeeps DEF Get, IInv
<1>12. CASE Succeed
  <2>1. stats' \in Stats /\ stats'.total = stats.total
        /\ stats'.success + stats'.failed = stats.success + stats.failed + 1
    <3>1. stats \in Stats /\ stats' = [stats EXCEPT !.success = @ + 1]
      BY <1>12 DEF Succeed, IInv, ThreadOK
    <3>2. /\ stats' = [total |-> stats.total, success |-> stats.success + 1, failed |-> stats.failed]
          /\ stats.total \in Nat /\ stats.success \in Nat /\ stats.failed \in Nat
      BY <3>1, StatsUpdates
    <3> QED  BY <3>2 DEF Stats
  <2> QED  BY <1>0, <2>1, <1>9, <1>12, ResultKeeps DEF Succeed, IInv
<1>13. CASE Fail
  <2>1. stats' \in Stats /\ stats'.total = stats.total
        /\ stats'.success + stats'.failed = stats.success + stats.failed + 1
    <3>1. stats \in Stats /\ stats' = [stats EXCEPT !.failed = @ + 1]
      BY <1>13 DEF Fail, IInv, ThreadOK
    <3>2. /\ stats' = [total |-> stats.total, success |-> stats.success, failed |-> stats.failed + 1]
          /\ stats.total \in Nat /\ stats.success \in Nat /\ stats.failed \in Nat
      BY <3>1, StatsUpdates
    <3> QED  BY <3>2 DEF Stats
  <2> QED  BY <1>0, <2>1, <1>9, <1>13, ResultKeeps DEF Fail, IInv
<1>14. CASE Die
  <2>1. /\ stats \in Stats /\ stats' = [stats EXCEPT !.failed = @ + 1]
        /\ worker = "infer" /\ worker' = "dead" /\ hand' = 0
        /\ UNCHANGED <<results, queue, accepted>>
    BY <1>14 DEF Die, IInv, ThreadOK
  <2>2. /\ stats' = [total |-> stats.total, success |-> stats.success, failed |-> stats.failed + 1]
        /\ stats.total \in Nat /\ stats.success \in Nat /\ stats.failed \in Nat
    BY <2>1, StatsUpdates
  <2>3. stats' \in Stats /\ stats'.total = stats.total
    BY <2>2 DEF Stats
  <2>4. /\ processed \in Nat /\ processed' = processed + 1
        /\ answered = processed /\ answered' = processed
    BY <2>1, <2>2 DEF processed, answered
  <2>5. QueueOK' /\ QueueInv' /\ ThreadOK'
    BY <2>1, <2>3 DEF IInv, QueueOK, QueueInv, ThreadOK
  <2> HIDE DEF processed
  <2>6. HandInv' /\ ResultsInv'
    BY <2>1, <2>3, <2>4 DEF IInv, HandInv, ResultsInv
  <2> QED  BY <1>0, <1>9, <1>14, <2>5, <2>6 DEF Die, IInv
<1>15. CASE UNCHANGED vars
  BY <1>0, <1>15, <1>9, ThreadAlone DEF vars, IInv
<1> QED  BY <1>1, <1>2, <1>3, <1>4, <1>5, <1>6, <1>7, <1>8, <1>10, <1>11, <1>12, <1>13, <1>14, <1>15
         DEF Next, Main, Worker

\* Every reachable state is of its type, and accounts for every line (stream_adapter.py).
THEOREM AllInvariants == Spec => [](TypeOK /\ Accounted)
<1>1. Init => IInv
  BY InitIInv
<1>2. IInv /\ [Next]_vars => IInv'
  BY StepIInv
<1>3. IInv => TypeOK /\ Accounted
  BY IInvParts
<1> QED  BY <1>1, <1>2, <1>3, PTL DEF Spec

\* Queue and results keep their bounds (stream_adapter.py:92-93).
THEOREM TypeCorrect == Spec => []TypeOK
BY AllInvariants, PTL

\* No item is lost behind the queue, doubled or taken out of turn.
THEOREM AccountedAlways == Spec => []Accounted
BY AllInvariants, PTL

-----------------------------------------------------------------------------
(* What a stop can cost, and what the worker's progress rests on.          *)

\* However the program ends, the accepted items without a result are the one in hand,
\* or the one the thread died of, and those queued: QueueMax and one at most as long as
\* nothing more comes in, whatever came before.
LossBounded == Len(accepted) - answered \in 0..(QueueMax + 1)

\* An item accepted stays accepted with its number, and results come one by one.
NothingTakenBack ==
    [][/\ \A i \in DOMAIN accepted : i \in DOMAIN accepted' /\ accepted'[i] = accepted[i]
       /\ answered' \in {answered, answered + 1}]_vars

\* As long as running is set the program is there, and the thread has not ended unless
\* the last item it took is no dictionary: stop() ends it, or such an item, but no
\* failure of an inference.
WorkerAlive ==
    running =>
        /\ main \in {"feeding", "settling"}
        /\ \/ worker \in {"top", "get", "infer"}
           \/ worker = "dead" /\ accepted[stats.total] \in bare

\* Steps of the thread until item k has its result.
StepsTo(k) ==
    3 * (k - answered) - (IF worker = "top" THEN 0 ELSE IF worker = "get" THEN 1 ELSE 2)

\* While running is set, every step of the thread brings every item without a result
\* nearer to it that is, like all before it, a dictionary, and no other step takes it
\* further away.  With the fairness of the thread this is why the queue drains.
ItemComesNearer ==
    [][\A k \in 1..Len(accepted) : running /\ Sound(k) /\ answered < k =>
          StepsTo(k)' = StepsTo(k) - (IF Worker THEN 1 ELSE 0)]_vars

\* What the invariant says of the numbers.
LEMMA Counts ==
    ASSUME IInv
    PROVE  /\ answered \in Nat /\ Len(queue) \in 0..QueueMax /\ accepted \in Seq(Nat)
           /\ stats.total = answered + (IF worker \in {"infer", "dead"} THEN 1 ELSE 0)
           /\ Len(accepted) = stats.total + Len(queue)
           /\ queue \in Seq(Nat) /\ (Len(queue) = 0 <=> queue = <<>>)
<1>1. stats \in Stats /\ queue \in Seq(Nat) /\ Len(queue) <= QueueMax /\ accepted \in Seq(Nat)
  BY DEF IInv, ThreadOK, QueueOK
<1>2. processed \in Nat
  BY <1>1 DEF Stats, processed
<1>3. Len(queue) \in 0..QueueMax
  BY <1>1, LenProperties, SizesAssumption
<1>4. Len(accepted) = stats.total + Len(queue)
      /\ stats.total = processed + (IF worker = "infer" THEN 1 ELSE 0)
  BY DEF IInv, QueueInv, HandInv
<1>5. worker = "dead" => stats.total > 0
  BY DEF IInv, DeadInv
<1> HIDE DEF processed
<1>6. Len(queue) = 0 <=> queue = <<>>
  BY <1>1, EmptySeq
<1>7. /\ answered \in Nat
      /\ stats.total = answered + (IF worker \in {"infer", "dead"} THEN 1 ELSE 0)
  <2>1. CASE worker = "dead"
    <3>1. stats.total = processed /\ answered = processed - 1 /\ processed > 0
      BY <2>1, <1>2, <1>4, <1>5 DEF answered
    <3> QED  BY <2>1, <3>1, <1>2
  <2>2. CASE worker # "dead"
    BY <2>2, <1>2, <1>4 DEF answered
  <2> QED  BY <2>1, <2>2
<1> QED  BY <1>1, <1>3, <1>4, <1>6, <1>7

\* The item in hand and a full queue are all that a stop can lose (stop, join with
\* its timeout of five seconds).
THEOREM LossBoundedAlways == Spec => []LossBounded
<1>1. IInv => LossBounded
  <2> SUFFICES ASSUME IInv PROVE LossBounded
    OBVIOUS
  <2> HIDE DEF answered
  <2> QED  BY Counts, SizesAssumption DEF LossBounded
<1>2. IInv <=> TypeOK /\ Accounted
  BY IInvParts
<1> QED  BY <1>1, <1>2, AllInvariants, PTL

\* The thread's steps, by what they do to answered and to where it is.
LEMMA WorkerSteps ==
    ASSUME IInv, Worker
    PROVE  /\ accepted' = accepted /\ bare' = bare /\ running' = running /\ main' = main
           /\ \/ worker = "top" /\ worker' = (IF running THEN "get" ELSE "off")
                 /\ answered' = answered
              \/ worker = "get" /\ worker' = (IF queue = <<>> THEN "top" ELSE "infer")
                 /\ answered' = answered
              \/ worker = "infer" /\ worker' = "top" /\ answered' = answered + 1
              \/ /\ worker = "infer" /\ worker' = "dead" /\ answered' = answered
                 /\ hand \in bare /\ stats'.total = stats.total
<1>1. stats \in Stats
  BY DEF IInv, ThreadOK
<1>2. CASE Top
  BY <1>2 DEF Top, processed, answered, source
<1>3. CASE Get
  <2>1. stats' = stats \/ stats' = [stats EXCEPT !.total = @ + 1]
    BY <1>3 DEF Get
  <2>2. processed' = processed
    BY <2>1, <1>1 DEF Stats, processed
  <2> QED  BY <1>3, <2>2 DEF Get, answered, source
<1>4. CASE Succeed \/ Fail \/ Die
  <2>1. \/ stats' = [stats EXCEPT !.success = @ + 1]
        \/ stats' = [stats EXCEPT !.failed = @ + 1]
    BY <1>4 DEF Succeed, Fail, Die
  <2>2. processed \in Nat /\ processed' = processed + 1 /\ stats'.total = stats.total
    BY <2>1, <1>1 DEF Stats, processed
  <2> HIDE DEF processed
  <2> QED  BY <1>4, <2>2 DEF Succeed, Fail, Die, answered, source
<1> QED  BY <1>2, <1>3, <1>4 DEF Worker

\* The main thread's steps leave the thread alone and only add to what is accepted.
LEMMA MainSteps ==
    ASSUME IInv, Main
    PROVE  /\ worker' = worker /\ answered' = answered
           /\ \A i \in DOMAIN accepted : i \in DOMAIN accepted' /\ accepted'[i] = accepted[i]
<1>1. worker' = worker /\ stats' = stats
  BY DEF Main, Accept, Read, HandleLine, BrokenLine, SourceEnds, Interrupt, Settled, Exit,
         thread
<1>2. accepted' = accepted \/ \E n \in Nat : accepted' = Append(accepted, n)
  <2>1. CASE HandleLine
    <3>1. Head(buffer).no \in Nat
      BY <2>1, BufferKeeps DEF HandleLine
    <3> QED  BY <2>1, <3>1 DEF HandleLine, submit
  <2>2. CASE ~HandleLine
    BY <2>2 DEF Main, Accept, Read, BrokenLine, SourceEnds, Interrupt, Settled, Exit
  <2> QED  BY <2>1, <2>2
<1>3. accepted \in Seq(Nat)
  BY DEF IInv, QueueOK
<1>4. answered' = answered
  BY <1>1 DEF processed, answered
<1>5. CASE accepted' = accepted
  BY <1>1, <1>4, <1>5
<1>6. ASSUME NEW n \in Nat, accepted' = Append(accepted, n)
      PROVE  \A i \in DOMAIN accepted : i \in DOMAIN accepted' /\ accepted'[i] = accepted[i]
  BY <1>3, <1>6
<1> QED  BY <1>1, <1>2, <1>4, <1>5, <1>6

\* Accepted items are final, and a step adds at most one result.
THEOREM NothingTakenBackAlways == Spec => NothingTakenBack
<1> DEFINE Step ==
      /\ \A i \in DOMAIN accepted : i \in DOMAIN accepted' /\ accepted'[i] = accepted[i]
      /\ answered' \in {answered, answered + 1}
<1>1. IInv /\ [Next]_vars => [Step]_vars
  BY WorkerSteps, MainSteps DEF Next
<1>2. IInv <=> TypeOK /\ Accounted
  BY IInvParts
<1> QED  BY <1>1, <1>2, AllInvariants, PTL DEF Spec, NothingTakenBack

\* The thread is alive until stop() is called or an item that is no dictionary ends it,
\* and its steps are those an item waits for: an inference that fails costs an item no
\* more of them than one that succeeds.
THEOREM ItemComesNearerAlways == Spec => []WorkerAlive /\ ItemComesNearer
<1> DEFINE Step ==
      \A k \in 1..Len(accepted) : running /\ Sound(k) /\ answered < k =>
          StepsTo(k)' = StepsTo(k) - (IF Worker THEN 1 ELSE 0)
<1>1. Init => WorkerAlive
  BY DEF Init, WorkerAlive
<1>2. ASSUME IInv, WorkerAlive, [Next]_vars PROVE WorkerAlive'
  <2>1. CASE Worker
    <3>1. worker = "infer" => hand = accepted[stats.total]
      BY <1>2 DEF IInv, HandInv
    <3> QED  BY <1>2, <2>1, <3>1, WorkerSteps DEF WorkerAlive
  <2>2. CASE Main
    <3>1. worker' = worker
      BY <1>2, <2>2, MainSteps
    <3>2. \/ running' = running /\ main' = main
          \/ main = "feeding" /\ main' = "settling" /\ running' = running
          \/ running' = FALSE
          \/ main = "joining"
      BY <2>2 DEF Main, Accept, Read, HandleLine, BrokenLine, SourceEnds, Interrupt,
                  Settled, Exit
    <3>3. main = "joining" => running' = running \/ running' = FALSE
      BY <2>2 DEF Main, Accept, Read, HandleLine, BrokenLine, SourceEnds, Interrupt,
                  Settled, Exit
    <3>4. worker' = "dead" => accepted'[stats'.total] \in bare'
      BY <1>2, DeadKeeps DEF DeadInv
    <3> QED  BY <1>2, <3>1, <3>2, <3>3, <3>4 DEF WorkerAlive, IInv, SourceOK
  <2>3. CASE UNCHANGED vars
    BY <1>2, <2>3 DEF vars, source, thread, WorkerAlive
  <2> QED  BY <1>2, <2>1, <2>2, <2>3 DEF Next
<1>3. ASSUME IInv, WorkerAlive, Next PROVE Step
  <2> SUFFICES ASSUME NEW k \in 1..Len(accepted), running, Sound(k), answered < k
               PROVE  StepsTo(k)' = StepsTo(k) - (IF Worker THEN 1 ELSE 0)
    OBVIOUS
  <2>1. /\ answered \in Nat /\ Len(queue) \in 0..QueueMax
        /\ stats.total = answered + (IF worker \in {"infer", "dead"} THEN 1 ELSE 0)
        /\ Len(accepted) = stats.total + Len(queue)
        /\ (Len(queue) = 0 <=> queue = <<>>)
    BY <1>3, Counts
  <2> HIDE DEF answered
  <2>2. /\ worker \in {"top", "get", "infer"}
        /\ worker = "infer" => hand \notin bare
    <3>1. worker \in {"infer", "dead"} => accepted[stats.total] \notin bare
      BY <2>1 DEF Sound
    <3>2. worker = "infer" => hand = accepted[stats.total]
      BY <1>3 DEF IInv, HandInv
    <3> QED  BY <1>3, <3>1, <3>2 DEF WorkerAlive
  <2>3. worker = "get" => queue # <<>>
    BY <2>1
  <2>4. CASE Worker
    <3>1. \/ worker = "top" /\ worker' = "get" /\ answered' = answered
          \/ worker = "get" /\ worker' = "infer" /\ answered' = answered
          \/ worker = "infer" /\ worker' = "top" /\ answered' = answered + 1
      BY <1>3, <2>2, <2>3, <2>4, WorkerSteps
    <3> DEFINE turn(w) == IF w = "top" THEN 0 ELSE IF w = "get" THEN 1 ELSE 2
    <3>2. /\ StepsTo(k) = 3 * (k - answered) - turn(worker)
          /\ StepsTo(k)' = 3 * (k - answered') - turn(worker')
      BY DEF StepsTo
    <3>3. k \in Nat /\ answered \in Nat
      BY <2>1
    <3>4. \/ turn(worker) = 0 /\ turn(worker') = 1 /\ answered' = answered
          \/ turn(worker) = 1 /\ turn(worker') = 2 /\ answered' = answered
          \/ turn(worker) = 2 /\ turn(worker') = 0 /\ answered' = answered + 1
      BY <3>1
    <3> HIDE DEF turn
    <3>5. StepsTo(k)' = StepsTo(k) - 1
      BY <3>2, <3>3, <3>4
    <3> QED  BY <2>4, <3>5
  <2>5. CASE ~Worker
    <3>1. worker' = worker /\ answered' = answered
      BY <1>3, <2>5, MainSteps DEF Next
    <3>2. StepsTo(k)' = StepsTo(k) /\ StepsTo(k) \in Int
      BY <2>1, <3>1 DEF StepsTo
    <3> QED  BY <2>5, <3>2
  <2> QED  BY <2>4, <2>5
<1>4. IInv /\ WorkerAlive /\ [Next]_vars => [Step]_vars
  BY <1>3
<1>5. IInv <=> TypeOK /\ Accounted
  BY IInvParts
<1>6. IInv /\ WorkerAlive /\ [Next]_vars => WorkerAlive'
  BY <1>2
<1> QED  BY <1>1, <1>4, <1>5, <1>6, AllInvariants, PTL DEF Spec, ItemComesNearer
-----------------------------------------------------------------------------
(* What the item costs that ends the thread.                               *)

\* The thread has ended of an item that is no dictionary, with n items answered.
DeadWith(n) == worker = "dead" /\ answered = n

\* Nobody starts the thread again, and no item accepted before or later gets a result
\* (stream_adapter.py:96-140); running stays set until stop() is called, so
\* from the outside the worker looks alive, and its queue fills up.
THEOREM NothingAfterDeath ==
    ASSUME NEW n \in Nat
    PROVE  /\ Spec => [](DeadWith(n) => []DeadWith(n))
           /\ Spec => [][DeadWith(n) /\ running' # running => main' = "joining"]_vars
<1>1. ASSUME IInv, DeadWith(n), [Next]_vars PROVE DeadWith(n)'
  <2>1. ~Worker
    BY <1>1 DEF Worker, Top, Get, Succeed, Fail, Die, DeadWith
  <2>2. CASE Main
    BY <1>1, <2>2, MainSteps DEF DeadWith
  <2>3. CASE UNCHANGED vars
    BY <1>1, <2>3 DEF DeadWith, answered, processed, vars, thread
  <2> QED  BY <1>1, <2>1, <2>2, <2>3 DEF Next
<1>2. DeadWith(n) /\ [Next]_vars
        => [DeadWith(n) /\ running' # running => main' = "joining"]_vars
  <2> SUFFICES ASSUME DeadWith(n), Next, running' # running PROVE main' = "joining"
    OBVIOUS
  <2>1. Main
    BY DEF Next, Worker, Top, Get, Succeed, Fail, Die
  <2> QED  BY <2>1 DEF Main, Accept, Read, HandleLine, BrokenLine, SourceEnds, Interrupt,
                      Settled, Exit
<1>3. IInv <=> TypeOK /\ Accounted
  BY IInvParts
<1>4. [Next]_vars => [DeadWith(n) /\ running' # running => main' = "joining"]_vars
  BY <1>2
<1> QED  BY <1>1, <1>3, <1>4, AllInvariants, PTL DEF Spec

=============================================================================
