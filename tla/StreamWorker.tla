---------------------------- MODULE StreamWorker ----------------------------
(***************************************************************************)
(* The stream adapter (stream_adapter.py): a main thread that takes lines  *)
(* from sensors over TCP, from a file that it replays, or from the files   *)
(* of a directory, and InferenceWorker's thread, which takes them from a   *)
(* bounded queue, infers and keeps the newest results.  Lines are numbered *)
(* as they come in and are data, "skipped" (no JSON, no readings), "bare"  *)
(* or "broken".  A bare line is a list or a string with "task_id" and      *)
(* "data" in it, which passes for an item although it is no dictionary.  A *)
(* broken one makes raw_to_standard_input or the parser of a file raise:   *)
(* TCP then drops the connection with what it had still to read, a         *)
(* directory ends the program.                                             *)
(***************************************************************************)
EXTENDS Integers, Sequences

CONSTANTS
    Batches,     \* the kinds of the lines that are read at once
    QueueMax,    \* maxsize of input_queue (500)
    ResultsMax,  \* RESULT_QUEUE_MAX (1000)
    MaxLines     \* bound: lines that come in

Kinds == {"data", "skipped", "bare", "broken"}

ASSUME BatchesAssumption == Batches \subseteq Seq(Kinds)
ASSUME SizesAssumption == QueueMax \in Nat \ {0} /\ ResultsMax \in Nat \ {0} /\ MaxLines \in Nat

VARIABLES
    mode,      \* "tcp", "simulate" or "watch"
    main,      \* the main thread: "feeding", "settling", "joining" or "over"
    conn,      \* a source is open
    buffer,    \* the lines read and not yet handled: [no, kind]
    running,   \* worker.running
    worker,    \* its thread: "top", "get", "infer", "off", or "dead" of an exception
    queue,     \* input_queue
    bare,      \* the items that are no dictionaries
    hand,      \* the item it infers on
    results,   \* the numbers of the items with a result, the newest last
    stats,     \* stats
    read, accepted, dropped  \* history: lines read, those put into the queue, and
                             \*   how many were not

source == <<mode, conn, buffer, read, bare>>
thread == <<worker, hand, results, stats>>
vars == <<source, main, running, thread, queue, accepted, dropped>>

Init ==
    /\ mode \in {"tcp", "simulate", "watch"} /\ main = "feeding"
    /\ conn = (mode # "tcp") /\ buffer = <<>>
    /\ running = TRUE /\ worker = "top"
    /\ queue = <<>> /\ bare = {} /\ hand = 0 /\ results = <<>>
    /\ stats = [total |-> 0, success |-> 0, failed |-> 0]
    /\ read = 0 /\ accepted = <<>> /\ dropped = 0

-----------------------------------------------------------------------------
(* The main thread.                                                        *)

\* One client at a time: the others wait in the backlog.
Accept ==
    /\ main = "feeding" /\ ~conn
    /\ conn' = TRUE
    /\ UNCHANGED <<mode, buffer, read, bare, main, running, thread, queue, accepted, dropped>>

\* recv, or the next row, or a file.
Read ==
    /\ main = "feeding" /\ conn /\ buffer = <<>>
    /\ \E b \in Batches :
          /\ read + Len(b) <= MaxLines
          /\ mode = "simulate" => \A i \in DOMAIN b : b[i] \in {"data", "skipped"}
          /\ buffer' = [i \in DOMAIN b |-> [no |-> read + i, kind |-> b[i]]]
          /\ read' = read + Len(b)
    /\ UNCHANGED <<mode, conn, bare, main, running, thread, queue, accepted, dropped>>

\* Mutant: a full queue makes room.
submit_DropsOldest(n) ==
    /\ queue' = Append(IF Len(queue) < QueueMax THEN queue ELSE Tail(queue), n)
    /\ accepted' = Append(accepted, n)
    /\ UNCHANGED dropped

\* Mutant: the queue has no maxsize.
submit_NoLimit(n) ==
    /\ queue' = Append(queue, n)
    /\ accepted' = Append(accepted, n)
    /\ UNCHANGED dropped

\* put_nowait: an item that finds the queue full is dropped; nobody looks at the answer.
submit(n) ==
    IF Len(queue) < QueueMax
    THEN queue' = Append(queue, n) /\ accepted' = Append(accepted, n) /\ UNCHANGED dropped
    ELSE dropped' = dropped + 1 /\ UNCHANGED <<queue, accepted>>

\* What looks like an item already is submitted as it is.
HandleLine ==
    /\ main = "feeding" /\ buffer # <<>> /\ Head(buffer).kind # "broken"
    /\ buffer' = Tail(buffer)
    /\ IF Head(buffer).kind = "skipped"
       THEN dropped' = dropped + 1 /\ UNCHANGED <<queue, accepted>>
       ELSE submit(Head(buffer).no)
    /\ bare' = IF Head(buffer).kind = "bare" THEN bare \cup {Head(buffer).no} ELSE bare
    /\ UNCHANGED <<mode, conn, read, main, running, thread>>

\* The rest of what was read is never handled.
Discard == buffer' = <<>> /\ dropped' = dropped + Len(buffer)

BrokenLine ==
    /\ main = "feeding" /\ buffer # <<>> /\ Head(buffer).kind = "broken"
    /\ Discard
    /\ IF mode = "tcp"
       THEN conn' = FALSE /\ UNCHANGED <<main, running>>
       ELSE main' = "joining" /\ running' = FALSE /\ UNCHANGED conn
    /\ UNCHANGED <<mode, read, bare, thread, queue, accepted>>

\* The client closes the connection, or the file that is replayed ends.
SourceEnds ==
    /\ main = "feeding" /\ conn /\ buffer = <<>> /\ mode # "watch"
    /\ IF mode = "tcp"
       THEN conn' = FALSE /\ UNCHANGED main
       ELSE main' = "settling" /\ UNCHANGED conn
    /\ UNCHANGED <<mode, buffer, read, bare, running, thread, queue, accepted, dropped>>

\* Ctrl+C; the replay does not catch it, nor does the sleep at the end.
Interrupt ==
    /\ main = "feeding" \/ main = "settling"
    /\ Discard
    /\ IF main = "feeding" /\ mode # "simulate"
       THEN main' = "settling" /\ UNCHANGED running
       ELSE main' = "joining" /\ running' = FALSE
    /\ UNCHANGED <<mode, conn, read, bare, thread, queue, accepted>>

\* Two seconds "for the queue to be digested", then stop.
Settled ==
    /\ main = "settling"
    /\ main' = "joining" /\ running' = FALSE
    /\ UNCHANGED <<source, thread, queue, accepted, dropped>>

\* join returns, or after five seconds gives up a thread that still infers; the
\* program ends with it, and what is queued is lost.
Exit ==
    /\ main = "joining" /\ worker \in {"off", "dead", "infer"}
    /\ main' = "over"
    /\ UNCHANGED <<source, running, thread, queue, accepted, dropped>>

-----------------------------------------------------------------------------
(* InferenceWorker's thread.                                               *)

Top ==
    /\ main # "over" /\ worker = "top"
    /\ worker' = IF running THEN "get" ELSE "off"
    /\ UNCHANGED <<source, main, running, hand, results, stats, queue, accepted, dropped>>

\* Mutant: the Empty that get raises after a second is not caught.
Get_EmptyEnds ==
    /\ main # "over" /\ worker = "get"
    /\ IF queue = <<>>
       THEN worker' = "off" /\ UNCHANGED <<hand, stats, queue>>
       ELSE /\ hand' = Head(queue) /\ queue' = Tail(queue)
            /\ stats' = [stats EXCEPT !.total = @ + 1]
            /\ worker' = "infer"
    /\ UNCHANGED <<source, main, running, results, accepted, dropped>>

\* get(timeout=1) takes an item, even when running is false meanwhile.
Get ==
    /\ main # "over" /\ worker = "get"
    /\ IF queue = <<>>
       THEN worker' = "top" /\ UNCHANGED <<hand, stats, queue>>
       ELSE /\ hand' = Head(queue) /\ queue' = Tail(queue)
            /\ stats' = [stats EXCEPT !.total = @ + 1]
            /\ worker' = "infer"
    /\ UNCHANGED <<source, main, running, results, accepted, dropped>>

\* deque(maxlen): the oldest result makes room for the newest.
Result ==
    /\ results' = Append(IF Len(results) < ResultsMax THEN results ELSE Tail(results), hand)
    /\ hand' = 0

Succeed ==
    /\ main # "over" /\ worker = "infer" /\ hand \notin bare
    /\ worker' = "top"
    /\ stats' = [stats EXCEPT !.success = @ + 1]
    /\ Result
    /\ UNCHANGED <<source, main, running, queue, accepted, dropped>>

\* infer raises: the failure is counted, and is the item's result.
Fail ==
    /\ main # "over" /\ worker = "infer" /\ hand \notin bare
    /\ worker' = "top"
    /\ stats' = [stats EXCEPT !.failed = @ + 1]
    /\ Result
    /\ UNCHANGED <<source, main, running, queue, accepted, dropped>>

\* infer raises for an item that has no get, and so does the handler, which asks the
\* item for its task_id: the thread ends with the failure counted and no result.
\* Nobody clears running.
Die ==
    /\ main # "over" /\ worker = "infer" /\ hand \in bare
    /\ worker' = "dead"
    /\ stats' = [stats EXCEPT !.failed = @ + 1]
    /\ hand' = 0
    /\ UNCHANGED <<source, main, running, results, queue, accepted, dropped>>

Worker == Top \/ Get \/ Succeed \/ Fail \/ Die

Main ==
    \/ Accept \/ Read \/ HandleLine \/ BrokenLine \/ SourceEnds
    \/ Interrupt \/ Settled \/ Exit

Next == Main \/ Worker

\* The worker's thread runs, and an inference ends (call_model has a timeout).
Spec == Init /\ [][Next]_vars /\ WF_vars(Worker)

-----------------------------------------------------------------------------
(* Properties.                                                             *)

\* Every variable has its type, and queue and results keep their bounds.
TypeOK ==
    /\ mode \in {"tcp", "simulate", "watch"}
    /\ main \in {"feeding", "settling", "joining", "over"}
    /\ conn \in BOOLEAN /\ running \in BOOLEAN
    /\ buffer \in Seq([no : Nat, kind : Kinds])
    /\ worker \in {"top", "get", "infer", "off", "dead"}
    /\ bare \subseteq Nat
    /\ queue \in Seq(Nat) /\ Len(queue) <= QueueMax
    /\ results \in Seq(Nat) /\ Len(results) <= ResultsMax
    /\ hand \in Nat
    /\ stats \in [total : Nat, success : Nat, failed : Nat]
    /\ read \in Nat /\ accepted \in Seq(Nat) /\ dropped \in Nat

processed == stats.success + stats.failed

\* Those with a result: all that are counted, but for the one the thread died of.
answered == processed - (IF worker = "dead" THEN 1 ELSE 0)

\* Nothing is inferred on twice, lost behind the queue or taken out of turn, and the
\* statistics agree with what happened: the lines read are those handled and those
\* still in the buffer; the accepted ones are, in their order, those with a result,
\* the one in hand or the one the thread died of, and those queued; the results kept
\* are the newest (stream_adapter.py:87-140), through overflow, failures and a stop in
\* between.  The thread dies of an item that is no dictionary only.
Accounted ==
    /\ read = Len(accepted) + dropped + Len(buffer)
    /\ stats.total = processed + (IF worker = "infer" THEN 1 ELSE 0)
    /\ Len(accepted) = stats.total + Len(queue)
    /\ \A i \in DOMAIN queue : queue[i] = accepted[stats.total + i]
    /\ worker = "infer" => hand = accepted[stats.total]
    /\ worker = "dead" => stats.total > 0 /\ accepted[stats.total] \in bare
    /\ Len(results) = IF answered < ResultsMax THEN answered ELSE ResultsMax
    /\ \A i \in DOMAIN results : results[i] = accepted[answered - Len(results) + i]

\* The first k items accepted are dictionaries.
Sound(k) == \A j \in 1..k : accepted[j] \notin bare

\* While the worker runs, an item gets its result, however many fail before it and
\* however long the queue was empty: unless one before it, or it, is no dictionary.
Drains ==
    \A k \in 1..MaxLines :
        (Len(accepted) >= k /\ Sound(k)) ~> (answered >= k \/ ~running)

=============================================================================
