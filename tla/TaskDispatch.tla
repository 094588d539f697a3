---------------------------- MODULE TaskDispatch ----------------------------
(***************************************************************************)
(* The path of a cloud task: the decision engine creates it from a         *)
(* heartbeat, the cloud's per-device queue holds it, a poll carries it     *)
(* over HTTP, the edge's TaskScheduler queues, executes and reports it.    *)
(*                                                                         *)
(* Cloud (one event loop, handlers without an await inside):               *)
(*   cloud_server/scheduler/decision_engine.py, storage/task_queue.py,     *)
(*   api/heartbeat.py, api/tasks.py.  Every structure there is keyed by    *)
(*   the device id of the request, so one device is modelled.              *)
(* Edge: edge-gui/task_scheduler.cpp, used by two threads: the UI thread   *)
(*   (process_queue every frame, poll button) and the poll thread that     *)
(*   start() creates.  The EdgeCloudClient the tasks are executed with is  *)
(*   kept at the grain the scheduler sees: one request at a time, finished *)
(*   callbacks; its stream parser is the subject of module SseClient.    *)
(*   The endpoint is set "before start" (task_scheduler.h:93), never while *)
(*   the poll thread runs.                                                 *)
(*                                                                         *)
(* A task is its id, the index of its type and priority in tasks; queues,  *)
(* responses and the task in execution hold ids.                           *)
(***************************************************************************)
EXTENDS Integers, Sequences, FiniteSets

CONSTANTS
    Situations,   \* sets of conditions a heartbeat may report
    MaxTasks      \* bound: tasks the cloud creates in a behaviour

\* The rules of _make_decisions, in the order the code tries them.
Rules == <<
    [when |-> "degraded_network", type |-> "rule_sync",       priority |-> 5],
    [when |-> "low_memory",       type |-> "cloud_review",    priority |-> 4],
    [when |-> "low_tps",          type |-> "rule_sync",       priority |-> 3],
    [when |-> "fluctuating",      type |-> "rule_sync",       priority |-> 4],
    [when |-> "low_gpu",          type |-> "upload_features", priority |-> 3],
    [when |-> "old_lora",         type |-> "model_update",    priority |-> 2] >>

RuleIds == 1..6
Conditions == {"degraded_network", "low_memory", "low_tps", "fluctuating",
               "low_gpu", "old_lora"}

ASSUME MaxTasksAssumption == MaxTasks \in Nat
ASSUME SituationsAssumption == Situations \subseteq SUBSET Conditions

\* The task types run through the EdgeCloudClient; the two others complete
\* inside execute_task.
AsyncTypes == {"cloud_review", "upload_features"}
Decision == [type : {"rule_sync", "model_update"} \cup AsyncTypes, priority : 2..5]

TaskIds == 1..MaxTasks
None == 0                 \* no task
Review == -1              \* a request_cloud_review, which is no task

UI == "ui"
Background == "background"
Pollers == {UI, Background}

VARIABLES
    tasks,      \* the decisions enqueued so far: the type and priority of task i
    deciding,   \* rules the heartbeat handler in progress has still to enqueue
    snapshot,   \* device_state: the conditions last reported, {} before
    cloudQ,     \* TaskQueueManager._queues[device]
    pc,         \* [Pollers -> where the thread is in poll_cloud_tasks]
    batch,      \* [Pollers -> tasks of the response not yet enqueued]
    abandoned,  \* [Pollers -> a request given up on that the cloud may still serve]
    endpoint,   \* TaskScheduler._cloud_endpoint is not empty
    running,    \* TaskScheduler._running
    edgeQ,      \* TaskScheduler._queue
    ui,         \* where the UI thread is in process_queue or stop
    exec,       \* the task process_queue has popped
    verdict,    \* the result execute_task is about to report
    request,    \* what EdgeCloudClient's worker is busy with
    reachable,  \* EdgeCloudClient._reachable
    received,   \* history: tasks handed to on_task_received
    outcome,    \* history: per task, the results on_task_complete was called with
    lost        \* history: tasks that vanished before they were received

cloudVars == <<tasks, deciding, snapshot, cloudQ>>
pollVars == <<pc, batch, abandoned, endpoint>>
uiVars == <<ui, exec, verdict>>
clientVars == <<request, reachable>>
vars == <<cloudVars, pollVars, running, edgeQ, uiVars, clientVars,
          received, outcome, lost>>

Elems(q) == {q[n] : n \in DOMAIN q}

\* Mutant: the queue is not sorted after the push.
StableInsert_AtTheBack(ts, q, i) == Append(q, i)

\* Stable sort by descending priority after a push at the back, of a queue
\* that was sorted before: the new task goes behind its equals.
StableInsert(ts, q, i) ==
    LET cut == CHOOSE k \in 0..Len(q) :
                 \A n \in DOMAIN q :
                    n <= k <=> ts[q[n]].priority >= ts[i].priority
    IN  [n \in 1..(Len(q) + 1) |->
            IF n <= cut THEN q[n] ELSE IF n = cut + 1 THEN i ELSE q[n - 1]]

Init ==
    /\ tasks = <<>>
    /\ deciding = {}
    /\ snapshot = {}
    /\ cloudQ = <<>>
    /\ pc = [p \in Pollers |-> "idle"]
    /\ batch = [p \in Pollers |-> <<>>]
    /\ abandoned = [p \in Pollers |-> FALSE]
    /\ endpoint = FALSE
    /\ running = FALSE
    /\ edgeQ = <<>>
    /\ ui = "free"
    /\ exec = None
    /\ verdict = "none"
    /\ request = None
    /\ reachable = FALSE
    /\ received = {}
    /\ outcome = [i \in TaskIds |-> {}]
    /\ lost = {}

-----------------------------------------------------------------------------
(* The cloud.                                                              *)

Fired(s) == {k \in RuleIds : Rules[k].when \in s}

\* POST /heartbeat: store the snapshot and decide.  The handler then enqueues
\* its decisions one lock at a time without returning to the event loop, so
\* no other handler runs while deciding is not empty.
Heartbeat(s) ==
    /\ deciding = {}
    /\ Len(tasks) + Cardinality(Fired(s)) <= MaxTasks
    /\ snapshot' = s
    /\ deciding' = Fired(s)
    /\ UNCHANGED <<tasks, cloudQ, pollVars, running, edgeQ, uiVars, clientVars,
                   received, outcome, lost>>

\* TaskQueueManager.enqueue of the first decision left.
Enqueue ==
    \E k \in deciding :
        /\ Len(tasks) < MaxTasks
        /\ \A j \in deciding : k <= j
        /\ tasks' = Append(tasks, [type |-> Rules[k].type, priority |-> Rules[k].priority])
        /\ cloudQ' = StableInsert(tasks', cloudQ, Len(tasks) + 1)
        /\ deciding' = deciding \ {k}
        /\ UNCHANGED <<snapshot, pollVars, running, edgeQ, uiVars, clientVars,
                       received, outcome, lost>>

\* Mutant: peek instead of drain.
Drain_Peeks(p) ==
    /\ deciding = {}
    /\ pc[p] = "requested"
    /\ pc' = [pc EXCEPT ![p] = "answered"]
    /\ batch' = [batch EXCEPT ![p] = cloudQ]
    /\ UNCHANGED <<cloudVars, abandoned, endpoint, running, edgeQ, uiVars, clientVars,
                   received, outcome, lost>>

\* GET /tasks: the queue is removed and becomes the response.
Drain(p) ==
    /\ deciding = {}
    /\ pc[p] = "requested"
    /\ pc' = [pc EXCEPT ![p] = "answered"]
    /\ batch' = [batch EXCEPT ![p] = cloudQ]
    /\ cloudQ' = <<>>
    /\ UNCHANGED <<tasks, deciding, snapshot, abandoned, endpoint, running, edgeQ,
                   uiVars, clientVars, received, outcome, lost>>

\* GET /tasks of a request whose client has gone: the response goes nowhere.
DrainAbandoned(p) ==
    /\ deciding = {}
    /\ abandoned[p]
    /\ abandoned' = [abandoned EXCEPT ![p] = FALSE]
    /\ lost' = lost \cup Elems(cloudQ)
    /\ cloudQ' = <<>>
    /\ UNCHANGED <<tasks, deciding, snapshot, pc, batch, endpoint, running, edgeQ,
                   uiVars, clientVars, received, outcome>>

\* The cloud process dies and comes back: queue and snapshots are in memory.
CloudRestart ==
    /\ deciding' = {}
    /\ snapshot' = {}
    /\ cloudQ' = <<>>
    /\ lost' = lost \cup Elems(cloudQ)
    /\ UNCHANGED <<tasks, pollVars, running, edgeQ, uiVars, clientVars,
                   received, outcome>>

-----------------------------------------------------------------------------
(* TaskScheduler.poll_cloud_tasks, run by the poll thread and by the UI.   *)

UIFree == ui = "free" /\ pc[UI] = "idle"

SetEndpoint ==
    /\ UIFree
    /\ ~running
    /\ endpoint' \in BOOLEAN
    /\ UNCHANGED <<cloudVars, pc, batch, abandoned, running, edgeQ, uiVars,
                   clientVars, received, outcome, lost>>

\* Without an endpoint the poll returns at once.
PollSend(p) ==
    /\ IF p = UI THEN UIFree ELSE pc[p] = "idle" /\ running
    /\ endpoint
    /\ pc' = [pc EXCEPT ![p] = "requested"]
    /\ UNCHANGED <<cloudVars, batch, abandoned, endpoint, running, edgeQ, uiVars,
                   clientVars, received, outcome, lost>>

\* No answer within the two seconds, or no connection.  The request may be on
\* its way still (bound: one such request per thread).
RequestTimesOut(p) ==
    /\ pc[p] = "requested"
    /\ pc' = [pc EXCEPT ![p] = "idle"]
    /\ \E onItsWay \in BOOLEAN :
          abandoned' = [abandoned EXCEPT ![p] = abandoned[p] \/ onItsWay]
    /\ UNCHANGED <<cloudVars, batch, endpoint, running, edgeQ, uiVars, clientVars,
                   received, outcome, lost>>

\* A response with status 200: its items are gone through one by one.
ResponseArrives(p) ==
    /\ pc[p] = "answered"
    /\ pc' = [pc EXCEPT ![p] = "storing"]
    /\ UNCHANGED <<cloudVars, batch, abandoned, endpoint, running, edgeQ, uiVars,
                   clientVars, received, outcome, lost>>

\* The cloud has answered but the answer does not arrive, or not in time.
ResponseLost(p) ==
    /\ pc[p] = "answered"
    /\ pc' = [pc EXCEPT ![p] = "idle"]
    /\ batch' = [batch EXCEPT ![p] = <<>>]
    /\ lost' = lost \cup Elems(batch[p])
    /\ UNCHANGED <<cloudVars, abandoned, endpoint, running, edgeQ, uiVars, clientVars,
                   received, outcome>>

\* enqueue of the next item of the response; the lock is per item.  The code
\* skips items of an unknown type: the decision engine creates none.
Store(p) ==
    /\ pc[p] = "storing"
    /\ batch[p] # <<>>
    /\ edgeQ' = StableInsert(tasks, edgeQ, Head(batch[p]))
    /\ batch' = [batch EXCEPT ![p] = Tail(batch[p])]
    /\ UNCHANGED <<cloudVars, pc, abandoned, endpoint, running, uiVars, clientVars,
                   received, outcome, lost>>

\* Mutant: the loop over the items stops before the last one.
PollEnds_OneEarly(p) ==
    /\ pc[p] = "storing"
    /\ Len(batch[p]) <= 1
    /\ pc' = [pc EXCEPT ![p] = "idle"]
    /\ batch' = [batch EXCEPT ![p] = <<>>]
    /\ UNCHANGED <<cloudVars, abandoned, endpoint, running, edgeQ, uiVars, clientVars,
                   received, outcome, lost>>

\* No item is left, or the array was empty.
PollEnds(p) ==
    /\ pc[p] = "storing"
    /\ batch[p] = <<>>
    /\ pc' = [pc EXCEPT ![p] = "idle"]
    /\ UNCHANGED <<cloudVars, batch, abandoned, endpoint, running, edgeQ, uiVars,
                   clientVars, received, outcome, lost>>

Start ==
    /\ UIFree
    /\ ~running
    /\ running' = TRUE
    /\ UNCHANGED <<cloudVars, pollVars, edgeQ, uiVars, clientVars, received,
                   outcome, lost>>

\* stop() clears the flag and joins the poll thread, which finishes its poll.
Stop ==
    /\ UIFree
    /\ running' = FALSE
    /\ ui' = "joining"
    /\ UNCHANGED <<cloudVars, pollVars, edgeQ, exec, verdict, clientVars,
                   received, outcome, lost>>

\* Mutant: the thread is detached, not joined.
Joined_Detaches ==
    /\ ui = "joining"
    /\ ui' = "free"
    /\ UNCHANGED <<cloudVars, pollVars, running, edgeQ, exec, verdict, clientVars,
                   received, outcome, lost>>

Joined ==
    /\ ui = "joining"
    /\ pc[Background] = "idle"
    /\ ui' = "free"
    /\ UNCHANGED <<cloudVars, pollVars, running, edgeQ, exec, verdict, clientVars,
                   received, outcome, lost>>

-----------------------------------------------------------------------------
(* TaskScheduler.process_queue on the UI thread: pop, execute, report.     *)

\* Mutant: front() without pop_front().
Pop_LeavesFront ==
    /\ UIFree
    /\ edgeQ # <<>>
    /\ exec' = Head(edgeQ)
    /\ received' = received \cup {Head(edgeQ)}
    /\ ui' = "executing"
    /\ UNCHANGED <<cloudVars, pollVars, running, edgeQ, verdict, clientVars,
                   outcome, lost>>

\* Mutant: front() of a queue that may be empty.
Pop_NoEmptyTest ==
    /\ UIFree
    /\ IF edgeQ = <<>>
       THEN exec' = None /\ UNCHANGED <<edgeQ, received>>
       ELSE exec' = Head(edgeQ) /\ edgeQ' = Tail(edgeQ) /\ received' = received \cup {Head(edgeQ)}
    /\ ui' = "executing"
    /\ UNCHANGED <<cloudVars, pollVars, running, verdict, clientVars, outcome,
                   lost>>

Pop ==
    /\ UIFree
    /\ edgeQ # <<>>
    /\ exec' = Head(edgeQ)
    /\ edgeQ' = Tail(edgeQ)
    /\ received' = received \cup {Head(edgeQ)}
    /\ ui' = "executing"
    /\ UNCHANGED <<cloudVars, pollVars, running, verdict, clientVars, outcome,
                   lost>>

\* run_sse_request starts a request unless one is running; then it returns
\* and nothing tells the caller.
StartRequest(r) ==
    IF request = None
    THEN request' = r /\ UNCHANGED reachable
    ELSE UNCHANGED clientVars

ExecuteSync ==
    /\ ui = "executing"
    /\ tasks[exec].type \notin AsyncTypes
    /\ verdict' = "ok"
    /\ ui' = "reporting"
    /\ UNCHANGED <<cloudVars, pollVars, running, edgeQ, exec, clientVars,
                   received, outcome, lost>>

\* run_feature_upload and run_cloud_review.
ExecuteAsync ==
    /\ ui = "executing"
    /\ tasks[exec].type \in AsyncTypes
    /\ IF reachable
       THEN StartRequest(exec) /\ verdict' = "async"
       ELSE verdict' = "error" /\ UNCHANGED clientVars
    /\ ui' = "reporting"
    /\ UNCHANGED <<cloudVars, pollVars, running, edgeQ, exec, received, outcome,
                   lost>>

Complete(i, result) == outcome' = [outcome EXCEPT ![i] = @ \cup {result}]

\* Mutant: nothing is reported of a task that waits for its callback.
Report_OnlyFinal ==
    /\ ui = "reporting"
    /\ IF verdict = "async" THEN UNCHANGED outcome ELSE Complete(exec, verdict)
    /\ exec' = None
    /\ verdict' = "none"
    /\ ui' = "free"
    /\ UNCHANGED <<cloudVars, pollVars, running, edgeQ, clientVars, received,
                   lost>>

Report ==
    /\ ui = "reporting"
    /\ Complete(exec, verdict)
    /\ exec' = None
    /\ verdict' = "none"
    /\ ui' = "free"
    /\ UNCHANGED <<cloudVars, pollVars, running, edgeQ, clientVars, received,
                   lost>>

RequestCloudReview ==
    /\ UIFree
    /\ reachable
    /\ StartRequest(Review)
    /\ UNCHANGED <<cloudVars, pollVars, running, edgeQ, uiVars, received,
                   outcome, lost>>

-----------------------------------------------------------------------------
(* EdgeCloudClient as its callers see it.                                  *)

CheckHealth ==
    /\ UIFree
    /\ reachable' \in BOOLEAN
    /\ UNCHANGED <<cloudVars, pollVars, running, edgeQ, uiVars, request, received,
                   outcome, lost>>

\* on_task_complete for a task; for a review the callback fills on_fused_result.
CallBack(result) ==
    IF request = Review THEN UNCHANGED outcome ELSE Complete(request, result)

\* An event of the stream that finishes the request: [DONE], a finish reason
\* or an error.  The request goes on until the response ends.
WorkerFinished ==
    /\ request # None
    /\ \E result \in {"ok", "error"} : CallBack(result)
    /\ UNCHANGED <<cloudVars, pollVars, running, edgeQ, uiVars, request,
                   reachable, received, lost>>

\* The response ends, possibly without any finishing event (an HTTP error).
WorkerEnds ==
    /\ request # None
    /\ request' = None
    /\ UNCHANGED <<cloudVars, pollVars, running, edgeQ, uiVars, reachable,
                   received, outcome, lost>>

\* No response, or an exception in the parser.
WorkerFails ==
    /\ request # None
    /\ CallBack("error")
    /\ request' = None
    /\ reachable' = FALSE
    /\ UNCHANGED <<cloudVars, pollVars, running, edgeQ, uiVars, received, lost>>

-----------------------------------------------------------------------------
\* The edge process dies and comes back with nothing.
EdgeRestart ==
    /\ pc' = [p \in Pollers |-> "idle"]
    /\ batch' = [p \in Pollers |-> <<>>]
    /\ \E onTheirWay \in SUBSET {p \in Pollers : pc[p] = "requested"} :
          abandoned' = [p \in Pollers |-> abandoned[p] \/ p \in onTheirWay]
    /\ endpoint' = FALSE
    /\ running' = FALSE
    /\ edgeQ' = <<>>
    /\ ui' = "free"
    /\ exec' = None
    /\ verdict' = "none"
    /\ request' = None
    /\ reachable' = FALSE
    /\ outcome' = IF exec = None THEN outcome
                  ELSE [outcome EXCEPT ![exec] = @ \cup {"interrupted"}]
    /\ lost' = lost \cup Elems(edgeQ) \cup Elems(batch[UI]) \cup Elems(batch[Background])
    /\ UNCHANGED <<cloudVars, received>>

CloudNext == (\E s \in Situations : Heartbeat(s)) \/ Enqueue \/ CloudRestart

PollNext(p) ==
    \/ PollSend(p) \/ Drain(p) \/ DrainAbandoned(p) \/ RequestTimesOut(p)
    \/ ResponseArrives(p) \/ ResponseLost(p) \/ Store(p) \/ PollEnds(p)

UINext ==
    \/ SetEndpoint \/ Start \/ Stop \/ Joined \/ Pop \/ ExecuteSync \/ ExecuteAsync \/ Report
    \/ RequestCloudReview \/ CheckHealth

ClientNext == WorkerFinished \/ WorkerEnds \/ WorkerFails

Next == CloudNext \/ (\E p \in Pollers : PollNext(p)) \/ UINext \/ ClientNext \/ EdgeRestart

Spec == Init /\ [][Next]_vars

\* The threads run; process_queue is called in every frame, so a frame spent on
\* a button does not starve it (strong fairness of Pop), and a cloud that is
\* polled again and again serves a poll some time (strong fairness of Drain).
Fairness ==
    /\ WF_vars(Enqueue)
    /\ WF_vars(PollSend(Background))
    /\ SF_vars(Drain(Background))
    /\ \A p \in Pollers :
          /\ WF_vars(Drain(p) \/ RequestTimesOut(p))
          /\ WF_vars(ResponseArrives(p))
          /\ WF_vars(Store(p) \/ PollEnds(p))
    /\ WF_vars(Joined)
    /\ SF_vars(Pop)
    /\ WF_vars(ExecuteSync \/ ExecuteAsync)
    /\ WF_vars(Report)

FairSpec == Spec /\ Fairness

-----------------------------------------------------------------------------
(* Properties.                                                             *)

\* The type invariant of the task path.
TypeOK ==
    /\ tasks \in Seq(Decision) /\ Len(tasks) <= MaxTasks
    /\ deciding \subseteq RuleIds
    /\ snapshot \subseteq Conditions
    /\ cloudQ \in Seq(TaskIds)
    /\ pc \in [Pollers -> {"idle", "requested", "answered", "storing"}]
    /\ batch \in [Pollers -> Seq(TaskIds)]
    /\ \A p \in Pollers : batch[p] # <<>> => pc[p] \in {"answered", "storing"}
    /\ abandoned \in [Pollers -> BOOLEAN]
    /\ endpoint \in BOOLEAN /\ running \in BOOLEAN
    /\ edgeQ \in Seq(TaskIds)
    /\ ui \in {"free", "executing", "reporting", "joining"}
    /\ exec \in received \cup {None}
    /\ ui \in {"executing", "reporting"} <=> exec # None
    /\ verdict \in {"none", "ok", "error", "async"}
    /\ ui = "reporting" <=> verdict # "none"
    /\ request \in received \cup {None, Review}
    /\ reachable \in BOOLEAN
    /\ received \subseteq TaskIds
    /\ outcome \in [TaskIds -> SUBSET {"ok", "error", "async", "interrupted"}]
    /\ lost \subseteq TaskIds

Distinct(q) == \A m, n \in DOMAIN q : q[m] = q[n] => m = n

Places ==
    [cloud |-> Elems(cloudQ), ui |-> Elems(batch[UI]),
     background |-> Elems(batch[Background]), edge |-> Elems(edgeQ),
     received |-> received, lost |-> lost]

\* Every task created is in exactly one place and there once: in the cloud's
\* queue, in one response, in the edge's queue, received, or lost.  No poll by
\* two threads, no late request, timeout or restart delivers a task twice or
\* makes one vanish without trace (enqueue, drain, poll_cloud_tasks,
\* process_queue).
ExactlyOnePlace ==
    /\ Distinct(cloudQ) /\ Distinct(edgeQ)
    /\ \A p \in Pollers : Distinct(batch[p])
    /\ UNION {Places[x] : x \in DOMAIN Places} = 1..Len(tasks)
    /\ \A x, y \in DOMAIN Places : x # y => Places[x] \cap Places[y] = {}

\* More urgent tasks first, and in the cloud and in a response the older of two
\* equally urgent ones first.  In the edge's queue the order of equals is the
\* order of arrival, which two concurrent polls may turn around.
ByUrgency(ts, q) ==
    \A m, n \in DOMAIN q : m < n => ts[q[m]].priority >= ts[q[n]].priority
OlderFirst(ts, q) ==
    \A m, n \in DOMAIN q :
        m < n /\ ts[q[m]].priority = ts[q[n]].priority => q[m] < q[n]
QueueOrder ==
    /\ ByUrgency(tasks, cloudQ) /\ OlderFirst(tasks, cloudQ)
    /\ \A p \in Pollers : ByUrgency(tasks, batch[p]) /\ OlderFirst(tasks, batch[p])
    /\ ByUrgency(tasks, edgeQ)

\* The UI thread reports every task it has received before it receives another
\* one or stops the scheduler; only a restart cuts it short (process_queue).
ReportedInTurn ==
    \A i \in received : outcome[i] # {} \/ i = exec

\* Once stop() has returned, no poll of the background thread is in progress:
\* nothing of it touches the scheduler afterwards (stop, ~TaskScheduler).
QuietAfterStop == ~running /\ ui # "joining" => pc[Background] = "idle"

\* Whatever the cloud's queue, the responses or the edge's queue hold.
InTransit == Elems(cloudQ) \cup Elems(batch[UI]) \cup Elems(batch[Background]) \cup Elems(edgeQ)

\* The channel delivers at most once: every step of the cloud, of a poll and of
\* process_queue is a creation, a reception, a loss or nothing for TaskDelivery.
Delivery == INSTANCE TaskDelivery WITH pending <- InTransit
AtMostOnceDelivery == Delivery!Spec

\* Every task the cloud holds is executed in the end, unless a response or a
\* process is lost, the scheduler is stopped or has no endpoint (start's loop,
\* poll_cloud_tasks, process_queue).
EveryTaskHandled ==
    \A i \in TaskIds :
        (i \in Elems(cloudQ)) ~> (i \in lost \/ outcome[i] # {} \/ ~(running /\ endpoint))
=============================================================================
