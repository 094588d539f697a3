# Edge-cloud inference: specifications and proofs

TLA+ modules for the team's own part of this repository: the edge application
(`competition-main/hhk/edge-gui`), its cloud server
(`competition-main/hhk/cloud_server`) and the scripts that stream sensor windows
through a model. `hhk/` is a copy of llama.cpp into which these parts were
added; ggml, libllama, `common/`, `tools/`, `vendor/` and the other upstream
directories are third-party code and are not modelled, but for what the team's code
needs of them: the positions and cells of a KV cache (`EngineKV`), and one fact about
`vendor/cpp-httplib` (`SseClient`).

Paths below are relative to `competition-main/hhk/` unless they start with
`edge-io-protocol/`.

## 1. The system

One process per edge device (a GUI around a local llama model), one cloud
process (FastAPI, one event loop), and other edge devices as peers.

| Component | Code | State | Operations |
|---|---|---|---|
| Chat session | `edge-gui/app.cpp` | message list, `_pending_tokens` (mutex), `_streaming_text`, `_generation_finished`, `_model_loaded` | submit, stop, clear, save/load session, load model, one `process_incoming_tokens` per frame |
| Local engine | `edge-gui/engine.cpp` | model, context, sampler, `_running`, `_stop_requested`, `n_past`, KV memory, LoRA adapters | load/unload, generate, stop, `run_loop` thread, clear KV, state files, adapters |
| Single-endpoint cloud chat | `edge-gui/cloud.cpp` | `_running`, leftover | send, stop, check_reachable |
| Cloud client | `edge-gui/edge_cloud.cpp` | `_running`, `_stop_flag`, `_reachable`, `_sse_leftover` | split_infer, query_offload, feature_offload, check_health, stop, SSE parser |
| Task scheduler | `edge-gui/task_scheduler.cpp` | priority queue (mutex), poll thread, `_running` | start/stop, poll_cloud_tasks, process_queue, execute_task |
| Heartbeat sender | `edge-gui/heartbeat.cpp` | previous snapshot, failure counter, thread | start/stop, send_now, is_fluctuating |
| Edge-local decision | `edge-gui/edge_local_decision.cpp` | thresholds from the cloud, network condition, log of decisions made without the cloud | update_cloud_params, assess_network, decide, flush |
| Conflict detector | `edge-gui/conflict_detector.cpp` | own and peers' detections, rules, statistics | submit/receive, check_all, resolve_locally, escalate |
| Model sync | `edge-gui/model_sync.cpp` | active adapter, rules by id and version | download_and_apply, revert, apply_rule, poll_updates |
| P2P mesh | `edge-gui/p2p_mesh.cpp` | peer table (mutex), UDP and TCP threads | start/stop, discover, broadcast perception, send intent |
| Cloud tasks | `cloud_server/scheduler`, `storage`, `api/heartbeat.py`, `api/tasks.py` | device snapshots, one task queue per device | POST heartbeat: decide and enqueue; GET tasks: drain |
| Cloud inference | `cloud_server/inference`, `api/chat.py`, `api/inference.py` | none between requests | event streams over a backend process |
| Cloud arbitration, neighbours, model updates | `api/conflicts.py`, `api/neighbors.py`, `api/model_updates.py` | device records, a static manifest | arbitrate, list neighbours, serve updates |
| Stream adapter | `stream_adapter.py` (with `edge-io-protocol/edge_inference.py`, a request to a model) | bounded queue, worker thread, newest results, statistics | serve TCP, replay a file, watch a directory, infer, stop |
| Preprocessing, scenarios | `edge_preprocess/`, `scenarios/` | sliding windows | read, window, play a script |
| GUI, devices, dialogs | rest of `edge-gui/` | none with a protocol | rendering, camera, OS counters |

How they interact:

- The **UI thread** draws frames. In every frame it takes the tokens the engine
  thread has pushed, runs one task of the scheduler's queue (`process_queue`)
  and whatever button was pressed. A button handler may join a thread.
- The **engine thread**, the **model loader thread**, the **poll thread**, the
  **heartbeat thread**, the **SSE worker** and the **mesh's UDP/TCP threads**
  call back into objects of the UI, with one mutex per object at best.
- **Edge to cloud** is HTTP polling: a heartbeat is answered with an
  acknowledgement, the decisions it caused wait in the device's queue until
  the device polls. There is no acknowledgement of tasks.
- **Cloud handlers** are coroutines of one event loop. A handler with no
  suspending await between two statements is atomic with respect to the others;
  the modules use this and say where.
- `EdgeApp` owns every object and wires the callbacks (`app.cpp:44-91`).

What is hard, and which properties say that it went right:

- *Chat session and engine*: three threads, flags set and cleared in different
  orders, a loader that frees what the others use. An answer holds its own
  tokens, all of them, and stands; an accepted turn ends.
- *Engine's memory*: libllama's cells and two counters beside them, a shift with
  computed bounds, a UI thread that replaces the memory under the engine. The three
  describe the same tokens; a shift makes room and forgets the middle only.
- *Cloud client*: a byte stream cut anywhere, stop racing with the parser,
  a request that must end in any case. No token lost, doubled or reordered; no
  incomplete answer reported as complete; the request ends and is reported.
- *Tasks*: destructive polls by two threads, lost and late responses, restarts.
  No task twice, none gone without a trace, most urgent first, each reported.
- *Conflicts*: two nodes decide separately about the same pair of detections.
  They should agree, or hand over to the cloud, and count what they did once.
- *Local decision*: what is measured, counted and flagged by different threads at
  different times is put together. An outage and a recovery are noticed; no decision
  is lost from the log, or flushed twice.
- *Heartbeat*: two senders share a counter and a snapshot without a lock, and reports
  overtake each other. The cloud still learns the state of the device.
- *Model sync*: download, load and registration are separate steps, rules come
  with versions in any order. Nothing calls it (section 7).
- *Mesh*: peers come, go and restart; datagrams are lost and doubled.
- *Stream adapter*: a bounded queue that drops, broken lines, a stop in between.
  What was accepted is inferred on once and in order, the statistics agree, and no
  failure of an inference ends the worker.

`PROJECT.json` lists the hazards of this kind at their lines, with the properties
that cover it or the reason why none does.

### Two facts about this commit that shape the models

- `EdgeApp` never calls `EdgeCloudClient::check_health`, the only place that
  sets `_reachable` to true. In the application the client is therefore unreachable for
  ever, the network is `Offline` for `submit_message`, and each turn takes the local
  route. `ChatSession` models this, and `LocalDecision` both this (`AppSpec`) and an
  integrator that may call it, and need not (`Spec`). `TaskDispatch` and `SseClient` model
  the classes, whose public operations include `check_health`, as the headers and
  `edge-gui/README.md` present them.
- The route through class `EdgeCloud` (`cloud.cpp`) is reached by no turn for the
  same reason; only its `is_reachable()` counts, in the state of the send button.

## 2. The modules

| Module | Role |
|---|---|
| `TaskDelivery` | abstract: an at-most-once channel for tasks |
| `TaskDispatch` | heartbeat decision, cloud queue, polls, edge queue, execution, restarts |
| `TaskDispatch_proofs` | its theorems |
| `MCTaskDispatch` | what heartbeats report, for TLC |
| `CloudRequest` | abstract: one request at a time, results only while it runs |
| `SseClient` | the streaming request and the SSE parser against the cloud's stream |
| `SseClient_proofs` | its theorems |
| `MCSseClient` | forms of token events, for TLC |
| `ChatSession` | UI thread, engine thread and loader thread around one conversation |
| `ChatSession_proofs` | its theorems |
| `ConflictDetector` | nodes that share reports, find conflicts and settle them, each on its own |
| `ConflictDetector_proofs` | its theorems |
| `MCConflictDetector` | detections for TLC |
| `EngineKV` | the memory of the local engine, its counters, the context shift |
| `EngineKV_proofs` | its theorems |
| `MCEngineKV` | conversations for TLC |
| `Heartbeat` | the two senders of heartbeats and the cloud's record of the device |
| `Heartbeat_proofs` | its theorems |
| `LocalDecision` | assessing the network and deciding without the cloud |
| `LocalDecision_proofs` | its theorems |
| `StreamWorker` | the stream adapter: sources, bounded queue, worker |
| `StreamWorker_proofs` | its theorems |
| `MCStreamWorker` | lines for TLC |

`TaskDispatch` and `SseClient` meet at `CloudRequest`: `SseClient` is shown to
implement it, and `TaskDispatch` uses the client only at that grain
(`WorkerFinished`, `WorkerEnds`, `WorkerFails`, `CheckHealth`), and so does
`ConflictDetector` (`HandOver`, `CloudAnswers`, `CloudEnds`).

`EngineKV` is the inside of what `ChatSession` calls the engine: the one has the
threads' flags and the text of answers, the other their tokens in memory. `Heartbeat`
and `LocalDecision` meet at the counter of failures: `HeartbeatSucceeds` and
`HeartbeatFails` are the steps of `Heartbeat` that write it, with any value the
unlocked writes can leave. `TaskDispatch` takes heartbeats that the cloud handles as
its input (`Heartbeat`), whatever thread has sent them.

### TaskDispatch

One device (every structure of the cloud is keyed by the device id). A task is
its number; `tasks[i]` holds type and priority. `cloudQ` is
`TaskQueueManager._queues[device]`, `edgeQ` is `TaskScheduler._queue`, `batch[p]`
is a response on its way or being stored, and `pc[p]` says where poller `p`, the
poll thread or the UI's poll button, is in `poll_cloud_tasks`.

- `Heartbeat`, `Enqueue`: the POST handler stores the snapshot, then enqueues the
  decisions of the six rules in order. The queue's lock is never contended on
  a single event loop, so no other handler runs while `deciding # {}`.
- `Drain`, `DrainAbandoned`: the GET handler removes what it returns, also for a
  request whose client has given up (bound: one such request per thread).
- `SetEndpoint`, `PollSend`, `RequestTimesOut`, `ResponseArrives`, `ResponseLost`,
  `Store`, `PollEnds`: the edge's side, one lock per stored item, as in the code. Without an
  endpoint a poll returns before it sends anything.
- `Pop`, `ExecuteSync`, `ExecuteAsync`, `Report`: `process_queue` on the UI thread.
- `Start`, `Stop`, `Joined`: the poll thread's life; `Stop` blocks the UI. Nothing in
  `app.cpp` calls `start` or `set_cloud_endpoint`, so in the program as it is no poll leaves
  the device; both are modelled as the public operations that the header presents, the
  endpoint "set before start" (`task_scheduler.h:93`).
- `EdgeRestart`, `CloudRestart`: everything is in memory and goes.

`received`, `outcome` and `lost` are history variables. A task whose execution a
restart interrupts has the outcome `"interrupted"`. Numeric thresholds are
abstracted to the conditions that the rules test for.

### SseClient

The cloud's stream is a sequence of events, each in two halves, so that a
piece of the body may end inside an event: `taken` and `parsed` count halves, and
what lies between is the parser's buffer or `_sse_leftover`. The worker's steps are
httplib's `Post` (connect, header, receive, end) and the iterations of
`parse_sse_chunk`. `stop()` sets its flag at any of them and joins.

A read timeout of `(0, 0)` is what `edge_cloud.cpp:378` sets; httplib hands it to
`poll(2)` as zero milliseconds (`vendor/cpp-httplib/httplib.cpp:1628-1642`,
`6534-6537`), so `ReadFindsNothing` fails the request as soon as a read finds no
byte. `ParseNull` is the exception that `value("finish_reason", "")` throws at a
JSON null, which the parser's `catch (parse_error)` does not catch.

### ChatSession

A token is the turn it was made for and its number. `pending` is the queue between
the engine thread and the frames, with `FIN` where the code pushes
`"__FINISHED__"`; `streaming` is `_streaming_text`. `engine` is where `run_loop` is:
`Running` (the code's `_running`) is cleared before the report on the error path
(`failing`) and after it otherwise (`ending`), as in the code. `loader` is where
the thread of `EdgeApp::load_model` is inside `unload` and `load_model` of the
engine; it does not hold a lock that the others take.

Undefined behaviour is a nondeterministic outcome: `broken` may become true at the
steps where two threads touch the same object without synchronisation (freeing the
model under a running generation, a prompt rendered from a model being replaced,
two joins of one thread, clearing the memory under a decode or under a loader that frees
or creates the context), and must where an
assertion aborts (`PromptAborts`: a prompt longer than `n_batch`,
`src/llama-context.cpp:1748`). From there only `Restart` is possible, and nothing is
claimed of a broken process.

`twice` records that a generation has reported its end twice, which
`engine.cpp:330-344` and the code after the loop do when the context is full and its
memory cannot be shifted. The second end replaces a finished text by an empty one;
the properties hold until that happens and say so in their premise.

### ConflictDetector

Several nodes. `reports[n]` are the detections node `n` has reported, and everything
else holds their numbers: `local[n]` is `_local_cache`, `views[n][p]` what
`_peer_cache` holds of `p`, `lines[p][n]` the connections from `p` that `n` has not
handled yet. One frame of the conflicts panel is `Check` (`check_all_conflicts`, one
critical section) and one settling step per record; reports may arrive between them.
The records are copies, so the rules (`RulingOf`) see the reports of the check, but
the vote (`Ballot`) reads the caches of its own moment.

- `Perceive` is `submit_local_perception` with `broadcast_perception`. No code of this
  commit calls the two; `app.cpp` wires the receiving side only. They are modelled as
  the public operations that the headers present. So a conflict needs an
  integrator, or the other half of the system, to happen.
- The UDP half of a broadcast reaches nobody: `nlohmann::json` writes keys in
  alphabetical order, so a report starts with `"detections"`, and
  `p2p_mesh.cpp:280-281` looks for `{"report_id"`.
- A node may be its own peer. Its presence broadcast comes back to it (`add_peer`,
  `p2p_mesh.cpp:166`, compares no ids), and it then sends its reports to itself
  (`reached` may hold `n`): it may be in conflict with its own earlier opinion.
- Node ids are taken to differ, although all have the default `edge-node-01`
  (`app.h:178`).
- `SameTarget` is not symmetric: only the first target is tested for having a name, and only
  the first place for being known (`conflict_detector.cpp:65`, `71`), so one node may see a
  conflict that the other does not.

### EngineKV

`kv` maps positions to tokens, which is what libllama keeps for the one sequence the
engine uses; `n_past` and `cached` are `_n_past` and `_cached_tokens`. `SeqRm`, `SeqAdd`,
`Decoded` and `Fits` are libllama's operations as `engine.cpp` uses them, read from
`src/llama-kv-cache.cpp`, `src/llama-batch.cpp` and `src/llama-context.cpp`: a batch
without positions is placed behind the largest position that is used, not at `_n_past`
(`llama_batch_get_one`). The cache is a plain one: models with a sliding window or a
recurrent memory keep other cells and are left out. A context has a multiple of 256 cells
(`Align`), so it may be larger than the setting, and the setting may be moved after the
context has been created.

- `Generate` ... `TokenFails` are the stretches of `run_loop` between two effects that the UI
  thread may see: a call of libllama, the assignment of `_n_past`, the change of
  `_cached_tokens`. A shift is `ShiftBegins`, `RemoveCells`, `MoveCells`, `EraseTokens` and
  `ShiftEnds`, as in `engine.cpp:330-342`, and what the UI does may come between any two.
- `PromptFails` has both ways to fail: no cells at all, or a computation that fails in one of
  the pieces (`NUbatch`) and leaves those before it in the memory.
- `ReplaceMemory` and `ReplaceCounters` are the halves of `clear_kv_cache` and
  `load_session`. They hold `_mutex`, which `run_loop` never takes, so the engine's steps
  may come in between.
- `MoveSlider` moves `n_ctx`, `n_keep` and `n_predict`, which `run_loop` reads anew in each
  iteration, `n_keep` for each step of a shift. The ranges are those of the sliders
  (`app.cpp:545-548`). A value typed into a slider with Ctrl+click may lie outside, and is not
  in the model.
- `disturbed` records that the engine worked during a replacement, that a replacement came
  between two of its steps that belong together, that `n_keep` was moved in the middle of
  a shift, or that a prompt failed half-way. `InStep` excepts these, until the memory is
  cleared or loaded anew; the model goes on with what they leave, which may be two cells
  at one position (one of them is kept) or a vector erased behind its end
  (`EraseTokens`, undefined: it aborts or shortens).

### Heartbeat

`at[s]` says where sender `s`, the loop or the UI thread in `send_now`, is: it takes a
snapshot, builds the report (which reads `_prev_snapshot` once more), sends, and counts. The
loop compares with the previous snapshot before it stores its own (`LoopSnapshot`,
`LoopRemembers`); the button may store in between. A report without a device id is answered
and not recorded (`named`, `device_state.py:33`).
Reading and writing `_consecutive_failures` are two steps (`GiveUp`, `StoreFailure`),
because two threads do so without a lock. A report that its sender has given up after three
seconds may still be under way (`late`) and overwrite a newer one in the cloud
(`Handle`, `LateReport`). A snapshot is one of a few levels, any two of which
`is_fluctuating` tells apart; the tests it makes of a single snapshot never hold in
the program, which feeds it with a round trip of 0 or -1 and a queue of 0 or 1
(`app.cpp:907-915`).

### LocalDecision

The UI thread measures the round trip first (`Measure`, a blocking request of its own), then
reads the flag (`ReadReachable`), then the counter, and assesses the network with what it has
found at these three moments. It does so for each
message (`SubmitMessage`, which decides unless the network is healthy) and once a second
(`UpdateMetrics`, which flushes the log when the network has just become healthy).
`noticedBy` is a history variable: who changed the condition last. Percent are integers.
`heartbeats` says that the loop runs, `endpoint` that it was started with an address;
`sender` is the pair. The address is read when the box is checked (`ToggleHeartbeats`), so
an empty one makes every heartbeat fail until it is checked again; the button sends with
the loop or without it, and counts in the same variable (`send_now`).

A heartbeat that will fail is under way for up to three seconds (`HeartbeatDoomed`), so its
failure may be counted when the link is good again. `"refusing"` is a link on which the cloud
answers at once, and with an error. `RequestFails` needs no bad link: an exception in the
parser sets `_reachable` to false as well (`edge_cloud.cpp:429-431`), and every stream of this
repository's cloud causes one (`sse_null_finish`).

### StreamWorker

Lines are numbered as they are read; `accepted` and `dropped` record what became of
them. The three modes differ in what ends a source, what a broken line does, and what
Ctrl+C does. The worker reads `running` at the top of its loop only (`Top`) and then
takes an item even if it has been stopped meanwhile (`Get`). `Exit` is the end of the
program: `stop` joins for five seconds and then gives up a thread that still infers.

A `"bare"` line is a JSON list or string with `"task_id"` and `"data"` in it. It passes the
test of `raw_to_standard_input` for an item (`stream_adapter.py:59`) and has no `get`:
inferring on it raises, the handler raises as well when it asks the item for its id (138),
and the thread ends with the failure counted and no result (`Die`). `running` stays true and
nobody starts another thread.

## 3. What the runs check

| Run | Bounds | Properties | States |
|---|---|---|---|
| `dispatch` | 2 tasks of equal or different priority, of one heartbeat or of two, through the client or not | `TypeOK`, `ExactlyOnePlace`, `QueueOrder`, `ReportedInTurn`, `QuietAfterStop`, `AtMostOnceDelivery`, `EveryTaskHandled` | 382,928 |
| `sse_client` | 2 requests, 3 token events of any form, any cut | `TypeOK`, `TokensInOrder`, `AnswerComplete`, `EndReported`, `ImplementsCloudRequest`, `RequestEnds`, `StopReturns` | 217,108 |
| `sse_null_finish` | 1 request, 2 tokens | `UnderstandsStream` is violated | |
| `chat_session` | 2 turns, 2 tokens | `TypeOK`, `OwnAnswer`, `FinishedAnswerComplete`, `AnswersStand`, `AcceptedTurnEnds` | 482,860 |
| `chat_stop` | 2 turns, 1 token | `StopEndsTurn` is violated | |
| `conflict_detector` | 3 nodes, 2 reports of 5 kinds, 2 frames with a conflict | `TypeOK`, `NodesAgree`, `CountsBalance`, `ViewsAdvance` | 82,523 |
| `engine_kv` | contexts of 4 or 6 cells, `n_ctx` at 4 or 5, `n_predict` at 1 or 2, batches of 2 in pieces of 1, prompts of up to 3 | `TypeOK`, `InStep`, `ShiftMakesRoom`, `ShiftKeepsBothEnds`, `GenerationEnds` | 1,042,004 |
| `heartbeat` | 2 levels, counts up to 2, 1 late report, a device with a name or without | `TypeOK`, `OneLoop`, `CloudConverges`, `StopReturns` | 399,804 |
| `heartbeat_swing` | the same | `SwingReported` is violated | |
| `local_decision` | a log of 2, 3 decisions, degraded at 1 failure, offline at 2, 1 threshold | `TypeOK`, `LogIsRecent`, `OutlivesRecovery`, `RecoveryNoticed`, `OutageNoticed` | 419,760 |
| `app_reconnects` | a log of 1, 2 decisions, 2 thresholds | `Reconnects` is violated | |
| `stream_worker` | 5 lines, a queue of 2, 2 results | `TypeOK`, `Accounted`, `Drains` | 70,544 |

Why these bounds are enough for the questions asked:

- *Tasks.* A heartbeat reports one condition of priority 3 or 4, or two of priority 3, so the two
  tasks may wait in one queue with the more urgent one first or last to come. They may be on
  different routes: in two responses that interleave in the edge's queue, or one in a late
  response and one in the next; one may occupy the client when the other finds it occupied. Two pollers are
  all there are. That order and uniqueness hold for more tasks is proved (section 5).
- *Streams.* Three token events and the two that end a stream let a piece hold a rest,
  a whole event and another rest; a second request shows what is left over from
  the first one.
- *Turns.* A second turn shows what the first one leaves behind (a late token, an
  end, a flag, a thread); two tokens give an answer a middle. The inductive
  invariant of the proofs was also checked with three turns.
- *Conflicts.* Two reports by two nodes are a conflict that both may settle, which takes
  two frames; two by one node may overtake each other, replace each other, or meet as
  two opinions of a node that is its own peer. The five kinds of detections reach every
  branch: gap, sensor, vote, escalation, and a target without a name. The properties were also
  checked for two nodes with three reports of three kinds (1,148,909 states). Symmetry of the
  nodes is sound, no property tells them apart.
- *Memory.* With a multiple of 2 instead of 256 a context is as large as its setting, or
  larger; the slider moves below and above it. Two turns fill it, so
  shifts follow shifts; the longest prompt exceeds the batch; a prompt of two
  tokens may fail between them. Answers of one or two tokens, with `n_predict` moved during
  them, and a second turn in the same memory: the longer runs that a larger `n_predict` gives are
  made of the same steps.
- *Heartbeats.* Two levels are a swing; a count of 2 is reached by either sender; one
  late report is enough to overwrite a newer one, and both senders can leave one.
- *Decisions.* Three decisions overflow a log of two. The threshold is the one that the
  program has (78) and that nothing in it changes: it lies above the confidence, and below it
  once lowered for an outage (63 and 78 against 70). With a second threshold of 90, which
  also reaches the third action, the same run has 1,460,160 states and shows the same.
- *Lines.* Five lines, read one or several at a time, overflow the queue of two
  and the results of two, and leave a broken one or one that kills the thread with lines before
  and behind it.

The theorems of section 5 hold without any of these bounds.

### Fairness

Liveness is checked under what the scheduling of the code gives:

- a thread that can run does (weak fairness of its steps);
- `process_queue` and `process_incoming_tokens` are called in each frame, so a
  frame that is spent on a button does not starve them (strong fairness of `Pop`
  and `ProcessTokens`);
- a cloud that is polled again and again serves a poll some time (strong fairness of
  `Drain` for the poll thread); `EveryTaskHandled` needs this, since each single
  request may time out;
- nothing at all of the cloud or the connection in `SseClient`: requests end because
  connecting has a timeout and reads return at once. With a read that waits
  (`ReadFindsNothing_Waits`) `StopReturns` fails, so the zero timeout that
  contradicts its comment is also what lets `stop()` return;
- in `Heartbeat` each of the two threads as a whole: its steps on a good link are the only
  ones it can take then; a late report arrives or is lost in the end (`LateReport`);
- in `LocalDecision` the update of once a second comes (strong fairness of
  `Measure("update")`: a frame updates the metrics before anything else,
  `app.cpp:292`, `904`, so no message keeps it from its turn), and a loop of heartbeats that
  has an address succeeds on a good link. Nobody has to call `check_health`: `RecoveryNoticed`
  has as its premise that the client believes the cloud reachable from some time on, which
  takes somebody who has called it after the last request that failed;
- in `EngineKV` and `StreamWorker` the engine's and the worker's thread; the call of a
  model has a timeout.

No fairness is given to buttons, losses, timeouts or restarts, to the heartbeats that
`TaskDispatch` takes as input, or to the main thread of the stream adapter. Only the
run `stream_worker` allows the system to stop: the program ends.

## 4. Findings

Four runs are expected to be violated: each checks what a line of the repository says.

- `UnderstandsStream`: the cloud's token events carry `"finish_reason": null`
  (`cloud_server/inference/streaming.py:5`, `52-58`), which ends the request with an
  exception in a parser written for "Standard OpenAI-format streaming chunk"
  (`edge_cloud.cpp:497`).
- `StopEndsTurn`: a turn that `generate()` refused is shown as generating for ever,
  and the stop button does not end it (`edge-gui/README.md:99` says a click
  interrupts the generation at once).
- `SwingReported`: the loop of the heartbeats makes its snapshot the previous one
  (`heartbeat.cpp:68`) before the report compares the two (`heartbeat.cpp:207`), so its
  reports never have `"is_fluctuating"` set, which the cloud's rules ask for
  (`decision_engine.py:156`, `edge-gui/CLOUD_EDGE_COMMUNICATION.md:113`, `134`). The
  shorter interval of the loop, decided before the assignment, works.
- `Reconnects`, in the program: "when the network recovers: reconnect automatically,
  switch back to normal" (`edge-gui/CLOUD_EDGE_COMMUNICATION.md:503-506`). Nothing calls
  `check_health`, so the application stays offline on the best network. What does hold,
  for an integrator who calls it, is `RecoveryNoticed` (run `local_decision`).

Seen while modelling, and part of the models without a run of their own:

- A task reported as `"async: result will arrive via callback"` (`task_scheduler.cpp:298`,
  `343`) may never get a result: `run_sse_request` returns silently when a request is
  running (`edge_cloud.cpp:361`), and a response with an HTTP error status ends without
  a finished call. `ReportedInTurn` and `EveryTaskHandled` speak of the first report.
- `set_read_timeout(0, 0)`, commented "no limit for streaming" (`edge_cloud.cpp:378`),
  gives up at the first read that finds nothing (`ReadFindsNothing`).
- "At least three nodes, the opinion of the majority wins"
  (`edge-gui/CLOUD_EDGE_COMMUNICATION.md:363`): `resolve_by_consensus` counts every opinion
  that is not the node's own for the peer (`conflict_detector.cpp:307-309`), so three nodes
  with three opinions are settled 2/3 "agree with peer". A tie goes to the peer as
  well, and a node that is its own peer votes twice.
- "Shifts automatically to prevent an overflow" (`edge-gui/README.md:348`) holds for tokens
  of an answer only. There is no shift before the prompt, which holds the whole conversation
  in each turn: it fails when no cells are left, and aborts the process when it is longer than
  a batch (`engine.cpp:302`). Nor does a shift help when the slider is above the context.
- A prompt that fails half-way leaves cells that no counter knows of
  (`engine.cpp:302-306`); from there the counters are behind the memory until
  it is cleared, and a shift may find no room although it has been made.
- A shift and a clear at the same time, or `n_keep` moved between the steps of a shift, leave
  memory and counters apart, and may erase behind the end of `_cached_tokens`
  (`engine.cpp:330-342`).
- Decisions in the log survive a recovery that a message has noticed before the update of
  once a second, and are flushed after the next outage (`app.cpp:774`, `919-935`).
- In the offline mode the threshold is lowered by 15 but never below 50
  (`edge_local_decision.cpp:147-158`): a threshold below 50 is raised by an outage.
- The heartbeats' counter keeps its value when the box is unchecked during an
  outage: the network is offline until the next heartbeat, whatever its state.
  `send_now` without an endpoint counts a failure.
- A JSON list or string that looks like an item ends the stream adapter's worker: the handler of
  its failure raises itself (`stream_adapter.py:138`). Nothing behind it is ever inferred on,
  `running` stays true, and the queue fills up (`Die`, `NothingAfterDeath`). Items before such a
  one are answered (`Drains`).
- The stream adapter waits two seconds for its queue and then loses the rest; a file that
  is half written when the directory is looked at ends the program
  (`stream_adapter.py:320-347`); `--duration` is read and never used.
- Clearing the conversation during a generation leaves its answer to overwrite what
  is last in the list then, be it the system message (`app.cpp:626-630`, `889`). The
  properties about answers speak of assistant messages only.
- Loading a session empties the list and reads the file without using it; saving
  writes no state file, while `edge-gui/README.md:94-95` promises both to be restored.
- Loading a model does not disable the input (`edge-gui/IMPLEMENTATION_REPORT.md:317` says it does):
  the races of the loader are steps of `ChatSession`.
- The cloud's queue of a device has no bound and no de-duplication: each heartbeat
  of a device that does not poll adds the same tasks again.
- A conflict that stays is counted and settled anew in each frame of the panel. One that
  is escalated while another is with the cloud is dropped by the client, and
  counted as escalated (`conflict_detector.cpp:336`, `edge_cloud.cpp:361`). A verdict
  of the cloud has an empty decision, since the finishing event carries no text
  (`edge_cloud.cpp:480-511`), and may be counted twice (a stop event and `[DONE]`),
  so the rate of successes may exceed 100 %.
- No edge calls `/api/v1/edge/conflicts`, whose `_arbitrate` gives each side its own
  decision when both are equally confident.

## 5. What is proved

Every theorem below holds for all values of the constants that satisfy the named
assumptions of the modules (`MaxTasksAssumption`, `SituationsAssumption`,
`TokenFormsAssumption`, `NodesAssumption`, `DetectionsAssumption`, `BoundsAssumption`,
`SettingsAssumption`, `SizesAssumption`, `LevelsAssumption`, `ReportsAssumption`,
`FailsAssumption`, `ThresholdsAssumption`, `BatchesAssumption`: the bounds are naturals,
the sets hold known elements, the nodes are finitely many, a context has room for what
a shift keeps and three tokens more, as the ranges of the sliders give).

| Theorem | Statement |
|---|---|
| `TaskDispatch_proofs!TypeCorrect` | `Spec => []TypeOK` |
| `TaskDispatch_proofs!OnePlaceAlways` | `Spec => []ExactlyOnePlace` |
| `TaskDispatch_proofs!QueueOrderAlways` | `Spec => []QueueOrder` |
| `TaskDispatch_proofs!ReportedAlways` | `Spec => []ReportedInTurn` |
| `TaskDispatch_proofs!QuietAlways` | `Spec => []QuietAfterStop` |
| `TaskDispatch_proofs!Refinement` | `Spec => AtMostOnceDelivery` |
| `SseClient_proofs!TypeCorrect` | `Spec => []TypeOK` |
| `SseClient_proofs!TokensInOrderAlways` | `Spec => []TokensInOrder` |
| `SseClient_proofs!AnswerCompleteAlways` | `Spec => []AnswerComplete` |
| `SseClient_proofs!EndReportedAlways` | `Spec => []EndReported` |
| `SseClient_proofs!Refinement` | `Spec => ImplementsCloudRequest` |
| `ChatSession_proofs!TypeCorrect` | `Spec => []TypeOK` |
| `ChatSession_proofs!OwnAnswerAlways` | `Spec => []OwnAnswer` |
| `ChatSession_proofs!FinishedAnswerAlways` | `Spec => []FinishedAnswerComplete` |
| `ChatSession_proofs!AnswersStandAlways` | `Spec => AnswersStand` |
| `ConflictDetector_proofs!TypeCorrect` | `Spec => []TypeOK` |
| `ConflictDetector_proofs!NodesAgreeAlways` | `Spec => []NodesAgree` |
| `ConflictDetector_proofs!CountsBalanceAlways` | `Spec => []CountsBalance` |
| `ConflictDetector_proofs!ViewsAdvanceAlways` | `Spec => ViewsAdvance` |
| `EngineKV_proofs!TypeCorrect` | `Spec => []TypeOK` |
| `EngineKV_proofs!InStepAlways` | `Spec => []InStep` |
| `EngineKV_proofs!ShiftMakesRoomAlways` | `Spec => ShiftMakesRoom` |
| `EngineKV_proofs!ShiftKeepsBothEndsAlways` | `Spec => ShiftKeepsBothEnds` |
| `Heartbeat_proofs!TypeCorrect` | `Spec => []TypeOK` |
| `Heartbeat_proofs!OneLoopAlways` | `Spec => []OneLoop` |
| `LocalDecision_proofs!TypeCorrect` | `Spec => []TypeOK` |
| `LocalDecision_proofs!LogIsRecentAlways` | `Spec => []LogIsRecent` |
| `LocalDecision_proofs!OutlivesRecoveryAlways` | `Spec => []OutlivesRecovery` |
| `StreamWorker_proofs!TypeCorrect` | `Spec => []TypeOK` |
| `StreamWorker_proofs!AccountedAlways` | `Spec => []Accounted` |

These state what the runs check. The following go further: they carry the findings over to
all values of the constants, give the parts of the liveness properties that hold
without fairness, and say of the order of tasks and the reports of nodes what only several steps show.

| Theorem | What it says |
|---|---|
| `TaskDispatch_proofs!ForwardOnlyAlways` | a task moves on along cloud queue, one response, edge queue, application, and never back |
| `TaskDispatch_proofs!NoOvertakingAlways` | in both queues those who wait keep their order, and a newcomer gets ahead of one only by a higher priority |
| `SseClient_proofs!RequestShortensAlways` | a request takes at most `6 * (MaxTokens + 2) + 6` steps of the worker, and nothing adds to them |
| `SseClient_proofs!NullNotAnsweredAlways` | no request with a null finish reason in its stream is reported as finished well |
| `SseClient_proofs!NothingDelivered` | against the repository's own cloud nothing is ever delivered (`sse_null_finish`) |
| `ChatSession_proofs!RefusedTurnStays` | a refused turn stays unfinished (`chat_stop`) |
| `ChatSession_proofs!EndNotLostAlways` | who waits for an accepted turn waits for a working generation or for an end in the queue |
| `ConflictDetector_proofs!CachesSingleAlways` | one report per target in each cache, the own cache up to date |
| `ConflictDetector_proofs!OwnIsLatestAlways` | a vote is held on the node's latest report on the target |
| `EngineKV_proofs!AnswerBoundedAlways` | no answer is longer than the largest `n_predict` that can be set, however it is moved meanwhile |
| `EngineKV_proofs!GenerationShortensAlways` | a generation has at most `8 * MaxPredict + 11` steps, and nothing adds to them, a slider that is moved included |
| `Heartbeat_proofs!SettledLasts` | a record that is right stays right while device and link do |
| `Heartbeat_proofs!NoSwingReported` | without the button no report tells of a swing (`heartbeat_swing`) |
| `Heartbeat_proofs!JoinComesNearerAlways` | `stop` waits for one heartbeat at most |
| `LocalDecision_proofs!OfflineForEver` | the program stays offline (`app_reconnects`) |
| `LocalDecision_proofs!OutageLasts` | an outage that is noticed stays so as long as the link is down |
| `LocalDecision_proofs!RecoveryLasts` | a recovery that is noticed stays so as long as the link is good and no request of the client fails |
| `StreamWorker_proofs!LossBoundedAlways` | a stop loses a full queue and one item more at most, the one in hand or the one the thread died of |
| `StreamWorker_proofs!NothingTakenBackAlways` | accepted items are final, results come one by one |
| `StreamWorker_proofs!ItemComesNearerAlways` | the worker lives until `stop` or an item that is no dictionary, and each of its steps brings every item before such a one nearer to its result |
| `StreamWorker_proofs!NothingAfterDeath` | from an item that ends the thread on no item is answered, and `running` does not say so |

`NothingDelivered` assumes that every event has the null finish reason, as all that the
cloud of this repository sends (`streaming.py:49-59`); `NoSwingReported` speaks of behaviours
without the button, `OfflineForEver` of `AppSpec`.

The arguments:

- **TaskDispatch.** `IInv` is `TypeOK /\ ExactlyOnePlace /\ QueueOrder`. The three need
  each other: that an insertion keeps a queue in order needs the queue sorted
  before and the new number to be the largest; that a stored task is not in the
  queue already needs `ExactlyOnePlace`. `StableInsert` is defined by a cut point,
  whose existence (`CutExists`, from `LeastNumber`, the well-ordering of an
  interval) and effect (`InsertProperties`) are lemmas about any sorted queue.
  `OnePlace` restates the count over the places pairwise, which is the form the
  provers handle. The refinement follows from `ExactlyOnePlace`: it says that what
  leaves one place arrives in one other. `ForwardOnly` names that other place for each
  step. `NoOvertaking` needs of the queues that they are sorted before an insertion
  (`InsertKeepsOrder`), and free of duplicates when a task is received: a second copy
  of the head would be ahead of the others and then behind them (`TailKeepsOrder`).
- **SseClient.** `IInv` adds to the properties how the server's phase
  determines the events sent (`StreamInv`), that exactly the token events behind
  `parsed` were delivered unless the stop flag is set (`DeliveredInv`), which
  states of the worker allow a rest in the buffer (`ParserInv`), and what a finish
  already reported implies (`FinishInv`): after an end event the parser forgets its
  buffer, so nothing but `[DONE]` may be behind it. `RequestShortens` measures what is left by
  the halves still to be read, counted twice, and those still to be parsed.
  `NothingDelivered` uses that the parser does not get past a null finish reason
  (`NullNotPassed`).
- **ChatSession.** `IInv` is `TypeOK /\ (~twice => Flow /\ List)`. `Flow` is the fact
  that makes every answer right: while the engine works, what is in `streaming` and
  `pending` together is exactly the tokens made so far for the current turn, and when
  it does not, either nothing is left or the whole answer with one end is. It
  holds because `submit_message` runs only when `_generation_finished` is set, which
  happens when the end has been consumed. `List` says that the answer at the end of
  the list belongs to the current turn. `EndNotLost` follows from `Flow` and its own inductive
  form `Expected`; `RefusedTurn` is a state that only a new process or undefined
  behaviour leaves.
- **ConflictDetector.** `IInv` is `TypeOK`, `CountsBalance` and three facts more.
  `VerdictsInv`: every verdict is what the rules say of its two reports, and only what
  they leave open is with the cloud; reports are never changed (`ReportsKept`), so this
  stays true, and with the symmetry of the rules (`RulingSymmetric`) it gives
  `NodesAgree`. `LinesInv`: numbers on a connection increase and are above all that
  the receiver has seen, which gives `ViewsAdvance`. `FiniteInv`: a check finds
  finitely many conflicts (`ConflictsFinite`), so that counting them makes sense.
  `CachesSingle` and `OwnLatest` are inductive by themselves (`OverwriteKeeps`): that an
  overwritten cache keeps an entry for each target it had one for is what makes the
  choice in `OwnOf` unique.

- **EngineKV.** `InStep` speaks of the places between two shifts and of a UI thread that is not
  in the middle of a replacement. `IInv` says what holds at every place (`InOrder`): the
  memory is that of the tokens that the counters describe, or half shifted (`MemoryIs`), the
  count is behind by what is still to be counted or ahead by what is still to be discarded
  (`CountIs`), and the bounds of the shift are within the tokens (`ShiftIs`). In the middle of
  a replacement (`HalfwayInv`) the memory is already the target and the engine has nothing
  half done (`Calm`). That decoded tokens continue a
  memory without a gap needs the largest position used, which exists because positions are
  bounded (`HasMax`, from the well-ordering of the naturals). `ShiftCells` is the core: on a
  memory in step, `seq_rm` and `seq_add` leave the memory of the tokens that the
  counters keep. The two action properties follow from `IInv` and arithmetic on `Discard`.
  `StepsLeft` counts eight steps for a token and eleven for the prompt and the end; it depends
  on `n_generated` and the place in `run_loop` only, which nothing but the engine's thread
  changes, and is measured against the largest `n_predict`, not the one in force: the latter
  may be raised.
- **Heartbeat.** `IInv` is `TypeOK`, `OneLoop` and `Stops`: while the UI thread waits in
  `stop`, `_running` is false, so the loop that has left is not replaced by another. `Moves` and
  `MovesOnly` say once what a step of one sender leaves alone of the other. `Settled` adds to a
  right record that no failure is about to be stored and no other state is under way, in either
  sender or late; without one of these the record or the count may still go back.
- **LocalDecision.** `TypeOK`, `LogIsRecent` and `OutlivesRecovery` are inductive together:
  the log's entries are numbered by position, so appending and dropping the oldest keep the
  numbers (`DecideKeeps`), and a flush sets both sides to zero. `OutageLasts` and
  `RecoveryLasts` need that the UI thread holds no measurement from before: one that it made
  on the old link may still be assessed.
- **StreamWorker.** `TypeOK` and `Accounted` are inductive together, in five parts: lines,
  queue, the item in hand, the one the thread died of (`DeadInv`), results. What `accepted` holds at an index never changes, so
  queue and results may be compared with it by position (`SubmitKeeps`, `ResultKeeps`).
  `ItemComesNearer` uses that a thread at `get` finds the queue non-empty as long as an
  accepted item has no result (`Counts`), and that the thread can only have died of an item up
  to the one in question.

Only model-checked: the liveness properties (`EveryTaskHandled`, `RequestEnds`, `StopReturns` of
both modules, `AcceptedTurnEnds`, `GenerationEnds`, `CloudConverges`, `RecoveryNoticed`,
`OutageNoticed`, `Drains`), since the prover reaches neither `ENABLED` nor fairness. Of most
of them the part that does not need fairness is proved: a measure that each step of the
thread in question lowers and no other step raises (`RequestShortens`, `GenerationShortens`,
`JoinComesNearer`, `ItemComesNearer`), or that what is reached lasts (`SettledLasts`,
`OutageLasts`, `RecoveryLasts`), or that what is waited for is not lost (`EndNotLost`). What is
left to TLC is that the steps are enabled and taken. For `EveryTaskHandled` there is
`NoOvertaking` only: requests that time out again and again are ruled out by strong fairness.
The four violations are found by TLC on an instance; that the state each of them ends in is not
one of that instance's making is proved (`NothingDelivered`, `RefusedTurnStays`,
`NoSwingReported`, `OfflineForEver`).

## 6. Plan

Done, in this order: `TaskDelivery` and `TaskDispatch`; `CloudRequest` and `SseClient`;
`ChatSession`; `ConflictDetector`; `EngineKV`; `Heartbeat` and `LocalDecision`;
`StreamWorker`; the theorems of each; the theorems that generalise the findings and the safety
half of liveness.

Left:

1. A refinement between `ChatSession` and `EngineKV`, which now share the engine by their
   division of its state only: the abstract engine takes a prompt and makes tokens until it
   ends, which both implement.
2. `ModelSync`, once an integrator calls it: download, apply and revert with failures
   between the steps, rule versions in any order; the abstract specification is a register.
3. `P2PMesh`: peer table, presence that expires, peers that restart. `ConflictDetector` has
   the reports.
4. Rules added and removed at run time, and the cloud's arbiter, for an edge that calls it.
5. Pure parts against reference definitions: `parse_short_decision`, sliding windows,
   `_arbitrate`, `fuse`.

## 7. Not modelled

- llama.cpp, ggml, `common/`, `tools/`, `vendor/`: third-party code, copied into `hhk/` with
  its tests, kernels for a dozen backends, shaders and a web UI. It is more than nine
  tenths of the lines of this repository (`ggml-opencl.cpp` alone has more lines than
  everything the team wrote), so any share of lines modelled is small when all of it is
  counted. These modules model the team's own code and take upstream from its use: what
  libllama does with the positions and cells of one sequence (`EngineKV`), what httplib does with a timeout of
  zero (`SseClient`).
- `model_sync.cpp`: nothing in the application calls `poll_updates`, `download_and_apply` or
  `apply_rule`; only the destructor's revert runs, on an empty list. The request of
  `poll_updates` has no `device_id`, which the cloud requires (422). Properties of its steps would
  be about states that the program is never in.
- Discovery and presence of the mesh decide who is shown and who is sent to; its
  reports are part of `ConflictDetector`. Received intents are read by nobody.
- GUI rendering, `media_source`, `device_monitor`, `file_dialog`: input and output
  without protocol state.
- Cloud start-up, configuration and health endpoints; the backends behind the cloud,
  which are external processes.
- Scenario playback, preprocessing and `edge_inference.py`: sequential scripts.
- Of the modelled components: JSON bodies and wording, timing counters, the session
  file's format, `route_task` and the PPO matrix (queried by nobody), `fuse` and
  `extract_features` of the scheduler, sampling, and the numeric thresholds of
  the rules; the chat template, LoRA adapters and the bytes of state files of the engine; the
  latency estimates and reasons of local decisions; of the conflict detector its history, severities, received intents (which
  nobody reads) and rule management (which nobody calls).

## 8. Running

    tlc -config TaskDispatch.cfg MCTaskDispatch.tla
    tlc -config SseClient.cfg MCSseClient.tla
    tlc -config ChatSession.cfg ChatSession.tla
    tlc -config ConflictDetector.cfg MCConflictDetector.tla
    tlc -config EngineKV.cfg MCEngineKV.tla
    tlc -config Heartbeat.cfg Heartbeat.tla
    tlc -config LocalDecision.cfg LocalDecision.tla
    tlc -config StreamWorker.cfg MCStreamWorker.tla
    tlc -config SseClientNullFinish.cfg MCSseClient.tla     # and the other runs that end in
    tlc -config ChatSessionStop.cfg ChatSession.tla         # a violation, as they should
    tlc -config HeartbeatSwing.cfg Heartbeat.tla
    tlc -config LocalDecisionApp.cfg LocalDecision.tla
    tlapm TaskDispatch_proofs.tla        # and the other seven *_proofs.tla

Each mutant of `PROJECT.json` is a definition `<Action>_<Change>` placed before the
one it may replace. It shows a property failing for a plausible bug.
