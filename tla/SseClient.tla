----------------------------- MODULE SseClient -----------------------------
(***************************************************************************)
(* One streaming request at a time: EdgeCloudClient::run_sse_request and   *)
(* parse_sse_chunk (edge-gui/edge_cloud.cpp) against the event streams of  *)
(* the cloud (inference/streaming.py, api/chat.py) over cpp-httplib.       *)
(*                                                                         *)
(* The bytes of an event "data: <payload>\n\n" are abstracted to two       *)
(* halves: a front (any proper prefix that ends before the newline) and a  *)
(* back.  Half h belongs to event (h + 1) \div 2.  The client has taken    *)
(* the first "taken" halves off the connection and the parser is past the  *)
(* first "parsed"; what lies between is buf, or _sse_leftover from one     *)
(* piece to the next.  A piece may end anywhere, as TCP and proxies cut it.*)
(***************************************************************************)
EXTENDS Integers, Sequences

CONSTANTS
    TokenForms,   \* the forms of the events that carry an answer
    MaxTokens,    \* bound: such events per response
    MaxRequests   \* bound: requests in a behaviour

\* "token": content and no finish_reason.  "null": content and finish_reason
\* null, as streaming.py writes it.  "malformed": not JSON.
ASSUME TokenFormsAssumption == TokenForms \subseteq {"token", "null", "malformed"}
ASSUME BoundsAssumption == MaxTokens \in Nat /\ MaxRequests \in Nat

\* Events the parser takes for the end: a finish_reason, [DONE], an error.
EndEvents == {"stop", "done", "error"}
Events == {"token", "null", "malformed"} \cup EndEvents

VARIABLES
    ui,         \* the thread that calls run_sse_request, stop, check_health
    requests,   \* requests begun (bounded)
    running,    \* _running
    stopFlag,   \* _stop_flag
    reachable,  \* _reachable
    worker,     \* where the worker thread is
    taken,      \* halves read off the connection
    parsed,     \* halves the parser is done with
    server,     \* where the cloud's event_stream is
    events,     \* what it has sent
    delivered,  \* history: events whose text on_token was called with
    finishes,   \* history: the finished calls of on_token, "ok" or "error"
    cause       \* history: why the request failed

callerVars == <<ui, requests>>
streamVars == <<taken, parsed>>
serverVars == <<server, events>>
history == <<delivered, finishes, cause>>
vars == <<callerVars, running, stopFlag, reachable, worker, streamVars,
          serverVars, history>>

Elems(q) == {q[n] : n \in DOMAIN q}

Init ==
    /\ ui = "free"
    /\ requests = 0
    /\ running = FALSE
    /\ stopFlag = FALSE
    /\ reachable = FALSE
    /\ worker = "none"
    /\ taken = 0
    /\ parsed = 0
    /\ server = "idle"
    /\ events = <<>>
    /\ delivered = <<>>
    /\ finishes = <<>>
    /\ cause = "none"

-----------------------------------------------------------------------------
(* The caller.                                                             *)

\* Mutant: no look at _running.
Request_Always ==
    /\ ui = "free"
    /\ requests < MaxRequests
    /\ requests' = requests + 1
    /\ stopFlag' = FALSE
    /\ running' = TRUE
    /\ worker' = "connecting"
    /\ taken' = 0
    /\ parsed' = 0
    /\ server' = "idle"
    /\ events' = <<>>
    /\ delivered' = <<>>
    /\ finishes' = <<>>
    /\ cause' = "none"
    /\ UNCHANGED <<ui, reachable>>

\* Mutant: the leftover of the request before is not cleared.
Request_KeepsLeftover ==
    /\ ui = "free"
    /\ requests < MaxRequests
    /\ ~running
    /\ requests' = requests + 1
    /\ stopFlag' = FALSE
    /\ running' = TRUE
    /\ worker' = "connecting"
    /\ taken' = taken - parsed
    /\ parsed' = 0
    /\ server' = "idle"
    /\ events' = <<>>
    /\ delivered' = <<>>
    /\ finishes' = <<>>
    /\ cause' = "none"
    /\ UNCHANGED <<ui, reachable>>

\* run_sse_request; it returns at once when a request is running.
Request ==
    /\ ui = "free"
    /\ requests < MaxRequests
    /\ ~running
    /\ requests' = requests + 1
    /\ stopFlag' = FALSE
    /\ running' = TRUE
    /\ worker' = "connecting"
    /\ taken' = 0
    /\ parsed' = 0
    /\ server' = "idle"
    /\ events' = <<>>
    /\ delivered' = <<>>
    /\ finishes' = <<>>
    /\ cause' = "none"
    /\ UNCHANGED <<ui, reachable>>

\* stop() sets the flag and joins the worker.
Stop ==
    /\ ui = "free"
    /\ stopFlag' = TRUE
    /\ ui' = "stopping"
    /\ UNCHANGED <<requests, running, reachable, worker, streamVars, serverVars, history>>

Joined ==
    /\ ui = "stopping"
    /\ worker = "none"
    /\ ui' = "free"
    /\ UNCHANGED <<requests, running, stopFlag, reachable, worker, streamVars,
                   serverVars, history>>

CheckHealth ==
    /\ ui = "free"
    /\ reachable' \in BOOLEAN
    /\ UNCHANGED <<callerVars, running, stopFlag, worker, streamVars, serverVars, history>>

-----------------------------------------------------------------------------
(* The worker: httplib's Post with the receiver that feeds the parser.     *)

\* No response, a broken one, or an exception: on_token("", true, ...).
Fail(why) ==
    /\ finishes' = Append(finishes, "error")
    /\ cause' = why
    /\ worker' = "failed"
    /\ UNCHANGED <<callerVars, running, stopFlag, reachable, streamVars, serverVars, delivered>>

Connect ==
    /\ worker = "connecting"
    /\ worker' = "waiting"
    /\ server' = "asked"
    /\ UNCHANGED <<callerVars, running, stopFlag, reachable, streamVars, events, history>>

ConnectFails == worker = "connecting" /\ Fail("refused")

HeaderArrives ==
    /\ worker = "waiting"
    /\ server # "asked"
    /\ worker' = "reading"
    /\ UNCHANGED <<callerVars, running, stopFlag, reachable, streamVars, serverVars, history>>

\* Mutant: a read waits for the cloud without a limit.
ReadFindsNothing_Waits == FALSE

\* A read with nothing to read.  The read timeout is 0 s 0 us, and httplib hands
\* it to poll(2): the read fails at once with Error::Timeout.  Bytes that are
\* sent may not have arrived.
ReadFindsNothing == worker \in {"waiting", "reading"} /\ Fail("silence")

ConnectionBreaks == worker \in {"waiting", "reading"} /\ Fail("broken")

\* The next piece of the body, of any length, is handed to the receiver.
Receive ==
    /\ worker = "reading"
    /\ ~stopFlag
    /\ taken' \in (taken + 1)..(2 * Len(events))
    /\ worker' = "parsing"
    /\ UNCHANGED <<callerVars, running, stopFlag, reachable, parsed, serverVars, history>>

\* The receiver returns false, and the request has no result.
ReceiverRefuses ==
    /\ worker = "reading"
    /\ stopFlag
    /\ taken < 2 * Len(events)
    /\ Fail("stopped")

\* The response ends as it should: status and body are complete.
ResponseEnds ==
    /\ worker = "reading"
    /\ server \in {"ended", "refused"}
    /\ taken = 2 * Len(events)
    /\ worker' = "ending"
    /\ UNCHANGED <<callerVars, running, stopFlag, reachable, streamVars, serverVars, history>>

Failed ==
    /\ worker = "failed"
    /\ reachable' = FALSE
    /\ worker' = "ending"
    /\ UNCHANGED <<callerVars, running, stopFlag, streamVars, serverVars, history>>

\* Mutant: _running is cleared on the branch of a result only.
Finish_OnResult ==
    /\ worker = "ending"
    /\ running' = (cause # "none")
    /\ worker' = "none"
    /\ UNCHANGED <<callerVars, stopFlag, reachable, streamVars, serverVars, history>>

Finish ==
    /\ worker = "ending"
    /\ running' = FALSE
    /\ worker' = "none"
    /\ UNCHANGED <<callerVars, stopFlag, reachable, streamVars, serverVars, history>>

-----------------------------------------------------------------------------
(* parse_sse_chunk, an iteration of its loop at a time.                    *)

\* The first event whose "data: " lies behind parsed: the back of an event
\* whose front is gone is passed over.
NextEvent == (parsed + 1) \div 2 + 1
Whole == 2 * NextEvent <= taken

Parsing(kinds) ==
    /\ worker = "parsing"
    /\ ~stopFlag
    /\ Whole
    /\ events[NextEvent] \in kinds

\* Mutant: the rest is not kept for the next piece.
ParseLeftover_Forgets ==
    /\ worker = "parsing"
    /\ ~stopFlag
    /\ ~Whole
    /\ parsed' = taken
    /\ worker' = "reading"
    /\ UNCHANGED <<callerVars, running, stopFlag, reachable, taken, serverVars, history>>

\* No whole event left: the rest becomes the leftover.
ParseLeftover ==
    /\ worker = "parsing"
    /\ ~stopFlag
    /\ ~Whole
    /\ worker' = "reading"
    /\ UNCHANGED <<callerVars, running, stopFlag, reachable, streamVars, serverVars, history>>

\* The loop ends, the rest is forgotten.
ParseStopped ==
    /\ worker = "parsing"
    /\ stopFlag
    /\ parsed' = taken
    /\ worker' = "reading"
    /\ UNCHANGED <<callerVars, running, stopFlag, reachable, taken, serverVars, history>>

\* Mutant: one event per piece.
ParseToken_OnePerPiece ==
    /\ Parsing({"token"})
    /\ delivered' = Append(delivered, NextEvent)
    /\ parsed' = taken
    /\ worker' = "reading"
    /\ UNCHANGED <<callerVars, running, stopFlag, reachable, taken, serverVars,
                   finishes, cause>>

ParseToken ==
    /\ Parsing({"token"})
    /\ delivered' = Append(delivered, NextEvent)
    /\ parsed' = 2 * NextEvent
    /\ UNCHANGED <<callerVars, running, stopFlag, reachable, worker, taken,
                   serverVars, finishes, cause>>

\* json::parse_error is caught inside the loop.
ParseMalformed ==
    /\ Parsing({"malformed"})
    /\ parsed' = 2 * NextEvent
    /\ UNCHANGED <<callerVars, running, stopFlag, reachable, worker, taken,
                   serverVars, history>>

\* Mutant: the catch block of the worker reports nothing.
ParseNull_Silent ==
    /\ Parsing({"null"})
    /\ cause' = "exception"
    /\ worker' = "failed"
    /\ UNCHANGED <<callerVars, running, stopFlag, reachable, streamVars,
                   serverVars, delivered, finishes>>

\* value("finish_reason", "") of a null throws json::type_error, which is not a
\* parse_error: it ends the request.
ParseNull == Parsing({"null"}) /\ Fail("exception")

\* The parser returns from the middle of the buffer and forgets the rest; the
\* request goes on.
ParseEnd ==
    /\ Parsing(EndEvents)
    /\ finishes' = Append(finishes, IF events[NextEvent] = "error" THEN "error" ELSE "ok")
    /\ parsed' = taken
    /\ worker' = "reading"
    /\ UNCHANGED <<callerVars, running, stopFlag, reachable, taken, serverVars,
                   delivered, cause>>

-----------------------------------------------------------------------------
(* The cloud: event_stream around model_manager's generator.               *)

Send(e, phase) ==
    /\ events' = Append(events, e)
    /\ server' = phase
    /\ UNCHANGED <<callerVars, running, stopFlag, reachable, worker, streamVars, history>>

\* The request is refused with an HTTP status (validation, no such path), with
\* a body that holds no event, or the stream begins.
Accept ==
    /\ server = "asked"
    /\ server' \in {"refused", "streaming"}
    /\ UNCHANGED <<callerVars, running, stopFlag, reachable, worker, streamVars,
                   events, history>>

SendToken ==
    /\ server = "streaming"
    /\ Len(events) < MaxTokens
    /\ \E f \in TokenForms : Send(f, "streaming")

SendStop == server = "streaming" /\ Send("stop", "closing")

\* The backend answers with an error or an exception is caught.
SendError == server = "streaming" /\ Send("error", "closing")

SendDone == server = "closing" /\ Send("done", "ended")

-----------------------------------------------------------------------------
CallerNext == Request \/ Stop \/ Joined \/ CheckHealth

TransportNext ==
    \/ Connect \/ ConnectFails \/ HeaderArrives \/ ReadFindsNothing \/ Receive
    \/ ReceiverRefuses \/ ResponseEnds \/ Failed \/ Finish

ParseNext ==
    \/ ParseLeftover \/ ParseStopped \/ ParseToken \/ ParseMalformed
    \/ ParseNull \/ ParseEnd

WorkerNext == TransportNext \/ ParseNext

ServerNext == Accept \/ SendToken \/ SendStop \/ SendError \/ SendDone

Next == CallerNext \/ WorkerNext \/ ConnectionBreaks \/ ServerNext

Spec == Init /\ [][Next]_vars

\* The worker thread runs: its connection attempt has a timeout and its reads
\* return at once.  Nothing is assumed of the cloud or of the connection.
FairSpec == Spec /\ WF_vars(WorkerNext) /\ WF_vars(Joined)

-----------------------------------------------------------------------------
(* Properties.                                                             *)

\* The type invariant of the client and of the cloud's side of the stream.
TypeOK ==
    /\ ui \in {"free", "stopping"}
    /\ requests \in 0..MaxRequests
    /\ running \in BOOLEAN
    /\ stopFlag \in BOOLEAN
    /\ reachable \in BOOLEAN
    /\ worker \in {"none", "connecting", "waiting", "reading", "parsing", "failed", "ending"}
    /\ running <=> worker # "none"
    /\ events \in Seq(Events) /\ Len(events) <= MaxTokens + 2
    /\ taken \in 0..(2 * Len(events))
    /\ parsed \in 0..taken
    /\ server \in {"idle", "asked", "refused", "streaming", "closing", "ended"}
    /\ delivered \in Seq(Nat)
    /\ finishes \in Seq({"ok", "error"})
    /\ cause \in {"none", "refused", "silence", "broken", "stopped", "exception"}

TokensUpTo(n) == {k \in 1..n : events[k] = "token"}

\* However the stream is cut into pieces, on_token is called with the text of
\* each token event the parser has passed, once and in the order they were sent,
\* unless stop() has cut the request short (parse_sse_chunk, _sse_leftover).
TokensInOrder ==
    /\ \A m, n \in DOMAIN delivered : m < n => delivered[m] < delivered[n]
    /\ ~stopFlag => Elems(delivered) = TokensUpTo(parsed \div 2)

\* A request that is reported as finished without an error has delivered the
\* whole answer, even when stop() races with its last pieces.
AnswerComplete ==
    "ok" \in Elems(finishes) => Elems(delivered) = TokensUpTo(Len(events))

\* A request nobody stopped does not end unreported, except for one the cloud
\* refused with an HTTP status (run_sse_request's branch for a result).
EndReported ==
    worker = "ending" /\ ~stopFlag /\ server # "refused" => finishes # <<>>

\* The callers of the client see CloudRequest: one request at a time, and results
\* only while it runs.
Interface == INSTANCE CloudRequest WITH busy <- running, results <- Elems(finishes)
ImplementsCloudRequest == Interface!Spec

\* Every request ends, whatever the cloud does (run_sse_request's worker).
RequestEnds == running ~> ~running

\* stop() returns: the join does not wait for a silent cloud.
StopReturns == (ui = "stopping") ~> (ui = "free")

\* "Standard OpenAI-format streaming chunk" (edge_cloud.cpp:497): the parser copes
\* with every event of the cloud's stream.
UnderstandsStream == cause # "exception"
=============================================================================
