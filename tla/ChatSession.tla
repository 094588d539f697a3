----------------------------- MODULE ChatSession -----------------------------
(***************************************************************************)
(* A conversation with the local engine: the turn protocol of the GUI      *)
(* (edge-gui/app.cpp) and the two threads it starts, the engine's          *)
(* run_loop (edge-gui/engine.cpp) and the model loader.                    *)
(*                                                                         *)
(* Shared between them: _pending_tokens, under _streaming_mutex; the       *)
(* atomics _running and _stop_requested; the model itself, which the       *)
(* loader frees and builds without a lock.                                 *)
(*                                                                         *)
(* submit_message answers locally unless the network is Healthy, and it is *)
(* Offline as long as _cloud_client.is_reachable() is false, which only    *)
(* check_health changes; the application does not call it.  So every turn  *)
(* takes the local route, and _cloud (class EdgeCloud) contributes its     *)
(* is_reachable() to the state of the send button and nothing else.        *)
(*                                                                         *)
(* The n-th token the engine makes for turn t is <<t, n>>; a message is    *)
(* its role, its turn and its text, a sequence of such tokens.             *)
(***************************************************************************)
EXTENDS Integers, Sequences

CONSTANTS
    MaxTurns,     \* bound: messages submitted in a behaviour
    MaxTokens     \* n_predict

ASSUME BoundsAssumption == MaxTurns \in Nat /\ MaxTokens \in Nat

\* "__FINISHED__", which on_token pushes in place of the text of a last token.
FIN == <<0, 0>>
Turns == 1..MaxTurns
Tokens == Turns \X (1..MaxTokens)

VARIABLES
    messages,     \* _messages
    systemPrompt, \* _system_prompt is not empty
    finished,     \* _generation_finished
    streaming,    \* _streaming_text
    pending,      \* _pending_tokens
    appLoaded,    \* _model_loaded
    cloudSays,    \* _cloud_enabled && _cloud.is_reachable()
    ui,           \* where the UI thread is
    loader,       \* where the thread of load_model is
    model,        \* EdgeEngine::is_loaded()
    canShift,     \* llama_memory_can_shift of the model in use
    engine,       \* where run_loop's thread is
    stopFlag,     \* _stop_requested
    turn,         \* history: messages submitted
    answering,    \* history: the turn run_loop works for
    produced,     \* history: tokens it has made for that turn
    twice,        \* history: a generation has reported its end twice
    broken        \* undefined behaviour or an abort has happened

chatVars == <<messages, systemPrompt, finished, streaming>>
loadVars == <<appLoaded, loader, model, canShift>>
genVars == <<answering, produced, twice>>
vars == <<chatVars, pending, cloudSays, ui, loadVars, engine, stopFlag, turn,
          genVars, broken>>

Running == engine \in {"prompt", "generating", "limited", "ending"}   \* _running

\* Undefined behaviour: it may show, and nothing is claimed of what follows then.
MayBreak(race) == broken' \in BOOLEAN /\ (broken' => race)

Init ==
    /\ messages = <<>>
    /\ systemPrompt = FALSE
    /\ finished = TRUE
    /\ streaming = <<>>
    /\ pending = <<>>
    /\ appLoaded = FALSE
    /\ cloudSays = FALSE
    /\ ui = "free"
    /\ loader = "idle"
    /\ model = FALSE
    /\ canShift = FALSE
    /\ engine = "none"
    /\ stopFlag = FALSE
    /\ turn = 0
    /\ answering = 0
    /\ produced = 0
    /\ twice = FALSE
    /\ broken = FALSE

\* The user starts the application again after it broke.
Restart ==
    /\ broken
    /\ messages' = <<>>
    /\ systemPrompt' = FALSE
    /\ finished' = TRUE
    /\ streaming' = <<>>
    /\ pending' = <<>>
    /\ appLoaded' = FALSE
    /\ cloudSays' = FALSE
    /\ ui' = "free"
    /\ loader' = "idle"
    /\ model' = FALSE
    /\ canShift' = FALSE
    /\ engine' = "none"
    /\ stopFlag' = FALSE
    /\ answering' = 0
    /\ produced' = 0
    /\ twice' = FALSE
    /\ broken' = FALSE
    /\ UNCHANGED turn

-----------------------------------------------------------------------------
(* The UI thread.  Every button belongs to a frame, so none is pressed     *)
(* while the thread waits for a lock or a join.                            *)

\* Mutant: the input area looks at can_send only.
Submit_WhileGenerating ==
    /\ ui = "free" /\ ~broken
    /\ appLoaded \/ cloudSays
    /\ turn < MaxTurns
    /\ turn' = turn + 1
    /\ messages' = messages \o << [role |-> "user", turn |-> turn + 1, text |-> <<>>],
                                  [role |-> "assistant", turn |-> turn + 1, text |-> <<>>] >>
    /\ finished' = FALSE
    /\ streaming' = <<>>
    /\ pending' = <<>>
    /\ ui' = "starting"
    /\ UNCHANGED <<systemPrompt, cloudSays, loadVars, engine, stopFlag, genVars, broken>>

\* render_input_area and submit_message up to the call of generate.  The input
\* is there when no generation is pending and can_send holds.
Submit ==
    /\ ui = "free" /\ ~broken
    /\ finished
    /\ appLoaded \/ cloudSays
    /\ turn < MaxTurns
    /\ turn' = turn + 1
    /\ messages' = messages \o << [role |-> "user", turn |-> turn + 1, text |-> <<>>],
                                  [role |-> "assistant", turn |-> turn + 1, text |-> <<>>] >>
    /\ finished' = FALSE
    /\ streaming' = <<>>
    /\ pending' = <<>>
    /\ ui' = "starting"
    /\ UNCHANGED <<systemPrompt, cloudSays, loadVars, engine, stopFlag, genVars, broken>>

\* generate refuses, and submit_message does not look at what it returns.
\* Rendering the prompt reads the templates the loader may be replacing.
StartRefused ==
    /\ ui = "starting" /\ ~broken
    /\ ~model \/ Running
    /\ ui' = "free"
    /\ MayBreak(loader \in {"freeing", "loading", "building"})
    /\ UNCHANGED <<chatVars, pending, cloudSays, loadVars, engine, stopFlag, turn, genVars>>

\* generate joins the thread before and starts the next one.  The loader may be
\* joining the same thread.
Start ==
    /\ ui = "starting" /\ ~broken
    /\ model /\ ~Running
    /\ engine' = "prompt"
    /\ stopFlag' = FALSE
    /\ answering' = turn
    /\ produced' = 0
    /\ ui' = "free"
    /\ MayBreak(loader \in {"joining", "freeing", "building"})
    /\ UNCHANGED <<chatVars, pending, cloudSays, loadVars, turn, twice>>

\* The stop button; _cloud.stop() has no thread to join.
StopButton ==
    /\ ui = "free" /\ ~broken
    /\ ~finished
    /\ stopFlag' = TRUE
    /\ UNCHANGED <<chatVars, pending, cloudSays, ui, loadVars, engine, turn, genVars, broken>>

\* clear_kv_cache holds a mutex that neither llama_decode in run_loop takes nor the
\* loader, which frees the context, or has made it and resets the same counters.
ClearMemory == MayBreak(model /\ (Running \/ loader \in {"freeing", "building"}))

\* The clear button.
Clear ==
    /\ ui = "free" /\ ~broken
    /\ messages' = IF systemPrompt
                   THEN << [role |-> "system", turn |-> 0, text |-> <<>>] >>
                   ELSE <<>>
    /\ ClearMemory
    /\ UNCHANGED <<systemPrompt, finished, streaming, pending, cloudSays, ui,
                   loadVars, engine, stopFlag, turn, genVars>>

\* load_session_dialog: the file is read and not used, and there is no file of
\* the engine's state, since save_current_session writes none.
LoadSession ==
    /\ ui = "free" /\ ~broken
    /\ messages' = <<>>
    /\ ClearMemory
    /\ UNCHANGED <<systemPrompt, finished, streaming, pending, cloudSays, ui,
                   loadVars, engine, stopFlag, turn, genVars>>

\* The settings and cloud panels.
Configure ==
    /\ ui = "free" /\ ~broken
    /\ systemPrompt' \in BOOLEAN
    /\ cloudSays' \in BOOLEAN
    /\ UNCHANGED <<messages, finished, streaming, pending, ui, loadVars, engine,
                   stopFlag, turn, genVars, broken>>

\* A load button; that of the model browser stops the engine, the one of the top
\* bar does not.  The thread of the load before is joined first.
LoadModel ==
    /\ ui = "free" /\ ~broken
    /\ ui' = "joining"
    /\ stopFlag' \in {stopFlag, TRUE}
    /\ UNCHANGED <<chatVars, pending, cloudSays, loadVars, engine, turn, genVars,
                   broken>>

LoaderStarts ==
    /\ ui = "joining" /\ ~broken
    /\ loader = "idle"
    /\ loader' = "stopping"
    /\ ui' = "free"
    /\ UNCHANGED <<chatVars, pending, cloudSays, appLoaded, model, canShift,
                   engine, stopFlag, turn, genVars, broken>>

\* What the message list shows of a text: the last finished part of it.
Fins(text) == {n \in DOMAIN text : text[n] = FIN}
LastIn(S) == CHOOSE n \in S : \A k \in S : k <= n
TextShown(text) ==
    LET last == LastIn(Fins(text))
        before == LastIn({0} \cup (Fins(text) \ {last}))
    IN  SubSeq(text, before + 1, last - 1)
TextLeft(text) ==
    IF Fins(text) = {} THEN text ELSE SubSeq(text, LastIn(Fins(text)) + 1, Len(text))

Last(s) == s[Len(s)]

\* Mutant: _streaming_text is cleared in every frame.
ProcessTokens_EveryFrame ==
    /\ ui = "free" /\ ~broken
    /\ pending # <<>>
    /\ LET text == streaming \o pending IN
          IF Fins(text) = {}
          THEN streaming' = <<>> /\ UNCHANGED <<messages, finished>>
          ELSE /\ messages' = IF messages = <<>> THEN messages
                              ELSE [messages EXCEPT ![Len(messages)].text = TextShown(text)]
               /\ streaming' = TextLeft(text)
               /\ finished' = TRUE
    /\ pending' = <<>>
    /\ UNCHANGED <<systemPrompt, cloudSays, ui, loadVars, engine, stopFlag, turn,
                   genVars, broken>>

\* process_incoming_tokens, in every frame, under _streaming_mutex.
ProcessTokens ==
    /\ ui = "free" /\ ~broken
    /\ pending # <<>>
    /\ LET text == streaming \o pending IN
          IF Fins(text) = {}
          THEN streaming' = text /\ UNCHANGED <<messages, finished>>
          ELSE /\ messages' = IF messages = <<>> THEN messages
                              ELSE [messages EXCEPT ![Len(messages)].text = TextShown(text)]
               /\ streaming' = TextLeft(text)
               /\ finished' = TRUE
    /\ pending' = <<>>
    /\ UNCHANGED <<systemPrompt, cloudSays, ui, loadVars, engine, stopFlag, turn,
                   genVars, broken>>

-----------------------------------------------------------------------------
(* The loader: EdgeApp::load_model on a thread of its own.                 *)

\* unload: stop the generation,
LoaderStops ==
    /\ loader = "stopping" /\ ~broken
    /\ stopFlag' = TRUE
    /\ loader' = "joining"
    /\ UNCHANGED <<chatVars, pending, cloudSays, ui, appLoaded, model, canShift,
                   engine, turn, genVars, broken>>

\* join its thread,
LoaderJoins ==
    /\ loader = "joining" /\ ~broken
    /\ engine \in {"none", "over"}
    /\ engine' = "none"
    /\ loader' = "freeing"
    /\ UNCHANGED <<chatVars, pending, cloudSays, ui, appLoaded, model, canShift,
                   stopFlag, turn, genVars, broken>>

\* free the model, under the feet of a generation that has started meanwhile.
LoaderFrees ==
    /\ loader = "freeing" /\ ~broken
    /\ model' = FALSE
    /\ loader' = "loading"
    /\ broken' = (model /\ Running)
    /\ UNCHANGED <<chatVars, pending, cloudSays, ui, appLoaded, canShift, engine,
                   stopFlag, turn, genVars>>

\* Model and context are there, the sampler is not yet.
LoaderLoads ==
    /\ loader = "loading" /\ ~broken
    /\ model' = TRUE
    /\ canShift' \in BOOLEAN
    /\ loader' = "building"
    /\ UNCHANGED <<chatVars, pending, cloudSays, ui, appLoaded, engine, stopFlag,
                   turn, genVars, broken>>

\* The file is no model, or the context does not fit.
LoaderFails ==
    /\ loader = "loading" /\ ~broken
    /\ appLoaded' = FALSE
    /\ loader' = "idle"
    /\ UNCHANGED <<chatVars, pending, cloudSays, ui, model, canShift, engine,
                   stopFlag, turn, genVars, broken>>

LoaderReady ==
    /\ loader = "building" /\ ~broken
    /\ appLoaded' = TRUE
    /\ loader' = "idle"
    /\ UNCHANGED <<chatVars, pending, cloudSays, ui, model, canShift, engine,
                   stopFlag, turn, genVars, broken>>

-----------------------------------------------------------------------------
(* The engine: run_loop.                                                   *)

\* Mutant: the error return reports nothing.
PromptFails_Silent ==
    /\ engine = "prompt" /\ ~broken
    /\ engine' = "over"
    /\ UNCHANGED <<chatVars, pending, cloudSays, ui, loadVars, stopFlag, turn,
                   genVars, broken>>

\* Tokenization fails or the prompt does not fit: _running is cleared first,
PromptFails ==
    /\ engine = "prompt" /\ ~broken
    /\ engine' = "failing"
    /\ UNCHANGED <<chatVars, pending, cloudSays, ui, loadVars, stopFlag, turn,
                   genVars, broken>>

\* then the error is reported.
ReportFailure ==
    /\ engine = "failing" /\ ~broken
    /\ pending' = Append(pending, FIN)
    /\ engine' = "over"
    /\ UNCHANGED <<chatVars, cloudSays, ui, loadVars, stopFlag, turn, genVars, broken>>

\* A prompt of more than n_batch tokens: an assertion of libllama aborts.
PromptAborts ==
    /\ engine = "prompt" /\ ~broken
    /\ broken' = TRUE
    /\ UNCHANGED <<chatVars, pending, cloudSays, ui, loadVars, engine, stopFlag,
                   turn, genVars>>

PromptDecoded ==
    /\ engine = "prompt" /\ ~broken
    /\ engine' = "generating"
    /\ UNCHANGED <<chatVars, pending, cloudSays, ui, loadVars, stopFlag, turn,
                   genVars, broken>>

\* Mutant: n_generated <= n_predict.
Token_OneMore ==
    /\ engine = "generating" /\ ~broken
    /\ ~stopFlag
    /\ produced <= MaxTokens
    /\ produced' = produced + 1
    /\ pending' = Append(pending, <<answering, produced + 1>>)
    /\ UNCHANGED <<chatVars, cloudSays, ui, loadVars, engine, stopFlag, turn,
                   answering, twice, broken>>

\* A token is sampled, handed over and decoded.
Token ==
    /\ engine = "generating" /\ ~broken
    /\ ~stopFlag
    /\ produced < MaxTokens
    /\ produced' = produced + 1
    /\ pending' = Append(pending, <<answering, produced + 1>>)
    /\ UNCHANGED <<chatVars, cloudSays, ui, loadVars, engine, stopFlag, turn,
                   answering, twice, broken>>

\* The context is full and cannot be shifted: one end is reported here, the
\* other one after the loop.
ContextLimit ==
    /\ engine = "generating" /\ ~broken
    /\ ~stopFlag
    /\ produced < MaxTokens
    /\ ~canShift
    /\ pending' = Append(pending, FIN)
    /\ engine' = "limited"
    /\ twice' = TRUE
    /\ UNCHANGED <<chatVars, cloudSays, ui, loadVars, stopFlag, turn, answering,
                   produced, broken>>

\* The loop ends: stopped, end of generation, n_predict, a failed decode.
ReportEnd ==
    /\ engine \in {"generating", "limited"} /\ ~broken
    /\ pending' = Append(pending, FIN)
    /\ engine' = "ending"
    /\ UNCHANGED <<chatVars, cloudSays, ui, loadVars, stopFlag, turn, genVars, broken>>

\* Mutant: the end is reported once more, as EdgeCloud::run_thread does.
Ends_ReportsAgain ==
    /\ engine = "ending" /\ ~broken
    /\ pending' = Append(pending, FIN)
    /\ engine' = "over"
    /\ UNCHANGED <<chatVars, cloudSays, ui, loadVars, stopFlag, turn, genVars, broken>>

\* _running is cleared after the end was reported.
Ends ==
    /\ engine = "ending" /\ ~broken
    /\ engine' = "over"
    /\ UNCHANGED <<chatVars, pending, cloudSays, ui, loadVars, stopFlag, turn,
                   genVars, broken>>

-----------------------------------------------------------------------------
UINext ==
    \/ Submit \/ StartRefused \/ Start \/ StopButton \/ Clear \/ LoadSession
    \/ Configure \/ LoadModel \/ LoaderStarts \/ ProcessTokens \/ Restart

LoaderNext ==
    \/ LoaderStops \/ LoaderJoins \/ LoaderFrees \/ LoaderLoads \/ LoaderFails
    \/ LoaderReady

EngineNext ==
    \/ PromptFails \/ ReportFailure \/ PromptAborts \/ PromptDecoded \/ Token
    \/ ContextLimit \/ ReportEnd \/ Ends

Next == UINext \/ LoaderNext \/ EngineNext

Spec == Init /\ [][Next]_vars

\* The threads run, frames are drawn, and submit_message goes on to its end.  A
\* frame spent on a button does not starve process_incoming_tokens, which
\* is called in every frame (strong fairness).
FairSpec ==
    /\ Spec
    /\ WF_vars(EngineNext)
    /\ WF_vars(LoaderNext)
    /\ WF_vars(Start \/ StartRefused)
    /\ WF_vars(LoaderStarts)
    /\ SF_vars(ProcessTokens)

-----------------------------------------------------------------------------
(* Properties.                                                             *)

\* The type invariant of the conversation and its threads.
Message ==
    [role : {"system", "user", "assistant"}, turn : 0..MaxTurns, text : Seq(Tokens)]
TypeOK ==
    /\ messages \in Seq(Message)
    /\ systemPrompt \in BOOLEAN
    /\ finished \in BOOLEAN
    /\ streaming \in Seq(Tokens)
    /\ pending \in Seq(Tokens \cup {FIN})
    /\ appLoaded \in BOOLEAN
    /\ cloudSays \in BOOLEAN
    /\ ui \in {"free", "starting", "joining"}
    /\ ui = "starting" => turn > 0
    /\ loader \in {"idle", "stopping", "joining", "freeing", "loading", "building"}
    /\ model \in BOOLEAN
    /\ canShift \in BOOLEAN
    /\ engine \in {"none", "prompt", "generating", "limited", "ending", "failing", "over"}
    /\ stopFlag \in BOOLEAN
    /\ turn \in 0..MaxTurns
    /\ answering \in 0..turn
    /\ Running => answering > 0
    /\ produced \in 0..MaxTokens
    /\ twice \in BOOLEAN
    /\ broken \in BOOLEAN

\* An assistant's message holds tokens of its own turn and nothing else, the
\* first of them without a gap: whatever is submitted, stopped, cleared and
\* loaded meanwhile, no text gets into the answer to another question
\* (submit_message, on_token, process_incoming_tokens).  Not so once a
\* generation has reported its end twice.
OwnAnswer ==
    ~twice => \A i \in DOMAIN messages :
        messages[i].role = "assistant" =>
            \A n \in DOMAIN messages[i].text : messages[i].text[n] = <<messages[i].turn, n>>

\* When the turn the engine has answered is over, its message is complete.
FinishedAnswerComplete ==
    /\ ~twice /\ finished /\ messages # <<>>
    /\ Last(messages).role = "assistant" /\ Last(messages).turn = answering
    => Len(Last(messages).text) = produced

\* What a finished turn has left in the conversation does not change any more
\* until it is cleared: no late token or second end overwrites it.
AnswersStand ==
    [][finished /\ ~twice /\ Len(messages') >= Len(messages)
        => \A i \in DOMAIN messages :
              messages[i].role = "assistant" => messages'[i] = messages[i]]_vars

\* A turn the engine has taken is over some time: the end of run_loop is seen by
\* a frame and gives the input back.
AcceptedTurnEnds ==
    (engine \in {"prompt", "generating", "failing"} /\ ~twice) ~> (finished \/ twice \/ broken)

\* "the stop button: a click interrupts the generation immediately"
\* (edge-gui/README.md:99, in Chinese): a turn for which a stop was requested
\* ends.
StopEndsTurn == (~finished /\ stopFlag) ~> (finished \/ broken)
=============================================================================
