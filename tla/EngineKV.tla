------------------------------ MODULE EngineKV ------------------------------
(***************************************************************************)
(* The memory of the local engine (edge-gui/engine.cpp): the cells of      *)
(* libllama's KV cache, the counters that run_loop keeps next to them, the *)
(* context shift, and the UI thread that clears or restores the memory     *)
(* while the engine's thread works.  ChatSession has the threads' flags    *)
(* and the text of the answers; here a turn is its tokens.                 *)
(*                                                                         *)
(* A call of libllama is one step, and so is an assignment: what the UI    *)
(* does meanwhile comes before or after it.  A cell lies at a position,    *)
(* and new cells are placed behind the largest one, whatever _n_past says  *)
(* (llama_batch_get_one gives no positions).  In a disturbed memory two    *)
(* cells may come to lie at one position: the model keeps one of them.     *)
(***************************************************************************)
EXTENDS Integers, Sequences, FiniteSets

CONSTANTS
    Tokens,      \* tokens the model knows
    Contexts,    \* values of the setting n_ctx
    Keeps,       \* values of the setting n_keep
    Align,       \* contexts are created with a multiple of this (256)
    NBatch,      \* the setting n_batch at the time of loading
    NUbatch,     \* libllama computes a batch in pieces of this size
    Predicts,    \* values of the setting n_predict
    MaxPredict,  \* the largest of them
    Prompts      \* conversations, each a sequence of tokens

\* The sliders: n_ctx is 256 or more, n_keep 1 to 100, n_predict 4096 or less
\* (app.cpp:545-548; a value typed into a slider may lie outside, and is left out).
ASSUME SettingsAssumption ==
    /\ Contexts \subseteq Nat /\ Keeps \subseteq Nat \ {0}
    /\ \A c \in Contexts, k \in Keeps : c >= k + 3
ASSUME SizesAssumption ==
    /\ Align \in Nat \ {0} /\ NBatch \in Nat \ {0} /\ NUbatch \in Nat \ {0}
    /\ Predicts \subseteq 0..MaxPredict /\ MaxPredict \in Nat
    /\ Prompts \subseteq Seq(Tokens) /\ <<>> \in Prompts

VARIABLES
    n_ctx, n_keep, n_predict,   \* the settings, moved at any time
    context,         \* the context as created: its cells and its largest batch
    can_shift,       \* llama_memory_can_shift of the loaded model
    kv,              \* the memory: position -> token
    n_past, cached,  \* _n_past, _cached_tokens
    pc,              \* where run_loop is
    batch,           \* the tokens it decodes
    n_generated,
    discard,         \* n_discard of the shift under way
    ui,              \* the UI thread has replaced the memory, not yet the counters
    target,          \*   the tokens it does this for
    disturbed        \* history: the engine moved during such a replacement, it came
                     \*   between two steps of the engine's that belong together,
                     \*   or a prompt was decoded in part

settings == <<n_ctx, n_keep, n_predict, context, can_shift>>
memory == <<kv, n_past, cached>>
work == <<pc, batch, n_generated, discard>>
desk == <<ui, target>>
vars == <<settings, memory, work, desk, disturbed>>

\* A memory that holds tokens ts from position 0 on.
Cells(ts) == [p \in 0..(Len(ts) - 1) |-> ts[p + 1]]

\* GGML_PAD, and the bound that libllama puts on n_batch.
Created(c) == [cells |-> ((c + Align - 1) \div Align) * Align,
               batch |-> IF c < NBatch THEN c ELSE NBatch]

Init ==
    /\ n_ctx \in Contexts /\ n_keep \in Keeps /\ n_predict \in Predicts
    /\ context = Created(n_ctx) /\ can_shift \in BOOLEAN
    /\ kv = Cells(<<>>) /\ n_past = 0 /\ cached = <<>>
    /\ pc = "idle" /\ batch = <<>> /\ n_generated = 0 /\ discard = 0
    /\ ui = "free" /\ target = <<>>
    /\ disturbed = FALSE

-----------------------------------------------------------------------------
(* The operations of libllama on the memory.                               *)

Used == Cardinality(DOMAIN kv)

NextPosition ==
    IF DOMAIN kv = {} THEN 0
    ELSE 1 + CHOOSE p \in DOMAIN kv : \A q \in DOMAIN kv : q <= p

Fits(ts) == Used + Len(ts) <= context.cells

\* llama_decode of tokens that fit.
Decoded(ts) ==
    [p \in DOMAIN kv \cup NextPosition..(NextPosition + Len(ts) - 1) |->
        IF p \in DOMAIN kv THEN kv[p] ELSE ts[p - NextPosition + 1]]

\* llama_memory_seq_rm and llama_memory_seq_add with a shift to the left.
SeqRm(mem, lo, hi) == [p \in {q \in DOMAIN mem : q < lo \/ hi <= q} |-> mem[p]]

SeqAdd(mem, lo, hi, d) ==
    LET Moved == {q \in DOMAIN mem : lo <= q /\ q < hi} IN
    [p \in (DOMAIN mem \ Moved) \cup {q - d : q \in Moved} |->
        IF p + d \in Moved THEN mem[p + d] ELSE mem[p]]

-----------------------------------------------------------------------------
(* The engine's thread: run_loop.                                          *)

\* A step of which a replacement begun sees half.
Touch == disturbed' = (disturbed \/ ui = "replacing")

\* generate, called by the UI thread, with the whole conversation as prompt.
Generate ==
    /\ pc = "idle" /\ ui = "free"
    /\ batch' \in Prompts
    /\ pc' = "prompt"
    /\ n_generated' = 0
    /\ UNCHANGED <<settings, memory, discard, desk, disturbed>>

\* Mutant: an empty prompt is not refused.
NoTokens_GoesOn ==
    /\ pc = "prompt" /\ batch = <<>>
    /\ pc' = "prompted"
    /\ UNCHANGED <<settings, memory, batch, n_generated, discard, desk, disturbed>>

NoTokens ==
    /\ pc = "prompt" /\ batch = <<>>
    /\ pc' = "idle"
    /\ UNCHANGED <<settings, memory, batch, n_generated, discard, desk, disturbed>>

\* GGML_ASSERT(n_tokens_all <= cparams.n_batch)
PromptAborts ==
    /\ pc = "prompt" /\ Len(batch) > context.batch
    /\ pc' = "aborted"
    /\ UNCHANGED <<settings, memory, batch, n_generated, discard, desk, disturbed>>

DecodePrompt ==
    /\ pc = "prompt" /\ batch # <<>> /\ Len(batch) <= context.batch
    /\ Fits(batch)
    /\ kv' = Decoded(batch)
    /\ pc' = "prompted"
    /\ Touch
    /\ UNCHANGED <<settings, n_past, cached, batch, n_generated, discard, desk>>

\* "[Error: prompt decode failed]": no cells are left for it, or the computation
\* fails, and the pieces computed before the one that failed stay.
PromptFails ==
    /\ pc = "prompt" /\ batch # <<>> /\ Len(batch) <= context.batch
    /\ \/ ~Fits(batch) /\ UNCHANGED <<kv, disturbed>>
       \/ /\ Fits(batch)
          /\ \E j \in 0..(Len(batch) - 1) :
                /\ j % NUbatch = 0
                /\ kv' = Decoded(SubSeq(batch, 1, j))
                /\ disturbed' = (disturbed \/ j > 0)
    /\ pc' = "idle"
    /\ UNCHANGED <<settings, n_past, cached, batch, n_generated, discard, desk>>

\* _n_past += n_prompt, or _n_past++, behind a decode; and the same tokens are cached.
CountBatch(from, to) ==
    /\ pc = from
    /\ n_past' = n_past + Len(batch)
    /\ pc' = to
    /\ Touch
    /\ UNCHANGED <<settings, kv, cached, batch, n_generated, discard, desk>>

CacheBatch(from) ==
    /\ pc = from
    /\ cached' = cached \o batch
    /\ pc' = "loop"
    /\ Touch
    /\ UNCHANGED <<settings, kv, n_past, batch, discard, desk>>

CountPrompt == CountBatch("prompted", "prompt_counted")
CachePrompt == CacheBatch("prompt_counted") /\ UNCHANGED n_generated

\* Mutant: the tokens of an answer are not counted.
CacheToken_NotCounted == CacheBatch("token_counted") /\ UNCHANGED n_generated

CountToken == CountBatch("decoded", "token_counted")
CacheToken == CacheBatch("token_counted") /\ n_generated' = n_generated + 1

\* Mutant: the context is taken for full when it is overfull.
ContextFull_Late == n_past > n_ctx

ContextFull == n_past + 1 >= n_ctx

\* (_n_past - n_keep) / 2 of int32_t, which nothing is done for unless positive.
Discard == IF n_past > n_keep THEN (n_past - n_keep) \div 2 ELSE 0

\* n_predict tokens, a click on stop, or a context that is full and cannot shift.
LoopEnds ==
    /\ pc = "loop"
    /\ pc' = "idle"
    /\ UNCHANGED <<settings, memory, batch, n_generated, discard, desk, disturbed>>

\* An iteration with a shift, in four steps: n_discard is computed here.
ShiftBegins ==
    /\ pc = "loop" /\ n_generated < n_predict
    /\ ContextFull /\ can_shift /\ Discard > 0
    /\ discard' = Discard
    /\ pc' = "full"
    /\ Touch
    /\ UNCHANGED <<settings, memory, batch, n_generated, desk>>

RemoveCells ==
    /\ pc = "full"
    /\ kv' = SeqRm(kv, n_keep, n_keep + discard)
    /\ pc' = "removed"
    /\ Touch
    /\ UNCHANGED <<settings, n_past, cached, batch, n_generated, discard, desk>>

\* Mutant: seq_add stops short of the newest cell.
MoveCells_NewestStays ==
    /\ pc = "removed"
    /\ kv' = SeqAdd(kv, n_keep + discard, n_past - 1, discard)
    /\ pc' = "moved"
    /\ Touch
    /\ UNCHANGED <<settings, n_past, cached, batch, n_generated, discard, desk>>

MoveCells ==
    /\ pc = "removed"
    /\ kv' = SeqAdd(kv, n_keep + discard, n_past, discard)
    /\ pc' = "moved"
    /\ Touch
    /\ UNCHANGED <<settings, n_past, cached, batch, n_generated, discard, desk>>

\* Mutant: the oldest tokens are forgotten.
EraseTokens_FromTheStart ==
    /\ pc = "moved"
    /\ cached' = SubSeq(cached, discard + 1, Len(cached))
    /\ pc' = "erased"
    /\ Touch
    /\ UNCHANGED <<settings, kv, n_past, batch, n_generated, discard, desk>>

\* What is undefined behind the end of the vector ends the program, or shortens it.
EraseTokens ==
    /\ pc = "moved"
    /\ IF n_keep + discard <= Len(cached)
       THEN /\ cached' = SubSeq(cached, 1, n_keep)
                            \o SubSeq(cached, n_keep + discard + 1, Len(cached))
            /\ pc' = "erased"
       ELSE /\ cached' = SubSeq(cached, 1, Len(cached) - discard)
            /\ pc' \in {"erased", "aborted"}
    /\ Touch
    /\ UNCHANGED <<settings, kv, n_past, batch, n_generated, discard, desk>>

\* The sampled token: the end of the answer, or one to decode.
Sampled ==
    \/ pc' = "idle" /\ UNCHANGED batch
    \/ pc' = "token" /\ \E t \in Tokens : batch' = <<t>>

ShiftEnds ==
    /\ pc = "erased"
    /\ n_past' = n_past - discard
    /\ discard' = 0
    /\ Sampled
    /\ Touch
    /\ UNCHANGED <<settings, kv, cached, n_generated, desk>>

\* An iteration without a shift.
Iterate ==
    /\ pc = "loop" /\ n_generated < n_predict
    /\ ContextFull => can_shift /\ Discard = 0
    /\ Sampled
    /\ UNCHANGED <<settings, memory, n_generated, discard, desk, disturbed>>

DecodeToken ==
    /\ pc = "token" /\ Fits(batch)
    /\ kv' = Decoded(batch)
    /\ pc' = "decoded"
    /\ Touch
    /\ UNCHANGED <<settings, n_past, cached, batch, n_generated, discard, desk>>

\* No cell is left, or the computation fails and its one cell is removed.
TokenFails ==
    /\ pc = "token"
    /\ pc' = "idle"
    /\ UNCHANGED <<settings, memory, batch, n_generated, discard, desk, disturbed>>

-----------------------------------------------------------------------------
(* The UI thread, and the loader's.                                        *)

\* clear_kv_cache (no tokens) or load_session with a state file that libllama has
\* written: the lock they hold is not taken by the steps above.  A state that does
\* not fit fails to load, and is followed by clear_kv_cache.
ReplaceMemory ==
    /\ pc # "aborted" /\ ui = "free"
    /\ target' \in {ts \in Prompts : Len(ts) <= context.cells}
    /\ kv' = Cells(target')
    /\ ui' = "replacing"
    /\ disturbed' = (pc \notin {"idle", "prompt", "loop", "token"})
    /\ UNCHANGED <<settings, n_past, cached, work>>

ReplaceCounters ==
    /\ pc # "aborted" /\ ui = "replacing"
    /\ n_past' = Len(target)
    /\ cached' = target
    /\ ui' = "free" /\ target' = <<>>
    /\ UNCHANGED <<settings, kv, work, disturbed>>

\* n_keep is read anew for each step of a shift.
MoveSlider ==
    /\ pc # "aborted"
    /\ n_ctx' \in Contexts /\ n_keep' \in Keeps /\ n_predict' \in Predicts
    /\ disturbed' = (disturbed \/ (n_keep' # n_keep /\ pc \in {"full", "removed", "moved"}))
    /\ UNCHANGED <<context, can_shift, memory, work, desk>>

\* load_model, whose unload has joined run_loop; or the program is started again.
LoadModel ==
    /\ pc \in {"idle", "aborted"} /\ (ui = "free" \/ pc = "aborted")
    /\ context' = Created(n_ctx) /\ can_shift' \in BOOLEAN
    /\ kv' = Cells(<<>>) /\ n_past' = 0 /\ cached' = <<>>
    /\ pc' = "idle" /\ discard' = 0
    /\ ui' = "free" /\ target' = <<>>
    /\ disturbed' = FALSE
    /\ UNCHANGED <<n_ctx, n_keep, n_predict, batch, n_generated>>

-----------------------------------------------------------------------------

Engine ==
    \/ NoTokens \/ PromptAborts \/ DecodePrompt \/ PromptFails \/ CountPrompt \/ CachePrompt
    \/ LoopEnds \/ Iterate \/ DecodeToken \/ TokenFails \/ CountToken \/ CacheToken
    \/ ShiftBegins \/ RemoveCells \/ MoveCells \/ EraseTokens \/ ShiftEnds

Next ==
    \/ Generate \/ Engine
    \/ ReplaceMemory \/ ReplaceCounters \/ MoveSlider \/ LoadModel

\* The engine's thread runs.
Fairness == WF_vars(Engine)

Spec == Init /\ [][Next]_vars /\ Fairness

-----------------------------------------------------------------------------
(* Properties.                                                             *)

\* Every variable has its type, and run_loop has tokens where it needs them.
TypeOK ==
    /\ n_ctx \in Contexts /\ n_keep \in Keeps /\ n_predict \in Predicts
    /\ context \in [cells : Nat, batch : Nat] /\ can_shift \in BOOLEAN
    /\ DOMAIN kv \in SUBSET Nat /\ \A p \in DOMAIN kv : kv[p] \in Tokens
    /\ n_past \in Int /\ cached \in Seq(Tokens)
    /\ pc \in {"idle", "prompt", "prompted", "prompt_counted", "loop", "full", "removed",
               "moved", "erased", "token", "decoded", "token_counted", "aborted"}
    /\ batch \in Seq(Tokens)
    /\ pc \in {"prompted", "prompt_counted", "token", "decoded", "token_counted"}
          => batch # <<>>
    /\ n_generated \in Nat /\ discard \in Nat
    /\ ui \in {"free", "replacing"} /\ target \in Seq(Tokens)
    /\ disturbed \in BOOLEAN

\* What is decoded and not in the cache of tokens yet, and how much of it _n_past counts.
Outstanding ==
    IF pc \in {"prompted", "prompt_counted", "decoded", "token_counted"} THEN batch ELSE <<>>
Counted == IF pc \in {"prompt_counted", "token_counted"} THEN Len(batch) ELSE 0

\* The memory of libllama, _n_past and _cached_tokens describe the same tokens at
\* the same positions without a gap, after any sequence of prompts, answers,
\* context shifts, clears and restored states (engine.cpp:237-405): unless the
\* engine worked while the UI replaced the memory or moved n_keep (no lock keeps it
\* from that), or a prompt failed half-way, and this was not cleared since.
InStep ==
    (ui = "free" /\ ~disturbed /\ pc \notin {"removed", "moved", "erased"}) =>
        /\ n_past = Len(cached) + Counted
        /\ kv = Cells(cached \o Outstanding)

\* A shift makes room: whenever the setting n_ctx is not above what the context was
\* created with, the token just sampled will find a cell (engine.cpp:326-354).
ShiftMakesRoom ==
    [][(pc # "token" /\ pc' = "token") =>
          (ui = "free" /\ ~disturbed /\ n_ctx <= context.cells
              => Cardinality(DOMAIN kv') < context.cells)]_vars

Working == pc \notin {"idle", "aborted"}

\* A generation forgets tokens of the middle: the first n_keep ("the earliest tokens that
\* a shift keeps", README.md:139) and at least the newer half of the others stay, in
\* their order.
ShiftKeepsBothEnds ==
    [][(Working /\ Len(cached') < Len(cached) /\ ui = "free" /\ ~disturbed) =>
          \E d \in 1..(Len(cached) - n_keep) :
              /\ cached' = SubSeq(cached, 1, n_keep)
                              \o SubSeq(cached, n_keep + d + 1, Len(cached))
              /\ 2 * d <= Len(cached) - n_keep]_vars

\* A generation ends, however often the context is shifted and n_predict is moved.
GenerationEnds == (pc # "idle") ~> (pc \in {"idle", "aborted"})

=============================================================================
