------------------------- MODULE ChatSession_proofs -------------------------
(***************************************************************************)
(* Proofs about ChatSession for any number of turns and of tokens: types,  *)
(* that every answer holds its own turn's tokens, all of them, that a      *)
(* finished answer stands, that a refused turn stays as it is and that the *)
(* end of an answer is not lost.                                           *)
(***************************************************************************)
EXTENDS ChatSession, TLAPS, SequenceTheorems, WellFoundedInduction

-----------------------------------------------------------------------------
(* Texts.                                                                  *)

\* The text of turn t after k tokens.
Own(t, k) == [n \in 1..k |-> <<t, n>>]

\* The greatest of a non-empty, bounded set of numbers.
LEMMA LastInIsGreatest ==
    ASSUME NEW N \in Nat, NEW S \in SUBSET (0..N), S # {}
    PROVE  LastIn(S) \in S /\ \A k \in S : k <= LastIn(S)
<1> DEFINE T == {N - k : k \in S}
<1>1. T \in SUBSET Nat /\ T # {}
  <2>1. \A k \in S : N - k \in Nat
    OBVIOUS
  <2>2. T \subseteq Nat
    BY <2>1
  <2>3. PICK k \in S : TRUE
    OBVIOUS
  <2>4. N - k \in T
    BY <2>3
  <2> QED  BY <2>2, <2>4
<1>2. \E k \in T : \A m \in T : <<m, k>> \notin OpToRel(<, Nat)
  BY <1>1, NatLessThanWellFounded, WFMin
<1>3. PICK k \in T : \A m \in T : <<m, k>> \notin OpToRel(<, Nat)
  BY <1>2
<1>4. \A m \in T : ~(m < k)
  BY <1>1, <1>3 DEF OpToRel
<1>5. PICK n \in S : k = N - n
  BY <1>3
<1>6. \A j \in S : j <= n
  <2> TAKE j \in S
  <2>1. N - j \in T
    OBVIOUS
  <2>2. ~(N - j < k)
    BY <1>4, <2>1
  <2> QED  BY <1>5, <2>2
<1> QED  BY <1>6 DEF LastIn

\* What process_incoming_tokens makes of any text holds no end marker.
LEMMA TextParts ==
    ASSUME NEW text \in Seq(Tokens \cup {FIN})
    PROVE  /\ Fins(text) # {} => TextShown(text) \in Seq(Tokens)
           /\ TextLeft(text) \in Seq(Tokens)
<1> DEFINE last == LastIn(Fins(text))
           before == LastIn({0} \cup (Fins(text) \ {last}))
<1>1. Len(text) \in Nat /\ DOMAIN text = 1..Len(text)
  OBVIOUS
<1>2. \A n \in 1..Len(text) : n \notin Fins(text) => text[n] \in Tokens
  BY <1>1 DEF Fins
<1>3. CASE Fins(text) = {}
  <2>1. \A n \in 1..Len(text) : text[n] \in Tokens
    BY <1>2, <1>3
  <2>2. text \in Seq(Tokens)
    BY <1>1, <2>1
  <2> QED  BY <1>3, <2>2 DEF TextLeft
<1>4. CASE Fins(text) # {}
  <2>1. Fins(text) \in SUBSET (0..Len(text)) /\ Fins(text) \in SUBSET (1..Len(text))
    BY <1>1 DEF Fins
  <2>2. last \in 1..Len(text) /\ \A k \in Fins(text) : k <= last
    BY <1>1, <1>4, <2>1, LastInIsGreatest
  <2> DEFINE B == {0} \cup (Fins(text) \ {last})
  <2>3. B \in SUBSET (0..Len(text)) /\ B # {} /\ before = LastIn(B)
    BY <2>1
  <2>4. before \in B /\ \A k \in B : k <= before
    BY <1>1, <2>3, LastInIsGreatest
  <2> HIDE DEF last, before, B
  <2>5. before \in 0..Len(text)
    BY <2>3, <2>4
  <2>6. SubSeq(text, before + 1, last - 1) \in Seq(Tokens)
    <3>1. ASSUME NEW n \in (before + 1)..(last - 1) PROVE text[n] \in Tokens
      <4>1. n \in 1..Len(text) /\ ~(n <= before) /\ n # last
        BY <2>2, <2>5
      <4>2. n \notin B
        BY <2>4, <4>1
      <4>3. n \notin Fins(text)
        BY <4>1, <4>2 DEF B
      <4> QED  BY <1>2, <4>1, <4>3
    <3>2. before + 1 \in 1..(Len(text) + 1) /\ last - 1 \in 0..Len(text)
      BY <1>1, <2>2, <2>5
    <3> QED  BY <1>1, <3>1, <3>2, SubSeqProperties
  <2>7. SubSeq(text, last + 1, Len(text)) \in Seq(Tokens)
    <3>1. ASSUME NEW n \in (last + 1)..Len(text) PROVE text[n] \in Tokens
      <4>1. n \in 1..Len(text) /\ ~(n <= last)
        BY <2>2
      <4>2. n \notin Fins(text)
        BY <2>2, <4>1
      <4> QED  BY <1>2, <4>1, <4>2
    <3>2. last + 1 \in 1..(Len(text) + 1) /\ Len(text) \in 0..Len(text)
      BY <1>1, <2>2
    <3> QED  BY <1>1, <3>1, <3>2, SubSeqProperties
  <2> QED  BY <1>4, <2>6, <2>7 DEF TextShown, TextLeft, last, before, B
<1> QED  BY <1>3, <1>4

\* The text of a turn grows token by token and holds no end marker.
LEMMA OwnText ==
    ASSUME NEW t \in Turns, NEW k \in Nat
    PROVE  /\ Own(t, k) \in Seq(Nat \X Nat) /\ Len(Own(t, k)) = k
           /\ Append(Own(t, k), <<t, k + 1>>) = Own(t, k + 1)
           /\ Fins(Own(t, k)) = {}
           /\ Own(t, 0) = <<>>
<1>1. t \in Nat /\ t # 0
  BY BoundsAssumption DEF Turns
<1>2. Own(t, k) \in Seq(Nat \X Nat) /\ Len(Own(t, k)) = k
  <2>1. Own(t, k) \in [1..k -> Nat \X Nat]
    BY <1>1 DEF Own
  <2> QED  BY <2>1
<1>3. Append(Own(t, k), <<t, k + 1>>) = Own(t, k + 1)
  <2> DEFINE a == Append(Own(t, k), <<t, k + 1>>)
  <2>1. DOMAIN a = 1..(k + 1) /\ a = [n \in 1..(k + 1) |-> a[n]]
    BY <1>2
  <2>2. ASSUME NEW n \in 1..(k + 1) PROVE a[n] = <<t, n>>
    <3>1. CASE n = k + 1
      BY <1>2, <3>1
    <3>2. CASE n # k + 1
      <4>1. n \in 1..k
        BY <3>2
      <4>2. a[n] = Own(t, k)[n]
        BY <1>2, <4>1
      <4> QED  BY <4>1, <4>2 DEF Own
    <3> QED  BY <3>1, <3>2
  <2> QED  BY <2>1, <2>2 DEF Own
<1>4. Fins(Own(t, k)) = {}
  BY <1>1 DEF Fins, Own, FIN
<1>5. Own(t, 0) = <<>>
  BY DEF Own
<1> QED  BY <1>2, <1>3, <1>4, <1>5

\* With the end behind it, it is shown as a whole and nothing is left.
LEMMA FinishedText ==
    ASSUME NEW t \in Turns, NEW k \in Nat
    PROVE  LET text == Append(Own(t, k), FIN) IN
           /\ Fins(text) # {}
           /\ TextShown(text) = Own(t, k)
           /\ TextLeft(text) = <<>>
<1> DEFINE text == Append(Own(t, k), FIN)
<1>1. Own(t, k) \in Seq(Nat \X Nat) /\ Len(Own(t, k)) = k /\ Fins(Own(t, k)) = {}
  BY OwnText
<1>2. /\ FIN \in Nat \X Nat /\ text \in Seq(Nat \X Nat) /\ Len(text) = k + 1
      /\ DOMAIN text = 1..(k + 1) /\ text[k + 1] = FIN
      /\ \A n \in 1..k : text[n] = Own(t, k)[n]
  BY <1>1 DEF FIN
<1>3. Fins(text) = {k + 1}
  <2>1. \A n \in 1..k : text[n] # FIN
    <3>1. \A n \in 1..k : Own(t, k)[n] # FIN
      BY <1>1 DEF Fins, Own
    <3> QED  BY <1>2, <3>1
  <2> QED  BY <1>2, <2>1 DEF Fins
<1>4. LastIn({k + 1}) = k + 1
  BY DEF LastIn
<1>5. LastIn({0} \cup ({k + 1} \ {k + 1})) = 0
  BY DEF LastIn
<1>6. SubSeq(text, 1, k) = Own(t, k)
  <2>1. /\ SubSeq(text, 1, k) \in Seq(Nat \X Nat) /\ Len(SubSeq(text, 1, k)) = k
        /\ \A n \in 1..k : SubSeq(text, 1, k)[n] = text[n]
    BY <1>2
  <2> QED  BY <1>1, <1>2, <2>1, SeqEqual
<1>7. SubSeq(text, k + 2, k + 1) = <<>>
  BY <1>2
<1> HIDE DEF text
<1>8. TextShown(text) = SubSeq(text, 0 + 1, (k + 1) - 1)
  BY <1>3, <1>4, <1>5 DEF TextShown
<1>9. TextLeft(text) = SubSeq(text, (k + 1) + 1, k + 1)
  BY <1>2, <1>3, <1>4 DEF TextLeft
<1>10. TextShown(text) = Own(t, k)
  <2>1. 0 + 1 = 1 /\ (k + 1) - 1 = k
    OBVIOUS
  <2> QED  BY <1>6, <1>8, <2>1
<1>11. TextLeft(text) = <<>>
  <2>1. (k + 1) + 1 = k + 2
    OBVIOUS
  <2> QED  BY <1>7, <1>9, <2>1
<1>12. Fins(text) # {}
  BY <1>3
<1> QED  BY <1>10, <1>11, <1>12 DEF text

-----------------------------------------------------------------------------
(* The type invariant.                                                     *)

\* Appending an end marker or a token of the turn keeps the pending tokens' type.
LEMMA PendingGrows ==
    ASSUME pending \in Seq(Tokens \cup {FIN}), NEW x \in Tokens \cup {FIN}
    PROVE  Append(pending, x) \in Seq(Tokens \cup {FIN})
OBVIOUS

\* Nothing at the start.
LEMMA InitTypeOK == Init => TypeOK
<1> SUFFICES ASSUME Init PROVE TypeOK
  OBVIOUS
<1>1. messages \in Seq(Message) /\ streaming \in Seq(Tokens) /\ pending \in Seq(Tokens \cup {FIN})
  BY DEF Init
<1>2. turn \in 0..MaxTurns /\ answering \in 0..turn /\ produced \in 0..MaxTokens /\ ~Running
  BY BoundsAssumption DEF Init, Running
<1> QED  BY <1>1, <1>2 DEF Init, TypeOK

\* A turn's two messages are appended, the input is cleared.
LEMMA SubmitType == TypeOK /\ Submit => TypeOK'
<1> SUFFICES ASSUME TypeOK, Submit PROVE TypeOK'
  OBVIOUS
<1>1. turn' \in 0..MaxTurns /\ turn' > 0
  BY BoundsAssumption DEF TypeOK, Submit
<1>2. messages' \in Seq(Message)
  <2> DEFINE u == [role |-> "user", turn |-> turn + 1, text |-> <<>>]
             a == [role |-> "assistant", turn |-> turn + 1, text |-> <<>>]
  <2>1. <<>> \in Seq(Tokens)
    OBVIOUS
  <2>2. turn + 1 \in 0..MaxTurns
    BY <1>1 DEF Submit
  <2>3. u \in Message /\ a \in Message
    BY <2>1, <2>2 DEF Message
  <2> HIDE DEF u, a
  <2>4. <<u, a>> \in Seq(Message)
    BY <2>3
  <2>5. messages' = messages \o <<u, a>>
    BY DEF Submit, u, a
  <2> QED  BY <2>4, <2>5, ConcatProperties DEF TypeOK
<1>3. streaming' \in Seq(Tokens) /\ pending' \in Seq(Tokens \cup {FIN})
  BY DEF Submit
<1>4. answering' \in 0..turn'
  BY <1>1 DEF Submit, TypeOK, genVars
<1>5. Running' => answering' > 0
  BY DEF TypeOK, Submit, genVars, Running
<1>6. UNCHANGED <<systemPrompt, cloudSays, appLoaded, loader, model, canShift, engine,
                  stopFlag, produced, twice, broken>>
  BY DEF Submit, loadVars, genVars
<1>7. finished' \in BOOLEAN /\ ui' = "starting"
  BY DEF Submit
<1> QED  BY BoundsAssumption, <1>1, <1>2, <1>3, <1>4, <1>5, <1>6, <1>7 DEF TypeOK, Running

\* The buttons and steps of the UI thread that leave the texts alone.
LEMMA ButtonType ==
    TypeOK /\ (StartRefused \/ Start \/ StopButton \/ Configure \/ LoadModel \/ LoaderStarts)
        => TypeOK'
<1> SUFFICES ASSUME TypeOK PROVE (StartRefused \/ Start \/ StopButton \/ Configure
                                   \/ LoadModel \/ LoaderStarts) => TypeOK'
  OBVIOUS
<1>1. CASE StartRefused
  <2>1. broken' \in BOOLEAN
    BY <1>1 DEF StartRefused, MayBreak
  <2>2. /\ ui' = "free"
        /\ UNCHANGED <<chatVars, pending, cloudSays, loadVars, engine, stopFlag, turn, genVars>>
    BY <1>1 DEF StartRefused
  <2> QED  BY <2>1, <2>2 DEF TypeOK, chatVars, loadVars, genVars, Running
<1>2. CASE Start
  <2>1. broken' \in BOOLEAN
    BY <1>2 DEF Start, MayBreak
  <2>2. /\ ui' = "free" /\ engine' = "prompt" /\ stopFlag' \in BOOLEAN /\ answering' = turn
        /\ produced' = 0 /\ UNCHANGED <<chatVars, pending, cloudSays, loadVars, turn, twice>>
    BY <1>2 DEF Start
  <2>3. turn \in 0..MaxTurns /\ 0 \in 0..MaxTokens /\ turn > 0
    BY <1>2, BoundsAssumption DEF TypeOK, Start
  <2> QED  BY BoundsAssumption, <2>1, <2>2, <2>3 DEF TypeOK, chatVars, loadVars, Running
<1>3. CASE StopButton
  BY <1>3 DEF StopButton, TypeOK, chatVars, loadVars, genVars, Running
<1>4. CASE Configure
  BY <1>4 DEF Configure, TypeOK, loadVars, genVars, Running
<1>5. CASE LoadModel
  BY <1>5 DEF LoadModel, TypeOK, chatVars, loadVars, genVars, Running
<1>6. CASE LoaderStarts
  BY <1>6 DEF LoaderStarts, TypeOK, chatVars, genVars, Running
<1> QED  BY <1>1, <1>2, <1>3, <1>4, <1>5, <1>6

\* Clearing leaves the system prompt at most.
LEMMA ClearType == TypeOK /\ (Clear \/ LoadSession \/ Restart) => TypeOK'
<1> SUFFICES ASSUME TypeOK PROVE (Clear \/ LoadSession \/ Restart) => TypeOK'
  OBVIOUS
<1>1. <<>> \in Seq(Message) /\ <<>> \in Seq(Tokens) /\ <<>> \in Seq(Tokens \cup {FIN})
  OBVIOUS
<1>2. CASE Clear
  <2> DEFINE m == [role |-> "system", turn |-> 0, text |-> <<>>]
  <2>1. m \in Message
    BY <1>1, BoundsAssumption DEF Message
  <2> HIDE DEF m
  <2>2. <<m>> \in Seq(Message)
    BY <2>1
  <2>3. messages' \in Seq(Message)
    BY <1>1, <1>2, <2>2 DEF Clear, m
  <2> QED  BY <1>2, <2>3 DEF Clear, ClearMemory, MayBreak, TypeOK, loadVars, genVars, Running
<1>3. CASE LoadSession
  BY <1>1, <1>3 DEF LoadSession, ClearMemory, MayBreak, TypeOK, loadVars, genVars, Running
<1>4. CASE Restart
  <2>1. /\ messages' \in Seq(Message) /\ streaming' \in Seq(Tokens)
        /\ pending' \in Seq(Tokens \cup {FIN})
    BY <1>1, <1>4 DEF Restart
  <2>2. turn' \in 0..MaxTurns /\ answering' \in 0..turn' /\ produced' \in 0..MaxTokens
    BY <1>4, BoundsAssumption DEF Restart, TypeOK
  <2> QED  BY <1>4, <2>1, <2>2 DEF Restart, TypeOK, Running
<1> QED  BY <1>2, <1>3, <1>4

\* A frame takes the pending tokens.
LEMMA ProcessType == TypeOK /\ ProcessTokens => TypeOK'
<1> SUFFICES ASSUME TypeOK, ProcessTokens PROVE TypeOK'
  OBVIOUS
<1> DEFINE text == streaming \o pending
<1>1. text \in Seq(Tokens \cup {FIN})
  <2>1. streaming \in Seq(Tokens \cup {FIN}) /\ pending \in Seq(Tokens \cup {FIN})
    BY DEF TypeOK
  <2> QED  BY <2>1
<1>2. Fins(text) # {} => TextShown(text) \in Seq(Tokens)
  BY <1>1, TextParts
<1>3. TextLeft(text) \in Seq(Tokens)
  BY <1>1, TextParts
<1> HIDE DEF text
<1>4. /\ messages' \in Seq(Message) /\ streaming' \in Seq(Tokens) /\ finished' \in BOOLEAN
      /\ pending' \in Seq(Tokens \cup {FIN})
  <2>0. pending' = <<>> /\ messages \in Seq(Message) /\ finished \in BOOLEAN
    BY DEF ProcessTokens, TypeOK
  <2>1. CASE Fins(text) = {}
    <3>1. streaming' = text /\ UNCHANGED <<messages, finished>>
      BY <2>1 DEF ProcessTokens, text
    <3>2. TextLeft(text) = text
      BY <2>1 DEF TextLeft
    <3> QED  BY <1>3, <2>0, <3>1, <3>2
  <2>2. CASE Fins(text) # {}
    <3>1. /\ messages' = IF messages = <<>> THEN messages
                         ELSE [messages EXCEPT ![Len(messages)].text = TextShown(text)]
          /\ streaming' = TextLeft(text) /\ finished' = TRUE
      BY <2>2 DEF ProcessTokens, text
    <3>2. CASE messages = <<>>
      BY <1>3, <2>0, <3>1, <3>2
    <3>3. CASE messages # <<>>
      <4> DEFINE new == [messages[Len(messages)] EXCEPT !.text = TextShown(text)]
      <4>1. Len(messages) \in 1..Len(messages) /\ messages[Len(messages)] \in Message
        BY <2>0, <3>3
      <4>2. new \in Message
        BY <1>2, <2>2, <4>1 DEF Message
      <4>3. messages' = [messages EXCEPT ![Len(messages)] = new]
        BY <3>1, <3>3
      <4> HIDE DEF new
      <4>4. messages' \in Seq(Message)
        BY <2>0, <4>1, <4>2, <4>3
      <4> QED  BY <1>3, <2>0, <3>1, <4>4
    <3> QED  BY <3>2, <3>3
  <2> QED  BY <2>1, <2>2
<1> QED  BY <1>4 DEF ProcessTokens, TypeOK, loadVars, genVars, Running

\* The loader's steps.
LEMMA LoaderType == TypeOK /\ LoaderNext => TypeOK'
<1> SUFFICES ASSUME TypeOK PROVE LoaderNext => TypeOK'
  OBVIOUS
<1>1. CASE LoaderStops
  BY <1>1 DEF LoaderStops, TypeOK, chatVars, genVars, Running
<1>2. CASE LoaderJoins
  BY <1>2 DEF LoaderJoins, TypeOK, chatVars, genVars, Running
<1>3. CASE LoaderFrees
  <2>1. broken' \in BOOLEAN
    BY <1>3 DEF LoaderFrees, TypeOK, Running
  <2> QED  BY <1>3, <2>1 DEF LoaderFrees, TypeOK, chatVars, genVars, Running
<1>4. CASE LoaderLoads
  BY <1>4 DEF LoaderLoads, TypeOK, chatVars, genVars, Running
<1>5. CASE LoaderFails
  BY <1>5 DEF LoaderFails, TypeOK, chatVars, genVars, Running
<1>6. CASE LoaderReady
  BY <1>6 DEF LoaderReady, TypeOK, chatVars, genVars, Running
<1> QED  BY <1>1, <1>2, <1>3, <1>4, <1>5, <1>6 DEF LoaderNext

\* The engine's steps.
LEMMA EngineType == TypeOK /\ EngineNext => TypeOK'
<1> SUFFICES ASSUME TypeOK PROVE EngineNext => TypeOK'
  OBVIOUS
<1>1. pending \in Seq(Tokens \cup {FIN})
  BY DEF TypeOK
<1>2. Append(pending, FIN) \in Seq(Tokens \cup {FIN})
  BY <1>1, PendingGrows
<1>3. CASE PromptFails
  BY <1>3 DEF PromptFails, TypeOK, chatVars, loadVars, genVars, Running
<1>4. CASE ReportFailure
  BY <1>2, <1>4 DEF ReportFailure, TypeOK, chatVars, loadVars, genVars, Running
<1>5. CASE PromptAborts
  BY <1>5 DEF PromptAborts, TypeOK, chatVars, loadVars, genVars, Running
<1>6. CASE PromptDecoded
  BY <1>6 DEF PromptDecoded, TypeOK, chatVars, loadVars, genVars, Running
<1>7. CASE Token
  <2>1. answering \in Turns /\ produced + 1 \in 1..MaxTokens
    BY <1>7, BoundsAssumption DEF Token, TypeOK, Running, Turns
  <2>2. <<answering, produced + 1>> \in Tokens \cup {FIN}
    BY <2>1 DEF Tokens
  <2>3. pending' \in Seq(Tokens \cup {FIN})
    BY <1>1, <1>7, <2>2, PendingGrows DEF Token
  <2>4. produced' \in 0..MaxTokens
    BY <1>7, <2>1, BoundsAssumption DEF Token
  <2> QED  BY <1>7, <2>3, <2>4 DEF Token, TypeOK, chatVars, loadVars, Running
<1>8. CASE ContextLimit
  BY <1>2, <1>8 DEF ContextLimit, TypeOK, chatVars, loadVars, Running
<1>9. CASE ReportEnd
  BY <1>2, <1>9 DEF ReportEnd, TypeOK, chatVars, loadVars, genVars, Running
<1>10. CASE Ends
  BY <1>10 DEF Ends, TypeOK, chatVars, loadVars, genVars, Running
<1> QED
  BY <1>3, <1>4, <1>5, <1>6, <1>7, <1>8, <1>9, <1>10 DEF EngineNext

\* Types are kept by every step.
LEMMA TypeStep == TypeOK /\ [Next]_vars => TypeOK'
<1>1. TypeOK /\ UNCHANGED vars => TypeOK'
  BY DEF vars, TypeOK, chatVars, loadVars, genVars, Running
<1> QED
  BY <1>1, SubmitType, ButtonType, ClearType, ProcessType, LoaderType, EngineType
     DEF Next, UINext

-----------------------------------------------------------------------------
(* The inductive invariant.                                                *)

Active == engine \in {"prompt", "generating", "failing"}

\* Where the text of the turn in progress is.  While run_loop works, streaming
\* and pending together hold what it has made; after its end they hold that and
\* the end marker, or nothing, when a frame has taken it or the turn was refused.
Flow ==
    /\ engine # "limited"
    /\ ui = "starting" => ~finished
    /\ Active => /\ turn \in Turns /\ ~finished /\ answering = turn /\ ui # "starting"
                 /\ streaming \o pending = Own(turn, produced)
    /\ ~Active => \/ streaming = <<>> /\ pending = <<>>
                  \/ /\ turn \in Turns /\ ~finished /\ answering = turn /\ ui # "starting"
                     /\ streaming \o pending = Append(Own(turn, produced), FIN)

\* The message list: own tokens only, a question before every answer, the answer
\* at the end is the one of the turn in progress.
List ==
    /\ \A i \in DOMAIN messages : messages[i].role = "assistant" =>
          \A n \in DOMAIN messages[i].text : messages[i].text[n] = <<messages[i].turn, n>>
    /\ messages # <<>> => messages[1].role # "assistant"
    /\ messages # <<>> /\ Last(messages).role = "assistant" => Last(messages).turn = turn
    /\ finished /\ messages # <<>> =>
          (Last(messages).role = "assistant" /\ Last(messages).turn = answering
              => Len(Last(messages).text) = produced)

IInv == TypeOK /\ (~twice => Flow /\ List)

\* Steps that do not touch the texts and keep run_loop at work or not at work.
LEMMA FlowKept ==
    ASSUME Flow, UNCHANGED <<streaming, pending, finished, turn, answering, produced>>,
           Active' <=> Active, engine' # "limited", ui' = "starting" => ui = "starting"
    PROVE  Flow'
<1>1. CASE Active
  <2>1. /\ turn' \in Turns /\ ~finished' /\ answering' = turn' /\ ui' # "starting"
        /\ streaming' \o pending' = Own(turn', produced')
    BY <1>1 DEF Flow
  <2> QED  BY <1>1, <2>1 DEF Flow
<1>2. CASE ~Active
  <2>1. CASE streaming = <<>> /\ pending = <<>>
    BY <1>2, <2>1 DEF Flow
  <2>2. CASE /\ turn \in Turns /\ ~finished /\ answering = turn /\ ui # "starting"
             /\ streaming \o pending = Append(Own(turn, produced), FIN)
    <3>1. /\ turn' \in Turns /\ ~finished' /\ answering' = turn' /\ ui' # "starting"
          /\ streaming' \o pending' = Append(Own(turn', produced'), FIN)
      BY <2>2
    <3> QED  BY <1>2, <3>1 DEF Flow
  <2> QED  BY <1>2, <2>1, <2>2 DEF Flow
<1> QED  BY <1>1, <1>2

\* Steps that leave the message list and the turn alone.
LEMMA ListKept ==
    ASSUME List, UNCHANGED <<messages, finished, turn, answering, produced>>
    PROVE  List'
BY DEF List, Last

\* A list that holds no answer.
LEMMA ListOfNone ==
    ASSUME \A i \in DOMAIN messages' : messages'[i].role # "assistant",
           messages' \in Seq(Message)
    PROVE  List'
<1>1. messages' # <<>> => 1 \in DOMAIN messages' /\ Len(messages') \in DOMAIN messages'
  OBVIOUS
<1> QED  BY <1>1 DEF List, Last

\* Submitting begins a turn with nothing in the streams.
LEMMA SubmitStep ==
    ASSUME TypeOK, Flow, List, Submit
    PROVE  Flow' /\ List'
<1>1. finished /\ finished' = FALSE /\ streaming' = <<>> /\ pending' = <<>> /\ engine' = engine
  BY DEF Submit
<1>2. Flow'
  <2>1. ~Active /\ ~Active'
    BY <1>1 DEF Flow, Active
  <2> QED  BY <1>1, <2>1 DEF Flow
<1>3. List'
  <2> DEFINE u == [role |-> "user", turn |-> turn + 1, text |-> <<>>]
             a == [role |-> "assistant", turn |-> turn + 1, text |-> <<>>]
             n == Len(messages)
  <2>1. /\ u.role = "user" /\ a.role = "assistant" /\ a.turn = turn' /\ a.text = <<>>
        /\ messages' = messages \o <<u, a>>
    BY DEF Submit
  <2>2. messages \in Seq(Message) /\ n \in Nat
    BY DEF TypeOK
  <2> HIDE DEF u, a
  <2>3. /\ DOMAIN messages' = 1..(n + 2) /\ Len(messages') = n + 2
        /\ \A i \in 1..n : messages'[i] = messages[i]
        /\ messages'[n + 1] = u /\ messages'[n + 2] = a
        /\ DOMAIN messages = 1..n
    BY <2>1, <2>2
  <2>4. ASSUME NEW i \in DOMAIN messages', messages'[i].role = "assistant"
        PROVE  \A k \in DOMAIN messages'[i].text :
                  messages'[i].text[k] = <<messages'[i].turn, k>>
    <3>1. CASE i \in 1..n
      BY <2>3, <2>4, <3>1 DEF List
    <3>2. CASE i = n + 1
      BY <2>1, <2>3, <2>4, <3>2
    <3>3. CASE i = n + 2
      BY <2>1, <2>3, <3>3
    <3> QED  BY <2>2, <2>3, <3>1, <3>2, <3>3
  <2>5. messages'[1].role # "assistant"
    <3>1. CASE n = 0
      BY <2>1, <2>3, <3>1
    <3>2. CASE n # 0
      <4>1. 1 \in 1..n /\ messages # <<>>
        BY <2>2, <2>3, <3>2
      <4> QED  BY <2>3, <4>1 DEF List
    <3> QED  BY <3>1, <3>2
  <2>6. Last(messages') = a
    BY <2>3 DEF Last
  <2>7. Last(messages)' = Last(messages')
    BY DEF Last
  <2> QED  BY <1>1, <2>1, <2>4, <2>5, <2>6, <2>7 DEF List
<1> QED  BY <1>2, <1>3

\* generate takes the turn, or it is refused and the streams stay empty.
LEMMA StartStep ==
    ASSUME TypeOK, Flow, List, Start \/ StartRefused
    PROVE  Flow' /\ List'
<1>1. ui = "starting" /\ ~Active /\ streaming = <<>> /\ pending = <<>> /\ ~finished /\ turn \in Turns
  BY BoundsAssumption DEF Start, StartRefused, Flow, TypeOK, Turns
<1>2. CASE Start
  <2>1. /\ engine' = "prompt" /\ ui' = "free" /\ answering' = turn /\ produced' = 0
        /\ UNCHANGED <<messages, finished, streaming, pending, turn>>
    BY <1>2 DEF Start, chatVars
  <2>2. <<>> \o <<>> = <<>> /\ Own(turn, 0) = <<>>
    BY <1>1, OwnText
  <2>3. Flow'
    BY <1>1, <2>1, <2>2 DEF Flow, Active
  <2>4. List'
    BY <1>1, <2>1 DEF List, Last
  <2> QED  BY <2>3, <2>4
<1>3. CASE StartRefused
  <2>1. /\ ui' = "free"
        /\ UNCHANGED <<messages, finished, streaming, pending, turn, engine, answering, produced>>
    BY <1>3 DEF StartRefused, chatVars, genVars
  <2>2. Flow'
    BY <1>1, <2>1 DEF Flow, Active
  <2> QED  BY <2>1, <2>2, ListKept
<1> QED  BY <1>2, <1>3

\* A frame takes the pending text, and finishes the message at its end.
LEMMA ProcessStep ==
    ASSUME TypeOK, Flow, List, ProcessTokens
    PROVE  Flow' /\ List'
<1> DEFINE text == streaming \o pending
           own == Own(turn, produced)
<1>1. /\ pending # <<>> /\ pending' = <<>> /\ ui = "free"
      /\ UNCHANGED <<ui, engine, turn, answering, produced>>
  BY DEF ProcessTokens, genVars
<1>2. turn \in Turns /\ produced \in Nat /\ ~finished /\ answering = turn
  BY <1>1, BoundsAssumption DEF Flow, TypeOK
<1>3. CASE Active
  <2>1. text = own /\ Fins(text) = {}
    BY <1>2, <1>3, OwnText DEF Flow
  <2> HIDE DEF text, own
  <2>2. streaming' = text /\ UNCHANGED <<messages, finished>>
    BY <2>1 DEF ProcessTokens, text
  <2>3. streaming' \o pending' = own
    <3>1. own \in Seq(Nat \X Nat)
      BY <1>2, OwnText DEF own
    <3> QED  BY <1>1, <2>1, <2>2, <3>1
  <2>4. Flow'
    <3>1. Active' /\ engine' # "limited" /\ own' = Own(turn', produced')
      BY <1>1, <1>3 DEF Active, Flow, own
    <3>2. Own(turn', produced') = own
      BY <1>1 DEF own
    <3> QED  BY <1>1, <1>2, <2>2, <2>3, <3>1, <3>2 DEF Flow
  <2> QED  BY <1>1, <2>2, <2>4, ListKept
<1>4. CASE ~Active
  <2>1. text = Append(own, FIN)
    BY <1>1, <1>4 DEF Flow
  <2>2. Fins(text) # {} /\ TextShown(text) = own /\ TextLeft(text) = <<>>
    BY <1>2, <2>1, FinishedText
  <2>3. own \in Seq(Nat \X Nat) /\ Len(own) = produced
    BY <1>2, OwnText
  <2>4. \A k \in DOMAIN own : own[k] = <<turn, k>>
    BY DEF Own
  <2> HIDE DEF text, own
  <2>5. /\ messages' = IF messages = <<>> THEN messages
                       ELSE [messages EXCEPT ![Len(messages)].text = own]
        /\ streaming' = <<>> /\ finished' = TRUE
    BY <2>2 DEF ProcessTokens, text
  <2>6. Flow'
    BY <1>1, <1>4, <2>5 DEF Flow, Active
  <2>7. List'
    <3>1. CASE messages = <<>>
      BY <2>5, <3>1 DEF List
    <3>2. CASE messages # <<>>
      <4> DEFINE n == Len(messages)
                 new == [messages[n] EXCEPT !.text = own]
      <4>1. messages \in Seq(Message) /\ n \in 1..n /\ DOMAIN messages = 1..n
        BY <3>2 DEF TypeOK
      <4>2. messages[n] \in Message
        BY <4>1
      <4>3. new.role = messages[n].role /\ new.turn = messages[n].turn /\ new.text = own
        BY <4>2 DEF Message
      <4>4. messages' = [messages EXCEPT ![n] = new]
        BY <2>5, <3>2
      <4> HIDE DEF new
      <4>5. /\ DOMAIN messages' = 1..n /\ Len(messages') = n /\ messages'[n] = new
            /\ \A i \in 1..n : i # n => messages'[i] = messages[i]
        <5>1. messages' = [i \in 1..n |-> IF i = n THEN new ELSE messages[i]]
          BY <4>1, <4>4, Zenon
        <5>2. n \in Nat
          BY <4>1
        <5> HIDE DEF n
        <5>3. Len(messages') = n
          BY <5>1, <5>2
        <5> QED  BY <4>1, <5>1, <5>3
      <4>6. messages[n].role = "assistant" => messages[n].turn = turn
        BY <3>2 DEF List, Last
      <4>7. ASSUME NEW i \in DOMAIN messages', messages'[i].role = "assistant"
            PROVE  \A k \in DOMAIN messages'[i].text :
                      messages'[i].text[k] = <<messages'[i].turn, k>>
        <5>1. CASE i = n
          BY <2>4, <4>3, <4>5, <4>6, <4>7, <5>1
        <5>2. CASE i # n
          <6>1. i \in DOMAIN messages /\ messages'[i] = messages[i]
            BY <4>1, <4>5, <5>2
          <6> QED  BY <4>7, <6>1 DEF List
        <5> QED  BY <5>1, <5>2
      <4>8. messages'[1].role # "assistant"
        <5>1. messages[1].role # "assistant" /\ 1 \in 1..n
          BY <3>2, <4>1 DEF List
        <5> QED  BY <4>3, <4>5, <5>1
      <4>9. Last(messages)' = new
        BY <4>5 DEF Last
      <4> QED
        BY <1>1, <2>3, <4>3, <4>6, <4>7, <4>8, <4>9 DEF List
    <3> QED  BY <3>1, <3>2
  <2> QED  BY <2>6, <2>7
<1> QED  BY <1>3, <1>4

\* The buttons, and the steps of the loader, only move threads.
LEMMA QuietStep ==
    ASSUME TypeOK, Flow, List,
           \/ StopButton \/ Configure \/ LoadModel \/ LoaderStarts \/ LoaderNext
           \/ PromptAborts \/ PromptDecoded \/ PromptFails \/ Ends \/ UNCHANGED vars
    PROVE  Flow' /\ List'
<1>1. UNCHANGED <<messages, streaming, pending, finished, turn, answering, produced>>
  BY DEF StopButton, Configure, LoadModel, LoaderStarts, LoaderNext, LoaderStops, LoaderJoins,
         LoaderFrees, LoaderLoads, LoaderFails, LoaderReady, PromptAborts, PromptDecoded,
         PromptFails, Ends, vars, chatVars, genVars
<1>2. (Active' <=> Active) /\ engine' # "limited"
  BY DEF StopButton, Configure, LoadModel, LoaderStarts, LoaderNext, LoaderStops, LoaderJoins,
         LoaderFrees, LoaderLoads, LoaderFails, LoaderReady, PromptAborts, PromptDecoded,
         PromptFails, Ends, vars, Active, Flow
<1>3. ui' = "starting" => ui = "starting"
  BY DEF StopButton, Configure, LoadModel, LoaderStarts, LoaderNext, LoaderStops, LoaderJoins,
         LoaderFrees, LoaderLoads, LoaderFails, LoaderReady, PromptAborts, PromptDecoded,
         PromptFails, Ends, vars
<1> QED  BY <1>1, <1>2, <1>3, FlowKept, ListKept

\* Clearing the conversation leaves the streams to the generation in progress.
LEMMA ClearStep ==
    ASSUME TypeOK, TypeOK', Flow, List, Clear \/ LoadSession
    PROVE  Flow' /\ List'
<1>1. UNCHANGED <<streaming, pending, finished, ui, engine, turn, answering, produced>>
  BY DEF Clear, LoadSession, genVars
<1>2. Flow'
  BY <1>1, FlowKept DEF Active, Flow
<1>3. \A i \in DOMAIN messages' : messages'[i].role # "assistant"
  <2>1. CASE messages' = <<>>
    BY <2>1
  <2>2. CASE messages' = << [role |-> "system", turn |-> 0, text |-> <<>>] >>
    BY <2>2
  <2> QED  BY <2>1, <2>2 DEF Clear, LoadSession
<1>4. messages' \in Seq(Message)
  BY DEF TypeOK
<1> QED  BY <1>2, <1>3, <1>4, ListOfNone

\* A new process.
LEMMA RestartStep ==
    ASSUME Restart
    PROVE  Flow' /\ List'
BY DEF Restart, Flow, List, Active

\* The generation reports a token or its end.
LEMMA ReportStep ==
    ASSUME TypeOK, Flow, List, Token \/ ReportFailure \/ ReportEnd
    PROVE  Flow' /\ List'
<1> DEFINE own == Own(turn, produced)
<1>1. Active /\ UNCHANGED <<messages, streaming, finished, ui, turn, answering>>
  BY DEF Token, ReportFailure, ReportEnd, Flow, Active, chatVars, genVars
<1>2. /\ turn \in Turns /\ produced \in Nat /\ ~finished /\ answering = turn /\ ui # "starting"
      /\ streaming \o pending = own
  BY <1>1, BoundsAssumption DEF Flow, TypeOK
<1>3. streaming \in Seq(Tokens \cup {FIN}) /\ pending \in Seq(Tokens \cup {FIN})
  BY DEF TypeOK
<1>4. ASSUME NEW x \in Tokens \cup {FIN}
      PROVE  streaming \o Append(pending, x) = Append(streaming \o pending, x)
  BY <1>3
<1> HIDE DEF own
<1>5. CASE Token
  <2>1. /\ pending' = Append(pending, <<answering, produced + 1>>) /\ produced' = produced + 1
        /\ engine' = engine
    BY <1>5 DEF Token
  <2>2. <<answering, produced + 1>> \in Tokens
    BY <1>2, <1>5, BoundsAssumption DEF Token, Tokens, TypeOK
  <2>3. streaming' \o pending' = Append(own, <<turn, produced + 1>>)
    BY <1>1, <1>2, <1>4, <2>1, <2>2
  <2>4. Append(own, <<turn, produced + 1>>) = Own(turn, produced + 1)
    BY <1>2, OwnText DEF own
  <2>5. Flow'
    <3>1. Own(turn', produced') = Own(turn, produced + 1)
      BY <1>1, <2>1
    <3> QED  BY <1>1, <1>2, <2>1, <2>3, <2>4, <3>1 DEF Flow, Active
  <2>6. List'
    BY <1>1, <1>2 DEF List, Last
  <2> QED  BY <2>5, <2>6
<1>6. CASE ReportFailure \/ ReportEnd
  <2>1. pending' = Append(pending, FIN) /\ produced' = produced /\ engine' \in {"over", "ending"}
    BY <1>6 DEF ReportFailure, ReportEnd, genVars
  <2>2. streaming' \o pending' = Append(own, FIN)
    BY <1>1, <1>2, <1>4, <2>1
  <2>3. Flow'
    <3>1. Own(turn', produced') = own /\ ~Active'
      BY <1>1, <2>1 DEF own, Active
    <3> QED  BY <1>1, <1>2, <2>1, <2>2, <3>1 DEF Flow
  <2> QED  BY <1>1, <2>1, <2>3, ListKept
<1> QED  BY <1>5, <1>6

\* The inductive invariant is kept by every step.
LEMMA IInvStep ==
    ASSUME IInv, [Next]_vars
    PROVE  IInv'
<1>1. TypeOK /\ TypeOK'
  BY TypeStep DEF IInv
<1>2. ASSUME ~twice' PROVE Flow' /\ List'
  <2>1. CASE Restart
    BY <2>1, RestartStep
  <2>2. CASE ~Restart
    <3>1. ~ContextLimit
      BY <1>2 DEF ContextLimit
    <3>2. ~twice
      BY <1>2, <2>2, <3>1
         DEF Next, UINext, LoaderNext, EngineNext, Submit, StartRefused, Start, StopButton, Clear,
             LoadSession, Configure, LoadModel, LoaderStarts, ProcessTokens, LoaderStops,
             LoaderJoins, LoaderFrees, LoaderLoads, LoaderFails, LoaderReady, PromptFails,
             ReportFailure, PromptAborts, PromptDecoded, Token, ReportEnd, Ends, vars, genVars
    <3>3. Flow /\ List
      BY <3>2 DEF IInv
    <3>4. CASE Submit
      BY <1>1, <3>3, <3>4, SubmitStep
    <3>5. CASE Start \/ StartRefused
      BY <1>1, <3>3, <3>5, StartStep
    <3>6. CASE Clear \/ LoadSession
      BY <1>1, <3>3, <3>6, ClearStep
    <3>7. CASE ProcessTokens
      BY <1>1, <3>3, <3>7, ProcessStep
    <3>8. CASE Token \/ ReportFailure \/ ReportEnd
      BY <1>1, <3>3, <3>8, ReportStep
    <3>9. CASE \/ StopButton \/ Configure \/ LoadModel \/ LoaderStarts \/ LoaderNext
               \/ PromptAborts \/ PromptDecoded \/ PromptFails \/ Ends \/ UNCHANGED vars
      BY <1>1, <3>3, <3>9, QuietStep
    <3> QED
      BY <2>2, <3>1, <3>4, <3>5, <3>6, <3>7, <3>8, <3>9 DEF Next, UINext, EngineNext
  <2> QED  BY <2>1, <2>2
<1> QED  BY <1>1, <1>2 DEF IInv

\* Nothing is submitted at the start.
LEMMA InitIInv == Init => IInv
BY InitTypeOK DEF Init, IInv, Flow, List, Active

-----------------------------------------------------------------------------
\* The inductive invariant holds in every behaviour.
THEOREM Invariance == Spec => []IInv
<1>1. IInv /\ [Next]_vars => IInv'
  BY IInvStep
<1> QED  BY InitIInv, <1>1, PTL DEF Spec

\* Type correctness of the conversation, the loader and the engine.
THEOREM TypeCorrect == Spec => []TypeOK
<1>1. IInv => TypeOK
  BY DEF IInv
<1> QED  BY Invariance, <1>1, PTL

\* No answer holds another turn's tokens or misses one in the middle.
THEOREM OwnAnswerAlways == Spec => []OwnAnswer
<1>1. IInv => OwnAnswer
  BY DEF IInv, List, OwnAnswer
<1> QED  BY Invariance, <1>1, PTL

\* The answer of a finished turn is complete.
THEOREM FinishedAnswerAlways == Spec => []FinishedAnswerComplete
<1>1. IInv => FinishedAnswerComplete
  BY DEF IInv, List, FinishedAnswerComplete
<1> QED  BY Invariance, <1>1, PTL

\* No step changes an answer that is finished, unless it clears the list.
THEOREM AnswersStandAlways == Spec => AnswersStand
<1> DEFINE Stands ==
        finished /\ ~twice /\ Len(messages') >= Len(messages)
            => \A i \in DOMAIN messages :
                  messages[i].role = "assistant" => messages'[i] = messages[i]
<1>1. ASSUME IInv, [Next]_vars PROVE [Stands]_vars
  <2> SUFFICES ASSUME finished, ~twice, Len(messages') >= Len(messages),
                      NEW i \in DOMAIN messages, messages[i].role = "assistant"
               PROVE  messages'[i] = messages[i]
    BY Zenon
  <2>1. /\ messages \in Seq(Message) /\ messages[1].role # "assistant"
        /\ streaming = <<>> /\ pending = <<>>
    <3>1. TypeOK /\ Flow /\ List
      BY <1>1 DEF IInv
    <3>2. messages \in Seq(Message)
      BY <3>1 DEF TypeOK
    <3>3. messages # <<>>
      BY <3>2
    <3> QED  BY <3>1, <3>2, <3>3 DEF Flow, List
  <2>2. Len(messages) > 1
    BY <2>1
  <2>3. ~ProcessTokens /\ ~Clear /\ ~LoadSession /\ ~Restart
    <3> DEFINE m == [role |-> "system", turn |-> 0, text |-> <<>>]
    <3>1. Len(<<m>>) = 1 /\ Len(<<>>) = 0
      OBVIOUS
    <3> HIDE DEF m
    <3>2. messages' # <<m>> /\ messages' # <<>>
      BY <2>1, <2>2, <3>1
    <3>3. Clear \/ LoadSession \/ Restart => messages' = <<m>> \/ messages' = <<>>
      BY DEF Clear, LoadSession, Restart, m
    <3> QED  BY <2>1, <3>2, <3>3 DEF ProcessTokens
  <2>4. CASE Submit
    <3> DEFINE s == << [role |-> "user", turn |-> turn + 1, text |-> <<>>],
                       [role |-> "assistant", turn |-> turn + 1, text |-> <<>>] >>
    <3>1. messages' = messages \o s
      BY <2>4 DEF Submit
    <3>2. Len(s) = 2 /\ s = [n \in 1..2 |-> s[n]]
      OBVIOUS
    <3> HIDE DEF s
    <3> QED  BY <2>1, <3>1, <3>2
  <2>5. CASE ~Submit
    <3>1. messages' = messages
      BY <1>1, <2>3, <2>5
         DEF Next, UINext, LoaderNext, EngineNext, StartRefused, Start, StopButton,
             Configure, LoadModel, LoaderStarts, LoaderStops, LoaderJoins, LoaderFrees,
             LoaderLoads, LoaderFails, LoaderReady, PromptFails, ReportFailure, PromptAborts,
             PromptDecoded, Token, ContextLimit, ReportEnd, Ends, vars, chatVars
    <3> QED  BY <3>1
  <2> QED  BY <2>4, <2>5
<1> QED  BY Invariance, <1>1, PTL DEF Spec, AnswersStand

-----------------------------------------------------------------------------
(* Turns that end, and turns that do not.                                  *)

\* The turn waits for an end, and no generation is left that could report one.
RefusedTurn ==
    /\ ~finished /\ ui # "starting"
    /\ engine \in {"none", "ending", "over"} /\ pending = <<>>

\* A step changes what a refused turn is about only where it is named here.
LEMMA RefusedStep ==
    ASSUME RefusedTurn, ~broken, [Next]_vars
    PROVE  RefusedTurn'
<1>1. ~Submit /\ ~StartRefused /\ ~Start /\ ~ProcessTokens /\ ~Restart
  BY DEF RefusedTurn, Submit, StartRefused, Start, ProcessTokens, Restart
<1>2. CASE StopButton \/ Configure \/ Clear \/ LoadSession \/ LoadModel \/ LoaderStarts
  <2>1. UNCHANGED <<finished, engine, pending>>
    BY <1>2 DEF StopButton, Configure, Clear, LoadSession, LoadModel, LoaderStarts, chatVars
  <2>2. ui' # "starting"
    BY <1>2 DEF StopButton, Configure, Clear, LoadSession, LoadModel, LoaderStarts, RefusedTurn
  <2> QED  BY <2>1, <2>2 DEF RefusedTurn
<1>3. CASE LoaderNext
  BY <1>3 DEF RefusedTurn, LoaderNext, LoaderStops, LoaderJoins, LoaderFrees, LoaderLoads,
              LoaderFails, LoaderReady, chatVars
<1>4. CASE EngineNext
  BY <1>4 DEF RefusedTurn, EngineNext, PromptFails, ReportFailure, PromptAborts, PromptDecoded,
              Token, ContextLimit, ReportEnd, Ends, chatVars
<1>5. CASE UNCHANGED vars
  BY <1>5 DEF RefusedTurn, vars, chatVars
<1> QED  BY <1>1, <1>2, <1>3, <1>4, <1>5 DEF Next, UINext

\* generate refuses a turn, and submit_message does not look at the result (app.cpp:817,
\* 844): whatever the user and the threads do, such a turn does not end before the
\* application is started again.  The run chat_stop shows one.
THEOREM RefusedTurnStays ==
    Spec => /\ [][StartRefused /\ ~twice => RefusedTurn']_vars
            /\ [](RefusedTurn /\ []~broken => []RefusedTurn)
<1>1. ASSUME IInv, StartRefused, ~twice PROVE RefusedTurn'
  <2>1. Flow /\ TypeOK /\ ui = "starting"
    BY <1>1 DEF IInv, StartRefused
  <2>2. ~finished /\ ~Active /\ engine # "limited" /\ pending = <<>>
    BY <2>1 DEF Flow
  <2>3. engine \in {"none", "ending", "over"}
    BY <2>1, <2>2 DEF Active, TypeOK
  <2> QED  BY <1>1, <2>2, <2>3 DEF RefusedTurn, StartRefused, chatVars
<1>2. IInv => [StartRefused /\ ~twice => RefusedTurn']_vars
  BY <1>1, Zenon
<1>3. Spec => [][StartRefused /\ ~twice => RefusedTurn']_vars
  BY Invariance, <1>2, PTL DEF Spec
<1>4. RefusedTurn /\ ~broken /\ [Next]_vars => RefusedTurn'
  BY RefusedStep
<1>5. Spec => [](RefusedTurn /\ []~broken => []RefusedTurn)
  BY <1>4, PTL DEF Spec
<1> QED  BY <1>3, <1>5, PTL

\* The turn that run_loop has taken is still the last one, and the input waits for its end.
Awaited == ~twice /\ ~finished /\ turn > 0 /\ answering = turn

\* Whoever waits for a turn the engine has taken waits for a generation at work or for an
\* end marker that the next frame sees: no button and no load leaves it waiting
\* for nothing (engine.cpp:287-403, app.cpp:886-898).  AcceptedTurnEnds adds only that the
\* threads run.
EndNotLost == Awaited => Active \/ (pending # <<>> /\ Last(pending) = FIN)

\* Its inductive form; with Flow, what is pending after the end ends with the marker.
Expected == Awaited => Active \/ pending # <<>>

\* Whoever waits for a turn goes on being expected to hear of it, step by step.
LEMMA ExpectedStep ==
    ASSUME IInv, Expected, [Next]_vars
    PROVE  Expected'
<1> SUFFICES ASSUME Awaited', ~Active' PROVE pending' # <<>>
  BY DEF Expected
<1>1. TypeOK /\ ~twice'
  BY DEF IInv, Awaited
<1>2. ~Restart /\ ~ContextLimit /\ ~Start
  BY DEF Awaited, Active, Restart, ContextLimit, Start
<1>3. ~Submit
  BY <1>1 DEF Awaited, Submit, TypeOK, genVars
<1>4. ~twice
  BY <1>1, <1>2, <1>3
     DEF Next, UINext, LoaderNext, EngineNext, StartRefused, StopButton, Clear,
         LoadSession, Configure, LoadModel, LoaderStarts, ProcessTokens, LoaderStops,
         LoaderJoins, LoaderFrees, LoaderLoads, LoaderFails, LoaderReady, PromptFails,
         ReportFailure, PromptAborts, PromptDecoded, Token, ReportEnd, Ends, vars, genVars
<1>5. Flow
  BY <1>4 DEF IInv
<1>6. CASE ProcessTokens
  <2>1. ~Active /\ pending # <<>>
    BY <1>6 DEF Active, ProcessTokens
  <2>2. turn \in Turns /\ produced \in Nat /\ streaming \o pending = Append(Own(turn, produced), FIN)
    BY <1>1, <1>5, <2>1, BoundsAssumption DEF Flow, TypeOK
  <2>3. Fins(streaming \o pending) # {}
    BY <2>2, FinishedText
  <2>4. finished' = TRUE
    BY <1>6, <2>3 DEF ProcessTokens
  <2> QED  BY <2>4 DEF Awaited
<1>7. CASE ReportFailure \/ ReportEnd \/ Token
  BY <1>1, <1>7 DEF ReportFailure, ReportEnd, Token, TypeOK
<1>8. CASE \/ StartRefused \/ StopButton \/ Clear \/ LoadSession \/ Configure \/ LoadModel
           \/ LoaderStarts \/ LoaderNext \/ PromptFails \/ PromptAborts \/ PromptDecoded
           \/ Ends \/ UNCHANGED vars
  <2>1. UNCHANGED <<pending, finished, turn, answering>>
    BY <1>8
       DEF StartRefused, StopButton, Clear, LoadSession, Configure, LoadModel, LoaderStarts,
           LoaderNext, LoaderStops, LoaderJoins, LoaderFrees, LoaderLoads, LoaderFails,
           LoaderReady, PromptFails, PromptAborts, PromptDecoded, Ends, vars, chatVars, genVars
  <2>2. Active => Active'
    BY <1>8
       DEF StartRefused, StopButton, Clear, LoadSession, Configure, LoadModel, LoaderStarts,
           LoaderNext, LoaderStops, LoaderJoins, LoaderFrees, LoaderLoads, LoaderFails,
           LoaderReady, PromptFails, PromptAborts, PromptDecoded, Ends, vars, Active
  <2>3. Awaited
    BY <1>4, <2>1 DEF Awaited
  <2> QED  BY <2>1, <2>2, <2>3 DEF Expected
<1> QED
  BY <1>2, <1>3, <1>6, <1>7, <1>8 DEF Next, UINext, EngineNext

\* An accepted turn always has an end coming.
THEOREM EndNotLostAlways == Spec => []EndNotLost
<1>1. Init => Expected
  BY DEF Init, Expected, Awaited
<1>2. IInv /\ Expected /\ [Next]_vars => Expected'
  BY ExpectedStep
<1>3. ASSUME IInv, Expected PROVE EndNotLost
  <2> SUFFICES ASSUME Awaited, ~Active PROVE pending # <<>> /\ Last(pending) = FIN
    BY DEF EndNotLost
  <2>1. TypeOK /\ Flow /\ pending # <<>>
    BY <1>3 DEF IInv, Awaited, Expected
  <2> DEFINE own == Own(turn, produced)
             text == streaming \o pending
  <2>2. turn \in Turns /\ produced \in Nat /\ text = Append(own, FIN)
    BY <2>1, BoundsAssumption DEF Flow, TypeOK
  <2>3. own \in Seq(Nat \X Nat) /\ FIN \in Nat \X Nat
    BY <2>2, OwnText DEF FIN
  <2>4. text[Len(text)] = FIN
    <3> HIDE DEF own, text
    <3> QED  BY <2>2, <2>3
  <2>5. text[Len(text)] = pending[Len(pending)]
    <3>1. streaming \in Seq(Tokens \cup {FIN}) /\ pending \in Seq(Tokens \cup {FIN})
      BY <2>1 DEF TypeOK
    <3> QED  BY <2>1, <3>1
  <2> QED  BY <2>1, <2>4, <2>5 DEF Last
<1> QED  BY Invariance, <1>1, <1>2, <1>3, PTL DEF Spec
=============================================================================
