-------------------------- MODULE SseClient_proofs --------------------------
(***************************************************************************)
(* Proofs about SseClient for any bounds and any forms of token events:    *)
(* TypeOK, TokensInOrder, AnswerComplete and EndReported are invariants,   *)
(* the client implements CloudRequest, a request takes a bounded number of *)
(* steps, and no stream with an event of the form "null" is answered well. *)
(***************************************************************************)
EXTENDS SseClient, TLAPS

\* The events whose front the parser is past.
Passed == (parsed + 1) \div 2

\* The cloud's side: nothing before the stream begins, ends only at its end.
StreamInv ==
    /\ server \in {"idle", "asked", "refused"} => events = <<>>
    /\ server = "streaming" => /\ Len(events) <= MaxTokens
                               /\ \A k \in DOMAIN events : events[k] \notin EndEvents
    /\ server = "closing" => Len(events) <= MaxTokens + 1
    /\ server = "ended" => Len(events) > 0 /\ events[Len(events)] \in EndEvents
    /\ \A j, k \in DOMAIN events :
          j < k /\ events[j] \in EndEvents => events[k] \in EndEvents

\* What has been delivered so far.
DeliveredInv ==
    /\ \A n \in DOMAIN delivered : delivered[n] \in TokensUpTo(Passed)
    /\ \A m, n \in DOMAIN delivered : m < n => delivered[m] < delivered[n]
    /\ ~stopFlag => TokensUpTo(Passed) \subseteq Elems(delivered)

\* Between two pieces every whole event is behind the parser.
ParserInv ==
    /\ worker \in {"connecting", "waiting"} => taken = 0
    /\ worker = "connecting" => server = "idle" /\ finishes = <<>>
    /\ worker = "reading" /\ ~stopFlag => taken < 2 * NextEvent
    /\ parsed % 2 = 1 /\ ~stopFlag => events[Passed] \in EndEvents
    /\ ~stopFlag => \A k \in 1..Passed : events[k] \in EndEvents => finishes # <<>>
    /\ worker = "failed" => finishes # <<>>

\* After a good finish the stream holds no more tokens.
FinishInv ==
    "ok" \in Elems(finishes) => server \in {"closing", "ended"}

IInv ==
    /\ TypeOK /\ StreamInv /\ DeliveredInv /\ ParserInv /\ FinishInv
    /\ AnswerComplete /\ EndReported

-----------------------------------------------------------------------------
\* What a sequence holds after Append.
LEMMA ElemsAppend ==
    ASSUME NEW S, NEW q \in Seq(S), NEW x \in S
    PROVE  Elems(Append(q, x)) = Elems(q) \cup {x}
<1>1. DOMAIN Append(q, x) = DOMAIN q \cup {Len(q) + 1}
    OBVIOUS
<1>2. \A n \in DOMAIN q : Append(q, x)[n] = q[n]
    OBVIOUS
<1>3. Append(q, x)[Len(q) + 1] = x
    OBVIOUS
<1> QED
    BY <1>1, <1>2, <1>3, Zenon DEF Elems

\* The halves and the events they belong to.
LEMMA Halves ==
    ASSUME TypeOK
    PROVE  /\ Passed \in 0..Len(events)
           /\ NextEvent = Passed + 1
           /\ parsed <= 2 * Passed
           /\ Whole => NextEvent \in DOMAIN events
BY DEF TypeOK, Passed, NextEvent, Whole

-----------------------------------------------------------------------------
\* Every step keeps the types: whatever is parsed was taken, whatever is
\* taken was sent.
LEMMA TypeStep == IInv /\ [Next]_vars => TypeOK'
<1> SUFFICES ASSUME IInv, [Next]_vars PROVE TypeOK'
    OBVIOUS
<1> USE BoundsAssumption, TokenFormsAssumption
<1>1. TypeOK /\ StreamInv
    BY DEF IInv
<1>2. CASE CallerNext
    <2>1. CASE Request
        <3>1. requests' \in 0..MaxRequests
            BY <1>1, <2>1 DEF TypeOK, Request
        <3>2. /\ Len(<<>>) = 0 /\ <<>> \in Seq(Events) /\ <<>> \in Seq(Nat)
              /\ <<>> \in Seq({"ok", "error"})
            OBVIOUS
        <3>3. /\ events' \in Seq(Events) /\ Len(events') = 0
              /\ delivered' \in Seq(Nat) /\ finishes' \in Seq({"ok", "error"})
            BY <2>1, <3>2 DEF Request
        <3>4. /\ taken' = 0 /\ parsed' = 0 /\ running' = TRUE /\ worker' = "connecting"
              /\ server' = "idle" /\ cause' = "none" /\ stopFlag' = FALSE
              /\ UNCHANGED <<ui, reachable>>
            BY <2>1 DEF Request
        <3> QED
            <4>1. /\ Len(events') <= MaxTokens + 2
                  /\ taken' \in 0..(2 * Len(events'))
                  /\ parsed' \in 0..taken'
                BY <3>3, <3>4
            <4>2. ui' \in {"free", "stopping"} /\ reachable' \in BOOLEAN
                BY <1>1, <3>4 DEF TypeOK
            <4> QED
                BY <3>1, <3>3, <3>4, <4>1, <4>2 DEF TypeOK
    <2>2. CASE Stop
        BY <1>1, <2>2 DEF TypeOK, Stop, streamVars, serverVars, history
    <2>3. CASE Joined
        BY <1>1, <2>3 DEF TypeOK, Joined, streamVars, serverVars, history
    <2>4. CASE CheckHealth
        BY <1>1, <2>4 DEF TypeOK, CheckHealth, callerVars, streamVars, serverVars, history
    <2> QED
        BY <1>2, <2>1, <2>2, <2>3, <2>4 DEF CallerNext
<1>3. ASSUME NEW why \in {"refused", "silence", "broken", "stopped", "exception"},
             Fail(why), worker # "none"
      PROVE  TypeOK'
    BY <1>1, <1>3 DEF TypeOK, Fail, callerVars, streamVars, serverVars
<1>4. CASE TransportNext \/ ConnectionBreaks
    <2>1. CASE ConnectFails \/ ReadFindsNothing \/ ConnectionBreaks \/ ReceiverRefuses
        BY <1>3, <2>1 DEF ConnectFails, ReadFindsNothing, ConnectionBreaks, ReceiverRefuses
    <2>2. CASE Connect \/ HeaderArrives \/ ResponseEnds
        BY <1>1, <2>2 DEF TypeOK, Connect, HeaderArrives, ResponseEnds, callerVars,
           streamVars, serverVars, history
    <2>3. CASE Receive
        BY <1>1, <2>3 DEF TypeOK, Receive, callerVars, serverVars, history
    <2>4. CASE Failed \/ Finish
        BY <1>1, <2>4 DEF TypeOK, Failed, Finish, callerVars, streamVars, serverVars, history
    <2> QED
        BY <1>4, <2>1, <2>2, <2>3, <2>4 DEF TransportNext
<1>5. CASE ParseNext
    <2>1. CASE ParseNull
        BY <1>3, <2>1 DEF ParseNull, Parsing
    <2>2. CASE ParseLeftover \/ ParseStopped
        BY <1>1, <2>2 DEF TypeOK, ParseLeftover, ParseStopped, callerVars, streamVars,
           serverVars, history
    <2>3. CASE ParseToken \/ ParseMalformed
        <3>1. NextEvent \in Nat /\ 2 * NextEvent \in 0..taken
            BY <1>1, <2>3, Halves DEF TypeOK, ParseToken, ParseMalformed, Parsing, Whole
        <3>2. delivered' \in Seq(Nat)
            <4>1. delivered \in Seq(Nat)
                BY <1>1 DEF TypeOK
            <4> QED
                BY <2>3, <3>1, <4>1 DEF ParseToken, ParseMalformed, history
        <3> QED
            BY <1>1, <2>3, <3>1, <3>2 DEF TypeOK, ParseToken, ParseMalformed, callerVars,
               serverVars, history
    <2>4. CASE ParseEnd
        BY <1>1, <2>4 DEF TypeOK, ParseEnd, Parsing, callerVars, serverVars
    <2> QED
        BY <1>5, <2>1, <2>2, <2>3, <2>4 DEF ParseNext
<1>6. CASE ServerNext
    <2>1. ASSUME NEW e \in Events, NEW phase \in {"streaming", "closing", "ended"},
                 Send(e, phase), Len(events) + 1 <= MaxTokens + 2
          PROVE  TypeOK'
        BY <1>1, <2>1 DEF TypeOK, Send, callerVars, streamVars, history
    <2>2. CASE Accept
        BY <1>1, <2>2 DEF TypeOK, Accept, callerVars, streamVars, history
    <2>3. CASE SendToken
        <3>1. PICK f \in TokenForms : Send(f, "streaming")
            BY <2>3 DEF SendToken
        <3>2. f \in Events
            BY DEF Events
        <3>3. Len(events) \in Nat /\ Len(events) < MaxTokens
            BY <1>1, <2>3 DEF TypeOK, SendToken
        <3> QED
            BY <2>1, <3>1, <3>2, <3>3
    <2>4. CASE SendStop \/ SendError
        BY <1>1, <2>1, <2>4 DEF SendStop, SendError, StreamInv, TypeOK, Events, EndEvents
    <2>5. CASE SendDone
        BY <1>1, <2>1, <2>5 DEF SendDone, StreamInv, TypeOK, Events, EndEvents
    <2> QED
        BY <1>6, <2>2, <2>3, <2>4, <2>5 DEF ServerNext
<1>7. CASE UNCHANGED vars
    BY <1>1, <1>7 DEF TypeOK, vars, callerVars, streamVars, serverVars, history
<1> QED
    BY <1>2, <1>4, <1>5, <1>6, <1>7 DEF Next, WorkerNext

-----------------------------------------------------------------------------
\* Nothing the parser or the cloud owns changes.
LEMMA QuietStep ==
    ASSUME IInv, stopFlag => stopFlag', 
           UNCHANGED <<serverVars, parsed, delivered>>
    PROVE  StreamInv' /\ DeliveredInv'
BY DEF IInv, StreamInv, DeliveredInv, TokensUpTo, Passed, Elems, serverVars

\* Steps that end a request with an error.
LEMMA FailStep ==
    ASSUME IInv, NEW why, Fail(why), worker # "none"
    PROVE  StreamInv' /\ DeliveredInv' /\ ParserInv' /\ FinishInv'
           /\ AnswerComplete' /\ EndReported'
<1>1. StreamInv' /\ DeliveredInv'
    BY QuietStep DEF Fail, streamVars, serverVars
<1>2. finishes \in Seq({"ok", "error"})
    BY DEF IInv, TypeOK
<1>3. finishes' # <<>> /\ Elems(finishes') = Elems(finishes) \cup {"error"}
    BY <1>2, ElemsAppend DEF Fail
<1>4. ParserInv'
    BY <1>3 DEF IInv, ParserInv, Fail, Passed, NextEvent, streamVars, serverVars
<1>5. FinishInv' /\ AnswerComplete'
    BY <1>3 DEF IInv, FinishInv, AnswerComplete, TokensUpTo, Elems, Fail, serverVars
<1> QED
    BY <1>1, <1>4, <1>5 DEF EndReported, Fail

\* The steps of the caller and of the transport that hand nothing to the parser.
LEMMA QuietActions ==
    ASSUME IInv, Stop \/ Joined \/ CheckHealth \/ HeaderArrives \/ Receive
                 \/ Failed \/ Finish \/ ParseLeftover
    PROVE  StreamInv' /\ DeliveredInv' /\ ParserInv' /\ FinishInv'
           /\ AnswerComplete' /\ EndReported'
<1> USE DEF callerVars, streamVars, serverVars, history
<1>1. UNCHANGED <<server, events, parsed, delivered, finishes>> /\ (stopFlag => stopFlag')
    BY DEF Stop, Joined, CheckHealth, HeaderArrives, Receive, Failed, Finish, ParseLeftover
<1>2. StreamInv' /\ DeliveredInv'
    BY <1>1, QuietStep
<1>3. FinishInv' /\ AnswerComplete'
    BY <1>1 DEF IInv, FinishInv, AnswerComplete, TokensUpTo, Elems
<1>4. EndReported'
    BY <1>1 DEF IInv, EndReported, ParserInv, Stop, Joined, CheckHealth, HeaderArrives,
       Receive, Failed, Finish, ParseLeftover
<1>5. worker' = "reading" /\ ~stopFlag' => taken' < 2 * NextEvent'
    BY <1>1, Halves DEF IInv, TypeOK, ParserInv, NextEvent, Whole, Stop, Joined, CheckHealth,
       HeaderArrives, Receive, Failed, Finish, ParseLeftover
<1>6. /\ worker' \in {"connecting", "waiting"} => taken' = 0
      /\ worker' = "connecting" => server' = "idle" /\ finishes' = <<>>
      /\ worker' = "failed" => finishes' # <<>>
    BY <1>1 DEF IInv, ParserInv, Stop, Joined, CheckHealth, HeaderArrives,
       Receive, Failed, Finish, ParseLeftover
<1>7. ParserInv'
    BY <1>1, <1>5, <1>6 DEF IInv, ParserInv, Passed
<1> QED
    BY <1>2, <1>3, <1>4, <1>7

\* A new request begins with nothing read, nothing delivered.
LEMMA RequestStep ==
    ASSUME IInv, Request
    PROVE  StreamInv' /\ DeliveredInv' /\ ParserInv' /\ FinishInv'
           /\ AnswerComplete' /\ EndReported'
<1>1. /\ events' = <<>> /\ delivered' = <<>> /\ finishes' = <<>> /\ parsed' = 0
      /\ taken' = 0 /\ server' = "idle" /\ worker' = "connecting" /\ stopFlag' = FALSE
    BY DEF Request
<1>2. Passed' = 0 /\ TokensUpTo(Passed)' = {}
    BY <1>1 DEF Passed, TokensUpTo
<1> QED
    BY <1>1, <1>2 DEF StreamInv, DeliveredInv, ParserInv, FinishInv, AnswerComplete,
       EndReported, Elems

\* The response ends with every event behind the parser, the last one an end.
LEMMA ResponseEndsStep ==
    ASSUME IInv, ResponseEnds
    PROVE  StreamInv' /\ DeliveredInv' /\ ParserInv' /\ FinishInv'
           /\ AnswerComplete' /\ EndReported'
<1> USE DEF callerVars, streamVars, serverVars, history
<1>1. /\ UNCHANGED <<server, events, parsed, delivered, finishes, stopFlag, taken>>
      /\ worker' = "ending" /\ worker = "reading" /\ taken = 2 * Len(events)
      /\ server \in {"ended", "refused"}
    BY DEF ResponseEnds
<1>2. StreamInv' /\ DeliveredInv'
    BY <1>1, QuietStep
<1>3. FinishInv' /\ AnswerComplete'
    BY <1>1 DEF IInv, FinishInv, AnswerComplete, TokensUpTo, Elems
<1>4. ParserInv'
    BY <1>1 DEF IInv, ParserInv, Passed
<1>5. ASSUME ~stopFlag, server # "refused"
      PROVE  finishes # <<>>
    <2>1. server = "ended" /\ Len(events) > 0 /\ events[Len(events)] \in EndEvents
        BY <1>1, <1>5 DEF IInv, StreamInv
    <2>2. Passed = Len(events)
        BY <1>1, <1>5, Halves DEF IInv, TypeOK, ParserInv
    <2>3. Len(events) \in 1..Passed
        BY <2>1, <2>2 DEF IInv, TypeOK
    <2> QED
        BY <1>5, <2>1, <2>3 DEF IInv, ParserInv
<1> QED
    BY <1>1, <1>2, <1>3, <1>4, <1>5 DEF EndReported

\* Connecting gives the cloud the request, before it has sent anything.
LEMMA ConnectStep ==
    ASSUME IInv, Connect
    PROVE  StreamInv' /\ DeliveredInv' /\ ParserInv' /\ FinishInv'
           /\ AnswerComplete' /\ EndReported'
<1> USE DEF callerVars, streamVars, serverVars, history
<1>1. /\ UNCHANGED <<events, parsed, taken, delivered, finishes, stopFlag>>
      /\ worker = "connecting" /\ worker' = "waiting" /\ server' = "asked"
    BY DEF Connect
<1>2. server = "idle" /\ finishes = <<>> /\ taken = 0 /\ events = <<>>
    BY <1>1 DEF IInv, ParserInv, StreamInv
<1>3. StreamInv'
    BY <1>1, <1>2 DEF IInv, StreamInv
<1>4. DeliveredInv'
    BY <1>1 DEF IInv, DeliveredInv, TokensUpTo, Passed, Elems
<1>5. ParserInv'
    BY <1>1, <1>2 DEF IInv, ParserInv, Passed
<1> QED
    BY <1>1, <1>2, <1>3, <1>4, <1>5 DEF FinishInv, AnswerComplete, EndReported, Elems

\* The stopped loop forgets the rest.
LEMMA ParseStoppedStep ==
    ASSUME IInv, ParseStopped
    PROVE  StreamInv' /\ DeliveredInv' /\ ParserInv' /\ FinishInv'
           /\ AnswerComplete' /\ EndReported'
<1> USE DEF callerVars, streamVars, serverVars, history
<1>1. /\ UNCHANGED <<server, events, taken, delivered, finishes, stopFlag>>
      /\ stopFlag /\ worker' = "reading" /\ parsed' = taken
    BY DEF ParseStopped
<1>2. StreamInv'
    BY <1>1 DEF IInv, StreamInv
<1>3. Passed \in Nat /\ Passed' \in Nat /\ Passed <= Passed'
    BY <1>1 DEF IInv, TypeOK, Passed
<1>4. DeliveredInv'
    BY <1>1, <1>3 DEF IInv, DeliveredInv, TokensUpTo, Elems
<1>5. ParserInv'
    BY <1>1 DEF ParserInv
<1> QED
    BY <1>1, <1>2, <1>4, <1>5 DEF IInv, FinishInv, AnswerComplete, TokensUpTo, Elems, EndReported

\* A token or a malformed event: the parser passes one event, and delivers it
\* when it is a token.
LEMMA ParseEventStep ==
    ASSUME IInv, ParseToken \/ ParseMalformed
    PROVE  StreamInv' /\ DeliveredInv' /\ ParserInv' /\ FinishInv'
           /\ AnswerComplete' /\ EndReported'
<1> USE DEF callerVars, streamVars, serverVars, history
<1> DEFINE e == NextEvent
<1>1. /\ UNCHANGED <<server, events, taken, finishes, stopFlag, worker>>
      /\ ~stopFlag /\ worker = "parsing" /\ parsed' = 2 * e
      /\ e \in DOMAIN events /\ e = Passed + 1
      /\ events[e] \in {"token", "malformed"}
      /\ delivered' = IF events[e] = "token" THEN Append(delivered, e) ELSE delivered
    BY Halves DEF IInv, ParseToken, ParseMalformed, Parsing
<1>2. Passed \in Nat /\ Passed' = e /\ parsed' % 2 = 0
    BY <1>1, Halves DEF IInv, Passed
<1>3. e \in Nat /\ delivered \in Seq(Nat)
    BY <1>1, <1>2 DEF IInv, TypeOK
<1>4. TokensUpTo(Passed)' = IF events[e] = "token" THEN TokensUpTo(Passed) \cup {e}
                            ELSE TokensUpTo(Passed)
    BY <1>1, <1>2 DEF TokensUpTo
<1>5. Elems(delivered') = IF events[e] = "token" THEN Elems(delivered) \cup {e}
                          ELSE Elems(delivered)
    <2>1. Elems(Append(delivered, e)) = Elems(delivered) \cup {e}
        BY <1>3, ElemsAppend
    <2> QED
        BY <1>1, <2>1
<1>6. StreamInv'
    BY <1>1 DEF IInv, StreamInv
<1>7. DeliveredInv'
    <2>1. \A n \in DOMAIN delivered' : delivered'[n] \in TokensUpTo(Passed)'
        <3>1. Elems(delivered) \subseteq TokensUpTo(Passed)
            BY DEF IInv, DeliveredInv, Elems
        <3>2. Elems(delivered') \subseteq TokensUpTo(Passed)'
            BY <1>4, <1>5, <3>1
        <3> QED
            BY <3>2 DEF Elems
    <2>2. \A m, n \in DOMAIN delivered' : m < n => delivered'[m] < delivered'[n]
        <3>1. \A n \in DOMAIN delivered : delivered[n] < e
            BY <1>1, <1>2 DEF IInv, DeliveredInv, TokensUpTo
        <3>2. \A m, n \in DOMAIN delivered : m < n => delivered[m] < delivered[n]
            BY DEF IInv, DeliveredInv
        <3> QED
            BY <1>1, <1>3, <3>1, <3>2
    <2>3. TokensUpTo(Passed)' \subseteq Elems(delivered)'
        BY <1>1, <1>4, <1>5 DEF IInv, DeliveredInv
    <2> QED
        BY <2>1, <2>2, <2>3 DEF DeliveredInv
<1>8. ParserInv'
    <2>1. \A k \in 1..Passed' : events'[k] \in EndEvents => finishes' # <<>>
        BY <1>1, <1>2 DEF IInv, ParserInv, EndEvents
    <2> QED
        BY <1>1, <1>2, <2>1 DEF ParserInv
<1>9. "ok" \notin Elems(finishes) \/ events[e] # "token"
    <2>1. ASSUME "ok" \in Elems(finishes), events[e] = "token"
          PROVE  e \in TokensUpTo(Passed)
        <3>1. e \in TokensUpTo(Len(events))
            BY <1>1, <2>1 DEF IInv, TypeOK, TokensUpTo
        <3>2. e \in Elems(delivered)
            BY <2>1, <3>1 DEF IInv, AnswerComplete
        <3> QED
            BY <3>2 DEF IInv, DeliveredInv, Elems
    <2> QED
        BY <1>1, <1>2, <2>1 DEF TokensUpTo
<1>10. FinishInv' /\ AnswerComplete'
    <2>1. Elems(finishes)' = Elems(finishes) /\ TokensUpTo(Len(events))' = TokensUpTo(Len(events))
        BY <1>1 DEF Elems, TokensUpTo
    <2> QED
        BY <1>1, <1>5, <1>9, <2>1 DEF IInv, FinishInv, AnswerComplete
<1> QED
    BY <1>1, <1>6, <1>7, <1>8, <1>10 DEF EndReported

\* An end: what the parser forgets with it holds no token.
LEMMA ParseEndStep ==
    ASSUME IInv, ParseEnd
    PROVE  StreamInv' /\ DeliveredInv' /\ ParserInv' /\ FinishInv'
           /\ AnswerComplete' /\ EndReported'
<1> USE DEF callerVars, streamVars, serverVars, history
<1> DEFINE e == NextEvent
<1>1. /\ UNCHANGED <<server, events, taken, delivered, stopFlag>>
      /\ ~stopFlag /\ worker' = "reading" /\ parsed' = taken
      /\ e \in DOMAIN events /\ e = Passed + 1 /\ 2 * e <= taken
      /\ events[e] \in EndEvents
      /\ \E r \in {"ok", "error"} : finishes' = Append(finishes, r)
    BY Halves DEF IInv, ParseEnd, Parsing, Whole
<1>2. /\ Passed \in 0..Len(events) /\ Passed' \in e..Len(events)
      /\ parsed' <= 2 * Passed' /\ taken < 2 * (Passed' + 1)
    BY <1>1, Halves DEF IInv, TypeOK, Passed
<1>3. \A k \in DOMAIN events : k > Passed => events[k] \in EndEvents
    <2>1. \A j, k \in DOMAIN events :
              j < k /\ events[j] \in EndEvents => events[k] \in EndEvents
        BY DEF IInv, StreamInv
    <2> QED
        BY <1>1, <1>2, <2>1 DEF IInv, TypeOK
<1>4. events \in Seq(Events) /\ finishes \in Seq({"ok", "error"}) /\ Len(events) \in Nat
    BY DEF IInv, TypeOK
<1>5. \A n \in Passed..Len(events) : TokensUpTo(n) = TokensUpTo(Passed)
    BY <1>2, <1>3, <1>4 DEF TokensUpTo, EndEvents
<1>6. TokensUpTo(Passed)' = TokensUpTo(Passed)
    <2>1. TokensUpTo(Passed)' = TokensUpTo(Passed')
        BY <1>1 DEF TokensUpTo
    <2> QED
        BY <1>1, <1>2, <1>5, <2>1
<1>7. TokensUpTo(Len(events)) = TokensUpTo(Passed)
    BY <1>2, <1>4, <1>5
<1>8. StreamInv'
    BY <1>1 DEF IInv, StreamInv
<1>9. DeliveredInv'
    BY <1>1, <1>6 DEF IInv, DeliveredInv, Elems
<1>10. finishes' # <<>>
    BY <1>1, <1>4
<1>11. ParserInv'
    <2>1. taken' < 2 * NextEvent'
        BY <1>1, <1>2 DEF NextEvent, Passed
    <2>2. parsed' % 2 = 1 => events'[Passed'] \in EndEvents
        BY <1>1, <1>2, <1>3, <1>4
    <2> QED
        BY <1>1, <1>10, <2>1, <2>2 DEF ParserInv
<1>12. Elems(delivered) = TokensUpTo(Len(events))
    BY <1>1, <1>7 DEF IInv, DeliveredInv, Elems
<1>13. server \in {"closing", "ended"}
    BY <1>1 DEF IInv, TypeOK, StreamInv
<1>14. FinishInv' /\ AnswerComplete'
    BY <1>1, <1>12, <1>13 DEF FinishInv, AnswerComplete, TokensUpTo, Elems
<1> QED
    BY <1>1, <1>8, <1>9, <1>11, <1>14 DEF EndReported

\* The cloud's steps: what it appends after an end is an end.
LEMMA SendStep ==
    ASSUME IInv, TypeOK', NEW e, NEW phase \in {"streaming", "closing", "ended"},
           Send(e, phase),
           \/ server = "streaming" /\ phase = "streaming" /\ e \notin EndEvents
              /\ Len(events) < MaxTokens
           \/ server = "streaming" /\ phase = "closing" /\ e \in EndEvents
           \/ server = "closing" /\ phase = "ended" /\ e \in EndEvents
    PROVE  StreamInv' /\ DeliveredInv' /\ ParserInv' /\ FinishInv'
           /\ AnswerComplete' /\ EndReported'
<1> USE DEF callerVars, streamVars, serverVars, history
<1>1. /\ events' = Append(events, e) /\ server' = phase
      /\ UNCHANGED <<worker, taken, parsed, delivered, finishes, stopFlag>>
    BY DEF Send
<1>2. events \in Seq(Events) /\ events' \in Seq(Events) /\ Len(events) \in Nat
      /\ MaxTokens \in Nat
    BY BoundsAssumption DEF IInv, TypeOK
<1>3. /\ Len(events') = Len(events) + 1 /\ events'[Len(events) + 1] = e
      /\ \A k \in 1..Len(events) : events'[k] = events[k]
      /\ DOMAIN events = 1..Len(events) /\ DOMAIN events' = 1..(Len(events) + 1)
    BY <1>1, <1>2
<1>4. Passed' = Passed /\ Passed \in 0..Len(events) /\ NextEvent' = NextEvent
    BY <1>1, Halves DEF IInv, Passed, NextEvent
<1>5. StreamInv'
    <2>1. \A j, k \in DOMAIN events' :
              j < k /\ events'[j] \in EndEvents => events'[k] \in EndEvents
        BY <1>1, <1>2, <1>3 DEF IInv, StreamInv
    <2>2. server' = "streaming" => /\ Len(events') <= MaxTokens
                                   /\ \A k \in DOMAIN events' : events'[k] \notin EndEvents
        BY <1>1, <1>2, <1>3 DEF IInv, StreamInv
    <2>3. server' = "closing" => Len(events') <= MaxTokens + 1
        BY <1>1, <1>2, <1>3 DEF IInv, StreamInv
    <2>4. server' = "ended" => Len(events') > 0 /\ events'[Len(events')] \in EndEvents
        BY <1>1, <1>2, <1>3
    <2> QED
        BY <1>1, <2>1, <2>2, <2>3, <2>4 DEF StreamInv
<1>6. TokensUpTo(Passed)' = TokensUpTo(Passed)
    BY <1>2, <1>3, <1>4 DEF TokensUpTo
<1>7. DeliveredInv'
    BY <1>1, <1>6 DEF IInv, DeliveredInv, Elems
<1>8. ParserInv'
    <2>1. worker # "connecting"
        BY DEF IInv, ParserInv
    <2>2. parsed % 2 = 1 /\ ~stopFlag => events'[Passed] \in EndEvents
        <3>1. parsed % 2 = 1 => Passed \in 1..Len(events)
            <4>1. parsed \in Nat
                BY DEF IInv, TypeOK
            <4>2. parsed % 2 = 1 => Passed >= 1
                BY <4>1 DEF Passed
            <4> QED
                BY <1>2, <1>4, <4>2
        <3> QED
            BY <1>3, <3>1 DEF IInv, ParserInv
    <2>3. ~stopFlag => \A k \in 1..Passed : events'[k] \in EndEvents => finishes # <<>>
        BY <1>2, <1>3, <1>4 DEF IInv, ParserInv
    <2> QED
        BY <1>1, <1>4, <2>1, <2>2, <2>3 DEF IInv, ParserInv
<1>9. FinishInv' /\ AnswerComplete'
    <2>1. FinishInv'
        BY <1>1 DEF IInv, FinishInv, Elems
    <2>2. ASSUME "ok" \in Elems(finishes)
          PROVE  TokensUpTo(Len(events))' = TokensUpTo(Len(events))
        <3>1. e # "token"
            BY <2>2 DEF IInv, FinishInv, EndEvents
        <3> QED
            BY <1>2, <1>3, <3>1 DEF TokensUpTo
    <2> QED
        BY <1>1, <2>1, <2>2 DEF IInv, AnswerComplete, Elems
<1>10. EndReported'
    BY <1>1 DEF IInv, EndReported
<1> QED
    BY <1>5, <1>7, <1>8, <1>9, <1>10

\* Every step of the cloud's event_stream.
LEMMA ServerStep ==
    ASSUME IInv, TypeOK', ServerNext
    PROVE  StreamInv' /\ DeliveredInv' /\ ParserInv' /\ FinishInv'
           /\ AnswerComplete' /\ EndReported'
<1>1. CASE Accept
    <2>1. /\ server = "asked" /\ server' \in {"refused", "streaming"}
          /\ UNCHANGED <<events, worker, taken, parsed, delivered, finishes, stopFlag>>
        BY <1>1 DEF Accept, streamVars, history
    <2>2. events = <<>> /\ "ok" \notin Elems(finishes) /\ worker # "connecting"
        BY <2>1 DEF IInv, StreamInv, FinishInv, ParserInv
    <2>3. StreamInv'
        BY <2>1, <2>2, BoundsAssumption DEF StreamInv
    <2>4. DeliveredInv' /\ FinishInv' /\ AnswerComplete'
        BY <2>1, <2>2 DEF IInv, DeliveredInv, FinishInv, AnswerComplete, TokensUpTo, Passed, Elems
    <2>5. ParserInv'
        BY <2>1, <2>2 DEF IInv, ParserInv, Passed, NextEvent
    <2> QED
        BY <2>1, <2>3, <2>4, <2>5 DEF IInv, EndReported
<1>2. CASE SendToken
    <2>1. PICK f \in TokenForms : Send(f, "streaming")
        BY <1>2 DEF SendToken
    <2>2. f \notin EndEvents
        BY TokenFormsAssumption DEF EndEvents
    <2> QED
        BY <1>2, <2>1, <2>2, SendStep DEF SendToken
<1>3. CASE SendStop
    BY <1>3, SendStep DEF SendStop, EndEvents
<1>4. CASE SendError
    BY <1>4, SendStep DEF SendError, EndEvents
<1>5. CASE SendDone
    BY <1>5, SendStep DEF SendDone, EndEvents
<1> QED
    BY <1>1, <1>2, <1>3, <1>4, <1>5 DEF ServerNext

\* The inductive invariant is kept by every step.
LEMMA IInvStep == IInv /\ [Next]_vars => IInv'
<1> SUFFICES ASSUME IInv, [Next]_vars PROVE IInv'
    OBVIOUS
<1>1. TypeOK'
    BY TypeStep
<1> SUFFICES StreamInv' /\ DeliveredInv' /\ ParserInv' /\ FinishInv'
             /\ AnswerComplete' /\ EndReported'
    BY <1>1 DEF IInv
<1>2. CASE CallerNext
    BY <1>2, RequestStep, QuietActions DEF CallerNext
<1>3. CASE WorkerNext \/ ConnectionBreaks
    <2>1. CASE ConnectFails \/ ReadFindsNothing \/ ConnectionBreaks \/ ReceiverRefuses
               \/ ParseNull
        BY <2>1, FailStep DEF ConnectFails, ReadFindsNothing, ConnectionBreaks,
           ReceiverRefuses, ParseNull, Parsing
    <2> QED
        BY <1>3, <2>1, QuietActions, ConnectStep, ResponseEndsStep, ParseStoppedStep,
           ParseEventStep, ParseEndStep DEF WorkerNext, TransportNext, ParseNext
<1>4. CASE ServerNext
    BY <1>1, <1>4, ServerStep
<1>5. CASE UNCHANGED vars
    BY <1>5 DEF IInv, StreamInv, DeliveredInv, ParserInv, FinishInv, AnswerComplete,
       EndReported, TokensUpTo, Passed, NextEvent, Elems, vars, callerVars, streamVars,
       serverVars, history
<1> QED
    BY <1>2, <1>3, <1>4, <1>5 DEF Next

\* Nothing is requested, sent or delivered at the start.
LEMMA InitIInv == Init => IInv
<1> SUFFICES ASSUME Init PROVE IInv
    OBVIOUS
<1>1. /\ <<>> \in Seq(Events) /\ <<>> \in Seq(Nat) /\ <<>> \in Seq({"ok", "error"})
      /\ Len(<<>>) = 0
    OBVIOUS
<1>2. TypeOK
    <2>1. /\ requests \in 0..MaxRequests /\ Len(events) = 0
          /\ events \in Seq(Events) /\ delivered \in Seq(Nat)
          /\ finishes \in Seq({"ok", "error"})
        BY <1>1, BoundsAssumption DEF Init
    <2>2. /\ Len(events) <= MaxTokens + 2 /\ taken \in 0..(2 * Len(events))
          /\ parsed \in 0..taken
        BY <2>1, BoundsAssumption DEF Init
    <2>3. /\ ui = "free" /\ running = FALSE /\ stopFlag = FALSE /\ reachable = FALSE
          /\ worker = "none" /\ server = "idle" /\ cause = "none"
        BY DEF Init
    <2> QED
        BY <2>1, <2>2, <2>3 DEF TypeOK
<1>3. Passed = 0
    BY DEF Init, Passed
<1> QED
    BY <1>2, <1>3 DEF Init, IInv, StreamInv, DeliveredInv, ParserInv, FinishInv,
       AnswerComplete, EndReported, TokensUpTo, Elems

-----------------------------------------------------------------------------
\* The inductive invariant holds in every behaviour.
THEOREM Invariance == Spec => []IInv
BY InitIInv, IInvStep, PTL DEF Spec

\* The client's state keeps its types: what is parsed was taken, what is taken
\* was sent, and a worker exists exactly while _running is set.
THEOREM TypeCorrect == Spec => []TypeOK
<1>1. IInv => TypeOK
    BY DEF IInv
<1> QED
    BY <1>1, Invariance, PTL

\* parse_sse_chunk delivers every token it passes, once and in order, whatever
\* the pieces.
THEOREM TokensInOrderAlways == Spec => []TokensInOrder
<1>1. IInv => TokensInOrder
    <2> SUFFICES ASSUME IInv PROVE TokensInOrder
        OBVIOUS
    <2>1. \A m, n \in DOMAIN delivered : m < n => delivered[m] < delivered[n]
        BY DEF IInv, DeliveredInv
    <2>2. ASSUME ~stopFlag
          PROVE  TokensUpTo(parsed \div 2) = TokensUpTo(Passed)
        <3>1. parsed \in Nat
            BY DEF IInv, TypeOK
        <3>2. CASE parsed % 2 = 0
            <4>1. Passed = parsed \div 2
                BY <3>1, <3>2 DEF Passed
            <4> QED
                BY <4>1
        <3>3. CASE parsed % 2 = 1
            <4>1. Passed = parsed \div 2 + 1 /\ parsed \div 2 \in Nat
                BY <3>1, <3>3 DEF Passed
            <4>2. events[Passed] # "token"
                BY <2>2, <3>3 DEF IInv, ParserInv, EndEvents
            <4> QED
                BY <4>1, <4>2 DEF TokensUpTo
        <3> QED
            BY <3>1, <3>2, <3>3
    <2>3. ~stopFlag => Elems(delivered) = TokensUpTo(Passed)
        BY DEF IInv, DeliveredInv, Elems
    <2> QED
        BY <2>1, <2>2, <2>3 DEF TokensInOrder
<1> QED
    BY <1>1, Invariance, PTL

\* A request that on_token hears to be finished without an error has delivered
\* the whole answer.
THEOREM AnswerCompleteAlways == Spec => []AnswerComplete
<1>1. IInv => AnswerComplete
    BY DEF IInv
<1> QED
    BY <1>1, Invariance, PTL

\* No request ends unreported, but for one that is stopped or refused.
THEOREM EndReportedAlways == Spec => []EndReported
<1>1. IInv => EndReported
    BY DEF IInv
<1> QED
    BY <1>1, Invariance, PTL

\* run_sse_request and its worker implement the interface TaskDispatch counts on.
THEOREM Refinement == Spec => ImplementsCloudRequest
<1>1. Init => Interface!Init
    BY DEF Init, Interface!Init, Elems
<1>2. IInv /\ [Next]_vars => [Interface!Next]_(Interface!vars)
    <2> SUFFICES ASSUME IInv, [Next]_vars
                 PROVE  [Interface!Next]_(Interface!vars)
        OBVIOUS
    <2> USE DEF Interface!Next, Interface!vars, callerVars, streamVars, serverVars, history
    <2>1. running \in BOOLEAN /\ reachable \in BOOLEAN /\ finishes \in Seq({"ok", "error"})
          /\ (running <=> worker # "none")
        BY DEF IInv, TypeOK
    <2>2. CASE Request
        <3>1. Elems(finishes)' = {}
            BY <2>2 DEF Request, Elems
        <3> QED
            BY <2>2, <3>1 DEF Request, Interface!Begin
    <2>3. CASE Finish
        BY <2>1, <2>3 DEF Finish, Interface!Ends
    <2>4. CASE CheckHealth \/ Failed
        BY <2>4 DEF CheckHealth, Failed, Interface!Learns
    <2>5. ASSUME NEW r \in {"ok", "error"}, finishes' = Append(finishes, r),
                 worker # "none", UNCHANGED <<running, reachable>>
          PROVE  Interface!Finished
        <3>1. Elems(finishes') = Elems(finishes) \cup {r}
            BY <2>1, <2>5, ElemsAppend
        <3> QED
            BY <2>1, <2>5, <3>1 DEF Interface!Finished, Elems
    <2>6. CASE ConnectFails \/ ReadFindsNothing \/ ConnectionBreaks \/ ReceiverRefuses
               \/ ParseNull
        BY <2>5, <2>6 DEF ConnectFails, ReadFindsNothing, ConnectionBreaks,
           ReceiverRefuses, ParseNull, Parsing, Fail
    <2>7. CASE ParseEnd
        BY <2>5, <2>7 DEF ParseEnd, Parsing
    <2>8. CASE Stop \/ Joined \/ Connect \/ HeaderArrives \/ Receive \/ ResponseEnds
        BY <2>8 DEF Stop, Joined, Connect, HeaderArrives, Receive, ResponseEnds, Elems
    <2>9. CASE ParseLeftover \/ ParseStopped \/ ParseToken \/ ParseMalformed
        BY <2>9 DEF ParseLeftover, ParseStopped, ParseToken, ParseMalformed, Elems
    <2>10. CASE ServerNext
        BY <2>10 DEF ServerNext, Accept, SendToken, SendStop, SendError, SendDone, Send, Elems
    <2>11. CASE UNCHANGED vars
        BY <2>11 DEF vars, Elems
    <2> QED
        BY <2>2, <2>3, <2>4, <2>6, <2>7, <2>8, <2>9, <2>10, <2>11
           DEF Next, CallerNext, WorkerNext, TransportNext, ParseNext
<1> QED
    BY <1>1, <1>2, Invariance, PTL DEF Spec, ImplementsCloudRequest, Interface!Spec

-----------------------------------------------------------------------------
(* The length of a request.                                                *)

\* The halves that a response can have.
Halved == 2 * (MaxTokens + 2)

\* The steps of the worker that are left at most: what is still to be read counts twice,
\* for the piece it comes in, what is still to be parsed once.
StreamLeft == 2 * (Halved - taken) + (Halved - parsed)
StepsLeft ==
    CASE worker = "none" -> 0
      [] worker = "ending" -> 1
      [] worker = "failed" -> 2
      [] worker = "reading" -> StreamLeft + 3
      [] worker = "parsing" -> StreamLeft + 4
      [] worker = "waiting" -> StreamLeft + 5
      [] worker = "connecting" -> StreamLeft + 6

\* Whatever the cloud sends, in whatever pieces, every step of the worker leaves it less
\* to do, and neither the cloud nor stop() gives it more: no event is parsed twice and no
\* rest is read again (edge_cloud.cpp:380-441, 447-535).  RequestEnds adds that the worker
\* runs.
RequestShortens ==
    [][running => IF WorkerNext \/ ConnectionBreaks THEN StepsLeft' < StepsLeft
                  ELSE UNCHANGED StepsLeft]_vars

\* What is left of the stream is a number, bounded by the stream's length.
LEMMA StreamLeftFacts ==
    ASSUME TypeOK
    PROVE  /\ Halved \in Nat /\ taken \in 0..Halved /\ parsed \in 0..taken
           /\ StreamLeft \in 0..(3 * Halved)
<1>1. Halved \in Nat /\ Len(events) \in Nat /\ 2 * Len(events) <= Halved
    BY BoundsAssumption DEF TypeOK, Halved
<1>2. taken \in 0..Halved /\ parsed \in 0..taken
    BY <1>1 DEF TypeOK
<1> HIDE DEF Halved
<1>3. StreamLeft \in 0..(3 * Halved)
    BY <1>1, <1>2 DEF StreamLeft
<1> QED
    BY <1>1, <1>2, <1>3

\* The worker moves on with the stream where it was, or further on.
LEMMA WorkerShortens ==
    ASSUME IInv, TypeOK', WorkerNext \/ ConnectionBreaks
    PROVE  StepsLeft' < StepsLeft
<1> USE DEF callerVars, streamVars, serverVars, history
<1>1. TypeOK
    BY DEF IInv
<1>2. /\ Halved \in Nat /\ taken \in 0..Halved /\ parsed \in 0..taken
      /\ taken' \in 0..Halved /\ parsed' \in 0..taken'
      /\ StreamLeft \in Nat
    <2>1. Halved \in Nat /\ taken \in 0..Halved /\ parsed \in 0..taken /\ StreamLeft \in Nat
        BY <1>1, StreamLeftFacts
    <2>2. Len(events') \in Nat /\ 2 * Len(events') <= Halved
        BY BoundsAssumption DEF TypeOK, Halved
    <2>3. taken' \in 0..(2 * Len(events')) /\ parsed' \in 0..taken'
        BY DEF TypeOK
    <2> HIDE DEF Halved
    <2> QED
        BY <2>1, <2>2, <2>3
<1>3. ASSUME UNCHANGED <<taken, parsed>> PROVE StreamLeft' = StreamLeft
    BY <1>3 DEF StreamLeft, Halved
<1> HIDE DEF Halved
<1>4. CASE Connect \/ HeaderArrives \/ ParseLeftover
    <2>1. StreamLeft' = StreamLeft
        BY <1>3, <1>4 DEF Connect, HeaderArrives, ParseLeftover
    <2> QED
        BY <1>2, <1>4, <2>1 DEF Connect, HeaderArrives, ParseLeftover, StepsLeft
<1>5. CASE ResponseEnds \/ Failed \/ Finish
    BY <1>2, <1>5 DEF ResponseEnds, Failed, Finish, StepsLeft
<1>6. CASE ConnectFails \/ ReadFindsNothing \/ ConnectionBreaks \/ ReceiverRefuses \/ ParseNull
    <2>1. worker' = "failed"
        BY <1>6 DEF ConnectFails, ReadFindsNothing, ConnectionBreaks, ReceiverRefuses, ParseNull,
           Fail
    <2>2. worker \in {"connecting", "waiting", "reading", "parsing"}
        BY <1>6 DEF ConnectFails, ReadFindsNothing, ConnectionBreaks, ReceiverRefuses, ParseNull,
           Parsing
    <2> QED
        BY <1>2, <2>1, <2>2 DEF StepsLeft
<1>7. CASE Receive
    <2>1. /\ worker = "reading" /\ worker' = "parsing" /\ parsed' = parsed
          /\ taken' \in (taken + 1)..(2 * Len(events))
        BY <1>7 DEF Receive
    <2>2. taken' >= taken + 1
        BY <1>1, <1>2, <2>1 DEF TypeOK
    <2>3. StreamLeft' + 2 <= StreamLeft
        BY <1>2, <2>1, <2>2 DEF StreamLeft, Halved
    <2>4. StreamLeft' \in Int
        BY <1>2 DEF StreamLeft, Halved
    <2> QED
        BY <1>2, <2>1, <2>3, <2>4 DEF StepsLeft
<1>8. CASE ParseToken \/ ParseMalformed
    <2>1. worker = "parsing" /\ worker' = "parsing" /\ taken' = taken /\ parsed' = 2 * NextEvent
        BY <1>8 DEF ParseToken, ParseMalformed, Parsing
    <2>2. parsed' >= parsed + 1
        BY <1>2, <2>1 DEF NextEvent
    <2>3. StreamLeft' + 1 <= StreamLeft /\ StreamLeft' \in Int
        BY <1>2, <2>1, <2>2 DEF StreamLeft, Halved
    <2> QED
        BY <1>2, <2>1, <2>3 DEF StepsLeft
<1>9. CASE ParseStopped \/ ParseEnd
    <2>1. worker = "parsing" /\ worker' = "reading" /\ taken' = taken /\ parsed' = taken
        BY <1>9 DEF ParseStopped, ParseEnd, Parsing
    <2>2. StreamLeft' <= StreamLeft /\ StreamLeft' \in Int
        BY <1>2, <2>1 DEF StreamLeft, Halved
    <2> QED
        BY <1>2, <2>1, <2>2 DEF StepsLeft
<1> QED
    BY <1>4, <1>5, <1>6, <1>7, <1>8, <1>9 DEF WorkerNext, TransportNext, ParseNext

\* A request takes 6 * (MaxTokens + 2) + 6 steps of the worker at most.
THEOREM RequestShortensAlways ==
    Spec => [](StepsLeft \in 0..(6 * (MaxTokens + 2) + 6)) /\ RequestShortens
<1>1. ASSUME IInv PROVE StepsLeft \in 0..(6 * (MaxTokens + 2) + 6)
    <2>1. TypeOK
        BY <1>1 DEF IInv
    <2>2. Halved \in Nat /\ StreamLeft \in 0..(3 * Halved)
        BY <2>1, StreamLeftFacts
    <2>3. StepsLeft \in 0..(3 * Halved + 6)
        <3>1. worker \in {"none", "connecting", "waiting", "reading", "parsing", "failed", "ending"}
            BY <2>1 DEF TypeOK
        <3>2. CASE worker \in {"none", "ending", "failed"}
            BY <2>2, <3>2 DEF StepsLeft
        <3>3. CASE worker \in {"connecting", "waiting", "reading", "parsing"}
            <4>1. StepsLeft \in {StreamLeft + r : r \in 3..6}
                BY <3>3 DEF StepsLeft
            <4> QED
                BY <2>2, <4>1
        <3> QED
            BY <3>1, <3>2, <3>3
    <2>4. 3 * Halved + 6 = 6 * (MaxTokens + 2) + 6
        BY BoundsAssumption DEF Halved
    <2> QED
        BY <2>3, <2>4
<1>2. ASSUME IInv, IInv', [Next]_vars
      PROVE  [running => IF WorkerNext \/ ConnectionBreaks THEN StepsLeft' < StepsLeft
                         ELSE UNCHANGED StepsLeft]_vars
    <2>1. TypeOK /\ TypeOK'
        BY <1>2 DEF IInv
    <2> SUFFICES ASSUME running, ~WorkerNext, ~ConnectionBreaks PROVE UNCHANGED StepsLeft
        BY <1>2, <2>1, WorkerShortens
    <2>2. UNCHANGED <<worker, taken, parsed>>
        BY <1>2 DEF Next, CallerNext, Request, Stop, Joined, CheckHealth, ServerNext, Accept,
           SendToken, SendStop, SendError, SendDone, Send, vars, streamVars
    <2> QED
        BY <2>2 DEF StepsLeft, StreamLeft, Halved
<1> QED
    BY <1>1, <1>2, Invariance, PTL DEF Spec, RequestShortens

-----------------------------------------------------------------------------
(* Streams with a finish_reason of null.                                   *)

\* A request that on_token hears to be finished without an error had no event with
\* "finish_reason": null in its stream, not even one that a piece boundary or a stop kept
\* from the parser (edge_cloud.cpp:497-527).
NullNotAnswered ==
    "ok" \in Elems(finishes) => \A k \in DOMAIN events : events[k] # "null"

\* Its inductive form: the parser does not get past such an event.
NullNotPassed == ~stopFlag => \A k \in 1..Passed : events[k] # "null"

\* No step takes the parser past such an event unless stop() is called.
LEMMA NullStep ==
    ASSUME IInv, IInv', NullNotPassed, NullNotAnswered, [Next]_vars
    PROVE  NullNotPassed' /\ NullNotAnswered'
<1> USE DEF callerVars, streamVars, serverVars, history
<1>1. /\ Passed \in 0..Len(events) /\ NextEvent = Passed + 1 /\ events \in Seq(Events)
      /\ finishes \in Seq({"ok", "error"}) /\ Len(events) \in Nat
    BY Halves DEF IInv, TypeOK
<1>2. ASSUME stopFlag => stopFlag', UNCHANGED <<events, parsed>>,
             Elems(finishes') \subseteq Elems(finishes) \cup {"error"}
      PROVE  NullNotPassed' /\ NullNotAnswered'
    BY <1>2 DEF NullNotPassed, NullNotAnswered, Passed
<1>3. CASE Request
    <2>1. events' = <<>> /\ finishes' = <<>> /\ parsed' = 0
        BY <1>3 DEF Request
    <2>2. Passed' = 0
        BY <2>1 DEF Passed
    <2> QED
        BY <2>1, <2>2 DEF NullNotPassed, NullNotAnswered, Elems
<1>4. ASSUME NEW why, Fail(why) PROVE NullNotPassed' /\ NullNotAnswered'
    <2>1. Elems(finishes') = Elems(finishes) \cup {"error"}
        BY <1>1, <1>4, ElemsAppend DEF Fail
    <2> QED
        BY <1>2, <1>4, <2>1 DEF Fail
<1>5. CASE ConnectFails \/ ReadFindsNothing \/ ConnectionBreaks \/ ReceiverRefuses \/ ParseNull
    BY <1>4, <1>5 DEF ConnectFails, ReadFindsNothing, ConnectionBreaks, ReceiverRefuses, ParseNull
<1>6. CASE \/ Stop \/ Joined \/ CheckHealth \/ Connect \/ HeaderArrives \/ Receive
           \/ ResponseEnds \/ Failed \/ Finish \/ ParseLeftover \/ Accept \/ UNCHANGED vars
    <2>1. (stopFlag => stopFlag') /\ UNCHANGED <<events, parsed, finishes>>
        BY <1>6 DEF Stop, Joined, CheckHealth, Connect, HeaderArrives, Receive, ResponseEnds,
           Failed, Finish, ParseLeftover, Accept, vars
    <2> QED
        BY <1>2, <2>1
<1>7. CASE ParseStopped
    <2>1. stopFlag' /\ UNCHANGED <<events, finishes>>
        BY <1>7 DEF ParseStopped
    <2> QED
        BY <2>1 DEF NullNotPassed, NullNotAnswered
<1>8. CASE ParseToken \/ ParseMalformed
    <2>1. /\ ~stopFlag /\ events[NextEvent] # "null" /\ parsed' = 2 * NextEvent
          /\ UNCHANGED <<events, finishes, stopFlag>>
        BY <1>8 DEF ParseToken, ParseMalformed, Parsing
    <2>2. Passed' = Passed + 1
        BY <1>1, <2>1 DEF Passed
    <2> QED
        BY <1>1, <2>1, <2>2 DEF NullNotPassed, NullNotAnswered
<1>9. CASE ParseEnd
    <2>1. /\ ~stopFlag /\ events[NextEvent] \in EndEvents /\ NextEvent \in DOMAIN events
          /\ UNCHANGED <<events, stopFlag>>
        BY <1>9, Halves DEF IInv, ParseEnd, Parsing
    <2>2. \A k \in DOMAIN events : k > Passed => events[k] \in EndEvents
        <3>1. \A j, k \in DOMAIN events :
                  j < k /\ events[j] \in EndEvents => events[k] \in EndEvents
            BY DEF IInv, StreamInv
        <3> QED
            BY <1>1, <2>1, <3>1
    <2>3. \A k \in DOMAIN events : events[k] # "null"
        BY <1>1, <2>1, <2>2 DEF NullNotPassed, EndEvents
    <2>4. Passed' \in 0..Len(events)
        <3>1. TypeOK'
            BY DEF IInv
        <3>2. parsed' \in Nat /\ parsed' <= 2 * Len(events')
            BY <1>1, <2>1, <3>1 DEF TypeOK
        <3>3. parsed' <= 2 * Len(events)
            BY <2>1, <3>2
        <3>4. Passed' = (parsed' + 1) \div 2
            BY DEF Passed
        <3>5. \A n, m \in Nat : n <= 2 * m => (n + 1) \div 2 \in 0..m
            OBVIOUS
        <3>6. parsed' \in Nat /\ Len(events) \in Nat
            BY <1>1, <3>2
        <3>7. (parsed' + 1) \div 2 \in 0..Len(events)
            BY <3>3, <3>5, <3>6, Zenon
        <3> QED
            BY <3>4, <3>7
    <2> QED
        BY <1>1, <2>1, <2>3, <2>4 DEF NullNotPassed, NullNotAnswered
<1>10. CASE SendToken \/ SendStop \/ SendError \/ SendDone
    <2>1. PICK e \in TokenForms \cup EndEvents :
              /\ events' = Append(events, e)
              /\ UNCHANGED <<parsed, finishes, stopFlag>>
              /\ server = "streaming" \/ e \in EndEvents
        BY <1>10 DEF SendToken, SendStop, SendError, SendDone, Send, EndEvents
    <2>2. /\ \A k \in DOMAIN events : events'[k] = events[k]
          /\ DOMAIN events' = DOMAIN events \cup {Len(events) + 1}
          /\ events'[Len(events) + 1] = e
        BY <1>1, <2>1
    <2>3. Passed' = Passed
        BY <2>1 DEF Passed
    <2>4. NullNotPassed'
        BY <1>1, <2>1, <2>2, <2>3 DEF NullNotPassed
    <2>5. "ok" \in Elems(finishes) => e \in EndEvents
        BY <2>1 DEF IInv, FinishInv
    <2> QED
        BY <2>1, <2>2, <2>4, <2>5 DEF NullNotAnswered, EndEvents, Elems
<1> QED
    BY <1>3, <1>5, <1>6, <1>7, <1>8, <1>9, <1>10
       DEF Next, CallerNext, WorkerNext, TransportNext, ParseNext, ServerNext

\* The client never reports a good end of a stream with such an event.
THEOREM NullNotAnsweredAlways == Spec => []NullNotAnswered
<1>1. Init => NullNotPassed /\ NullNotAnswered
    BY DEF Init, NullNotPassed, NullNotAnswered, Passed, Elems
<1>2. IInv /\ IInv' /\ NullNotPassed /\ NullNotAnswered /\ [Next]_vars
        => NullNotPassed' /\ NullNotAnswered'
    BY NullStep
<1> QED
    BY Invariance, <1>1, <1>2, PTL DEF Spec

\* Against a cloud whose token events all carry "finish_reason": null, as the repository's
\* own does (streaming.py:49-59), the client never hands out a piece of an answer: what
\* sse_null_finish shows of one instance.
THEOREM NothingDelivered ==
    ASSUME TokenForms = {"null"}
    PROVE  Spec => [](delivered = <<>>)
<1> DEFINE Sent == \A k \in DOMAIN events : events[k] # "token"
<1>1. Init => Sent
    BY DEF Init
<1>2. ASSUME IInv, Sent, [Next]_vars PROVE Sent'
    <2>1. CASE Request
        BY <2>1 DEF Request
    <2>2. CASE ServerNext /\ ~Accept
        <3>1. PICK e \in {"null"} \cup EndEvents : events' = Append(events, e)
            BY <2>2 DEF ServerNext, SendToken, SendStop, SendError, SendDone, Send, EndEvents
        <3>2. events \in Seq(Events)
            BY <1>2 DEF IInv, TypeOK
        <3>3. /\ \A k \in DOMAIN events : events'[k] = events[k]
              /\ DOMAIN events' = DOMAIN events \cup {Len(events) + 1}
              /\ events'[Len(events) + 1] = e
            BY <3>1, <3>2
        <3> QED
            BY <1>2, <3>3 DEF EndEvents
    <2>3. CASE ~Request /\ ~(ServerNext /\ ~Accept)
        <3>1. events' = events
            BY <1>2, <2>3
               DEF Next, CallerNext, WorkerNext, TransportNext, ParseNext, Stop, Joined,
                   CheckHealth, Connect, ConnectFails, HeaderArrives, ReadFindsNothing,
                   ConnectionBreaks, Receive, ReceiverRefuses, ResponseEnds, Failed, Finish,
                   ParseLeftover, ParseStopped, ParseToken, ParseMalformed, ParseNull, ParseEnd,
                   Fail, Accept, vars, serverVars
        <3> QED
            BY <1>2, <3>1
    <2> QED
        BY <2>1, <2>2, <2>3
<1>3. ASSUME IInv, Sent PROVE delivered = <<>>
    <2>1. delivered \in Seq(Nat) /\ \A n \in DOMAIN delivered : FALSE
        BY <1>3 DEF IInv, TypeOK, DeliveredInv, TokensUpTo, Passed
    <2> QED
        BY <2>1
<1> QED
    BY Invariance, <1>1, <1>2, <1>3, PTL DEF Spec
=============================================================================
