--------------------------- MODULE AIStreamProofs ---------------------------
(***************************************************************************)
(* Proofs about AIStream, for any requests, channel size and length of the *)
(* answers: types, that [DONE] is true, and that a suggestion which was    *)
(* not overlapped, cleared or replaced while its answer was read is the    *)
(* beginning of the answer to the text it stands in.                       *)
(***************************************************************************)
EXTENDS AIStream, SequenceTheorems, TLAPS

LEMMA StreamTypeInit == ASSUME StreamInit PROVE StreamTypeOK
<1>1. Len(<< >>) = 0 /\ 0 <= ChanBuf /\ 0 \in 0 .. MaxTokens /\ 0 \in 0 .. MaxEdits
  BY StreamAssumption
<1>2. << >> \in Seq(Result) /\ << >> \in Seq(Event) /\ << >> \in Seq(Requests \X (1 .. MaxTokens))
  OBVIOUS
<1> QED BY <1>1, <1>2 DEF StreamInit, StreamTypeOK, Flaw

\* Every step of a request's goroutine and its handler keeps the types.
LEMMA ServerTypeNext ==
    ASSUME StreamTypeOK, NEW r \in Requests, Answering(r) \/ Timeout(r) \/ handleComplete(r)
    PROVE  StreamTypeOK'
<1> USE StreamAssumption DEF StreamTypeOK
<1>1. CASE MakeToken(r) /\ Answering(r)
  BY SMTT(30), <1>1 DEF MakeToken, LLMGoes, Answering, tabVars
<1>2. ASSUME Answering(r), NEW x \in Result, Space(r), chan' = [chan EXCEPT ![r] = Append(@, x)]
      PROVE  chan' \in [Requests -> Seq(Result)] /\ \A q \in Requests : Len(chan'[q]) <= ChanBuf
  <2>1. Append(chan[r], x) \in Seq(Result) /\ Len(Append(chan[r], x)) = Len(chan[r]) + 1
    OBVIOUS
  <2>2. Len(chan[r]) + 1 <= ChanBuf
    BY <1>2 DEF Space
  <2> QED BY <1>2, <2>1, <2>2
<1>3. CASE SendToken(r) /\ Answering(r)
  <2>1. made[r] \in Result
    BY DEF Result
  <2> QED BY <1>2, <1>3, <2>1 DEF SendToken, LLMGoes, Answering, tabVars
<1>4. CASE (Complete(r) \/ Fail(r) \/ ReportError(r)) /\ Answering(r)
  BY <1>4 DEF Complete, Fail, ReportError, LLMGoes, Answering, tabVars
<1>5. CASE SendError(r) /\ Answering(r)
  <2>1. Error \in Result
    BY DEF Error, Result
  <2> QED BY <1>2, <1>5, <2>1 DEF SendError, LLMGoes, Answering, tabVars
<1>6. CASE Timeout(r)
  BY <1>6 DEF Timeout, tabVars
<1>7. ASSUME NEW e \in Event, Write(r, e) PROVE wire' \in [Requests -> Seq(Event)]
  <2>1. Append(wire[r], e) \in Seq(Event)
    OBVIOUS
  <2> QED BY <1>7, <2>1 DEF Write
<1>8. CASE Relay(r) /\ handleComplete(r)
  <2>1. Head(chan[r]) \in Result /\ Tail(chan[r]) \in Seq(Result)
        /\ Len(Tail(chan[r])) <= Len(chan[r])
    BY <1>8, HeadTailProperties DEF Relay
  <2>2. Head(chan[r]) \in Event
    BY <2>1 DEF Event
  <2>3. wire' \in [Requests -> Seq(Event)]
    BY <1>7, <1>8, <2>2 DEF Relay
  <2>4. chan' \in [Requests -> Seq(Result)] /\ \A q \in Requests : Len(chan'[q]) <= ChanBuf
    <3>1. chan' = [chan EXCEPT ![r] = Tail(chan[r])]
      BY <1>8 DEF Relay
    <3>2. Len(Tail(chan[r])) <= ChanBuf
      BY <2>1
    <3> QED BY <2>1, <3>1, <3>2
  <2> QED BY ZenonT(40), <1>8, <2>3, <2>4 DEF Relay, Return, handleComplete, tabVars
<1>9. CASE Finish(r) /\ handleComplete(r)
  <2>1. DONE \in Event
    BY DEF Event
  <2> QED BY <1>7, <1>9, <2>1 DEF Finish, Return, handleComplete, tabVars
<1>10. CASE Abort(r) /\ handleComplete(r)
  BY <1>10 DEF Abort, Return, handleComplete, tabVars
<1> QED BY <1>1, <1>3, <1>4, <1>5, <1>6, <1>8, <1>9, <1>10 DEF Answering, handleComplete

\* The callbacks of the tab that only touch its text and its suggestion.
Typing == Type \/ RemoteEdit \/ FullSync \/ DontAsk \/ acceptSuggestion \/ Dismiss

\* Every callback of the tab keeps the types as well.
LEMMA TabTypeNext ==
    ASSUME StreamTypeOK,
           \/ \E r \in Requests : requestAICompletion(r) \/ Reading(r) \/ Lose(r)
           \/ Typing
    PROVE  StreamTypeOK'
<1> USE StreamAssumption DEF StreamTypeOK
<1>0. << >> \in Seq(Requests \X (1 .. MaxTokens)) /\ << >> \in Seq(Event)
  OBVIOUS
<1>1. CASE Typing
  <2>1. Changes => edits' \in 0 .. MaxEdits
    BY DEF Changes
  <2>2. CASE Type
    BY <1>0, <2>1, <2>2 DEF Type, clearSuggestion, Flaw, serverVars
  <2>3. CASE RemoteEdit \/ FullSync
    BY <1>0, <2>1, <2>3 DEF RemoteEdit, FullSync, clearSuggestion, Flaw, serverVars
  <2>4. CASE acceptSuggestion
    BY <1>0, <2>1, <2>4 DEF acceptSuggestion, clearSuggestion, Flaw, serverVars
  <2>5. CASE Dismiss \/ DontAsk
    BY <1>0, <2>5 DEF Dismiss, DontAsk, clearSuggestion, Flaw, serverVars
  <2> QED BY <1>1, <2>2, <2>3, <2>4, <2>5 DEF Typing
<1>2. ASSUME NEW r \in Requests, requestAICompletion(r) PROVE StreamTypeOK'
  BY <1>2 DEF requestAICompletion
<1>3. ASSUME NEW r \in Requests, StartRead(r) PROVE StreamTypeOK'
  BY <1>0, <1>3 DEF StartRead, NoSuggestion, FirstFlaw, Flaw, serverVars
<1>4. ASSUME NEW r \in Requests, ReadEvent(r) PROVE StreamTypeOK'
  <2> DEFINE e == Head(wire[r])
  <2>1. e \in Event /\ Tail(wire[r]) \in Seq(Event)
    BY <1>4, HeadTailProperties DEF ReadEvent
  <2>2. wire' \in [Requests -> Seq(Event)]
    BY <1>4, <2>1 DEF ReadEvent
  <2>3. suggestion' \in Seq(Requests \X (1 .. MaxTokens))
    <3>1. CASE e > 0
      <4>1. e \in 1 .. MaxTokens
        BY <2>1, <3>1 DEF Event, Result, DONE
      <4>2. Append(suggestion, <<r, e>>) \in Seq(Requests \X (1 .. MaxTokens))
        BY <4>1
      <4> QED BY <1>4, <3>1, <4>2 DEF ReadEvent
    <3>2. CASE ~(e > 0)
      BY <1>4, <3>2 DEF ReadEvent
    <3> QED BY <3>1, <3>2
  <2> QED BY <1>4, <2>2, <2>3 DEF ReadEvent, serverVars
<1>5. ASSUME NEW r \in Requests, ReadEnd(r) PROVE StreamTypeOK'
  BY <1>5 DEF ReadEnd, serverVars, tabVars
<1>6. ASSUME NEW r \in Requests, Lose(r) PROVE StreamTypeOK'
  BY <1>0, <1>6 DEF Lose, tabVars
<1> QED BY <1>1, <1>2, <1>3, <1>4, <1>5, <1>6 DEF Reading

LEMMA StreamTypeNext == ASSUME StreamTypeOK, [StreamNext]_streamVars PROVE StreamTypeOK'
<1>1. CASE UNCHANGED streamVars
  BY <1>1 DEF streamVars, serverVars, tabVars, StreamTypeOK
<1> QED BY <1>1, ServerTypeNext, TabTypeNext DEF StreamNext, Typing

\* The types of both ends of every request.
THEOREM StreamTypeCorrect == StreamSpec => []StreamTypeOK
BY StreamTypeInit, StreamTypeNext, PTL DEF StreamSpec

-----------------------------------------------------------------------------
(***************************************************************************)
(* [DONE].  As long as the tab reads, an answer that was not completed     *)
(* leaves an error behind, unless the time has passed; and [DONE] is only  *)
(* written to a channel that is empty.                                     *)
(***************************************************************************)

Holds(s, e) == \E i \in 1 .. Len(s) : s[i] = e

ErrorWaits(r) ==
    llm[r] = "ended" /\ Serving(r) /\ Open(r) =>
        ctx[r] = "timeout" \/ Holds(chan[r], Error)

ToldDone(r) ==
    Holds(wire[r], DONE) \/ reader[r] = "done" =>
        /\ llm[r] = "complete" \/ (llm[r] = "ended" /\ ctx[r] = "timeout")
        /\ handler[r] = "returned"

LostIsClosed(r) == Serving(r) /\ ctx[r] = "canceled" => ~Open(r)

NotAsked(r) ==
    reader[r] = "idle" =>
        handler[r] = "idle" /\ llm[r] = "idle" /\ ctx[r] = "live" /\ wire[r] = << >>

DoneInv == \A r \in Requests : ErrorWaits(r) /\ ToldDone(r) /\ LostIsClosed(r) /\ NotAsked(r)

LEMMA DoneInit == ASSUME StreamInit PROVE DoneInv
BY DEF StreamInit, DoneInv, ErrorWaits, ToldDone, LostIsClosed, NotAsked, Holds, Serving, Open

\* A sequence with an element more, or without its first one.
LEMMA HoldsAppend ==
    ASSUME NEW S, NEW s \in Seq(S), NEW x \in S, NEW e
    PROVE  Holds(Append(s, x), e) <=> Holds(s, e) \/ x = e
<1>1. /\ Append(s, x) \in Seq(S) /\ Len(Append(s, x)) = Len(s) + 1
      /\ \A i \in 1 .. Len(s) : Append(s, x)[i] = s[i]
      /\ Append(s, x)[Len(s) + 1] = x
  OBVIOUS
<1> QED BY <1>1 DEF Holds

LEMMA HoldsTail ==
    ASSUME NEW S, NEW s \in Seq(S), s # << >>, NEW e
    PROVE  Holds(s, e) <=> Holds(Tail(s), e) \/ Head(s) = e
<1>1. /\ Len(s) \in Nat \ {0} /\ Head(s) = s[1] /\ Len(Tail(s)) = Len(s) - 1
      /\ \A i \in 1 .. Len(s) - 1 : Tail(s)[i] = s[i + 1]
  OBVIOUS
<1>2. ASSUME Holds(s, e) PROVE Holds(Tail(s), e) \/ Head(s) = e
  <2>1. PICK i \in 1 .. Len(s) : s[i] = e
    BY <1>2 DEF Holds
  <2>2. CASE i > 1
    <3>1. i - 1 \in 1 .. Len(s) - 1 /\ Tail(s)[i - 1] = e
      BY <1>1, <2>1, <2>2
    <3> QED BY <1>1, <3>1 DEF Holds
  <2> QED BY <1>1, <2>1, <2>2
<1>3. ASSUME Holds(Tail(s), e) \/ Head(s) = e PROVE Holds(s, e)
  <2>1. CASE Head(s) = e
    BY <1>1, <2>1 DEF Holds
  <2>2. CASE Holds(Tail(s), e)
    <3>1. PICK i \in 1 .. Len(s) - 1 : Tail(s)[i] = e
      BY <1>1, <2>2 DEF Holds
    <3>2. i + 1 \in 1 .. Len(s) /\ s[i + 1] = e
      BY <1>1, <3>1
    <3> QED BY <3>2 DEF Holds
  <2> QED BY <1>3, <2>1, <2>2
<1> QED BY <1>2, <1>3

\* What becomes of the other requests.
LEMMA OthersStay ==
    ASSUME DoneInv, NEW q \in Requests,
           llm'[q] = llm[q], ctx'[q] = ctx[q], handler'[q] = handler[q], reader'[q] = reader[q],
           wire'[q] = wire[q], chan'[q] = chan[q]
    PROVE  (ErrorWaits(q) /\ ToldDone(q) /\ LostIsClosed(q) /\ NotAsked(q))'
BY DEF DoneInv, ErrorWaits, ToldDone, LostIsClosed, NotAsked, Holds, Serving, Open

LEMMA AnsweringKeepsDone ==
    ASSUME StreamTypeOK, DoneInv, NEW r \in Requests, Answering(r) PROVE DoneInv'
<1>1. UNCHANGED <<ctx, handler, wire, reader>>
  BY DEF Answering
<1>2. \A q \in Requests \ {r} : llm'[q] = llm[q] /\ chan'[q] = chan[q]
  BY DEF Answering, MakeToken, SendToken, Complete, Fail, ReportError, SendError, LLMGoes, StreamTypeOK
<1>3. /\ llm[r] \notin {"idle", "complete", "ended"}
      /\ llm'[r] = "ended" => ctx[r] # "live" \/ Holds(chan'[r], Error)
  <2>1. ASSUME chan' = [chan EXCEPT ![r] = Append(@, Error)] PROVE Holds(chan'[r], Error)
    <3>1. chan[r] \in Seq(Result) /\ Error \in Result /\ chan'[r] = Append(chan[r], Error)
      BY <2>1, StreamAssumption DEF StreamTypeOK, Error, Result
    <3> QED BY <3>1, HoldsAppend
  <2>2. CASE SendError(r)
    BY <2>1, <2>2 DEF SendError, LLMGoes, Over, StreamTypeOK
  <2>3. CASE ReportError(r)
    BY <2>3 DEF ReportError, LLMGoes, Over, StreamTypeOK
  <2>4. CASE MakeToken(r) \/ SendToken(r) \/ Complete(r) \/ Fail(r)
    BY <2>4 DEF MakeToken, SendToken, Complete, Fail, LLMGoes, StreamTypeOK
  <2> QED BY <2>2, <2>3, <2>4 DEF Answering
<1>4. ErrorWaits(r)'
  BY <1>1, <1>3 DEF DoneInv, LostIsClosed, ErrorWaits, Serving, Open, StreamTypeOK
<1>5. (ToldDone(r) /\ LostIsClosed(r) /\ NotAsked(r))'
  BY <1>1, <1>3 DEF DoneInv, ToldDone, LostIsClosed, NotAsked, Serving, Open, Holds
<1> QED BY <1>1, <1>2, <1>4, <1>5, OthersStay DEF DoneInv

LEMMA TimeoutKeepsDone ==
    ASSUME StreamTypeOK, DoneInv, NEW r \in Requests, Timeout(r) PROVE DoneInv'
<1>1. UNCHANGED <<llm, chan, handler, wire, reader>> /\ ctx'[r] = "timeout"
      /\ llm[r] \notin {"idle", "complete", "ended"}
      /\ \A q \in Requests \ {r} : ctx'[q] = ctx[q]
  BY DEF Timeout, Closed, StreamTypeOK
<1>2. (ErrorWaits(r) /\ ToldDone(r) /\ LostIsClosed(r) /\ NotAsked(r))'
  BY <1>1 DEF DoneInv, ErrorWaits, ToldDone, LostIsClosed, NotAsked, Serving, Open, Holds
<1> QED BY <1>1, <1>2, OthersStay DEF DoneInv

LEMMA HandlerKeepsDone ==
    ASSUME StreamTypeOK, DoneInv, NEW r \in Requests, handleComplete(r) PROVE DoneInv'
<1>1. UNCHANGED <<llm, reader>> /\ Serving(r)
      /\ \A q \in Requests \ {r} :
            /\ chan'[q] = chan[q] /\ wire'[q] = wire[q]
            /\ handler'[q] = handler[q] /\ ctx'[q] = ctx[q]
  BY DEF handleComplete, Relay, Finish, Abort, Write, Return, StreamTypeOK
<1>2. chan[r] \in Seq(Result) /\ wire[r] \in Seq(Event) /\ handler[r] = "serving" /\ reader[r] # "idle"
  BY <1>1 DEF StreamTypeOK, DoneInv, NotAsked, Serving
<1>3. ~Holds(wire[r], DONE) /\ reader[r] # "done"
  BY <1>2 DEF DoneInv, ToldDone
<1>4. CASE Relay(r)
  <2>1. Head(chan[r]) \in Result /\ Head(chan[r]) # DONE /\ Head(chan[r]) \in Event
    <3>1. chan[r] # << >>
      BY <1>4 DEF Relay
    <3>2. Head(chan[r]) \in Result
      BY <1>2, <3>1, HeadTailProperties
    <3> QED BY <3>2, StreamAssumption DEF Result, DONE, Event
  <2>2. ~Holds(wire'[r], DONE)
    <3>1. ~Holds(Append(wire[r], Head(chan[r])), DONE)
      BY <1>2, <1>3, <2>1, HoldsAppend
    <3> QED BY <1>2, <1>3, <1>4, <3>1 DEF Relay, Write, StreamTypeOK
  <2>3. chan'[r] = Tail(chan[r])
    BY <1>4 DEF Relay, StreamTypeOK
  <2>4. Holds(chan[r], Error) => Holds(chan'[r], Error) \/ Head(chan[r]) = Error
    BY <1>2, <1>4, <2>3, HoldsTail DEF Relay
  <2>5. CASE Head(chan[r]) = Error
    <3>1. handler'[r] = "returned" /\ ctx'[r] # "live"
      BY <1>4, <2>5 DEF Relay, Return, Over, StreamTypeOK
    <3> QED BY <1>1, <1>2, <1>3, <2>2, <3>1, OthersStay
            DEF DoneInv, ErrorWaits, ToldDone, LostIsClosed, NotAsked, Serving, Open
  <2>6. CASE Head(chan[r]) # Error
    <3>1. UNCHANGED <<handler, ctx>>
      BY <1>4, <2>6 DEF Relay
    <3> QED BY <1>1, <1>2, <1>3, <2>2, <2>4, <2>6, <3>1, OthersStay
            DEF DoneInv, ErrorWaits, ToldDone, LostIsClosed, NotAsked, Serving, Open
  <2> QED BY <2>5, <2>6
<1>5. CASE Finish(r)
  <2>1. handler'[r] = "returned" /\ (ctx[r] = "timeout" => ctx'[r] = "timeout")
    BY <1>5 DEF Finish, Return, Over, StreamTypeOK
  <2>2. llm[r] \in {"complete", "ended"} /\ ~Holds(chan[r], Error)
    BY <1>5 DEF Finish, Drained, Closed, Holds
  <2>3. ASSUME Holds(wire'[r], DONE)
        PROVE  llm[r] = "complete" \/ (llm[r] = "ended" /\ ctx'[r] = "timeout")
    <3>1. Open(r)
      BY <1>3, <1>5, <2>3 DEF Finish, Write
    <3> QED BY <1>1, <2>1, <2>2, <3>1 DEF DoneInv, ErrorWaits
  <2> QED BY <1>1, <1>2, <1>3, <2>1, <2>3, OthersStay
          DEF DoneInv, ErrorWaits, ToldDone, LostIsClosed, NotAsked, Serving
<1>6. CASE Abort(r)
  <2>1. handler'[r] = "returned" /\ wire' = wire
    BY <1>6 DEF Abort, Return, StreamTypeOK
  <2> QED BY <1>1, <1>2, <1>3, <2>1, OthersStay
          DEF DoneInv, ErrorWaits, ToldDone, LostIsClosed, NotAsked, Serving
<1> QED BY <1>4, <1>5, <1>6 DEF handleComplete

LEMMA ReadingKeepsDone ==
    ASSUME StreamTypeOK, DoneInv, NEW r \in Requests,
           requestAICompletion(r) \/ Reading(r) \/ Lose(r)
    PROVE  DoneInv'
<1>0. chan' = chan /\ \A q \in Requests \ {r} :
         /\ wire'[q] = wire[q] /\ reader'[q] = reader[q] /\ llm'[q] = llm[q]
         /\ handler'[q] = handler[q] /\ ctx'[q] = ctx[q]
  BY DEF requestAICompletion, Reading, StartRead, ReadEvent, ReadEnd, Lose, serverVars, StreamTypeOK
<1> SUFFICES (ErrorWaits(r) /\ ToldDone(r) /\ LostIsClosed(r) /\ NotAsked(r))'
  BY <1>0, OthersStay DEF DoneInv
<1>1. CASE requestAICompletion(r)
  BY <1>1 DEF requestAICompletion, StreamTypeOK, DoneInv, ErrorWaits, ToldDone, LostIsClosed,
       NotAsked, Serving, Open, Holds
<1>2. CASE StartRead(r)
  BY <1>2 DEF StartRead, serverVars, StreamTypeOK, DoneInv, ErrorWaits, ToldDone, LostIsClosed,
       NotAsked, Serving, Open, Holds
<1>3. CASE ReadEvent(r)
  <2>1. UNCHANGED <<llm, ctx, handler>>
    BY <1>3 DEF ReadEvent, serverVars
  <2>2. wire[r] \in Seq(Event) /\ wire[r] # << >> /\ wire'[r] = Tail(wire[r])
        /\ reader[r] = "reading" /\ reader'[r] \in {"reading", "done"}
        /\ (reader'[r] = "done" => Head(wire[r]) = DONE)
    BY <1>3 DEF ReadEvent, StreamTypeOK
  <2>3. Holds(wire'[r], DONE) \/ reader'[r] = "done" => Holds(wire[r], DONE)
    BY <2>2, HoldsTail
  <2> QED BY <1>0, <2>1, <2>2, <2>3 DEF DoneInv, ErrorWaits, ToldDone, LostIsClosed, NotAsked, Serving, Open
<1>4. CASE ReadEnd(r)
  BY <1>4 DEF ReadEnd, serverVars, StreamTypeOK, DoneInv, ErrorWaits, ToldDone, LostIsClosed,
       NotAsked, Serving, Open, Holds
<1>5. CASE Lose(r)
  BY <1>5 DEF Lose, StreamTypeOK, DoneInv, ErrorWaits, ToldDone, LostIsClosed,
       NotAsked, Serving, Open, Holds
<1> QED BY <1>1, <1>2, <1>3, <1>4, <1>5 DEF Reading

LEMMA DoneNext == ASSUME StreamTypeOK, DoneInv, [StreamNext]_streamVars PROVE DoneInv'
<1>1. ASSUME UNCHANGED <<serverVars, wire, reader>> PROVE DoneInv'
  BY <1>1, OthersStay DEF serverVars, DoneInv
<1>2. CASE Typing
  BY <1>1, <1>2 DEF Typing, Type, RemoteEdit, FullSync, DontAsk, acceptSuggestion, Dismiss
<1>3. CASE UNCHANGED streamVars
  BY <1>1, <1>3 DEF streamVars
<1> QED BY <1>2, <1>3, AnsweringKeepsDone, TimeoutKeepsDone, HandlerKeepsDone, ReadingKeepsDone
        DEF StreamNext, Typing

\* A tab that was told [DONE] has got the end of an answer that the model had
\* completed, unless the 15 s of StreamComplete had passed.
THEOREM DoneIsAlwaysTrue == StreamSpec => []DoneIsTrue
<1>1. DoneInv => DoneIsTrue
  BY DEF DoneInv, ToldDone, DoneIsTrue
<1>2. StreamSpec => []DoneInv
  <2>1. StreamInit => DoneInv
    BY DoneInit
  <2>2. StreamTypeOK /\ DoneInv /\ [StreamNext]_streamVars => DoneInv'
    BY DoneNext
  <2> QED BY <2>1, <2>2, StreamTypeCorrect, PTL DEF StreamSpec
<1> QED BY <1>1, <1>2, PTL

-----------------------------------------------------------------------------
(***************************************************************************)
(* The suggestion.  What the tab has read of an answer, what is on its way *)
(* and what is in the channel are the numbers of its tokens, without a gap *)
(* and up to the last one made, as long as the tab and the handler are     *)
(* there to read them; and while flaw is "none", at most one answer is     *)
(* read: the one whose cursor is kept, in the text it was asked for.       *)
(***************************************************************************)

\* s is the tokens that come after the first n, or ends with one of ends.
Counts(s, n, ends) ==
    \A i \in 1 .. Len(s) : s[i] = n + i \/ (i = Len(s) /\ s[i] \in ends)

\* The tab has read the first n tokens of the answer to r.
InLine(r, n) ==
    /\ reader[r] = "waiting" => n = 0
    /\ reader[r] = "reading" /\ flaw = "none" => n = Len(suggestion)
    /\ Counts(wire[r], n, IF Serving(r) THEN {} ELSE {Error, DONE})
    /\ Holds(wire[r], DONE) => ctx[r] = "timeout" \/ made[r] = n + Len(wire[r]) - 1
    /\ Serving(r) =>
        /\ Counts(chan[r], n + Len(wire[r]), IF llm[r] = "ended" THEN {Error} ELSE {})
        /\ llm[r] \in {"asking", "complete"} => made[r] = n + Len(wire[r]) + Len(chan[r])
        /\ llm[r] = "sending" => made[r] = n + Len(wire[r]) + Len(chan[r]) + 1

Queued(r) == Open(r) => \E n \in 0 .. MaxTokens : InLine(r, n)

\* Nothing was made for a request that was not sent.
Unasked(r) == reader[r] = "idle" => made[r] = 0 /\ chan[r] = << >>

\* The answer that is read is the one that was asked for here, and the only one.
Lonely(r) ==
    flaw = "none" /\ reader[r] = "reading" =>
        pos = r /\ edits = asked[r] /\ \A q \in Requests \ {r} : ~Open(q)

\* What is shown is the beginning of the answer to r, which was asked for here.
Answers(r) == pos = r /\ edits = asked[r] /\ \A i \in DOMAIN suggestion : suggestion[i] = <<r, i>>

Stands == flaw = "none" /\ suggestion # << >> => \E r \in Requests : Answers(r)

Whole(r) ==
    flaw = "none" /\ pos = r /\ reader[r] = "done" /\ ctx[r] # "timeout" =>
        Len(suggestion) = made[r]

\* Only typing starts the timer, which leaves no cursor to be moved.
DueInv == due => pos = None

LineInv == \A r \in Requests : Queued(r) /\ Unasked(r)
ShownInv == DueInv /\ Stands /\ \A r \in Requests : Lonely(r) /\ Whole(r)

LEMMA ShownInit == ASSUME StreamInit PROVE LineInv /\ ShownInv
BY DEF StreamInit, LineInv, ShownInv, Queued, Open, Unasked, DueInv, Stands, Lonely, Whole

\* The next token, or an end, behind what counts.
LEMMA CountsAppend ==
    ASSUME NEW S, NEW s \in Seq(S), NEW n \in Nat, NEW x \in S, NEW ends,
           Counts(s, n, {}), x = n + Len(s) + 1 \/ x \in ends
    PROVE  Counts(Append(s, x), n, ends)
<1>1. /\ Len(Append(s, x)) = Len(s) + 1 /\ Len(s) \in Nat
      /\ \A i \in 1 .. Len(s) : Append(s, x)[i] = s[i]
      /\ Append(s, x)[Len(s) + 1] = x
  OBVIOUS
<1> QED BY <1>1 DEF Counts

\* The first element of what counts is the next token, or the end.
LEMMA CountsTail ==
    ASSUME NEW S, NEW s \in Seq(S), s # << >>, NEW n \in Nat, NEW ends, Counts(s, n, ends)
    PROVE  /\ Len(Tail(s)) = Len(s) - 1
           /\ \/ Head(s) = n + 1
              \/ Head(s) \in ends /\ Len(s) = 1
           /\ Counts(Tail(s), n + 1, ends)
<1>1. /\ Len(s) \in Nat \ {0} /\ Head(s) = s[1] /\ Len(Tail(s)) = Len(s) - 1
      /\ \A i \in 1 .. Len(s) - 1 : Tail(s)[i] = s[i + 1]
  OBVIOUS
<1>2. Head(s) = n + 1 \/ (Head(s) \in ends /\ Len(s) = 1)
  <2>1. 1 \in 1 .. Len(s)
    BY <1>1
  <2>2. s[1] = n + 1 \/ (1 = Len(s) /\ s[1] \in ends)
    BY <2>1 DEF Counts
  <2> QED BY <1>1, <2>2
<1>3. ASSUME NEW i \in 1 .. Len(s) - 1
      PROVE  Tail(s)[i] = (n + 1) + i \/ (i = Len(s) - 1 /\ Tail(s)[i] \in ends)
  <2>1. i + 1 \in 1 .. Len(s) /\ Tail(s)[i] = s[i + 1]
    BY <1>1
  <2>2. s[i + 1] = n + (i + 1) \/ (i + 1 = Len(s) /\ s[i + 1] \in ends)
    BY <2>1 DEF Counts
  <2>3. n + (i + 1) = (n + 1) + i /\ (i + 1 = Len(s) => i = Len(s) - 1)
    <3>1. Len(s) \in Nat /\ i \in Nat
      OBVIOUS
    <3> QED BY <3>1
  <2> QED BY <2>1, <2>2, <2>3, Zenon
<1> QED BY <1>1, <1>2, <1>3 DEF Counts

\* Tokens alone do not hold the end.
LEMMA CountsNoEnd ==
    ASSUME NEW S, NEW s \in Seq(S), NEW n \in Nat, Counts(s, n, {})
    PROVE  ~Holds(s, DONE)
BY DEF Counts, Holds, DONE

\* What becomes of the line of a request that is not touched.
LEMMA QueuedStays ==
    ASSUME LineInv, NEW q \in Requests,
           llm'[q] = llm[q], ctx'[q] = ctx[q], handler'[q] = handler[q], reader'[q] = reader[q],
           wire'[q] = wire[q], chan'[q] = chan[q], made'[q] = made[q],
           reader[q] = "reading" /\ flaw' = "none" => flaw = "none" /\ suggestion' = suggestion
    PROVE  Queued(q)'
<1>1. ASSUME NEW n, InLine(q, n) PROVE InLine(q, n)'
  BY <1>1 DEF InLine, Serving, Holds, Counts
<1> QED BY <1>1 DEF LineInv, Queued, Open

\* The goroutine adds the tokens it makes to the line.
LEMMA AnsweringKeepsLine ==
    ASSUME StreamTypeOK, DoneInv, LineInv, NEW r \in Requests, Answering(r)
    PROVE  LineInv'
<1>1. UNCHANGED <<ctx, handler, wire, reader, edits, asked, pos, suggestion, flaw>>
  BY DEF Answering, tabVars
<1>2. \A q \in Requests \ {r} : llm'[q] = llm[q] /\ chan'[q] = chan[q] /\ made'[q] = made[q]
  BY DEF Answering, MakeToken, SendToken, Complete, Fail, ReportError, SendError, LLMGoes, StreamTypeOK
<1>3. llm[r] \notin {"idle", "complete", "ended"}
  BY DEF Answering, MakeToken, SendToken, Complete, Fail, ReportError, SendError, LLMGoes
<1>4. ASSUME NEW q \in Requests PROVE Unasked(q)'
  BY <1>1, <1>2, <1>3 DEF LineInv, Unasked, DoneInv, NotAsked
<1>5. ASSUME Open(r), NEW n \in 0 .. MaxTokens, InLine(r, n) PROVE InLine(r, n)'
  <2>1. n \in Nat /\ Len(wire[r]) \in Nat /\ Len(chan[r]) \in Nat /\ made[r] \in Nat
        /\ chan[r] \in Seq(Result) /\ made[r] \in Result
    BY StreamAssumption DEF StreamTypeOK, Result
  <2>2. ~Holds(wire[r], DONE)
    BY <1>3 DEF DoneInv, ToldDone
  <2>3. ASSUME Serving(r)
        PROVE  /\ Counts(chan'[r], n + Len(wire[r]), IF llm'[r] = "ended" THEN {Error} ELSE {})
               /\ llm'[r] \in {"asking", "complete"} =>
                     made'[r] = n + Len(wire[r]) + Len(chan'[r])
               /\ llm'[r] = "sending" => made'[r] = n + Len(wire[r]) + Len(chan'[r]) + 1
    <3>0. Counts(chan[r], n + Len(wire[r]), {}) /\ n + Len(wire[r]) \in Nat
      BY <1>3, <1>5, <2>1, <2>3 DEF InLine
    <3>1. CASE MakeToken(r)
      BY <1>5, <2>1, <2>3, <3>0, <3>1 DEF InLine, MakeToken, LLMGoes, StreamTypeOK
    <3>2. CASE SendToken(r)
      <4>1. CASE chan' = [chan EXCEPT ![r] = Append(@, made[r])] /\ LLMGoes(r, "sending", "asking")
        <5>1. made[r] = (n + Len(wire[r])) + Len(chan[r]) + 1 /\ made'[r] = made[r]
              /\ llm'[r] = "asking" /\ chan'[r] = Append(chan[r], made[r])
          BY <1>5, <2>1, <2>3, <3>2, <4>1 DEF InLine, LLMGoes, SendToken, StreamTypeOK
        <5>2. Counts(Append(chan[r], made[r]), n + Len(wire[r]), {})
          BY <2>1, <3>0, <5>1, CountsAppend
        <5>3. Len(chan'[r]) = Len(chan[r]) + 1
          BY <2>1, <5>1
        <5>4. made'[r] = n + Len(wire[r]) + Len(chan'[r])
          <6>1. \A a, b, d \in Nat : a + b + (d + 1) = (a + b) + d + 1
            OBVIOUS
          <6>2. n + Len(wire[r]) + (Len(chan[r]) + 1) = (n + Len(wire[r])) + Len(chan[r]) + 1
            BY <2>1, <6>1
          <6>3. made'[r] = (n + Len(wire[r])) + Len(chan[r]) + 1
            BY <5>1
          <6> QED BY <5>3, <6>2, <6>3
        <5>5. Counts(chan'[r], n + Len(wire[r]), IF llm'[r] = "ended" THEN {Error} ELSE {})
          BY <5>1, <5>2
        <5> QED BY <5>1, <5>4, <5>5
      <4>2. CASE LLMGoes(r, "sending", "failed") /\ UNCHANGED chan
        BY <3>0, <4>2 DEF LLMGoes, StreamTypeOK
      <4> QED BY <3>2, <4>1, <4>2 DEF SendToken
    <3>3. CASE Complete(r) \/ Fail(r)
      BY <1>5, <2>3, <3>0, <3>3 DEF InLine, Complete, Fail, LLMGoes, StreamTypeOK
    <3>4. CASE ReportError(r)
      BY <3>0, <3>4 DEF ReportError, LLMGoes, StreamTypeOK, Counts
    <3>5. CASE SendError(r)
      <4>1. llm'[r] = "ended"
        BY <3>5 DEF SendError, LLMGoes, StreamTypeOK
      <4>2. CASE UNCHANGED chan
        BY <3>0, <4>1, <4>2 DEF Counts
      <4>3. CASE chan' = [chan EXCEPT ![r] = Append(@, Error)]
        <5>1. chan'[r] = Append(chan[r], Error) /\ Error \in Result
          BY <4>3, StreamAssumption DEF StreamTypeOK, Error, Result
        <5>2. Counts(Append(chan[r], Error), n + Len(wire[r]), {Error})
          BY <2>1, <3>0, <5>1, CountsAppend
        <5> QED BY <4>1, <5>1, <5>2
      <4> QED BY <3>5, <4>2, <4>3 DEF SendError
    <3> QED BY <3>1, <3>2, <3>3, <3>4, <3>5 DEF Answering
  <2> QED BY <1>1, <1>5, <2>2, <2>3 DEF InLine, Serving, Holds, Counts
<1>6. ASSUME NEW q \in Requests PROVE Queued(q)'
  <2>1. CASE q = r
    BY <1>1, <1>5, <2>1 DEF LineInv, Queued, Open
  <2>2. CASE q # r
    BY <1>1, <1>2, <2>2, QueuedStays
  <2> QED BY <2>1, <2>2
<1> QED BY <1>4, <1>6 DEF LineInv

\* A timeout is what [DONE] may hide.
LEMMA TimeoutKeepsLine ==
    ASSUME StreamTypeOK, LineInv, NEW r \in Requests, Timeout(r)
    PROVE  LineInv'
<1>1. /\ UNCHANGED <<llm, made, chan, handler, wire, reader, edits, asked, pos, suggestion, flaw>>
      /\ ctx'[r] = "timeout" /\ \A q \in Requests \ {r} : ctx'[q] = ctx[q]
  BY DEF Timeout, tabVars, StreamTypeOK
<1>2. ASSUME NEW n, InLine(r, n) PROVE InLine(r, n)'
  BY <1>1, <1>2 DEF InLine, Serving, Counts, Holds
<1>3. Queued(r)'
  BY <1>1, <1>2 DEF LineInv, Queued, Open
<1>4. ASSUME NEW q \in Requests, q # r PROVE Queued(q)'
  BY <1>1, <1>4, QueuedStays
<1>5. ASSUME NEW q \in Requests PROVE Unasked(q)'
  BY <1>1 DEF LineInv, Unasked
<1> QED BY <1>3, <1>4, <1>5 DEF LineInv

\* The handler moves a token from the channel to the wire, or ends what is on
\* the wire with the error of the channel, or with [DONE] when all is there.
LEMMA HandlerKeepsLine ==
    ASSUME StreamTypeOK, DoneInv, LineInv, NEW r \in Requests, handleComplete(r)
    PROVE  LineInv'
<1>1. UNCHANGED <<llm, made, reader, edits, asked, pos, suggestion, flaw>> /\ Serving(r)
      /\ \A q \in Requests \ {r} :
            /\ chan'[q] = chan[q] /\ wire'[q] = wire[q]
            /\ handler'[q] = handler[q] /\ ctx'[q] = ctx[q]
  BY DEF handleComplete, Relay, Finish, Abort, Write, Return, tabVars, StreamTypeOK
<1>2. ASSUME NEW q \in Requests, q # r PROVE Queued(q)'
  BY <1>1, <1>2, QueuedStays
<1>3. ASSUME NEW q \in Requests PROVE Unasked(q)'
  BY <1>1 DEF LineInv, Unasked, DoneInv, NotAsked, Serving
<1>4. ASSUME Open(r), NEW n \in 0 .. MaxTokens, InLine(r, n) PROVE InLine(r, n)'
  <2> DEFINE w == wire[r]
             c == chan[r]
             k == n + Len(w)
             x == Head(c)
             ends == IF llm[r] = "ended" THEN {Error} ELSE {}
  <2>1. /\ n \in Nat /\ w \in Seq(Event) /\ c \in Seq(Result) /\ Len(w) \in Nat /\ Len(c) \in Nat
        /\ k \in Nat /\ made[r] \in Nat
    BY StreamAssumption DEF StreamTypeOK
  <2>2. /\ Counts(w, n, {}) /\ Counts(c, k, ends)
        /\ llm[r] \in {"asking", "complete"} => made[r] = k + Len(c)
        /\ llm[r] = "sending" => made[r] = k + Len(c) + 1
    BY <1>1, <1>4 DEF InLine
  <2>3. ~Holds(w, DONE)
    BY <2>1, <2>2, CountsNoEnd
  <2>4. CASE Relay(r)
    <3>1. c # << >> /\ chan'[r] = Tail(c) /\ wire'[r] = Append(w, x)
      BY <1>4, <2>4 DEF Relay, Write, StreamTypeOK
    <3>2. x \in Result /\ x \in Event
      BY <2>1, <3>1, HeadTailProperties DEF Event
    <3>3. /\ Len(Tail(c)) = Len(c) - 1
          /\ x = k + 1 \/ (x \in ends /\ Len(c) = 1)
          /\ Counts(Tail(c), k + 1, ends)
      <4> HIDE DEF c, k, ends
      <4> QED BY <2>1, <2>2, <3>1, CountsTail DEF x
    <3>4. Len(wire'[r]) = Len(w) + 1
      BY <2>1, <3>1, <3>2
    <3>5. Holds(wire'[r], DONE) <=> x = DONE
      BY <2>1, <2>3, <3>1, <3>2, HoldsAppend
    <3>6. x # DONE
      BY <3>2, StreamAssumption DEF Result, DONE
    <3>7. CASE x = Error
      <4>1. ~Serving(r)' /\ ctx'[r] # "live"
        BY <2>4, <3>7 DEF Relay, Return, Serving, Over, StreamTypeOK
      <4>2. Counts(wire'[r], n, {Error, DONE})
        BY <2>1, <2>2, <3>1, <3>2, <3>7, CountsAppend
      <4> QED BY <1>1, <1>4, <3>5, <3>6, <4>1, <4>2 DEF InLine
    <3>8. CASE x # Error
      <4>1. UNCHANGED <<handler, ctx>> /\ x = n + Len(w) + 1
        BY <2>4, <3>3, <3>8 DEF Relay
      <4>2. Counts(wire'[r], n, {})
        BY <2>1, <2>2, <3>1, <3>2, <4>1, CountsAppend
      <4>3. k + 1 = n + Len(wire'[r]) /\ k + Len(c) = n + Len(wire'[r]) + Len(chan'[r])
        <5>1. \A a, b, d \in Nat : /\ (a + b) + 1 = a + (b + 1)
                                   /\ (a + b) + d = a + (b + 1) + (d - 1)
          OBVIOUS
        <5>2. /\ (n + Len(w)) + 1 = n + (Len(w) + 1)
              /\ (n + Len(w)) + Len(c) = n + (Len(w) + 1) + (Len(c) - 1)
          BY ZenonT(40), <2>1, <5>1
        <5>3. Len(chan'[r]) = Len(c) - 1
          BY <3>1, <3>3
        <5> QED BY <3>4, <5>2, <5>3
      <4> HIDE DEF w, c, k, x
      <4>4. /\ Counts(chan'[r], n + Len(wire'[r]), ends)
            /\ llm[r] \in {"asking", "complete"} => made[r] = n + Len(wire'[r]) + Len(chan'[r])
            /\ llm[r] = "sending" => made[r] = n + Len(wire'[r]) + Len(chan'[r]) + 1
        <5>1. Counts(chan'[r], n + Len(wire'[r]), ends)
          BY <3>1, <3>3, <4>3
        <5> HIDE DEF ends
        <5> QED BY <2>2, <4>3, <5>1
      <4> QED BY <1>1, <1>4, <3>5, <3>6, <4>1, <4>2, <4>4 DEF InLine, Serving
    <3> QED BY <3>7, <3>8
  <2>5. CASE Finish(r)
    <3>1. /\ wire'[r] = Append(w, DONE) /\ ~Serving(r)' /\ c = << >>
          /\ llm[r] \in {"complete", "ended"} /\ DONE \in Event
          /\ ctx[r] = "timeout" => ctx'[r] = "timeout"
      BY <1>4, <2>5 DEF Finish, Write, Return, Drained, Closed, Serving, Over, Event, StreamTypeOK
    <3>2. Counts(wire'[r], n, {Error, DONE})
      BY <2>1, <2>2, <3>1, CountsAppend
    <3>3. Len(wire'[r]) = Len(w) + 1 /\ Len(c) = 0
      BY <2>1, <3>1
    <3>4. CASE llm[r] = "complete"
      <4>1. made[r] = n + Len(wire'[r]) - 1
        BY <2>1, <2>2, <3>3, <3>4
      <4> QED BY <1>1, <1>4, <3>1, <3>2, <4>1 DEF InLine
    <3>5. CASE llm[r] = "ended"
      <4>1. ~Holds(chan[r], Error)
        BY <3>1 DEF Holds
      <4>2. ctx'[r] = "timeout"
        BY <1>1, <1>4, <3>1, <3>5, <4>1 DEF DoneInv, ErrorWaits
      <4> QED BY <1>1, <1>4, <3>1, <3>2, <4>2 DEF InLine
    <3> QED BY <3>1, <3>4, <3>5
  <2>6. CASE Abort(r)
    <3>1. wire' = wire /\ ~Serving(r)'
      BY <2>6 DEF Abort, Return, Serving, StreamTypeOK
    <3>2. Counts(wire'[r], n, {Error, DONE}) /\ ~Holds(wire'[r], DONE)
      BY <2>2, <2>3, <3>1 DEF Counts
    <3> QED BY <1>1, <1>4, <3>1, <3>2 DEF InLine
  <2> QED BY <2>4, <2>5, <2>6 DEF handleComplete
<1>5. Queued(r)'
  BY <1>1, <1>4 DEF LineInv, Queued, Open
<1> QED BY <1>2, <1>3, <1>5 DEF LineInv

\* Goroutine and handler do not touch what is shown; and they make no token of an
\* answer that the tab has read to its [DONE].
LEMMA ServerKeepsShown ==
    ASSUME StreamTypeOK, DoneInv, ShownInv, NEW r \in Requests,
           Answering(r) \/ Timeout(r) \/ handleComplete(r)
    PROVE  ShownInv'
<1>1. UNCHANGED <<reader, edits, asked, due, pos, suggestion, flaw>>
  BY DEF Answering, Timeout, handleComplete, tabVars
<1>2. ASSUME NEW q \in Requests, reader[q] = "done", ctx'[q] # "timeout"
      PROVE  made'[q] = made[q] /\ ctx[q] # "timeout"
  <2>1. llm[q] \in {"complete", "ended"} /\ handler[q] = "returned"
    BY <1>2 DEF DoneInv, ToldDone
  <2>2. CASE Answering(r)
    BY <1>2, <2>1, <2>2 DEF Answering, MakeToken, SendToken, Complete, Fail, ReportError,
       SendError, LLMGoes, StreamTypeOK
  <2>3. CASE Timeout(r)
    BY <1>2, <2>1, <2>3 DEF Timeout, Over, StreamTypeOK
  <2>4. CASE handleComplete(r)
    <3>1. made' = made /\ q # r /\ ctx'[q] = ctx[q]
      BY <2>1, <2>4 DEF handleComplete, Relay, Finish, Abort, Return, Serving, StreamTypeOK
    <3> QED BY <1>2, <3>1
  <2> QED BY <2>2, <2>3, <2>4
<1>3. DueInv' /\ Stands' /\ \A q \in Requests : Lonely(q)'
  BY <1>1 DEF ShownInv, DueInv, Stands, Answers, Lonely, Open
<1>4. ASSUME NEW q \in Requests PROVE Whole(q)'
  BY <1>1, <1>2 DEF ShownInv, Whole
<1> QED BY <1>3, <1>4 DEF ShownInv

\* An answer that is read while the suggestion is cleared, or the text replaced, is
\* flawed from then on; and what is suggested stays only where nothing is flawed.
LEMMA TypingKeepsShown ==
    ASSUME StreamTypeOK, LineInv, ShownInv, Typing
    PROVE  LineInv' /\ ShownInv'
<1>1. UNCHANGED <<serverVars, wire, reader, asked>>
  BY DEF Typing, Type, RemoteEdit, FullSync, DontAsk, acceptSuggestion, Dismiss
<1>2. \/ clearSuggestion
      \/ /\ UNCHANGED <<pos, suggestion>> /\ (due' => due)
         /\ \/ UNCHANGED <<edits, flaw>>
            \/ flaw' = "none" => flaw = "none" /\ ~BeingRead /\ suggestion = << >>
  BY DEF Typing, Type, RemoteEdit, FullSync, DontAsk, acceptSuggestion, Dismiss
<1>3. CASE clearSuggestion
  <2>1. /\ suggestion' = << >> /\ \A q \in Requests : pos' # q
        /\ pos' = None
        /\ flaw' = "none" => ~BeingRead
    BY <1>3, RequestAssumption DEF clearSuggestion
  <2>2. DueInv' /\ Stands'
    BY <2>1 DEF DueInv, Stands
  <2>3. ASSUME NEW q \in Requests PROVE Queued(q)' /\ Lonely(q)' /\ Whole(q)'
    <3>1. Queued(q)'
      BY <1>1, <2>1, QueuedStays DEF serverVars, BeingRead
    <3>2. Lonely(q)' /\ Whole(q)'
      BY <1>1, <2>1 DEF Lonely, Whole, BeingRead
    <3> QED BY <3>1, <3>2
  <2>4. \A q \in Requests : Unasked(q)'
    BY <1>1 DEF LineInv, Unasked, serverVars
  <2> QED BY <2>2, <2>3, <2>4 DEF LineInv, ShownInv
<1>4. CASE /\ UNCHANGED <<pos, suggestion>> /\ (due' => due)
           /\ \/ UNCHANGED <<edits, flaw>>
              \/ flaw' = "none" => flaw = "none" /\ ~BeingRead /\ suggestion = << >>
  <2>1. DueInv' /\ Stands'
    BY <1>1, <1>4 DEF ShownInv, DueInv, Stands, Answers
  <2>2. ASSUME NEW q \in Requests PROVE Queued(q)' /\ Lonely(q)' /\ Whole(q)'
    <3>1. Queued(q)'
      BY <1>1, <1>4, QueuedStays DEF serverVars, BeingRead
    <3>2. Lonely(q)' /\ Whole(q)'
      BY <1>1, <1>4 DEF ShownInv, Lonely, Whole, BeingRead, Open, serverVars
    <3> QED BY <3>1, <3>2
  <2>3. \A q \in Requests : Unasked(q)'
    BY <1>1 DEF LineInv, Unasked, serverVars
  <2> QED BY <2>1, <2>2, <2>3 DEF LineInv, ShownInv
<1> QED BY <1>2, <1>3, <1>4

\* A request starts a line of its own; where nothing is flawed nothing is shown then,
\* or read, since the cursor was cleared when the timer was started.
LEMMA AskKeepsShown ==
    ASSUME StreamTypeOK, DoneInv, LineInv, ShownInv, NEW r \in Requests, requestAICompletion(r)
    PROVE  LineInv' /\ ShownInv'
<1>1. /\ UNCHANGED <<made, ctx, chan, wire, edits, suggestion, flaw>>
      /\ reader[r] = "idle" /\ pos' = r /\ reader'[r] \in {"waiting", "ended"}
      /\ llm'[r] \in {"idle", "asking"} /\ due /\ ~due'
      /\ \A q \in Requests \ {r} : /\ llm'[q] = llm[q] /\ handler'[q] = handler[q]
                                   /\ reader'[q] = reader[q] /\ asked'[q] = asked[q]
  BY DEF requestAICompletion, StreamTypeOK, DoneInv, NotAsked
<1>2. wire[r] = << >> /\ made[r] = 0 /\ chan[r] = << >>
  BY <1>1 DEF DoneInv, NotAsked, LineInv, Unasked
<1>3. InLine(r, 0)'
  BY <1>1, <1>2 DEF InLine, Counts, Holds
<1>4. Queued(r)'
  BY <1>3, StreamAssumption DEF Queued
<1>5. ASSUME NEW q \in Requests, q # r PROVE Queued(q)'
  BY <1>1, <1>5, QueuedStays
<1>6. \A q \in Requests : Unasked(q)'
  BY <1>1 DEF LineInv, Unasked
<1>7. \A q \in Requests : pos # q
  BY <1>1, RequestAssumption DEF ShownInv, DueInv
<1>8. flaw = "none" => suggestion = << >> /\ \A q \in Requests : reader[q] # "reading"
  BY <1>7 DEF ShownInv, Stands, Answers, Lonely
<1>9. DueInv' /\ Stands'
  BY <1>1, <1>8 DEF DueInv, Stands
<1>10. ASSUME NEW q \in Requests PROVE Lonely(q)' /\ Whole(q)'
  BY <1>1, <1>8 DEF Lonely, Whole
<1> QED BY <1>4, <1>5, <1>6, <1>9, <1>10 DEF LineInv, ShownInv

\* An answer that begins is shown from its first token; where nothing is flawed it is
\* the one that was asked for here, and no other is awaited.
LEMMA StartReadKeepsShown ==
    ASSUME StreamTypeOK, LineInv, ShownInv, NEW r \in Requests, StartRead(r)
    PROVE  LineInv' /\ ShownInv'
<1>1. /\ UNCHANGED <<serverVars, wire, edits, asked, due, pos>> /\ suggestion' = << >>
      /\ reader[r] = "waiting" /\ reader'[r] = "reading"
      /\ \A q \in Requests \ {r} : reader'[q] = reader[q]
  BY DEF StartRead, NoSuggestion, StreamTypeOK
<1>2. ASSUME flaw' = "none"
      PROVE  pos = r /\ edits = asked[r] /\ \A q \in Requests \ {r} : ~Open(q)
  <2>1. flaw' = FirstFlaw(r)
    BY DEF StartRead
  <2> QED BY <1>2, <2>1 DEF FirstFlaw
<1>3. ASSUME NEW n, InLine(r, n) PROVE InLine(r, n)'
  BY <1>1, <1>3 DEF InLine, Serving, Counts, Holds, serverVars
<1>4. Queued(r)'
  BY <1>1, <1>3 DEF LineInv, Queued, Open
<1>5. ASSUME NEW q \in Requests, q # r PROVE Queued(q)'
  BY <1>1, <1>2, <1>5, QueuedStays DEF Open, serverVars
<1>6. \A q \in Requests : Unasked(q)'
  BY <1>1 DEF LineInv, Unasked, serverVars
<1>7. DueInv' /\ Stands'
  BY <1>1 DEF ShownInv, DueInv, Stands
<1>8. ASSUME NEW q \in Requests PROVE Lonely(q)' /\ Whole(q)'
  BY <1>1, <1>2 DEF Lonely, Whole, Open
<1> QED BY <1>4, <1>5, <1>6, <1>7, <1>8 DEF LineInv, ShownInv

\* The tab adds the next token of the answer to what it shows, or stops at its end.
LEMMA ReadEventKeepsShown ==
    ASSUME StreamTypeOK, DoneInv, LineInv, ShownInv, NEW r \in Requests, ReadEvent(r)
    PROVE  LineInv' /\ ShownInv'
<1> DEFINE w == wire[r]
           e == Head(w)
<1>1. /\ UNCHANGED <<serverVars, edits, asked, due, pos, flaw>>
      /\ reader[r] = "reading" /\ w # << >> /\ wire'[r] = Tail(w) /\ w \in Seq(Event)
      /\ suggestion' = IF e > 0 THEN Append(suggestion, <<r, e>>) ELSE suggestion
      /\ reader'[r] = IF e = DONE THEN "done" ELSE "reading"
      /\ \A q \in Requests \ {r} : reader'[q] = reader[q] /\ wire'[q] = wire[q]
  BY DEF ReadEvent, StreamTypeOK
<1>2. e \in Event
  BY <1>1, HeadTailProperties
<1>3. PICK n \in 0 .. MaxTokens : InLine(r, n)
  BY <1>1 DEF LineInv, Queued, Open
<1> DEFINE ends == IF Serving(r) THEN {} ELSE {Error, DONE}
<1>4. n \in Nat /\ Counts(w, n, ends) /\ Len(w) \in Nat /\ (flaw = "none" => n = Len(suggestion))
  BY <1>1, <1>3, StreamAssumption DEF InLine
<1>5. flaw = "none" => pos = r /\ edits = asked[r] /\ \A q \in Requests \ {r} : ~Open(q)
  BY <1>1 DEF ShownInv, Lonely
<1>6. suggestion \in Seq(Requests \X (1 .. MaxTokens))
  BY DEF StreamTypeOK
<1>7. flaw = "none" => \A i \in 1 .. Len(suggestion) : suggestion[i] = <<r, i>>
  <2>1. DOMAIN suggestion = 1 .. Len(suggestion) /\ (suggestion = << >> => Len(suggestion) = 0)
    BY <1>6
  <2>2. CASE suggestion # << >>
    BY <1>5, <2>1, <2>2 DEF ShownInv, Stands, Answers
  <2> QED BY <2>1, <2>2
<1>8. /\ Len(Tail(w)) = Len(w) - 1
      /\ e = n + 1 \/ (e \in ends /\ Len(w) = 1)
      /\ Counts(Tail(w), n + 1, ends)
  <2> HIDE DEF w, ends
  <2> QED BY <1>1, <1>4, CountsTail DEF e
<1>9. ASSUME e = n + 1 PROVE Queued(r)' /\ Stands' /\ Whole(r)'
  <2>1. e > 0 /\ e # DONE /\ n + 1 \in 0 .. MaxTokens /\ n + 1 \in Nat
    BY <1>2, <1>4, <1>9, StreamAssumption DEF Event, Result, DONE
  <2>2. reader'[r] = "reading" /\ suggestion' = Append(suggestion, <<r, n + 1>>)
    BY <1>1, <1>9, <2>1
  <2>3. /\ Len(suggestion') = Len(suggestion) + 1
        /\ \A i \in 1 .. Len(suggestion) : suggestion'[i] = suggestion[i]
        /\ suggestion'[Len(suggestion) + 1] = <<r, n + 1>>
        /\ Len(suggestion) \in Nat /\ DOMAIN suggestion = 1 .. Len(suggestion)
        /\ DOMAIN suggestion' = 1 .. Len(suggestion) + 1
    BY <1>6, <2>2
  <2>4. InLine(r, n + 1)'
    <3>1. n + Len(w) = (n + 1) + Len(wire'[r])
      BY <1>1, <1>4, <1>8
    <3>2. Holds(wire'[r], DONE) => Holds(w, DONE)
      BY <1>1, HoldsTail
    <3>3. Counts(wire'[r], n + 1, IF Serving(r)' THEN {} ELSE {Error, DONE})
      BY <1>1, <1>8 DEF Serving, serverVars
    <3>4. flaw' = "none" => n + 1 = Len(suggestion')
      BY <1>1, <1>4, <2>3
    <3>5. Holds(wire'[r], DONE) => ctx'[r] = "timeout" \/ made'[r] = (n + 1) + Len(wire'[r]) - 1
      <4>1. Holds(w, DONE) => ctx[r] = "timeout" \/ made[r] = n + Len(w) - 1
        BY <1>3 DEF InLine
      <4>2. n + Len(w) - 1 = (n + 1) + Len(wire'[r]) - 1
        <5>1. Len(wire'[r]) = Len(w) - 1
          BY <1>1, <1>8
        <5>2. n \in Nat /\ Len(w) \in Nat
          BY <1>4
        <5>3. \A a, b \in Nat : a + (b - 1) = (a + 1) + ((b - 1) - 1)
          OBVIOUS
        <5> HIDE DEF w
        <5> QED BY <5>1, <5>2, <5>3
      <4>3. made' = made /\ ctx' = ctx
        BY <1>1 DEF serverVars
      <4> HIDE DEF w
      <4> QED BY <3>2, <4>1, <4>2, <4>3
    <3>6. Serving(r)' =>
            /\ Counts(chan'[r], (n + 1) + Len(wire'[r]), IF llm'[r] = "ended" THEN {Error} ELSE {})
            /\ llm'[r] \in {"asking", "complete"} => made'[r] = (n + 1) + Len(wire'[r]) + Len(chan'[r])
            /\ llm'[r] = "sending" => made'[r] = (n + 1) + Len(wire'[r]) + Len(chan'[r]) + 1
      <4>1. Serving(r) =>
            /\ Counts(chan[r], n + Len(w), IF llm[r] = "ended" THEN {Error} ELSE {})
            /\ llm[r] \in {"asking", "complete"} => made[r] = n + Len(w) + Len(chan[r])
            /\ llm[r] = "sending" => made[r] = n + Len(w) + Len(chan[r]) + 1
        BY <1>3 DEF InLine
      <4> QED BY <1>1, <3>1, <4>1 DEF serverVars, Serving
    <3> QED BY <2>2, <3>3, <3>4, <3>5, <3>6 DEF InLine
  <2>5. Queued(r)'
    BY <2>1, <2>4 DEF Queued
  <2>6. ASSUME flaw' = "none" PROVE Answers(r)'
    <3>1. pos' = r /\ edits' = asked'[r] /\ n = Len(suggestion)
      BY <1>1, <1>4, <1>5, <2>6
    <3>2. \A i \in 1 .. Len(suggestion) : suggestion[i] = <<r, i>>
      BY <1>1, <1>7, <2>6
    <3> QED BY <2>3, <3>1, <3>2 DEF Answers
  <2>7. Stands' /\ Whole(r)'
    BY <2>2, <2>6 DEF Stands, Whole
  <2> QED BY <2>5, <2>7
<1>10. ASSUME e # n + 1 PROVE Queued(r)' /\ Stands' /\ Whole(r)'
  <2>1. e \in {Error, DONE} /\ ~Serving(r) /\ Len(w) = 1 /\ suggestion' = suggestion /\ e = w[1]
        /\ Len(wire'[r]) = 0
    BY <1>1, <1>8, <1>10 DEF Error, DONE
  <2>2. Stands'
    BY <1>1, <2>1 DEF ShownInv, Stands, Answers
  <2>3. CASE e = Error
    <3>1. reader'[r] = "reading"
      BY <1>1, <2>3 DEF Error, DONE
    <3>2. InLine(r, n)'
      <4>1. Counts(wire'[r], n, {Error, DONE}) /\ ~Holds(wire'[r], DONE)
        BY <2>1 DEF Counts, Holds
      <4>2. ~Serving(r)' /\ (flaw' = "none" => n = Len(suggestion'))
        BY <1>1, <1>4, <2>1 DEF Serving, serverVars
      <4> QED BY <3>1, <4>1, <4>2 DEF InLine
    <3> QED BY <2>2, <3>1, <3>2 DEF Queued, Whole
  <2>4. CASE e = DONE
    <3>1. reader'[r] = "done" /\ Holds(w, DONE)
      BY <1>1, <2>1, <2>4 DEF Holds
    <3>2. ctx[r] = "timeout" \/ made[r] = n
      BY <1>3, <1>4, <2>1, <3>1, StreamAssumption DEF InLine, StreamTypeOK
    <3>3. Whole(r)'
      BY <1>1, <1>4, <2>1, <3>1, <3>2 DEF Whole, serverVars
    <3> QED BY <2>2, <3>1, <3>3 DEF Queued, Open
  <2> QED BY <2>1, <2>3, <2>4
<1>11. Queued(r)' /\ Stands' /\ Whole(r)'
  BY <1>9, <1>10
<1>12. ASSUME NEW q \in Requests, q # r PROVE Queued(q)' /\ Whole(q)'
  <2>1. reader[q] = "reading" => flaw # "none"
    BY <1>12, <1>5 DEF Open
  <2>2. Queued(q)'
    BY <1>1, <1>12, <2>1, QueuedStays DEF serverVars
  <2>3. Whole(q)'
    BY <1>1, <1>12, <1>5 DEF Whole
  <2> QED BY <2>2, <2>3
<1>13. ASSUME NEW q \in Requests PROVE Lonely(q)'
  BY <1>1, <1>5 DEF ShownInv, Lonely, Open
<1>14. DueInv'
  BY <1>1 DEF ShownInv, DueInv
<1>15. ASSUME NEW q \in Requests PROVE Unasked(q)'
  BY <1>1 DEF LineInv, Unasked, serverVars
<1> QED BY <1>11, <1>12, <1>13, <1>14, <1>15 DEF LineInv, ShownInv

\* What is no longer read is no longer in line.
LEMMA EndKeepsShown ==
    ASSUME StreamTypeOK, LineInv, ShownInv, NEW r \in Requests, ReadEnd(r) \/ Lose(r)
    PROVE  LineInv' /\ ShownInv'
<1>1. /\ UNCHANGED <<llm, made, chan, handler, edits, asked, due, pos, suggestion, flaw>>
      /\ reader'[r] = "ended" /\ reader[r] # "idle"
      /\ \A q \in Requests \ {r} : reader'[q] = reader[q] /\ wire'[q] = wire[q] /\ ctx'[q] = ctx[q]
  BY DEF ReadEnd, Lose, Open, serverVars, tabVars, StreamTypeOK
<1>2. ASSUME NEW q \in Requests PROVE Queued(q)' /\ Unasked(q)'
  <2>1. CASE q = r
    BY <1>1, <2>1 DEF LineInv, Queued, Open, Unasked
  <2>2. CASE q # r
    <3>1. Queued(q)'
      BY <1>1, <2>2, QueuedStays
    <3> QED BY <1>1, <2>2, <3>1 DEF LineInv, Unasked
  <2> QED BY <2>1, <2>2
<1>3. ASSUME NEW q \in Requests PROVE Lonely(q)' /\ Whole(q)'
  BY <1>1 DEF ShownInv, Lonely, Whole, Open
<1>4. DueInv' /\ Stands'
  BY <1>1 DEF ShownInv, DueInv, Stands, Answers
<1> QED BY <1>2, <1>3, <1>4 DEF LineInv, ShownInv

\* Every step keeps the lines and what is shown.
LEMMA ShownNext ==
    ASSUME StreamTypeOK, DoneInv, LineInv, ShownInv, [StreamNext]_streamVars
    PROVE  LineInv' /\ ShownInv'
<1>1. CASE UNCHANGED streamVars
  <2>1. \A q \in Requests : Queued(q)'
    BY <1>1, QueuedStays DEF streamVars, serverVars, tabVars
  <2> QED BY <1>1, <2>1 DEF streamVars, serverVars, tabVars, LineInv, ShownInv, Unasked, DueInv,
          Stands, Answers, Lonely, Whole, Open
<1>2. ASSUME NEW r \in Requests, Answering(r) \/ Timeout(r) \/ handleComplete(r)
      PROVE  LineInv' /\ ShownInv'
  BY <1>2, AnsweringKeepsLine, TimeoutKeepsLine, HandlerKeepsLine, ServerKeepsShown
<1>3. ASSUME NEW r \in Requests, Reading(r) \/ Lose(r) PROVE LineInv' /\ ShownInv'
  BY <1>3, StartReadKeepsShown, ReadEventKeepsShown, EndKeepsShown DEF Reading
<1> QED BY <1>1, <1>2, <1>3, TypingKeepsShown, AskKeepsShown DEF StreamNext, Typing

\* What Tab puts into the text stands where it was asked for, in the text it was asked
\* for, and is the first tokens of that answer without a gap, and all of them after
\* [DONE], unless two were read or awaited at once, the suggestion was cleared while its answer
\* was read or awaited, or the text was replaced: for any number of requests, of any length.
THEOREM SuggestionAlwaysFits == StreamSpec => []SuggestionFits
<1>1. ShownInv => SuggestionFits
  BY DEF ShownInv, Stands, Answers, Whole, SuggestionFits
<1>2. StreamInit => DoneInv /\ LineInv /\ ShownInv
  BY DoneInit, ShownInit
<1>3. StreamTypeOK /\ (DoneInv /\ LineInv /\ ShownInv) /\ [StreamNext]_streamVars
        => (DoneInv /\ LineInv /\ ShownInv)'
  BY DoneNext, ShownNext
<1> QED BY <1>1, <1>2, <1>3, StreamTypeCorrect, PTL DEF StreamSpec
=============================================================================
