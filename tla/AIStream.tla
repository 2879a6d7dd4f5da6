------------------------------ MODULE AIStream ------------------------------
(***************************************************************************)
(* Completions: the goroutine of StreamComplete that asks the language     *)
(* model (internal/ai/assistant.go), the handler that turns its results    *)
(* into server-sent events (handleComplete in internal/web/handler.go),    *)
(* and the tab that shows them as a suggestion (app.js).  One tab makes    *)
(* several requests, and does not cancel the ones it has made.             *)
(*                                                                         *)
(* Tokens are numbers: what is kept of a text is which request it answers, *)
(* and how often the text around the cursor has changed.                   *)
(***************************************************************************)
EXTENDS Integers, Sequences, FiniteSets

CONSTANTS
    Requests,   \* completions that may be asked for
    None,       \* no request
    ChanBuf,    \* the capacity of resultChan
    MaxTokens,  \* bound: tokens of one answer
    MaxEdits    \* bound: changes of the text

ASSUME RequestAssumption == None \notin Requests
ASSUME StreamAssumption == ChanBuf \in Nat \ {0} /\ MaxTokens \in Nat /\ MaxEdits \in Nat

VARIABLES
    llm,        \* where the goroutine of StreamComplete is
    made,       \* how many tokens the model has made
    ctx,        \* its context: live, timeout or canceled; the request's, unless timeout
    chan,       \* resultChan, which is closed when the goroutine has ended
    handler,    \* whether handleComplete has returned
    wire,       \* the events that are on their way to the tab
    reader,     \* where the tab's reading of the answer is
    edits,      \* how often the tab's text has changed
    asked,      \* edits when the request was made
    due,        \* whether aiDebounceTimer runs
    pos,        \* the request whose cursor suggestionCursorPos is
    suggestion, \* currentSuggestion
    flaw        \* history: what made the suggestion unfit for the text, if anything

serverVars == <<llm, made, ctx, chan, handler>>
tabVars == <<edits, asked, due, pos, suggestion, flaw>>
streamVars == <<serverVars, wire, reader, tabVars>>

\* A StreamResult, and the event it becomes: a token, an error, or the end.
Error == 0
DONE == -1
Result == 0 .. MaxTokens
Event == Result \cup {DONE}

\* Two answers are read or awaited at once; the suggestion was cleared and its answer
\* is read on; the text was replaced under it.
Flaw == {"none", "overlapped", "cleared", "replaced"}

StreamTypeOK ==
    /\ llm \in [Requests -> {"idle", "asking", "sending", "failed", "reporting", "complete", "ended"}]
    /\ made \in [Requests -> 0 .. MaxTokens]
    /\ ctx \in [Requests -> {"live", "timeout", "canceled"}]
    /\ chan \in [Requests -> Seq(Result)]
    /\ \A r \in Requests : Len(chan[r]) <= ChanBuf
    /\ handler \in [Requests -> {"idle", "serving", "returned"}]
    /\ wire \in [Requests -> Seq(Event)]
    /\ reader \in [Requests -> {"idle", "waiting", "reading", "done", "ended"}]
    /\ edits \in 0 .. MaxEdits /\ asked \in [Requests -> 0 .. MaxEdits]
    /\ due \in BOOLEAN /\ flaw \in Flaw
    /\ pos \in Requests \cup {None}
    /\ suggestion \in Seq(Requests \X (1 .. MaxTokens))

StreamInit ==
    /\ llm = [r \in Requests |-> "idle"] /\ made = [r \in Requests |-> 0]
    /\ ctx = [r \in Requests |-> "live"] /\ chan = [r \in Requests |-> << >>]
    /\ handler = [r \in Requests |-> "idle"]
    /\ wire = [r \in Requests |-> << >>] /\ reader = [r \in Requests |-> "idle"]
    /\ edits = 0 /\ asked = [r \in Requests |-> 0]
    /\ due = FALSE /\ flaw = "none" /\ pos = None /\ suggestion = << >>

Over(r) == ctx[r] # "live"

\* The tab still expects events.
Open(r) == reader[r] \in {"waiting", "reading"}

-----------------------------------------------------------------------------
(***************************************************************************)
(* StreamComplete.                                                         *)
(***************************************************************************)

LLMGoes(r, from, to) == llm[r] = from /\ llm' = [llm EXCEPT ![r] = to]

\* The model makes a token; sendStreamResult looks at the context first, and what
\* the streaming function then returns ends GenerateContent.
MakeToken(r) ==
    /\ made[r] < MaxTokens
    /\ made' = [made EXCEPT ![r] = @ + 1]
    /\ LLMGoes(r, "asking", IF Over(r) THEN "failed" ELSE "sending")
    /\ UNCHANGED chan

\* Bug variant: one result too many.
SpaceMore(r) == Len(chan[r]) <= ChanBuf

Space(r) == Len(chan[r]) < ChanBuf

\* Bug variant: the context is not waited for.
SendTokenOnly(r) ==
    /\ Space(r)
    /\ chan' = [chan EXCEPT ![r] = Append(@, made[r])]
    /\ LLMGoes(r, "sending", "asking")
    /\ UNCHANGED made

\* The select of sendStreamResult, which takes either when both are possible.
SendToken(r) ==
    /\ \/ /\ Space(r)
          /\ chan' = [chan EXCEPT ![r] = Append(@, made[r])]
          /\ LLMGoes(r, "sending", "asking")
       \/ Over(r) /\ LLMGoes(r, "sending", "failed") /\ UNCHANGED chan
    /\ UNCHANGED made

\* GenerateContent returns: with the whole answer ...
Complete(r) ==
    /\ LLMGoes(r, "asking", "complete")
    /\ UNCHANGED <<made, chan>>

\* ... or with an error of the model's or the context's, which is sent unless
\* the context has ended.
Fail(r) ==
    /\ LLMGoes(r, "asking", "failed")
    /\ UNCHANGED <<made, chan>>

\* Bug variant: an error that comes with a live context is not sent either.
KeepError(r) == LLMGoes(r, "failed", "ended") /\ UNCHANGED <<made, chan>>

ReportError(r) ==
    /\ LLMGoes(r, "failed", IF Over(r) THEN "ended" ELSE "reporting")
    /\ UNCHANGED <<made, chan>>

SendError(r) ==
    /\ LLMGoes(r, "reporting", "ended")
    /\ \/ Space(r) /\ chan' = [chan EXCEPT ![r] = Append(@, Error)]
       \/ Over(r) /\ UNCHANGED chan
    /\ UNCHANGED made

Answering(r) ==
    /\ \/ MakeToken(r)
       \/ SendToken(r)
       \/ Complete(r)
       \/ Fail(r)
       \/ ReportError(r)
       \/ SendError(r)
    /\ UNCHANGED <<ctx, handler, wire, reader, tabVars>>

\* The goroutine has ended, and closed its channel.
Closed(r) == llm[r] \in {"complete", "ended"}

\* The 15 s of StreamComplete have passed.
Timeout(r) ==
    /\ llm[r] # "idle" /\ ~Closed(r) /\ ~Over(r)
    /\ ctx' = [ctx EXCEPT ![r] = "timeout"]
    /\ UNCHANGED <<llm, made, chan, handler, wire, reader, tabVars>>

-----------------------------------------------------------------------------
(***************************************************************************)
(* handleComplete.                                                         *)
(***************************************************************************)

Serving(r) == handler[r] = "serving"

Return(r) ==
    /\ handler' = [handler EXCEPT ![r] = "returned"]
    /\ ctx' = [ctx EXCEPT ![r] = IF Over(r) THEN @ ELSE "canceled"]

\* writeSSE; what is written to a connection that is lost goes nowhere.
Write(r, event) == wire' = IF Open(r) THEN [wire EXCEPT ![r] = Append(@, event)] ELSE wire

\* A token goes on; an error is the last event, and the handler returns, which
\* cancels the context of the request.
Relay(r) ==
    /\ Serving(r) /\ chan[r] # << >>
    /\ chan' = [chan EXCEPT ![r] = Tail(@)]
    /\ Write(r, Head(chan[r]))
    /\ IF Head(chan[r]) = Error THEN Return(r) ELSE UNCHANGED <<handler, ctx>>

\* A closed channel says so when it is empty.
Drained(r) == Closed(r) /\ chan[r] = << >>

Finish(r) ==
    /\ Serving(r) /\ Drained(r)
    /\ Write(r, DONE)
    /\ Return(r)
    /\ UNCHANGED chan

\* r.Context() is done, or an event cannot be written.
Abort(r) ==
    /\ Serving(r) /\ ctx[r] = "canceled"
    /\ Return(r)
    /\ UNCHANGED <<chan, wire>>

handleComplete(r) ==
    /\ Relay(r) \/ Finish(r) \/ Abort(r)
    /\ UNCHANGED <<llm, made, reader, tabVars>>

-----------------------------------------------------------------------------
(***************************************************************************)
(* The tab.                                                                *)
(***************************************************************************)

BeingRead == \E r \in Requests : reader[r] = "reading"

\* The answer that is being read goes on: its next token is the first of a new
\* suggestion, which has no cursor and so belongs to the end of the text.
clearSuggestion ==
    /\ suggestion' = << >>
    /\ pos' = None
    /\ flaw' = IF BeingRead THEN "cleared" ELSE "none"

Changes == edits < MaxEdits /\ edits' = edits + 1

\* The input listener.  scheduleAICompletion stops the timer, and starts it again
\* when the tab is connected and the text is long enough.
Type ==
    /\ Changes
    /\ clearSuggestion
    /\ due' \in BOOLEAN
    /\ UNCHANGED <<serverVars, wire, reader, asked>>

\* Somebody else's operation, or a replay_sync with some.
RemoteEdit ==
    /\ Changes
    /\ clearSuggestion
    /\ UNCHANGED <<serverVars, wire, reader, asked, due>>

\* A full_sync replaces the text, and leaves the suggestion.
FullSync ==
    /\ Changes
    /\ flaw' = IF flaw = "none" /\ (BeingRead \/ suggestion # << >>) THEN "replaced" ELSE flaw
    /\ UNCHANGED <<serverVars, wire, reader, asked, due, pos, suggestion>>

\* The timer runs out.  What it asks for is refused without an answer when no
\* model is configured, or when there is too little text before the cursor.
requestAICompletion(r) ==
    /\ due /\ reader[r] = "idle"
    /\ due' = FALSE
    /\ pos' = r
    /\ asked' = [asked EXCEPT ![r] = edits]
    /\ \/ /\ reader' = [reader EXCEPT ![r] = "waiting"]
          /\ llm' = [llm EXCEPT ![r] = "asking"]
          /\ handler' = [handler EXCEPT ![r] = "serving"]
       \/ /\ reader' = [reader EXCEPT ![r] = "ended"]
          /\ UNCHANGED <<llm, handler>>
    /\ UNCHANGED <<made, ctx, chan, wire, edits, suggestion, flaw>>

\* shouldRequestAI finds something selected, or too little text.
DontAsk ==
    /\ due /\ due' = FALSE
    /\ UNCHANGED <<serverVars, wire, reader, edits, asked, pos, suggestion, flaw>>

\* Bug variant: what was suggested before stays.
KeptSuggestion == suggestion

NoSuggestion == << >>

\* What happened to the answer to r while its first event was awaited.
FirstFlaw(r) ==
    IF \E q \in Requests \ {r} : Open(q) THEN "overlapped"
    ELSE IF pos # r THEN "cleared"
    ELSE IF edits # asked[r] THEN "replaced" ELSE "none"

\* The answer begins with its first event.
StartRead(r) ==
    /\ reader[r] = "waiting" /\ wire[r] # << >>
    /\ reader' = [reader EXCEPT ![r] = "reading"]
    /\ suggestion' = NoSuggestion
    /\ flaw' = FirstFlaw(r)
    /\ UNCHANGED <<serverVars, wire, edits, asked, due, pos>>

\* A token is added to whatever is suggested.  An error is shown, and the end of
\* the stream, which follows, replaces it.
ReadEvent(r) ==
    LET e == Head(wire[r])
    IN  /\ reader[r] = "reading" /\ wire[r] # << >>
        /\ wire' = [wire EXCEPT ![r] = Tail(@)]
        /\ suggestion' = IF e > 0 THEN Append(suggestion, <<r, e>>) ELSE suggestion
        /\ reader' = [reader EXCEPT ![r] = IF e = DONE THEN "done" ELSE @]
        /\ UNCHANGED <<serverVars, edits, asked, due, pos, flaw>>

\* The stream ends without [DONE].
ReadEnd(r) ==
    /\ Open(r) /\ handler[r] = "returned" /\ wire[r] = << >>
    /\ reader' = [reader EXCEPT ![r] = "ended"]
    /\ UNCHANGED <<serverVars, wire, tabVars>>

\* Tab; the suggestion goes into the text.
acceptSuggestion ==
    /\ suggestion # << >>
    /\ Changes
    /\ clearSuggestion
    /\ UNCHANGED <<serverVars, wire, reader, asked, due>>

\* Escape.
Dismiss ==
    /\ clearSuggestion
    /\ UNCHANGED <<serverVars, wire, reader, edits, asked, due>>

\* The network loses the request, with what is on its way.
Lose(r) ==
    /\ Serving(r) /\ ctx[r] # "canceled" /\ Open(r)
    /\ ctx' = [ctx EXCEPT ![r] = "canceled"]
    /\ wire' = [wire EXCEPT ![r] = << >>]
    /\ reader' = [reader EXCEPT ![r] = "ended"]
    /\ UNCHANGED <<llm, made, chan, handler, tabVars>>

-----------------------------------------------------------------------------

Reading(r) == StartRead(r) \/ ReadEvent(r) \/ ReadEnd(r)

StreamNext ==
    \/ \E r \in Requests :
        \/ Answering(r)
        \/ Timeout(r)
        \/ handleComplete(r)
        \/ requestAICompletion(r)
        \/ Reading(r)
        \/ Lose(r)
    \/ Type
    \/ RemoteEdit
    \/ FullSync
    \/ DontAsk
    \/ acceptSuggestion
    \/ Dismiss

\* What happens by itself.  Nothing makes the model answer: it may hang in
\* GenerateContent until the 15 s have passed.
Running(r) ==
    \/ Answering(r) /\ (llm[r] = "asking" => Over(r))
    \/ Timeout(r)
    \/ handleComplete(r)
    \/ Reading(r)

\* Goroutines and callbacks that can run do, and time passes.  No behaviour here is
\* endless, so that it is enough to ask that something goes on as long as it can.
StreamFairness == WF_streamVars(\E r \in Requests : Running(r))

StreamSpec == StreamInit /\ [][StreamNext]_streamVars /\ StreamFairness

-----------------------------------------------------------------------------
(***************************************************************************)
(* What the answers must be.                                               *)
(***************************************************************************)

\* A tab that was told [DONE] has got an answer that the model had completed, or
\* the 15 s had passed: then the error is not sent, and the rest is missing
\* without a word.
DoneIsTrue ==
    \A r \in Requests : reader[r] = "done" => llm[r] = "complete" \/ ctx[r] = "timeout"

\* What Tab puts into the text, whenever there is something it would put, stands
\* where it was asked for, in the text it was asked for, and is the first tokens of
\* that answer in their order; and after [DONE] it is all of them, but for a timeout.
\* The code does not do this in three cases, which flaw names: two answers were
\* read or awaited at once; the suggestion was cleared (by Escape, typing, Tab, somebody else's
\* edit) while its answer was read or awaited, which goes on; or a full_sync
\* replaced the text.
SuggestionFits ==
    flaw = "none" =>
        /\ suggestion # << >> =>
            \E r \in Requests :
                /\ pos = r /\ edits = asked[r]
                /\ \A i \in DOMAIN suggestion : suggestion[i] = <<r, i>>
        /\ \A r \in Requests :
            pos = r /\ reader[r] = "done" /\ ctx[r] # "timeout" => Len(suggestion) = made[r]

\* Whatever happens to a request, its goroutine and its handler end, and so does
\* the tab's reading: again and again, nothing of any request is left.
StreamsEnd ==
    []<>(\A r \in Requests :
            reader[r] # "idle" => ~Open(r) /\ ~Serving(r) /\ (llm[r] = "idle" \/ Closed(r)))
=============================================================================
