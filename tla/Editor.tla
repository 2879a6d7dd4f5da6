------------------------------- MODULE Editor -------------------------------
(***************************************************************************)
(* Room composed with the browser tabs that edit the document: the editor  *)
(* of internal/web/static/app.js.  A tab shows what is typed at once,      *)
(* names its characters in a shadow of the server's list, follows the      *)
(* server's messages, and merges what was typed offline when it comes      *)
(* back.  Every callback of the browser is one step.                       *)
(*                                                                         *)
(* A connection that ends is one step for both sides, and what the tab had *)
(* sent and the server had not handled is lost with it.  A tab that is     *)
(* back before the server noticed that it had gone is left out.            *)
(***************************************************************************)
EXTENDS Room, SequencesExt

CONSTANTS
    Row,        \* the document's row when the tabs open it
    Keys,       \* the characters that are put into the text; any may replace one
    MaxTyped,   \* bound: edits made in all tabs
    MaxEvents   \* bound: edits and breaks, a crash counting as one

ASSUME RowAssumption == Row \in [content : Seq(Chars), seq : Nat]
ASSUME TypingAssumption == Keys \subseteq Chars /\ MaxTyped \in Nat /\ MaxEvents \in Nat

VARIABLES
    tab,        \* the state of every tab
    up,         \* what its WebSocket has sent and the server has not handled
    typed,      \* bound: edits made
    broken,     \* bound: breaks
    strayed     \* history: what happened to a tab that may part it from the room

editorVars == <<tab, up, typed, broken, strayed>>
allVars == <<vars, editorVars>>

\* value is editor.value; base lastSyncedContent, and synced whether it is set;
\* away wasDisconnected; restoring pendingRestore; pending the keys of
\* pendingInsertPlaceholders; count placeholderCounter, which clientOpCounter
\* equals.  shadow holds the identifiers: its characters are those of value.
Tab == [value : Seq(Chars), shadow : Seq(OpID), lastSeq : Nat, base : Seq(Chars),
        synced : BOOLEAN, away : BOOLEAN, restoring : BOOLEAN,
        pending : SUBSET Nat, count : Nat]

NewTab == [value |-> << >>, shadow |-> << >>, lastSeq |-> 0, base |-> << >>,
           synced |-> FALSE, away |-> FALSE, restoring |-> FALSE,
           pending |-> {}, count |-> 0]

Sent == Request
    \cup [type : {"join"}, lastSeq : Nat, hasOfflineEdits : BOOLEAN]
    \cup [type : {"batch_sync"}, ops : Seq(Request)]
    \cup [type : {"restore"}, content : Seq(Chars)]

Causes == {"crossed", "skipped", "early", "torn", "relabelled", "reloaded", "retyped",
           "misnamed", "untold", "unanswered"}

EditorTypeOK ==
    /\ TypeOK
    /\ tab \in [Clients -> Tab]
    /\ \A t \in Clients : Len(tab[t].shadow) = Len(tab[t].value)
    /\ up \in [Clients -> Seq(Sent)]
    /\ typed \in 0 .. MaxTyped /\ broken \in 0 .. MaxEvents
    /\ strayed \in [Clients -> SUBSET Causes]

EditorInit ==
    /\ InitWith(Row)
    /\ tab = [t \in Clients |-> NewTab]
    /\ up = [t \in Clients |-> << >>]
    /\ typed = 0 /\ broken = 0
    /\ strayed = [t \in Clients |-> {}]

-----------------------------------------------------------------------------
(***************************************************************************)
(* Comparing and merging texts.                                            *)
(***************************************************************************)

\* The length of the common prefix of two texts, and of the common suffix of
\* what follows it.
PrefixLen(a, b) ==
    Max({n \in 0 .. Min({Len(a), Len(b)}) : \A i \in 1 .. n : a[i] = b[i]})

SuffixLen(a, b) ==
    Max({n \in 0 .. Min({Len(a), Len(b)}) - PrefixLen(a, b) :
            \A i \in 0 .. n - 1 : a[Len(a) - i] = b[Len(b) - i]})

\* What b has between the two.
Middle(a, b) == SubSeq(b, PrefixLen(a, b) + 1, Len(b) - SuffixLen(a, b))

\* Bug variant: every place in the common suffix becomes its start.
SuffixStart(p, base, server) ==
    LET end == Len(server) - SuffixLen(base, server)
    IN  IF p < PrefixLen(base, server) THEN p ELSE end

\* Where mergeTexts puts what was inserted behind place p of base.
MergePos(p, base, server) ==
    LET kept == Len(base) - SuffixLen(base, server)     \* the common suffix starts here
        end == Len(server) - SuffixLen(base, server)
    IN  IF p < PrefixLen(base, server) THEN p
        ELSE IF p >= kept THEN end + (p - kept)
        ELSE end

mergeTexts(base, local, server) ==
    IF base \in {<< >>, local} \/ local = server \/ Middle(base, local) = << >>
    THEN server
    ELSE LET pos == MergePos(PrefixLen(base, local), base, server)
         IN  SubSeq(server, 1, pos) \o Middle(base, local) \o SubSeq(server, pos + 1, Len(server))

-----------------------------------------------------------------------------
(***************************************************************************)
(* A text that is edited: the operations, and the shadow.                  *)
(***************************************************************************)

\* The identifier of the n-th insertion of a tab until its echo brings the
\* server's: no room knows it.
Placeholder(n) == [clock |-> -n, site |-> PersistSite + 1]

\* diffToOps of a tab whose text becomes new: the deletions from the last to the
\* first, then the insertions, each anchored to the one before it.
diffToOps(b, new) ==
    LET p == PrefixLen(b.value, new)
        cut == Len(Middle(new, b.value))
        put == Middle(b.value, new)
    IN  [d \in 1 .. cut |->
            [type |-> "delete", Position |-> p + cut - d, ID |-> b.shadow[p + cut - d + 1]]]
        \o
        [i \in DOMAIN put |->
            [type |-> "insert", Char |-> put[i], Position |-> p + i - 1,
             ID |-> IF i > 1 THEN Placeholder(b.count + i - 1)
                    ELSE IF p = 0 THEN RootID ELSE b.shadow[p],
             clientOpID |-> b.count + i]]

\* The tab when diffToOps has run and the text is shown.
Edited(b, new) ==
    LET p == PrefixLen(b.value, new)
        cut == Len(Middle(new, b.value))
        ids == b.count + 1 .. b.count + Len(Middle(b.value, new))
    IN  [b EXCEPT
            !.value = new,
            !.shadow = SubSeq(@, 1, p)
                       \o [i \in DOMAIN Middle(b.value, new) |-> Placeholder(b.count + i)]
                       \o SubSeq(@, p + cut + 1, Len(@)),
            !.pending = @ \cup ids,
            !.count = @ + Cardinality(ids)]

-----------------------------------------------------------------------------
(***************************************************************************)
(* onmessage.                                                              *)
(***************************************************************************)

\* Bug variant: the shadow is not moved along with the text.
RemoteTextOnly(b, op) == [b EXCEPT !.value = Shown(@, op)]

\* Bug variant: the identifier goes behind the next character.
RemoteNameBehind(b, op) ==
    [b EXCEPT !.value = Shown(@, op),
              !.shadow = IF op.type = "insert" THEN PutAt(@, op.position + 1, op.newID)
                         ELSE CutAt(@, op.position)]

RemoteOp(b, op) ==
    [b EXCEPT !.value = Shown(@, op),
              !.shadow = IF op.type = "insert" THEN PutAt(@, op.position, op.newID)
                         ELSE CutAt(@, op.position)]

\* The characters of a tab that an acknowledgement names, and all that wait for one.
Named(b, op) ==
    {i \in DOMAIN b.shadow : op.clientOpID \in b.pending /\ b.shadow[i] = Placeholder(op.clientOpID)}

Waiting(b) == {i \in DOMAIN b.shadow : b.shadow[i].clock < 0}

\* applySelfInsertAck: when the character is gone, the first that waits takes
\* the identifier.
SelfInsertAck(b, op) ==
    LET at == IF Named(b, op) # {} THEN Named(b, op) ELSE Waiting(b)
    IN  [b EXCEPT !.shadow = IF at = {} THEN @ ELSE [@ EXCEPT ![Min(at)] = op.newID],
                  !.pending = @ \ {op.clientOpID}]

\* One operation, in a tab whose connection is user me.
ShowOp(b, op, me) ==
    IF op.userID # me THEN RemoteOp(b, op)
    ELSE IF op.type = "insert" THEN SelfInsertAck(b, op) ELSE b

Synced(b) == [b EXCEPT !.base = b.value, !.synced = TRUE]

hasOfflineEdits(b) == b.away /\ b.synced /\ b.value # b.base /\ b.value # << >>

\* The tab has text, the server does not: it is asked to take the tab's.
AsksRestore(b, m) == ~b.restoring /\ hasOfflineEdits(b) /\ m.content = << >>

\* The tab with the server's text and identifiers, and the text it will show.
Rebuilt(b, m) ==
    [b EXCEPT !.value = m.content, !.shadow = m.nodeIDs, !.pending = {},
              !.away = FALSE, !.restoring = FALSE]

Merged(b, m) ==
    IF b.restoring \/ hasOfflineEdits(b) THEN mergeTexts(b.base, b.value, m.content)
    ELSE m.content

FullSynced(b, m) ==
    IF AsksRestore(b, m) THEN [b EXCEPT !.pending = {}, !.restoring = TRUE]
    ELSE Synced(Edited(Rebuilt(b, m), Merged(b, m)))

\* Bug variant: the merged text is shown, and not sent.
MergedUnsent(b, m) ==
    IF AsksRestore(b, m) THEN <<[type |-> "restore", content |-> b.value]>> ELSE << >>

\* What a full_sync makes the tab send.
FullSyncReply(b, m) ==
    IF AsksRestore(b, m) THEN <<[type |-> "restore", content |-> b.value]>>
    ELSE IF Merged(b, m) = m.content THEN << >>
    ELSE <<[type |-> "batch_sync", ops |-> diffToOps(Rebuilt(b, m), Merged(b, m))]>>

Duplicate(b, m) == IsOp(m) /\ m.seq > 0 /\ m.seq <= b.lastSeq

\* The tab when it has shown the operations of a replay one after the other.
Replayed(b, ops, me) ==
    LET after[n \in 0 .. Len(ops)] ==
            IF n = 0 THEN b ELSE ShowOp(after[n - 1], ops[n], me)
    IN  after[Len(ops)]

Received(b, m, me) ==
    LET n == [b EXCEPT !.lastSeq = Max({@, m.seq})]
    IN  CASE IsOp(m) -> IF Duplicate(b, m) THEN b
                        ELSE IF b.restoring THEN n
                        ELSE Synced(ShowOp(n, m, me))
          [] m.type = "replay_sync" ->
                Synced([Replayed(n, m.ops, me) EXCEPT !.away = FALSE])
          [] m.type = "full_sync" -> FullSynced(n, m)
          [] m.type = "signal" -> n

-----------------------------------------------------------------------------
(***************************************************************************)
(* What may part a tab from the room, for the properties alone.            *)
(***************************************************************************)

\* Something the tab did is not acknowledged.
Outstanding(t) ==
    \/ \E i \in DOMAIN up[t] : up[t][i].type \in {"insert", "delete", "batch_sync"}
    \/ ~Unlocked /\ task.who = t
    \/ \E i \in DOMAIN send[t] : IsOp(send[t][i]) /\ send[t][i].userID = user[t]

\* The operations a message brings.
Brought(m) ==
    CASE IsOp(m) -> <<m>>
      [] m.type = "replay_sync" -> m.ops
      [] OTHER -> << >>

\* A number that the tab never saw lies between what it has and what m brings.
Skips(b, m) ==
    /\ m.seq > b.lastSeq
    /\ m.type # "full_sync"
    /\ m.seq # b.lastSeq + Len(Brought(m))

\* What the tab does with m is done to a text that is not the one m is about
\* (crossed, early), lacks numbers (skipped), or is not the one the tab believes
\* it has (torn); or it gives a character the identifier of another (relabelled).
ShowCauses(t, m) ==
    LET b == tab[t]
    IN  {x \in Causes :
            \/ x = "crossed" /\ IsOp(m) /\ ~b.restoring /\ m.userID # user[t] /\ Outstanding(t)
            \/ x = "skipped" /\ Skips(b, m)
            \/ x = "early" /\ m.type \in {"replay_sync", "full_sync"} /\ Outstanding(t)
            \/ x = "torn" /\ \/ m.type = "replay_sync" /\ b.value # b.base
                             \/ m.type = "full_sync" /\ AsksRestore(b, m)
            \/ x = "relabelled" /\ m.type = "insert" /\ m.userID = user[t]
                                /\ Named(b, m) = {} /\ Waiting(b) # {}}

\* The server resolved an operation of t elsewhere than t did, or refused it:
\* because t named the wrong character (misnamed), or because the text had
\* changed; or the echo is dropped.
ServeCauses(t, r) ==
    {x \in Causes :
        \/ /\ x = IF strayed[t] \cap {"reloaded", "relabelled", "retyped"} # {}
                  THEN "misnamed" ELSE "crossed"
           /\ seqNum' = seqNum \/ opLog'[Len(opLog')].position # r.Position
        \/ x = "skipped" /\ Len(send[t]) = SendBuf}

\* The room is gone: the identifiers will be others, and a restore is undone.
GoneCauses ==
    IF ~live \/ live' THEN {}
    ELSE {"reloaded"} \cup (IF db.content # DocString(doc) THEN {"untold"} ELSE {})

-----------------------------------------------------------------------------
(***************************************************************************)
(* The tab.                                                                *)
(***************************************************************************)

Connected(t) == t \in clients \/ up[t] # << >>

\* onopen.
Open(t) ==
    /\ ~Connected(t)
    /\ up' = [up EXCEPT ![t] = <<[type |-> "join", lastSeq |-> tab[t].lastSeq,
                                  hasOfflineEdits |-> hasOfflineEdits(tab[t])]>>]
    /\ UNCHANGED <<vars, tab, typed, broken, strayed>>

\* The texts one edit makes of a text: a character more, less, or another one.
Edits(text) ==
    {PutAt(text, pos, char) : pos \in 0 .. Len(text), char \in Keys}
    \cup {CutAt(text, pos) : pos \in 0 .. Len(text) - 1}
    \cup ({[text EXCEPT ![i] = char] : i \in DOMAIN text, char \in Chars} \ {text})

\* The input listener.  What is typed offline is kept in the text and the shadow,
\* which a replay builds on: offlineBuffer is counted and thrown away.
Type(t) ==
    /\ typed < MaxTyped /\ typed + broken < MaxEvents
    /\ typed' = typed + 1
    /\ \E new \in Edits(tab[t].value) :
        /\ tab' = [tab EXCEPT ![t] = Edited(@, new)]
        /\ up' = IF Connected(t) THEN [up EXCEPT ![t] = @ \o diffToOps(tab[t], new)] ELSE up
    /\ strayed' = IF Connected(t) THEN strayed ELSE [strayed EXCEPT ![t] = @ \cup {"retyped"}]
    /\ UNCHANGED <<vars, broken>>

\* writePump sends the oldest message, and onmessage takes it.
Show(t) ==
    LET m == Head(send[t])
    IN  /\ Pump(t)
        /\ tab' = [tab EXCEPT ![t] = Received(@, m, user[t])]
        /\ up' = IF m.type = "full_sync" THEN [up EXCEPT ![t] = @ \o FullSyncReply(tab[t], m)]
                 ELSE up
        /\ strayed' = [strayed EXCEPT ![t] = @ \cup ShowCauses(t, m)]
        /\ UNCHANGED <<typed, broken>>

\* Bug variant: a tab goes on waiting for an answer that is lost.
StillRestoring(b) == [b EXCEPT !.away = TRUE]

\* onclose.
Closed(b) == [b EXCEPT !.away = TRUE, !.restoring = FALSE]

\* What t had sent, or what it was sent to start again from, is lost with the
\* connection.
LostCauses(t) ==
    GoneCauses \cup
    {x \in {"torn"} : Outstanding(t) \/ \E i \in DOMAIN send[t] : send[t][i].type = "full_sync"}

Breaks == typed + broken < MaxEvents /\ broken' = broken + 1 /\ UNCHANGED typed

\* The connection ends, for the server and for the tab.
Disconnect(t) ==
    /\ Connected(t)
    /\ Breaks
    /\ IF t \in clients THEN Leave(t) ELSE UNCHANGED vars
    /\ tab' = [tab EXCEPT ![t] = Closed(@)]
    /\ up' = [up EXCEPT ![t] = << >>]
    /\ strayed' = [u \in Clients |-> strayed[u] \cup IF u = t THEN LostCauses(t) ELSE GoneCauses]

\* The server dies, and every connection with it.
ServerCrash ==
    /\ Crash
    /\ Breaks
    /\ tab' = [t \in Clients |-> IF Connected(t) THEN Closed(tab[t]) ELSE tab[t]]
    /\ up' = [t \in Clients |-> << >>]
    /\ strayed' = [t \in Clients |-> strayed[t] \cup LostCauses(t)]

-----------------------------------------------------------------------------
(***************************************************************************)
(* The server, which takes the messages of a connection in their order.    *)
(***************************************************************************)

Takes(t, type) ==
    /\ up[t] # << >>
    /\ Head(up[t]).type = type
    /\ up' = [up EXCEPT ![t] = Tail(@)]
    /\ UNCHANGED <<tab, typed, broken>>

ServeJoin(t) ==
    /\ Takes(t, "join")
    /\ Join(t, Head(up[t]).lastSeq, Head(up[t]).hasOfflineEdits)
    /\ strayed' = IF Head(send'[t]).type = "full_sync" THEN [strayed EXCEPT ![t] = {}] ELSE strayed

ServeOp(t, type) ==
    LET r == Head(up[t])
    IN  /\ Takes(t, type)
        /\ \/ HandleOp(t, r)
           \/ Free(t) /\ ~Accepted(r) /\ UNCHANGED vars
        /\ strayed' = [strayed EXCEPT ![t] = @ \cup ServeCauses(t, r)]

ServeBatch(t) ==
    /\ Takes(t, "batch_sync")
    /\ StartBatch(t, Head(up[t]).ops)
    /\ UNCHANGED strayed

ServeBatchOp ==
    /\ BatchStep
    /\ strayed' = [strayed EXCEPT ![task.who] = @ \cup ServeCauses(task.who, Head(task.todo))]
    /\ UNCHANGED <<tab, up, typed, broken>>

\* A text that was restored has no number, and only its sender is told.
ServeRestore(t) ==
    LET dropped == Len(send[t]) = SendBuf
    IN  /\ Takes(t, "restore")
        /\ HandleRestore(t, Head(up[t]).content)
        /\ strayed' = [u \in Clients |->
              IF u = t THEN IF dropped THEN strayed[u] \cup {"unanswered"} ELSE {}
              ELSE strayed[u] \cup {x \in {"untold"} : doc' # doc}]

-----------------------------------------------------------------------------

EditorNext ==
    \/ \E t \in Clients :
        \/ Open(t)
        \/ Type(t)
        \/ Show(t)
        \/ Disconnect(t)
        \/ ServeJoin(t)
        \/ ServeOp(t, "insert")
        \/ ServeOp(t, "delete")
        \/ ServeBatch(t)
        \/ ServeRestore(t)
    \/ ServeBatchOp
    \/ ServerCrash

EditorSpec == EditorInit /\ [][EditorNext]_allVars

-----------------------------------------------------------------------------
(***************************************************************************)
(* What a tab may rely on.                                                 *)
(***************************************************************************)

\* The tab has the room's number, and nothing that matters is on its way.
Settled(t) ==
    /\ t \in clients /\ up[t] = << >> /\ Unlocked
    /\ \A i \in DOMAIN send[t] : send[t][i].type = "signal"
    /\ tab[t].lastSeq = seqNum /\ ~tab[t].restoring

SameText(t) == tab[t].value = DocString(doc)

\* A tab shows the room's text, unless something happened to it that is listed in
\* strayed: through typing, acknowledgements, replays, batches, merges and
\* restarts.  Identifiers that are wrong do no harm until they are used.
SettledSameText ==
    \A t \in Clients :
        Settled(t) /\ strayed[t] \subseteq {"reloaded", "relabelled", "retyped", "unanswered"}
            => SameText(t)

\* Two who type at the same time end with one text (AUTH_READY_PLAN.md, 61).
ConcurrentTypingConverges ==
    \A t \in Clients : Settled(t) /\ strayed[t] \subseteq {"crossed"} => SameText(t)

\* Tabs that come back after a restart end with the server's text (README.md, 165).
RestartConverges ==
    \A t \in Clients : Settled(t) /\ strayed[t] \subseteq {"reloaded", "misnamed"} => SameText(t)

\* And every identifier in its shadow is that of the character it stands at, or
\* one that no room knows, so that the position decides.
SettledSameNames ==
    \A t \in Clients : Settled(t) /\ strayed[t] = {}
        => \A i \in DOMAIN tab[t].shadow :
            tab[t].shadow[i].clock >= 0 => tab[t].shadow[i] = GetVisibleNodeIDs(doc)[i]

\* An operation that reaches a tab is new to it: the test against lastSeq only
\* ever discards what the tab already shows.
FreshOpsShown ==
    \A t \in Clients :
        send[t] # << >> /\ IsOp(Head(send[t])) => Head(send[t]).seq > tab[t].lastSeq

\* A tab that ignores operations because it waits for a restore does get an
\* answer, unless its channel was full.
RestoreAnswered ==
    \A t \in Clients : tab[t].restoring /\ "unanswered" \notin strayed[t]
        => \/ \E i \in DOMAIN up[t] : up[t][i].type = "restore"
           \/ \E i \in DOMAIN send[t] : send[t][i].type = "full_sync"

\* The text with block put behind place pos.
WithBlock(text, pos, block) ==
    SubSeq(text, 1, pos) \o block \o SubSeq(text, pos + 1, Len(text))

\* Every character of base is found once in text, at most.
Once(base, text) ==
    \A i, j \in DOMAIN text : i # j /\ text[i] = text[j] => text[i] \notin Range(base)

\* The tab only inserted, and of what the server replaced nothing is left: all
\* that they still share tells where the insertion was made.
Apart(base, local, server) ==
    /\ base # << >> /\ local # server
    /\ Once(base, base) /\ Once(base, local) /\ Once(base, server)
    /\ Middle(local, base) = << >>
    /\ Range(Middle(server, base)) \cap Range(server) = {}

\* result is the server's text and what was inserted, which every character that
\* is left of base has on the same side as in the tab.
KeepsPlace(base, local, server, result) ==
    \E pos \in 0 .. Len(server) :
        /\ result = WithBlock(server, pos, Middle(base, local))
        /\ \A x \in DOMAIN base, y \in DOMAIN server :
            base[x] = server[y] => (x <= PrefixLen(base, local) <=> y <= pos)

\* What was typed offline comes back between the characters it was typed between,
\* whatever the server's text has become meanwhile.
MergeKeepsPlace ==
    [][\A t \in Clients :
        LET b == tab[t]
            m == Head(send[t])
        IN  /\ hasOfflineEdits(b) /\ ~tab'[t].away
            /\ m.type = "full_sync" /\ Apart(b.base, b.value, m.content)
            => KeepsPlace(b.base, b.value, m.content, tab'[t].value)]_allVars
=============================================================================
