------------------------------ MODULE Document ------------------------------
(***************************************************************************)
(* The replicated growable array of internal/crdt/document.go, as pure     *)
(* operators on a value.  A document is the sequence of the nodes that     *)
(* follow the root in the linked list; the root, which is always the first *)
(* node, always deleted and never moved, is index 0 and is not an element. *)
(* Document.Map is what IndexOf computes.  Every operation of the Go type  *)
(* holds d.Mu from its first to its last statement, so each one is a step. *)
(***************************************************************************)
EXTENDS Integers, FiniteSets, Sequences

\* A site is the rank of its SiteID in Go's byte order.  "ROOT" sorts before
\* every "U-<n>", and "persist" after: any rank above 0 stands for a user.
RootSite == 0

OpID == [clock : Int, site : Nat]

RootID == [clock |-> 0, site |-> RootSite]

\* Node, without the Next and Prev pointers that the sequence replaces.
Node(Chars) == [ID : OpID, Char : Chars, IsDeleted : BOOLEAN]

EmptyDocument == << >>

-----------------------------------------------------------------------------

IDs(doc) == {doc[i].ID : i \in DOMAIN doc}

\* findNode(id) != nil.
Known(doc, id) == id \in IDs(doc) \cup {RootID}

\* The place of a known node: 0 for the root.
IndexOf(doc, id) ==
    IF id = RootID THEN 0 ELSE CHOOSE i \in DOMAIN doc : doc[i].ID = id

\* Bug variant: equal clocks are not told apart.
HigherClock(a, b) == a.clock > b.clock

isHigherPriority(a, b) ==
    \/ a.clock > b.clock
    \/ a.clock = b.clock /\ a.site > b.site

\* The nodes right of place a that the loop of Insert walks over.
Skipped(doc, a, newID) ==
    {j \in a + 1 .. Len(doc) :
        \A k \in a + 1 .. j : isHigherPriority(doc[k].ID, newID)}

\* The place of cursor when the loop of Insert ends.
Cursor(doc, anchorID, newID) ==
    LET a == IndexOf(doc, anchorID)
    IN  a + Cardinality(Skipped(doc, a, newID))

\* The list with node n spliced in after place p.
SpliceAfter(doc, p, n) == SubSeq(doc, 1, p) \o <<n>> \o SubSeq(doc, p + 1, Len(doc))

Insert(doc, char, anchorID, newID) ==
    IF Known(doc, newID) \/ ~Known(doc, anchorID)
    THEN doc
    ELSE SpliceAfter(doc, Cursor(doc, anchorID, newID),
                     [ID |-> newID, Char |-> char, IsDeleted |-> FALSE])

\* Bug variant: the node is unlinked instead of marked.
DeleteUnlinks(doc, targetID) == SelectSeq(doc, LAMBDA n : n.ID # targetID)

Delete(doc, targetID) ==
    [i \in DOMAIN doc |->
        IF doc[i].ID = targetID THEN [doc[i] EXCEPT !.IsDeleted = TRUE] ELSE doc[i]]

-----------------------------------------------------------------------------
(***************************************************************************)
(* Reading the document: every loop of the code that walks the list and    *)
(* counts visible nodes is a count here.                                   *)
(***************************************************************************)

Visible(doc) == {i \in DOMAIN doc : ~doc[i].IsDeleted}

DocLen(doc) == Cardinality(Visible(doc))

VisibleBefore(doc, i) == Cardinality({j \in Visible(doc) : j < i})

\* The index of the node at visible position pos, for pos in 0 .. DocLen - 1.
VisibleAt(doc, pos) == CHOOSE i \in Visible(doc) : VisibleBefore(doc, i) = pos

DocString(doc) ==
    [p \in 1 .. DocLen(doc) |-> doc[VisibleAt(doc, p - 1)].Char]

GetVisibleNodeIDs(doc) ==
    [p \in 1 .. DocLen(doc) |-> doc[VisibleAt(doc, p - 1)].ID]

GetNodeIDAtVisiblePos(doc, pos) ==
    IF pos \in 0 .. DocLen(doc) - 1 THEN doc[VisibleAt(doc, pos)].ID ELSE RootID

GetAnchorIDForPos(doc, pos) ==
    IF pos <= 0 THEN RootID ELSE GetNodeIDAtVisiblePos(doc, pos - 1)

GetVisiblePosOfNode(doc, id) ==
    IF \E i \in Visible(doc) : doc[i].ID = id
    THEN VisibleBefore(doc, CHOOSE i \in Visible(doc) : doc[i].ID = id)
    ELSE -1

-----------------------------------------------------------------------------

\* What the insertion loops of hydrateRoomFromContent and of restore build:
\* each character anchored to the one before it, on clocks from + 1, from + 2...
Chain(content, from, siteID) ==
    [i \in DOMAIN content |->
        [ID |-> [clock |-> from + i, site |-> siteID],
         Char |-> content[i], IsDeleted |-> FALSE]]
=============================================================================
