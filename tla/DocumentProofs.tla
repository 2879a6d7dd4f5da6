--------------------------- MODULE DocumentProofs ---------------------------
(***************************************************************************)
(* Lemmas about the operators of Document, for documents of any length     *)
(* over any characters.  They hold whatever the identifiers are, unless an *)
(* assumption about clocks says otherwise.                                 *)
(***************************************************************************)
EXTENDS Document, FiniteSetTheorems, SequenceTheorems, WellFoundedInduction, TLAPS

-----------------------------------------------------------------------------
(***************************************************************************)
(* Induction.  The theorems of the library that take a predicate cannot be *)
(* used, but a set of naturals has a least element all the same, because   *)
(* the order of the naturals is well-founded.                              *)
(***************************************************************************)

LessThan == {p \in Nat \X Nat : p[1] < p[2]}

\* A set of naturals that has elements has a least one.
LEMMA LeastOf ==
    ASSUME NEW S, S \subseteq Nat, S # {}
    PROVE  \E m \in S : \A n \in S : m <= n
<1>1. LessThan = OpToRel(<, Nat)
  BY DEF OpToRel, LessThan
<1>2. IsWellFoundedOn(LessThan, Nat)
  BY <1>1, NatLessThanWellFounded
<1>3. PICK m \in S : \A n \in S : ~(<<n, m>> \in LessThan)
  BY <1>2, WFMin
<1>4. ASSUME NEW n \in S PROVE m <= n
  <2>1. m \in Nat /\ n \in Nat /\ ~(<<n, m>> \in LessThan)
    BY <1>3
  <2>2. <<n, m>> \in LessThan <=> n < m
    BY <2>1 DEF LessThan
  <2> QED BY <2>1, <2>2
<1> QED BY <1>4

\* What holds of 0, and of every number up to n with the one before it, holds up to n.
LEMMA UpTo ==
    ASSUME NEW n \in Nat, NEW S, 0 \in S,
           \A i \in 0 .. n - 1 : i \in S => i + 1 \in S
    PROVE  0 .. n \subseteq S
<1> SUFFICES ASSUME (0 .. n) \ S # {} PROVE FALSE
  OBVIOUS
<1>1. PICK m \in (0 .. n) \ S : \A k \in (0 .. n) \ S : m <= k
  <2> DEFINE T == (0 .. n) \ S
  <2>1. T \subseteq Nat /\ T # {}
    OBVIOUS
  <2> HIDE DEF T
  <2>2. \E m \in T : \A k \in T : m <= k
    BY <2>1, LeastOf
  <2> QED BY <2>2 DEF T
<1>2. m - 1 \in 0 .. n - 1 /\ m - 1 \in S
  BY <1>1
<1> QED BY <1>1, <1>2

-----------------------------------------------------------------------------
(***************************************************************************)
(* Visible nodes and the positions they have.                              *)
(***************************************************************************)

\* A document has finitely many visible nodes, at most one for every node.
LEMMA VisibleFinite ==
    ASSUME NEW C, NEW doc \in Seq(Node(C))
    PROVE  /\ Visible(doc) \subseteq 1 .. Len(doc)
           /\ IsFiniteSet(Visible(doc))
           /\ DocLen(doc) \in Nat
<1>1. Visible(doc) \subseteq 1 .. Len(doc)
  BY DEF Visible
<1>2. IsFiniteSet(1 .. Len(doc))
  BY FS_Interval
<1>3. IsFiniteSet(Visible(doc))
  BY <1>1, <1>2, FS_Subset
<1> QED BY <1>1, <1>3, FS_CardinalityType DEF DocLen

\* The number of visible nodes before a visible one is a position of the text.
LEMMA VisibleBeforeType ==
    ASSUME NEW C, NEW doc \in Seq(Node(C)), NEW i \in Visible(doc)
    PROVE  VisibleBefore(doc, i) \in 0 .. DocLen(doc) - 1
<1> DEFINE B == {j \in Visible(doc) : j < i}
<1>1. IsFiniteSet(Visible(doc)) /\ DocLen(doc) \in Nat /\ i \in Int
  BY VisibleFinite
<1>2. B \subseteq Visible(doc) /\ B # Visible(doc)
  BY <1>1
<1>3. IsFiniteSet(B) /\ Cardinality(B) <= DocLen(doc) /\ Cardinality(B) # DocLen(doc)
  <2> HIDE DEF B
  <2> QED BY <1>1, <1>2, FS_Subset DEF DocLen
<1>4. Cardinality(B) \in Nat
  BY <1>3, FS_CardinalityType
<1> QED BY <1>1, <1>3, <1>4 DEF VisibleBefore

\* Positions are in the order of the list.
LEMMA VisibleBeforeMonotonic ==
    ASSUME NEW C, NEW doc \in Seq(Node(C)),
           NEW i \in Visible(doc), NEW j \in Visible(doc), i < j
    PROVE  VisibleBefore(doc, i) < VisibleBefore(doc, j)
<1> DEFINE BI == {k \in Visible(doc) : k < i}
           BJ == {k \in Visible(doc) : k < j}
<1>1. IsFiniteSet(Visible(doc)) /\ i \in Int /\ j \in Int /\ Visible(doc) \subseteq Int
  BY VisibleFinite
<1>2. BJ \subseteq Visible(doc) /\ BI \subseteq BJ /\ i \in BJ /\ i \notin BI
  BY <1>1
<1> HIDE DEF BI, BJ
<1>3. IsFiniteSet(BJ)
  BY <1>1, <1>2, FS_Subset
<1>4. IsFiniteSet(BI) /\ Cardinality(BI) <= Cardinality(BJ) /\ Cardinality(BI) # Cardinality(BJ)
  BY <1>2, <1>3, FS_Subset
<1>5. Cardinality(BI) \in Nat /\ Cardinality(BJ) \in Nat
  BY <1>3, <1>4, FS_CardinalityType
<1> QED BY <1>4, <1>5 DEF VisibleBefore, BI, BJ

\* Every position of the text has a node: counting is injective into as many
\* positions as there are visible nodes.
LEMMA VisibleAtPosition ==
    ASSUME NEW C, NEW doc \in Seq(Node(C)), NEW pos \in 0 .. DocLen(doc) - 1
    PROVE  /\ VisibleAt(doc, pos) \in Visible(doc)
           /\ VisibleBefore(doc, VisibleAt(doc, pos)) = pos
<1> DEFINE V == Visible(doc)
           P == 0 .. DocLen(doc) - 1
           f == [i \in V |-> VisibleBefore(doc, i)]
<1>1. IsFiniteSet(V) /\ DocLen(doc) = Cardinality(V) /\ DocLen(doc) \in Nat /\ V \subseteq Int
  BY VisibleFinite DEF DocLen
<1>2. f \in [V -> P]
  BY VisibleBeforeType
<1>3. ASSUME NEW i \in V, NEW j \in V, f[i] = f[j] PROVE i = j
  <2>1. ~(i < j) /\ ~(j < i)
    <3>1. ASSUME i < j PROVE FALSE
      BY <1>2, <1>3, <3>1, VisibleBeforeMonotonic
    <3>2. ASSUME j < i PROVE FALSE
      BY <1>2, <1>3, <3>2, VisibleBeforeMonotonic
    <3> QED BY <3>1, <3>2
  <2> QED BY <1>1, <2>1
<1>4. f \in Injection(V, P)
  BY <1>2, <1>3 DEF Injection, IsInjective
<1>5. IsFiniteSet(P) /\ Cardinality(P) = Cardinality(V)
  BY SMTT(30), <1>1, FS_Interval
<1>6. f \in Surjection(V, P)
  <2> HIDE DEF f, V, P
  <2> QED BY <1>4, <1>5, FS_Injection
<1>7. \E i \in V : VisibleBefore(doc, i) = pos
  BY <1>6 DEF Surjection
<1> QED BY <1>7 DEF VisibleAt

-----------------------------------------------------------------------------
(***************************************************************************)
(* What the readers of a document return.                                  *)
(***************************************************************************)

\* String returns a text of Len characters.
LEMMA DocStringType ==
    ASSUME NEW C, NEW doc \in Seq(Node(C))
    PROVE  DocString(doc) \in Seq(C) /\ Len(DocString(doc)) = DocLen(doc)
<1>1. DocLen(doc) \in Nat
  BY VisibleFinite
<1>2. ASSUME NEW p \in 1 .. DocLen(doc) PROVE doc[VisibleAt(doc, p - 1)].Char \in C
  <2>1. VisibleAt(doc, p - 1) \in Visible(doc)
    BY <1>1, <1>2, VisibleAtPosition
  <2>2. doc[VisibleAt(doc, p - 1)] \in Node(C)
    BY <2>1, VisibleFinite, ElementOfSeq
  <2> QED BY <2>2 DEF Node
<1>3. DocString(doc) \in [1 .. DocLen(doc) -> C]
  BY <1>2 DEF DocString
<1> QED BY <1>1, <1>3

\* GetVisibleNodeIDs returns the identifier of every visible node.
LEMMA VisibleNodeIDsType ==
    ASSUME NEW C, NEW doc \in Seq(Node(C))
    PROVE  GetVisibleNodeIDs(doc) \in Seq(OpID) /\ Len(GetVisibleNodeIDs(doc)) = DocLen(doc)
<1>1. DocLen(doc) \in Nat
  BY VisibleFinite
<1>2. ASSUME NEW p \in 1 .. DocLen(doc) PROVE doc[VisibleAt(doc, p - 1)].ID \in OpID
  <2>1. VisibleAt(doc, p - 1) \in Visible(doc)
    BY <1>1, <1>2, VisibleAtPosition
  <2>2. doc[VisibleAt(doc, p - 1)] \in Node(C)
    BY <2>1, VisibleFinite, ElementOfSeq
  <2> QED BY <2>2 DEF Node
<1>3. GetVisibleNodeIDs(doc) \in [1 .. DocLen(doc) -> OpID]
  BY <1>2 DEF GetVisibleNodeIDs
<1> QED BY <1>1, <1>3

\* The node at a visible position is known, and so is the root that the code
\* returns out of range.
LEMMA NodeAtPositionKnown ==
    ASSUME NEW C, NEW doc \in Seq(Node(C)), NEW pos \in Int
    PROVE  Known(doc, GetNodeIDAtVisiblePos(doc, pos))
<1>1. CASE pos \in 0 .. DocLen(doc) - 1
  <2>1. VisibleAt(doc, pos) \in DOMAIN doc
    BY <1>1, VisibleAtPosition DEF Visible
  <2> QED BY <1>1, <2>1 DEF GetNodeIDAtVisiblePos, Known, IDs
<1>2. CASE pos \notin 0 .. DocLen(doc) - 1
  BY <1>2 DEF GetNodeIDAtVisiblePos, Known
<1> QED BY <1>1, <1>2

\* An insertion that falls back to its position is anchored to a known node.
LEMMA AnchorKnown ==
    ASSUME NEW C, NEW doc \in Seq(Node(C)), NEW pos \in Int
    PROVE  Known(doc, GetAnchorIDForPos(doc, pos))
<1>1. Known(doc, RootID)
  BY DEF Known
<1>2. Known(doc, GetNodeIDAtVisiblePos(doc, pos - 1))
  BY NodeAtPositionKnown
<1> QED BY <1>1, <1>2 DEF GetAnchorIDForPos

\* A node has a position exactly when it is visible.
LEMMA VisiblePosType ==
    ASSUME NEW C, NEW doc \in Seq(Node(C)), NEW id
    PROVE  /\ GetVisiblePosOfNode(doc, id) \in Nat \cup {-1}
           /\ (\E i \in Visible(doc) : doc[i].ID = id) => GetVisiblePosOfNode(doc, id) \in Nat
<1>1. CASE \E i \in Visible(doc) : doc[i].ID = id
  <2>1. PICK i \in Visible(doc) : i = CHOOSE k \in Visible(doc) : doc[k].ID = id
    BY <1>1
  <2>2. VisibleBefore(doc, i) \in Nat
    BY VisibleBeforeType, VisibleFinite
  <2> QED BY <1>1, <2>1, <2>2 DEF GetVisiblePosOfNode
<1>2. CASE ~ \E i \in Visible(doc) : doc[i].ID = id
  BY <1>2 DEF GetVisiblePosOfNode
<1> QED BY <1>1, <1>2

-----------------------------------------------------------------------------
(***************************************************************************)
(* What the operations build.                                              *)
(***************************************************************************)

\* The place of a known node is 0 for the root, an index otherwise.
LEMMA IndexOfType ==
    ASSUME NEW C, NEW doc \in Seq(Node(C)), NEW id, Known(doc, id)
    PROVE  IndexOf(doc, id) \in 0 .. Len(doc)
BY DEF Known, IDs, IndexOf

\* after is doc with node n behind place p.
Spliced(after, doc, p, n) ==
    /\ Len(after) = Len(doc) + 1
    /\ \A i \in 1 .. Len(doc) + 1 :
          after[i] = IF i <= p THEN doc[i] ELSE IF i = p + 1 THEN n ELSE doc[i - 1]

\* The splice, place by place.
LEMMA SpliceAfterProperties ==
    ASSUME NEW C, NEW doc \in Seq(Node(C)), NEW p \in 0 .. Len(doc), NEW n \in Node(C)
    PROVE  /\ SpliceAfter(doc, p, n) \in Seq(Node(C))
           /\ Spliced(SpliceAfter(doc, p, n), doc, p, n)
<1> DEFINE front == SubSeq(doc, 1, p)
           back == SubSeq(doc, p + 1, Len(doc))
           S == Node(C)
<1>1. front \in Seq(S) /\ Len(front) = p /\ \A i \in 1 .. p : front[i] = doc[i]
  BY SubSeqProperties
<1>2. back \in Seq(S) /\ Len(back) = Len(doc) - p
      /\ \A i \in 1 .. Len(doc) - p : back[i] = doc[p + i]
  BY SubSeqProperties
<1>3. <<n>> \in Seq(S) /\ Len(<<n>>) = 1 /\ <<n>>[1] = n
  OBVIOUS
<1> DEFINE mid == front \o <<n>>
<1>4. SpliceAfter(doc, p, n) = mid \o back
  BY DEF SpliceAfter
<1> HIDE DEF front, back, S
<1>5. /\ mid \in Seq(S)
      /\ Len(mid) = p + 1
      /\ \A i \in 1 .. p + 1 : mid[i] = IF i <= p THEN front[i] ELSE <<n>>[i - p]
  BY <1>1, <1>3, ConcatProperties
<1> HIDE DEF mid
<1>6. /\ mid \o back \in Seq(S)
      /\ Len(mid \o back) = Len(mid) + Len(back)
      /\ \A i \in 1 .. Len(mid) + Len(back) : (mid \o back)[i] =
            IF i <= Len(mid) THEN mid[i] ELSE back[i - Len(mid)]
  BY <1>2, <1>5, ConcatProperties
<1>7. Len(mid) = p + 1 /\ Len(mid) + Len(back) = Len(doc) + 1
  BY <1>2, <1>5
<1>8. ASSUME NEW i \in 1 .. Len(doc) + 1
      PROVE  SpliceAfter(doc, p, n)[i] =
                IF i <= p THEN doc[i] ELSE IF i = p + 1 THEN n ELSE doc[i - 1]
  <2>0. (mid \o back)[i] = IF i <= p + 1 THEN mid[i] ELSE back[i - (p + 1)]
    BY <1>6, <1>7
  <2>1. CASE i <= p
    BY <1>1, <1>4, <1>5, <2>0, <2>1
  <2>2. CASE i = p + 1
    BY <1>3, <1>4, <1>5, <2>0, <2>2
  <2>3. CASE i > p + 1
    <3>1. i - (p + 1) \in 1 .. Len(doc) - p /\ p + (i - (p + 1)) = i - 1
      BY <2>3
    <3>2. back[i - (p + 1)] = doc[i - 1]
      BY <1>2, <3>1
    <3>3. ~(i <= p + 1) /\ ~(i <= p) /\ i # p + 1
      BY <2>3
    <3> QED BY <1>4, <2>0, <3>2, <3>3
  <2> QED BY <2>1, <2>2, <2>3
<1> QED BY <1>4, <1>6, <1>7, <1>8 DEF S, Spliced

\* When the new clock is above all clocks in the list, the loop of Insert does
\* not turn: the node comes right behind its anchor.
LEMMA InsertBehindAnchor ==
    ASSUME NEW C, NEW doc \in Seq(Node(C)), NEW char \in C,
           NEW anchorID, Known(doc, anchorID),
           NEW newID \in OpID, newID.clock > 0,
           \A i \in DOMAIN doc : doc[i].ID.clock < newID.clock
    PROVE  Insert(doc, char, anchorID, newID) =
               SpliceAfter(doc, IndexOf(doc, anchorID),
                           [ID |-> newID, Char |-> char, IsDeleted |-> FALSE])
<1>1. ~Known(doc, newID)
  <2>1. newID # RootID
    BY DEF RootID, OpID
  <2>2. newID \notin IDs(doc)
    BY DEF IDs, OpID, Node
  <2> QED BY <2>1, <2>2 DEF Known
<1>2. Skipped(doc, IndexOf(doc, anchorID), newID) = {}
  <2> DEFINE a == IndexOf(doc, anchorID)
  <2>1. a \in 0 .. Len(doc)
    BY IndexOfType
  <2> HIDE DEF a
  <2>2. ASSUME NEW k \in a + 1 .. Len(doc) PROVE ~isHigherPriority(doc[k].ID, newID)
    <3>1. k \in DOMAIN doc /\ doc[k] \in Node(C)
      BY <2>1, <2>2
    <3> QED BY <3>1 DEF isHigherPriority, Node, OpID
  <2> QED BY <2>1, <2>2 DEF Skipped, a
<1>3. Cursor(doc, anchorID, newID) = IndexOf(doc, anchorID)
  BY <1>2, FS_EmptySet, IndexOfType DEF Cursor
<1> QED BY <1>1, <1>3 DEF Insert

\* Insert under those conditions, place by place.
LEMMA InsertProperties ==
    ASSUME NEW C, NEW doc \in Seq(Node(C)), NEW char \in C,
           NEW anchorID, Known(doc, anchorID),
           NEW newID \in OpID, newID.clock > 0,
           \A i \in DOMAIN doc : doc[i].ID.clock < newID.clock
    PROVE  /\ Insert(doc, char, anchorID, newID) \in Seq(Node(C))
           /\ IndexOf(doc, anchorID) \in 0 .. Len(doc)
           /\ Spliced(Insert(doc, char, anchorID, newID), doc, IndexOf(doc, anchorID),
                      [ID |-> newID, Char |-> char, IsDeleted |-> FALSE])
<1> DEFINE n == [ID |-> newID, Char |-> char, IsDeleted |-> FALSE]
<1>1. n \in Node(C)
  BY DEF Node
<1>2. IndexOf(doc, anchorID) \in 0 .. Len(doc)
  BY IndexOfType
<1>3. Insert(doc, char, anchorID, newID) = SpliceAfter(doc, IndexOf(doc, anchorID), n)
  BY InsertBehindAnchor
<1> HIDE DEF n
<1>4. /\ SpliceAfter(doc, IndexOf(doc, anchorID), n) \in Seq(Node(C))
      /\ Spliced(SpliceAfter(doc, IndexOf(doc, anchorID), n), doc, IndexOf(doc, anchorID), n)
  BY <1>1, <1>2, SpliceAfterProperties
<1> QED BY <1>2, <1>3, <1>4 DEF n

\* A node is its three fields.
LEMMA NodeFields ==
    ASSUME NEW C, NEW n \in Node(C)
    PROVE  n = [ID |-> n.ID, Char |-> n.Char, IsDeleted |-> n.IsDeleted]
BY DEF Node

\* A node that is marked keeps the other two.
LEMMA MarkedNode ==
    ASSUME NEW C, NEW n \in Node(C)
    PROVE  [n EXCEPT !.IsDeleted = TRUE] = [ID |-> n.ID, Char |-> n.Char, IsDeleted |-> TRUE]
<1> DEFINE m == [n EXCEPT !.IsDeleted = TRUE]
<1>1. m \in Node(C) /\ m.ID = n.ID /\ m.Char = n.Char /\ m.IsDeleted = TRUE
  BY DEF Node
<1> HIDE DEF m
<1>2. m = [ID |-> m.ID, Char |-> m.Char, IsDeleted |-> m.IsDeleted]
  BY <1>1, NodeFields
<1> QED BY <1>1, <1>2 DEF m

\* Delete keeps every node where it is.
LEMMA DeleteProperties ==
    ASSUME NEW C, NEW doc \in Seq(Node(C)), NEW targetID
    PROVE  /\ Delete(doc, targetID) \in Seq(Node(C))
           /\ Len(Delete(doc, targetID)) = Len(doc)
           /\ \A i \in 1 .. Len(doc) : /\ Delete(doc, targetID)[i].ID = doc[i].ID
                                        /\ Delete(doc, targetID)[i].Char = doc[i].Char
<1>1. ASSUME NEW i \in 1 .. Len(doc)
      PROVE  /\ Delete(doc, targetID)[i] \in Node(C)
             /\ Delete(doc, targetID)[i].ID = doc[i].ID
             /\ Delete(doc, targetID)[i].Char = doc[i].Char
  <2>1. i \in DOMAIN doc /\ doc[i] \in Node(C)
    OBVIOUS
  <2>2. Delete(doc, targetID)[i] = IF doc[i].ID = targetID
                                   THEN [doc[i] EXCEPT !.IsDeleted = TRUE] ELSE doc[i]
    BY <2>1 DEF Delete
  <2> QED BY <2>1, <2>2 DEF Node
<1>2. DOMAIN doc = 1 .. Len(doc) /\ Len(doc) \in Nat
  OBVIOUS
<1>3. DOMAIN Delete(doc, targetID) = 1 .. Len(doc)
  BY <1>2 DEF Delete
<1>4. Delete(doc, targetID) = [i \in 1 .. Len(doc) |-> Delete(doc, targetID)[i]]
  BY <1>2 DEF Delete
<1>5. Delete(doc, targetID) \in [1 .. Len(doc) -> Node(C)]
  BY <1>1, <1>4
<1> QED BY <1>1, <1>2, <1>5

\* The nodes of a chain have the clocks from from + 1 on, and are visible.
LEMMA ChainProperties ==
    ASSUME NEW C, NEW content \in Seq(C), NEW from \in Nat, NEW siteID \in Nat
    PROVE  /\ Chain(content, from, siteID) \in Seq(Node(C))
           /\ Len(Chain(content, from, siteID)) = Len(content)
           /\ \A i \in 1 .. Len(content) :
                /\ Chain(content, from, siteID)[i].ID.clock = from + i
                /\ Chain(content, from, siteID)[i].Char = content[i]
                /\ ~Chain(content, from, siteID)[i].IsDeleted
<1>1. ASSUME NEW i \in 1 .. Len(content)
      PROVE  [ID |-> [clock |-> from + i, site |-> siteID],
              Char |-> content[i], IsDeleted |-> FALSE] \in Node(C)
  BY DEF Node, OpID
<1>2. Chain(content, from, siteID) \in [1 .. Len(content) -> Node(C)]
  BY <1>1 DEF Chain
<1> QED BY <1>2 DEF Chain

\* A text that was saved and loaded again is the same text.
LEMMA ChainText ==
    ASSUME NEW C, NEW content \in Seq(C), NEW from \in Nat, NEW siteID \in Nat
    PROVE  DocString(Chain(content, from, siteID)) = content
<1> DEFINE doc == Chain(content, from, siteID)
<1>1. doc \in Seq(Node(C)) /\ Len(doc) = Len(content)
      /\ \A i \in 1 .. Len(content) : doc[i].Char = content[i] /\ ~doc[i].IsDeleted
  BY ChainProperties
<1> HIDE DEF doc
<1>2. Visible(doc) = 1 .. Len(content)
  BY <1>1 DEF Visible
<1>3. DocLen(doc) = Len(content)
  BY <1>2, FS_Interval DEF DocLen
<1>4. ASSUME NEW i \in 1 .. Len(content) PROVE VisibleBefore(doc, i) = i - 1
  <2>1. {j \in 1 .. Len(content) : j < i} = 1 .. i - 1
    OBVIOUS
  <2>2. Cardinality(1 .. i - 1) = i - 1
    BY FS_Interval
  <2> QED BY <1>2, <2>1, <2>2 DEF VisibleBefore
<1>5. ASSUME NEW p \in 1 .. Len(content) PROVE DocString(doc)[p] = content[p]
  <2>1. /\ VisibleAt(doc, p - 1) \in 1 .. Len(content)
        /\ VisibleBefore(doc, VisibleAt(doc, p - 1)) = p - 1
    BY <1>1, <1>2, <1>3, VisibleAtPosition
  <2>2. VisibleAt(doc, p - 1) = p
    BY <1>4, <2>1
  <2> QED BY <1>1, <1>3, <2>2 DEF DocString
<1>6. DocString(doc) \in Seq(C) /\ Len(DocString(doc)) = Len(content)
  BY <1>1, <1>3, DocStringType
<1> QED BY <1>5, <1>6, SeqEqual DEF doc

-----------------------------------------------------------------------------
(***************************************************************************)
(* Fresh identifiers, stated of any list and clock.                        *)
(***************************************************************************)

Fresh(d, k) ==
    /\ \A i \in DOMAIN d : d[i].ID.clock \in 1 .. k
    /\ \A i, j \in DOMAIN d : d[i].ID.clock = d[j].ID.clock => i = j

\* A node on the next clock keeps them fresh, wherever it is put.
LEMMA SplicedFresh ==
    ASSUME NEW C, NEW d \in Seq(Node(C)), NEW after \in Seq(Node(C)),
           NEW p \in 0 .. Len(d), NEW n \in Node(C), NEW k \in Nat,
           Spliced(after, d, p, n), Fresh(d, k), n.ID.clock = k + 1
    PROVE  Fresh(after, k + 1)
<1> DEFINE old(i) == IF i <= p THEN i ELSE i - 1
<1>0. Len(d) \in Nat /\ DOMAIN d = 1 .. Len(d) /\ DOMAIN after = 1 .. Len(d) + 1
  BY DEF Spliced
<1>1. after[p + 1] = n
  BY <1>0 DEF Spliced
<1>2. ASSUME NEW i \in 1 .. Len(d) + 1, i # p + 1
      PROVE  old(i) \in 1 .. Len(d) /\ after[i] = d[old(i)]
  BY <1>0, <1>2 DEF Spliced
<1>3. ASSUME NEW i \in 1 .. Len(d) + 1, i # p + 1
      PROVE  after[i].ID.clock \in 1 .. k
  BY <1>0, <1>2, <1>3 DEF Fresh
<1>4. ASSUME NEW i \in 1 .. Len(d) + 1, NEW j \in 1 .. Len(d) + 1,
             after[i].ID.clock = after[j].ID.clock
      PROVE  i = j
  <2>1. ASSUME i = p + 1, j # p + 1 PROVE FALSE
    <3>1. after[j].ID.clock \in 1 .. k
      BY <1>3, <2>1
    <3>2. after[i].ID.clock = k + 1
      BY <1>1, <2>1
    <3> QED BY <1>4, <3>1, <3>2
  <2>2. ASSUME i # p + 1, j = p + 1 PROVE FALSE
    <3>1. after[i].ID.clock \in 1 .. k
      BY <1>3, <2>2
    <3>2. after[j].ID.clock = k + 1
      BY <1>1, <2>2
    <3> QED BY <1>4, <3>1, <3>2
  <2>3. ASSUME i # p + 1, j # p + 1 PROVE i = j
    <3>1. old(i) \in DOMAIN d /\ old(j) \in DOMAIN d /\ d[old(i)].ID.clock = d[old(j)].ID.clock
      <4>1. old(i) \in DOMAIN d /\ after[i] = d[old(i)]
        BY <1>0, <1>2, <2>3
      <4>2. old(j) \in DOMAIN d /\ after[j] = d[old(j)]
        BY <1>0, <1>2, <2>3
      <4> QED BY <1>4, <4>1, <4>2
    <3> HIDE DEF old
    <3>2. old(i) = old(j)
      BY <3>1 DEF Fresh
    <3> QED BY <2>3, <3>2 DEF old
  <2> QED BY <2>1, <2>2, <2>3
<1> HIDE DEF old
<1>5. ASSUME NEW i \in 1 .. Len(d) + 1 PROVE after[i].ID.clock \in 1 .. k + 1
  BY <1>1, <1>3
<1> QED BY <1>0, <1>4, <1>5 DEF Fresh

\* So does a deletion.
LEMMA DeletedFresh ==
    ASSUME NEW C, NEW d \in Seq(Node(C)), NEW k \in Nat, NEW id, Fresh(d, k)
    PROVE  Fresh(Delete(d, id), k)
<1>1. /\ DOMAIN d = 1 .. Len(d) /\ DOMAIN Delete(d, id) = 1 .. Len(d)
      /\ \A i \in 1 .. Len(d) : Delete(d, id)[i].ID = d[i].ID
  BY DeleteProperties
<1> QED BY <1>1 DEF Fresh

\* And so does a text in front of the list, on the clocks that follow.
LEMMA ChainFresh ==
    ASSUME NEW C, NEW d \in Seq(Node(C)), NEW content \in Seq(C),
           NEW k \in Nat, NEW siteID \in Nat, Fresh(d, k)
    PROVE  /\ Chain(content, k, siteID) \o d \in Seq(Node(C))
           /\ Fresh(Chain(content, k, siteID) \o d, k + Len(content))
<1> DEFINE ch == Chain(content, k, siteID)
           n == Len(content)
<1>1. /\ ch \in Seq(Node(C)) /\ Len(ch) = n /\ n \in Nat /\ Len(d) \in Nat
      /\ \A i \in 1 .. n : ch[i].ID.clock = k + i
  BY ChainProperties
<1> HIDE DEF ch, n
<1>2. /\ ch \o d \in Seq(Node(C))
      /\ DOMAIN (ch \o d) = 1 .. n + Len(d)
      /\ \A i \in 1 .. n + Len(d) : (ch \o d)[i] = IF i <= n THEN ch[i] ELSE d[i - n]
  <2>1. /\ ch \o d \in Seq(Node(C))
        /\ Len(ch \o d) = Len(ch) + Len(d)
        /\ \A i \in 1 .. Len(ch) + Len(d) :
              (ch \o d)[i] = IF i <= Len(ch) THEN ch[i] ELSE d[i - Len(ch)]
    BY <1>1, ConcatProperties
  <2>2. DOMAIN (ch \o d) = 1 .. n + Len(d)
    BY <1>1, <2>1
  <2> QED BY <1>1, <2>1, <2>2
<1>3. ASSUME NEW i \in 1 .. n + Len(d)
      PROVE  IF i <= n THEN (ch \o d)[i].ID.clock = k + i
                       ELSE i - n \in DOMAIN d /\ (ch \o d)[i] = d[i - n]
  BY <1>1, <1>2
<1>4. ASSUME NEW i \in 1 .. n + Len(d) PROVE (ch \o d)[i].ID.clock \in 1 .. k + n
  BY SMTT(30), <1>1, <1>3 DEF Fresh
<1>5. ASSUME NEW i \in 1 .. n + Len(d), NEW j \in 1 .. n + Len(d),
             (ch \o d)[i].ID.clock = (ch \o d)[j].ID.clock
      PROVE  i = j
  <2>1. CASE i <= n /\ j <= n
    BY <1>1, <1>3, <1>5, <2>1
  <2>2. CASE ~(i <= n) /\ ~(j <= n)
    <3>1. /\ i - n \in DOMAIN d /\ j - n \in DOMAIN d
          /\ d[i - n].ID.clock = d[j - n].ID.clock
      <4>1. i - n \in DOMAIN d /\ (ch \o d)[i] = d[i - n]
        BY <1>3, <2>2
      <4>2. j - n \in DOMAIN d /\ (ch \o d)[j] = d[j - n]
        BY <1>3, <2>2
      <4> QED BY <1>5, <4>1, <4>2
    <3>2. i - n = j - n
      BY SMTT(30), <3>1 DEF Fresh
    <3> QED BY <1>1, <3>2
  <2>3. CASE i <= n /\ ~(j <= n)
    BY SMTT(30), <1>1, <1>3, <1>5, <2>3 DEF Fresh
  <2>4. CASE ~(i <= n) /\ j <= n
    BY SMTT(30), <1>1, <1>3, <1>5, <2>4 DEF Fresh
  <2> QED BY <2>1, <2>2, <2>3, <2>4
<1> QED BY <1>2, <1>4, <1>5 DEF Fresh, ch, n
=============================================================================
