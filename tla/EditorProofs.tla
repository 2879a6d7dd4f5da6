---------------------------- MODULE EditorProofs ----------------------------
(***************************************************************************)
(* Proofs about Editor, for any tabs, characters, row, channel and log     *)
(* sizes, and bounds.                                                      *)
(*                                                                         *)
(* First the operators on texts and tabs: what the common ends of two      *)
(* texts are, that a merge keeps what was inserted in its place, and that  *)
(* no message parts a shadow from its text.  From these, and from what a   *)
(* step of the room puts into the channels, come the types, the merge, the *)
(* numbers a tab has seen, and the answer to a restore.                    *)
(*                                                                         *)
(* The second half is about convergence: what operations do to a text one  *)
(* after the other, what a step is to a tab that has no part in it, in     *)
(* which order things are on their way, and how a tab follows the texts    *)
(* that the document had.                                                  *)
(*                                                                         *)
(* The last part does the same for the identifiers in a tab's shadow, with *)
(* placeholders for those that the room has yet to give.                   *)
(***************************************************************************)
EXTENDS Editor, RoomProofs

-----------------------------------------------------------------------------
(***************************************************************************)
(* Comparing texts: what PrefixLen, SuffixLen and Middle return.           *)
(***************************************************************************)

\* Max is a greatest element, where all are below some number.
LEMMA MaxUpTo ==
    ASSUME NEW N \in Nat, NEW S \in SUBSET (0 .. N), S # {}
    PROVE  Max(S) \in S /\ \A n \in S : n <= Max(S)
<1> DEFINE T == {k \in Nat : N - k \in S}
<1>1. T \subseteq Nat /\ T # {}
  <2> PICK n \in S : TRUE
    OBVIOUS
  <2>1. N - n \in Nat /\ N - (N - n) \in S
    OBVIOUS
  <2> QED
    BY <2>1
<1>2. PICK m \in T : \A k \in T : m <= k
  BY <1>1, LeastOf
<1>3. N - m \in S
  OBVIOUS
<1>4. ASSUME NEW n \in S PROVE N - m >= n
  <2>1. N - n \in Nat /\ N - (N - n) = n
    OBVIOUS
  <2>2. N - n \in T
    BY <2>1
  <2>3. m <= N - n
    BY <1>2, <2>2
  <2>4. m \in Nat /\ n \in Nat
    OBVIOUS
  <2> QED
    BY <2>3, <2>4
<1>5. \E x \in S : \A y \in S : x >= y
  BY <1>3, <1>4
<1> HIDE DEF T
<1> QED
  BY <1>5 DEF Max

\* Min of two numbers, and Max.
LEMMA MinOfTwo ==
    ASSUME NEW a \in Int, NEW b \in Int
    PROVE  Min({a, b}) = IF a <= b THEN a ELSE b
<1>1. \E x \in {a, b} : \A y \in {a, b} : x <= y
  OBVIOUS
<1>2. /\ Min({a, b}) \in {a, b}
      /\ Min({a, b}) <= a /\ Min({a, b}) <= b
  BY <1>1 DEF Min
<1> QED
  BY <1>2

\* The maximum of two numbers is the greater one.
LEMMA MaxOfTwo ==
    ASSUME NEW a \in Int, NEW b \in Int
    PROVE  Max({a, b}) = IF a >= b THEN a ELSE b
<1>1. \E x \in {a, b} : \A y \in {a, b} : x >= y
  OBVIOUS
<1>2. /\ Max({a, b}) \in {a, b}
      /\ Max({a, b}) >= a /\ Max({a, b}) >= b
  BY <1>1 DEF Max
<1> QED
  BY <1>2

\* Two texts share p characters in front and, of what is left, s at the end.
SharedEnds(a, b, p, s) ==
    /\ p \in Nat /\ s \in Nat /\ p + s <= Len(a) /\ p + s <= Len(b)
    /\ \A i \in 1 .. p : a[i] = b[i]
    /\ \A i \in 0 .. s - 1 : a[Len(a) - i] = b[Len(b) - i]

\* PrefixLen and SuffixLen are lengths of ends that the two texts share.
LEMMA EndsShared ==
    ASSUME NEW C, NEW a \in Seq(C), NEW b \in Seq(C)
    PROVE  SharedEnds(a, b, PrefixLen(a, b), SuffixLen(a, b))
<1> DEFINE N == Min({Len(a), Len(b)})
           P == {n \in 0 .. N : \A i \in 1 .. n : a[i] = b[i]}
           p == PrefixLen(a, b)
           S == {n \in 0 .. N - p : \A i \in 0 .. n - 1 : a[Len(a) - i] = b[Len(b) - i]}
<1>1. N \in Nat /\ N <= Len(a) /\ N <= Len(b)
  BY MinOfTwo
<1>2. p \in P
  <2>1. 0 \in P
    BY <1>1
  <2>2. Max(P) \in P
    BY <1>1, <2>1, MaxUpTo
  <2> QED
    BY <2>2 DEF PrefixLen
<1>3. p \in 0 .. N /\ \A i \in 1 .. p : a[i] = b[i]
  BY <1>2
<1>4. SuffixLen(a, b) \in S
  <2> HIDE DEF p
  <2>1. 0 \in S /\ N - p \in Nat
    BY <1>1, <1>3
  <2>2. Max(S) \in S
    BY <2>1, MaxUpTo
  <2> QED
    BY <2>2 DEF SuffixLen, p
<1> HIDE DEF p, N
<1> QED
  BY <1>1, <1>3, <1>4 DEF SharedEnds, p

\* They share the same ends the other way round.
LEMMA EndsSymmetric ==
    ASSUME NEW C, NEW a \in Seq(C), NEW b \in Seq(C)
    PROVE  PrefixLen(b, a) = PrefixLen(a, b) /\ SuffixLen(b, a) = SuffixLen(a, b)
<1>1. {Len(b), Len(a)} = {Len(a), Len(b)}
  OBVIOUS
<1>2. Min({Len(b), Len(a)}) = Min({Len(a), Len(b)})
  BY <1>1
<1> DEFINE N == Min({Len(a), Len(b)})
<1>3. {n \in 0 .. N : \A i \in 1 .. n : b[i] = a[i]} = {n \in 0 .. N : \A i \in 1 .. n : a[i] = b[i]}
  OBVIOUS
<1>4. PrefixLen(b, a) = PrefixLen(a, b)
  BY <1>2, <1>3 DEF PrefixLen
<1>5. {n \in 0 .. N - PrefixLen(a, b) : \A i \in 0 .. n - 1 : b[Len(b) - i] = a[Len(a) - i]}
      = {n \in 0 .. N - PrefixLen(a, b) : \A i \in 0 .. n - 1 : a[Len(a) - i] = b[Len(b) - i]}
  OBVIOUS
<1>6. SuffixLen(b, a) = SuffixLen(a, b)
  BY <1>2, <1>4, <1>5 DEF SuffixLen
<1> QED
  BY <1>4, <1>6

\* What b has between the ends it shares with a.
LEMMA MiddleProperties ==
    ASSUME NEW C, NEW a \in Seq(C), NEW b \in Seq(C)
    PROVE  LET p == PrefixLen(a, b)
               s == SuffixLen(a, b)
           IN  /\ Middle(a, b) \in Seq(C)
               /\ Len(Middle(a, b)) = Len(b) - s - p
               /\ \A i \in 1 .. Len(b) - s - p : Middle(a, b)[i] = b[p + i]
<1> DEFINE p == PrefixLen(a, b)
           s == SuffixLen(a, b)
<1> HIDE DEF p, s
<1>1. p \in Nat /\ s \in Nat /\ p + s <= Len(b)
  BY EndsShared DEF SharedEnds, p, s
<1>2. \A i \in p + 1 .. Len(b) - s : b[i] \in C
  BY <1>1
<1>3. p + 1 \in Int /\ Len(b) - s \in Int
  BY <1>1
<1>4. /\ SubSeq(b, p + 1, Len(b) - s) \in Seq(C)
      /\ Len(SubSeq(b, p + 1, Len(b) - s)) =
            IF p + 1 <= Len(b) - s THEN Len(b) - s - (p + 1) + 1 ELSE 0
      /\ \A i \in 1 .. Len(b) - s - (p + 1) + 1 : SubSeq(b, p + 1, Len(b) - s)[i] = b[p + 1 + i - 1]
  BY <1>2, <1>3, SubSeqProperties
<1>5. Len(SubSeq(b, p + 1, Len(b) - s)) = Len(b) - s - p
  BY <1>1, <1>4
<1>6. \A i \in 1 .. Len(b) - s - p : SubSeq(b, p + 1, Len(b) - s)[i] = b[p + i]
  BY <1>1, <1>4
<1> QED
  BY <1>4, <1>5, <1>6 DEF Middle, p, s

-----------------------------------------------------------------------------
(***************************************************************************)
(* mergeTexts: what was inserted keeps its place.                          *)
(***************************************************************************)

\* A character of base that server has was in front of the ends that they share,
\* or behind: nothing else of base is left.
LEMMA SharedPlace ==
    ASSUME NEW base \in Seq(Chars), NEW local \in Seq(Chars), NEW server \in Seq(Chars),
           Apart(base, local, server),
           NEW x \in DOMAIN base, NEW y \in DOMAIN server, base[x] = server[y]
    PROVE  LET kept == Len(base) - SuffixLen(base, server)
               end == Len(server) - SuffixLen(base, server)
           IN  \/ x <= PrefixLen(base, server) /\ y = x
               \/ x > kept /\ y = end + (x - kept)
<1> DEFINE P == PrefixLen(base, server)
           S == SuffixLen(base, server)
           kept == Len(base) - S
           end == Len(server) - S
<1>1. SharedEnds(base, server, P, S)
  BY EndsShared
<1>2. PrefixLen(server, base) = P /\ SuffixLen(server, base) = S
  BY EndsSymmetric
<1>3. /\ Len(Middle(server, base)) = Len(base) - S - P
      /\ \A i \in 1 .. Len(base) - S - P : Middle(server, base)[i] = base[P + i]
  <2>1. LET p == PrefixLen(server, base)
            s == SuffixLen(server, base)
        IN  /\ Len(Middle(server, base)) = Len(base) - s - p
            /\ \A i \in 1 .. Len(base) - s - p : Middle(server, base)[i] = base[p + i]
    BY MiddleProperties
  <2> HIDE DEF P, S
  <2> QED
    BY <1>2, <2>1
<1>4. Middle(server, base) \in Seq(Chars)
  BY MiddleProperties
<1> HIDE DEF P, S
<1>5. \A i \in DOMAIN server : i # y => server[i] # server[y]
  <2>1. base[x] \in Range(base)
    BY DEF Range
  <2> QED
    BY <2>1 DEF Apart, Once
<1>6. CASE x <= P
  <2>1. x \in DOMAIN server /\ server[x] = server[y]
    BY <1>1, <1>6 DEF SharedEnds
  <2> QED
    BY <1>5, <1>6, <2>1 DEF P, S
<1>7. CASE P < x /\ x <= kept
  <2>1. x - P \in 1 .. Len(base) - S - P /\ P + (x - P) = x
    BY <1>1, <1>7 DEF SharedEnds
  <2>2. x - P \in DOMAIN Middle(server, base) /\ Middle(server, base)[x - P] = base[x]
    BY <1>3, <1>4, <2>1
  <2>3. base[x] \in Range(Middle(server, base)) /\ base[x] \in Range(server)
    BY <2>2 DEF Range
  <2> QED
    BY <2>3 DEF Apart
<1>8. CASE kept < x
  <2>1. /\ Len(base) - x \in 0 .. S - 1
        /\ Len(base) - (Len(base) - x) = x
        /\ Len(server) - (Len(base) - x) = end + (x - kept)
        /\ end + (x - kept) \in DOMAIN server
    BY SMTT(30), <1>1, <1>8 DEF SharedEnds
  <2>2. server[end + (x - kept)] = server[y]
    BY <1>1, <2>1 DEF SharedEnds
  <2> QED
    BY <1>5, <1>8, <2>1, <2>2 DEF P, S
<1>9. x \in Int /\ P \in Int /\ kept \in Int
  BY <1>1 DEF SharedEnds
<1> QED
  BY <1>6, <1>7, <1>8, <1>9

\* What the tab inserted comes between the characters it was inserted between.
LEMMA MergeKeeps ==
    ASSUME NEW base \in Seq(Chars), NEW local \in Seq(Chars), NEW server \in Seq(Chars),
           Apart(base, local, server), base # local
    PROVE  KeepsPlace(base, local, server, mergeTexts(base, local, server))
<1> DEFINE P == PrefixLen(base, server)
           S == SuffixLen(base, server)
           kept == Len(base) - S
           end == Len(server) - S
           p == PrefixLen(base, local)
           s == SuffixLen(base, local)
           pos == MergePos(p, base, server)
<1>1. SharedEnds(base, server, P, S) /\ SharedEnds(base, local, p, s)
  BY EndsShared
<1>2. pos = IF p < P THEN p ELSE IF p >= kept THEN end + (p - kept) ELSE end
  BY DEF MergePos
<1>3. Middle(base, local) # << >>
  <2> SUFFICES ASSUME Middle(base, local) = << >>
               PROVE  base = local
    OBVIOUS
  <2>1. PrefixLen(local, base) = p /\ SuffixLen(local, base) = s
    BY EndsSymmetric
  <2>2. Len(Middle(base, local)) = Len(local) - s - p
    BY MiddleProperties
  <2>3. Len(Middle(local, base)) = Len(base) - s - p
    BY <2>1, MiddleProperties
  <2> HIDE DEF p, s
  <2>4. Len(local) = p + s /\ Len(base) = p + s
    BY <1>1, <2>2, <2>3 DEF Apart, SharedEnds
  <2>5. ASSUME NEW i \in 1 .. p + s PROVE base[i] = local[i]
    <3>1. CASE i <= p
      BY <1>1, <3>1 DEF SharedEnds
    <3>2. CASE i > p
      <4> DEFINE k == p + s - i
      <4>1. k \in 0 .. s - 1 /\ p + s - k = i
        BY <1>1, <3>2 DEF SharedEnds
      <4> HIDE DEF k
      <4>2. base[p + s - k] = local[p + s - k]
        BY <1>1, <2>4, <4>1 DEF SharedEnds
      <4> QED
        BY <4>1, <4>2
    <3> QED
      BY <1>1, <3>1, <3>2 DEF SharedEnds
  <2> QED
    BY <2>4, <2>5, SeqEqual
<1>4. mergeTexts(base, local, server) = WithBlock(server, pos, Middle(base, local))
  BY <1>3 DEF mergeTexts, WithBlock, Apart
<1> HIDE DEF P, S, p, s, pos
<1>5. pos \in 0 .. Len(server)
  BY <1>1, <1>2 DEF SharedEnds
<1>6. ASSUME NEW x \in DOMAIN base, NEW y \in DOMAIN server, base[x] = server[y]
      PROVE  x <= p <=> y <= pos
  <2>1. \/ x <= P /\ y = x
        \/ x > kept /\ y = end + (x - kept)
    BY <1>6, SharedPlace DEF P, S
  <2> QED
    BY SMTT(30), <1>1, <1>2, <2>1 DEF SharedEnds
<1> QED
  BY <1>4, <1>5, <1>6 DEF KeepsPlace, p

-----------------------------------------------------------------------------
(***************************************************************************)
(* A tab that is edited.                                                   *)
(***************************************************************************)

\* A tab whose shadow has an identifier for every character.
Aligned(b) == b \in Tab /\ Len(b.shadow) = Len(b.value)

\* The fields that typing does not touch.
SameSession(b, n) ==
    /\ n.lastSeq = b.lastSeq /\ n.base = b.base /\ n.synced = b.synced
    /\ n.away = b.away /\ n.restoring = b.restoring

\* The parts that a text that becomes another is made of, as numbers.
LEMMA Parts ==
    ASSUME NEW C, NEW a \in Seq(C), NEW new \in Seq(C)
    PROVE  LET p == PrefixLen(a, new)
               cut == Len(Middle(new, a))
           IN  /\ p \in Nat /\ cut \in Nat /\ p + cut <= Len(a)
               /\ Len(Middle(a, new)) \in Nat
               /\ Len(new) = p + Len(Middle(a, new)) + (Len(a) - (p + cut))
<1> DEFINE p == PrefixLen(a, new)
           s == SuffixLen(a, new)
<1>1. SharedEnds(a, new, p, s)
  BY EndsShared
<1>2. Len(Middle(a, new)) = Len(new) - s - p
  BY MiddleProperties
<1>3. Len(Middle(new, a)) = Len(a) - s - p
  <2>1. Len(Middle(new, a)) = Len(a) - SuffixLen(new, a) - PrefixLen(new, a)
    BY MiddleProperties
  <2> QED
    BY <2>1, EndsSymmetric
<1>4. /\ p \in Nat /\ s \in Nat /\ Len(a) \in Nat /\ Len(new) \in Nat
      /\ p + s <= Len(a) /\ p + s <= Len(new)
  BY <1>1 DEF SharedEnds
<1> DEFINE cut == Len(Middle(new, a))
           put == Len(Middle(a, new))
<1>5. put = Len(new) - s - p /\ cut = Len(a) - s - p
  BY <1>2, <1>3
<1> HIDE DEF p, s, cut, put
<1>6. /\ cut \in Nat /\ p + cut <= Len(a) /\ put \in Nat
      /\ Len(new) = p + put + (Len(a) - (p + cut))
  BY <1>4, <1>5
<1> QED
  BY <1>4, <1>6 DEF p, cut, put

\* A placeholder has the form of an identifier.
LEMMA PlaceholderType == ASSUME NEW n \in Nat PROVE Placeholder(n) \in OpID
<1>1. PersistSite + 1 \in Nat
  BY BoundAssumption DEF PersistSite
<1> QED
  BY <1>1 DEF Placeholder, OpID

\* diffToOps leaves a tab whose shadow fits its text.
LEMMA EditedAligned ==
    ASSUME NEW b, Aligned(b), NEW new \in Seq(Chars)
    PROVE  /\ Aligned(Edited(b, new))
           /\ Edited(b, new).value = new
           /\ SameSession(b, Edited(b, new))
<1> DEFINE p == PrefixLen(b.value, new)
           cut == Len(Middle(new, b.value))
           put == Middle(b.value, new)
           ids == b.count + 1 .. b.count + Len(put)
           names == [i \in DOMAIN put |-> Placeholder(b.count + i)]
           front == SubSeq(b.shadow, 1, p)
           back == SubSeq(b.shadow, p + cut + 1, Len(b.shadow))
<1>1. b \in Tab /\ Len(b.shadow) = Len(b.value)
  BY DEF Aligned
<1>2. /\ b.value \in Seq(Chars) /\ b.shadow \in Seq(OpID) /\ b.count \in Nat
      /\ b.pending \in SUBSET Nat
  BY <1>1 DEF Tab
<1>3. /\ p \in Nat /\ cut \in Nat /\ p + cut <= Len(b.value)
      /\ Len(put) \in Nat
      /\ Len(new) = p + Len(put) + (Len(b.value) - (p + cut))
  BY <1>2, Parts
<1>4. put \in Seq(Chars)
  BY <1>2, MiddleProperties
<1> HIDE DEF p, cut, put
<1>5. names \in Seq(OpID) /\ Len(names) = Len(put)
  <2>1. DOMAIN put = 1 .. Len(put)
    BY <1>4
  <2>2. \A i \in 1 .. Len(put) : Placeholder(b.count + i) \in OpID
    BY <1>2, <1>3, PlaceholderType
  <2> QED
    BY <1>3, <2>1, <2>2
<1>6. front \in Seq(OpID) /\ Len(front) = p
  <2>1. \A i \in 1 .. p : b.shadow[i] \in OpID
    BY <1>1, <1>2, <1>3
  <2> QED
    BY <1>3, <2>1, SubSeqProperties
<1>7. back \in Seq(OpID) /\ Len(back) = Len(b.value) - (p + cut)
  <2>1. \A i \in p + cut + 1 .. Len(b.shadow) : b.shadow[i] \in OpID
    BY <1>1, <1>2, <1>3
  <2>2. p + cut + 1 \in Int /\ Len(b.shadow) \in Int
    BY <1>1, <1>2, <1>3
  <2>3. /\ back \in Seq(OpID)
        /\ Len(back) = IF p + cut + 1 <= Len(b.shadow)
                       THEN Len(b.shadow) - (p + cut + 1) + 1 ELSE 0
    BY <2>1, <2>2, SubSeqProperties
  <2> QED
    BY <1>1, <1>3, <2>2, <2>3
<1> HIDE DEF names, front, back
<1>8. front \o names \o back \in Seq(OpID) /\ Len(front \o names \o back) = Len(new)
  <2> DEFINE both == front \o names
  <2>1. both \in Seq(OpID) /\ Len(both) = Len(front) + Len(names)
    BY <1>5, <1>6, ConcatProperties
  <2> HIDE DEF both
  <2>2. both \o back \in Seq(OpID) /\ Len(both \o back) = Len(both) + Len(back)
    BY <1>7, <2>1, ConcatProperties
  <2> QED
    BY <1>3, <1>5, <1>6, <1>7, <2>1, <2>2 DEF both
<1>9. ids \subseteq Nat /\ Cardinality(ids) \in Nat
  <2>1. b.count + 1 \in Int /\ b.count + Len(put) \in Int
    BY <1>2, <1>3
  <2>2. IsFiniteSet(ids)
    BY <2>1, FS_Interval
  <2>3. Cardinality(ids) \in Nat
    BY <2>2, FS_CardinalityType
  <2> QED
    BY <1>2, <2>3
<1> HIDE DEF ids
<1>10. Edited(b, new) = [b EXCEPT !.value = new, !.shadow = front \o names \o back,
                                  !.pending = b.pending \cup ids,
                                  !.count = b.count + Cardinality(ids)]
  BY DEF Edited, p, cut, put, ids, names, front, back
<1>11. b.count + Cardinality(ids) \in Nat /\ b.pending \cup ids \in SUBSET Nat
  <2>1. b.count + Cardinality(ids) \in Nat
    BY <1>2, <1>9
  <2>2. b.pending \cup ids \in SUBSET Nat
    <3>1. b.pending \subseteq Nat
      BY <1>2
    <3> QED
      BY <1>9, <3>1
  <2> QED
    BY <2>1, <2>2
<1> QED
  BY <1>1, <1>8, <1>10, <1>11 DEF Aligned, SameSession, Tab

\* The two halves of diffToOps.
Cuts(b, new) ==
    LET p == PrefixLen(b.value, new)
        cut == Len(Middle(new, b.value))
    IN  [d \in 1 .. cut |->
            [type |-> "delete", Position |-> p + cut - d, ID |-> b.shadow[p + cut - d + 1]]]

\* The inserts that diffToOps makes, behind the deletes.
Puts(b, new) ==
    LET p == PrefixLen(b.value, new)
        put == Middle(b.value, new)
    IN  [i \in DOMAIN put |->
            [type |-> "insert", Char |-> put[i], Position |-> p + i - 1,
             ID |-> IF i > 1 THEN Placeholder(b.count + i - 1)
                    ELSE IF p = 0 THEN RootID ELSE b.shadow[p],
             clientOpID |-> b.count + i]]

\* What they make are operations that the server takes.
LEMMA DiffHalves ==
    ASSUME NEW b, Aligned(b), NEW new \in Seq(Chars)
    PROVE  /\ diffToOps(b, new) = Cuts(b, new) \o Puts(b, new)
           /\ Cuts(b, new) \in Seq(Request) /\ Puts(b, new) \in Seq(Request)
<1> DEFINE p == PrefixLen(b.value, new)
           cut == Len(Middle(new, b.value))
           put == Middle(b.value, new)
           Del(d) == [type |-> "delete", Position |-> p + cut - d, ID |-> b.shadow[p + cut - d + 1]]
           Anchor(i) == IF i > 1 THEN Placeholder(b.count + i - 1)
                        ELSE IF p = 0 THEN RootID ELSE b.shadow[p]
           Ins(i) == [type |-> "insert", Char |-> put[i], Position |-> p + i - 1,
                      ID |-> Anchor(i), clientOpID |-> b.count + i]
<1>1. b \in Tab /\ Len(b.shadow) = Len(b.value)
  BY DEF Aligned
<1>2. b.value \in Seq(Chars) /\ b.shadow \in Seq(OpID) /\ b.count \in Nat
  BY <1>1 DEF Tab
<1>3. /\ p \in Nat /\ cut \in Nat /\ p + cut <= Len(b.shadow)
      /\ Len(put) \in Nat
  BY <1>1, <1>2, Parts
<1>4. put \in Seq(Chars)
  BY <1>2, MiddleProperties
<1>5. /\ Cuts(b, new) = [d \in 1 .. cut |-> Del(d)]
      /\ Puts(b, new) = [i \in DOMAIN put |-> Ins(i)]
      /\ diffToOps(b, new) = Cuts(b, new) \o Puts(b, new)
  BY DEF diffToOps, Cuts, Puts
<1> HIDE DEF p, cut, put
<1>6. ASSUME NEW d \in 1 .. cut PROVE Del(d) \in Request
  <2>1. p + cut - d \in Int /\ p + cut - d + 1 \in 1 .. Len(b.shadow)
    BY <1>2, <1>3
  <2>2. b.shadow[p + cut - d + 1] \in OpID
    BY <1>2, <2>1
  <2> QED
    BY <2>1, <2>2 DEF Request, DeleteRequest
<1>7. ASSUME NEW i \in 1 .. Len(put) PROVE Ins(i) \in Request
  <2>1. Anchor(i) \in OpID
    <3>1. CASE i > 1
      <4>1. b.count + i - 1 \in Nat
        BY <1>2, <1>3
      <4> QED
        BY <3>1, <4>1, PlaceholderType
    <3>2. CASE ~(i > 1) /\ p = 0
      BY <3>2 DEF RootID, OpID, RootSite
    <3>3. CASE ~(i > 1) /\ p # 0
      BY <1>2, <1>3, <3>3
    <3> QED
      BY <3>1, <3>2, <3>3
  <2>2. put[i] \in Chars /\ p + i - 1 \in Int /\ b.count + i \in Nat
    BY <1>2, <1>3, <1>4
  <2> HIDE DEF Anchor
  <2> QED
    BY <2>1, <2>2 DEF Request, InsertRequest
<1> HIDE DEF Del, Ins
<1>8. [d \in 1 .. cut |-> Del(d)] \in Seq(Request)
  BY <1>3, <1>6
<1>9. [i \in DOMAIN put |-> Ins(i)] \in Seq(Request)
  <2>1. DOMAIN put = 1 .. Len(put)
    BY <1>4
  <2> QED
    BY <1>3, <1>7, <2>1
<1> QED
  BY <1>5, <1>8, <1>9

\* diffToOps makes requests that the room can decode.
LEMMA DiffIsRequests ==
    ASSUME NEW b, Aligned(b), NEW new \in Seq(Chars)
    PROVE  diffToOps(b, new) \in Seq(Request)
BY DiffHalves, ConcatProperties

-----------------------------------------------------------------------------
(***************************************************************************)
(* A tab that follows the server's messages.                               *)
(***************************************************************************)

\* A character that is put into a text makes it one longer.
LEMMA PutInText ==
    \A s \in Seq(Chars), pos \in Nat, x \in Chars :
        PutAt(s, pos, x) \in Seq(Chars) /\ Len(PutAt(s, pos, x)) = Len(s) + 1
<1> TAKE s \in Seq(Chars), pos \in Nat, x \in Chars
<1> QED
  BY PutAnywhere, Zenon

\* An identifier that is put into a shadow makes it one longer.
LEMMA PutInShadow ==
    \A s \in Seq(OpID), pos \in Nat, x \in OpID :
        PutAt(s, pos, x) \in Seq(OpID) /\ Len(PutAt(s, pos, x)) = Len(s) + 1
<1> TAKE s \in Seq(OpID), pos \in Nat, x \in OpID
<1> QED
  BY PutAnywhere, Zenon

\* The first of some places is one of them.
LEMMA MinPlace ==
    ASSUME NEW S \in SUBSET Nat, S # {}
    PROVE  Min(S) \in S
<1>1. PICK m \in S : \A n \in S : m <= n
  BY LeastOf
<1> QED
  BY <1>1 DEF Min

\* Text and shadow are changed at the same place.
LEMMA RemoteOpAligned ==
    ASSUME NEW b, Aligned(b), NEW op \in Op
    PROVE  Aligned(RemoteOp(b, op)) /\ SameSession(b, RemoteOp(b, op))
<1>1. b \in Tab /\ Len(b.shadow) = Len(b.value)
  BY DEF Aligned
<1>2. b.value \in Seq(Chars) /\ b.shadow \in Seq(OpID)
  BY <1>1 DEF Tab
<1>3. CASE op.type = "insert" /\ op \in InsertOp
  <2>1. op.position \in Nat /\ op.Char \in Chars /\ op.newID \in OpID
    BY <1>3 DEF InsertOp
  <2>2. /\ PutAt(b.value, op.position, op.Char) \in Seq(Chars)
        /\ Len(PutAt(b.value, op.position, op.Char)) = Len(b.value) + 1
    BY <1>2, <2>1, PutInText
  <2>3. /\ PutAt(b.shadow, op.position, op.newID) \in Seq(OpID)
        /\ Len(PutAt(b.shadow, op.position, op.newID)) = Len(b.shadow) + 1
    BY <1>2, <2>1, PutInShadow
  <2>4. RemoteOp(b, op) = [b EXCEPT !.value = PutAt(b.value, op.position, op.Char),
                                    !.shadow = PutAt(b.shadow, op.position, op.newID)]
    BY <1>3 DEF RemoteOp, Shown
  <2> QED
    BY <1>1, <2>2, <2>3, <2>4 DEF Aligned, SameSession, Tab
<1>4. CASE op.type = "delete" /\ op \in DeleteOp
  <2>1. op.position \in Nat
    BY <1>4 DEF DeleteOp
  <2>2. /\ CutAt(b.value, op.position) \in Seq(Chars)
        /\ CutAt(b.shadow, op.position) \in Seq(OpID)
        /\ Len(CutAt(b.shadow, op.position)) = Len(CutAt(b.value, op.position))
    BY <1>1, <1>2, <2>1, CutAnywhere
  <2>3. RemoteOp(b, op) = [b EXCEPT !.value = CutAt(b.value, op.position),
                                    !.shadow = CutAt(b.shadow, op.position)]
    BY <1>4 DEF RemoteOp, Shown
  <2> QED
    BY <1>1, <2>2, <2>3 DEF Aligned, SameSession, Tab
<1> QED
  BY <1>3, <1>4, OpKinds

\* An acknowledgement gives an identifier to one character.
LEMMA SelfInsertAckAligned ==
    ASSUME NEW b, Aligned(b), NEW op \in InsertOp
    PROVE  Aligned(SelfInsertAck(b, op)) /\ SameSession(b, SelfInsertAck(b, op))
<1> DEFINE at == IF Named(b, op) # {} THEN Named(b, op) ELSE Waiting(b)
           names == IF at = {} THEN b.shadow ELSE [b.shadow EXCEPT ![Min(at)] = op.newID]
           rest == b.pending \ {op.clientOpID}
<1>1. b \in Tab /\ Len(b.shadow) = Len(b.value)
  BY DEF Aligned
<1>2. b.shadow \in Seq(OpID) /\ b.pending \in SUBSET Nat /\ op.newID \in OpID
  BY <1>1 DEF Tab, InsertOp
<1>3. SelfInsertAck(b, op) = [b EXCEPT !.shadow = names, !.pending = rest]
  BY DEF SelfInsertAck
<1>4. rest \in SUBSET Nat
  BY <1>2
<1>5. names \in Seq(OpID) /\ Len(names) = Len(b.shadow)
  <2>1. at \subseteq 1 .. Len(b.shadow)
    BY <1>2 DEF Named, Waiting
  <2> HIDE DEF at
  <2>2. CASE at # {}
    <3>1. at \subseteq Nat
      BY <2>1
    <3>2. Min(at) \in 1 .. Len(b.shadow)
      BY <2>1, <2>2, <3>1, MinPlace
    <3> QED
      BY <1>2, <2>2, <3>2, ExceptSeq
  <2>3. CASE at = {}
    BY <1>2, <2>3
  <2> QED
    BY <2>2, <2>3
<1> HIDE DEF at, names, rest
<1> QED
  BY <1>1, <1>3, <1>4, <1>5 DEF Aligned, SameSession, Tab

\* An operation that a tab is shown keeps its shadow as long as its text.
LEMMA ShowOpAligned ==
    ASSUME NEW b, Aligned(b), NEW op \in Op, NEW me
    PROVE  Aligned(ShowOp(b, op, me)) /\ SameSession(b, ShowOp(b, op, me))
<1>1. SameSession(b, b)
  BY DEF SameSession
<1> QED
  BY <1>1, RemoteOpAligned, SelfInsertAckAligned, OpKinds DEF ShowOp

\* The function that Replayed goes along exists: it shows one operation after the
\* other.
ReplaySteps(after, n, b, ops, me) ==
    after = [k \in 0 .. n |-> IF k = 0 THEN b ELSE ShowOp(after[k - 1], ops[k], me)]

\* A replay has a result after each of its operations.
LEMMA ReplayExists ==
    ASSUME NEW b, NEW ops, Len(ops) \in Nat, NEW me
    PROVE  \E after : ReplaySteps(after, Len(ops), b, ops, me)
<1> DEFINE N == Len(ops)
           S == {n \in 0 .. N : \E after : ReplaySteps(after, n, b, ops, me)}
<1>1. 0 \in S
  <2> DEFINE f == [k \in 0 .. 0 |-> b]
  <2>1. ReplaySteps(f, 0, b, ops, me)
    BY DEF ReplaySteps
  <2> QED
    BY <2>1
<1>2. ASSUME NEW n \in 0 .. N - 1, n \in S PROVE n + 1 \in S
  <2>1. PICK f : ReplaySteps(f, n, b, ops, me)
    BY <1>2
  <2> DEFINE g == [k \in 0 .. n + 1 |-> IF k <= n THEN f[k] ELSE ShowOp(f[n], ops[n + 1], me)]
  <2>2. ASSUME NEW k \in 0 .. n + 1
        PROVE  g[k] = IF k = 0 THEN b ELSE ShowOp(g[k - 1], ops[k], me)
    <3>1. CASE k = 0
      BY <2>1, <3>1 DEF ReplaySteps
    <3>2. CASE k \in 1 .. n
      <4>1. k \in 0 .. n /\ k - 1 \in 0 .. n /\ k # 0 /\ k - 1 \in 0 .. n + 1 /\ k - 1 <= n
        BY <3>2
      <4>2. f[k] = ShowOp(f[k - 1], ops[k], me)
        BY <2>1, <4>1 DEF ReplaySteps
      <4>3. g[k] = f[k] /\ g[k - 1] = f[k - 1]
        BY <3>2, <4>1
      <4> HIDE DEF g
      <4> QED
        BY <4>1, <4>2, <4>3
    <3>3. CASE k = n + 1
      <4>1. k # 0 /\ k - 1 = n
        BY <3>3
      <4>2. g[k] = ShowOp(f[n], ops[n + 1], me) /\ g[n] = f[n]
        BY <3>3
      <4> HIDE DEF g
      <4> QED
        BY <3>3, <4>1, <4>2
    <3> QED
      BY <3>1, <3>2, <3>3
  <2>3. ReplaySteps(g, n + 1, b, ops, me)
    <3>1. g = [k \in 0 .. n + 1 |-> g[k]]
      OBVIOUS
    <3> HIDE DEF g
    <3> QED
      BY <2>2, <3>1 DEF ReplaySteps
  <2> HIDE DEF g
  <2>4. n + 1 \in 0 .. N
    OBVIOUS
  <2> QED
    BY <2>3, <2>4
<1>3. 0 .. N \subseteq S
  <2> HIDE DEF S
  <2> QED
    BY <1>1, <1>2, UpTo
<1> QED
  BY <1>3

\* A replay leaves a tab whose shadow fits its text.
LEMMA ReplayedAligned ==
    ASSUME NEW b, Aligned(b), NEW ops \in Seq(Op), NEW me
    PROVE  Aligned(Replayed(b, ops, me)) /\ SameSession(b, Replayed(b, ops, me))
<1> DEFINE after == CHOOSE f : f = [k \in 0 .. Len(ops) |->
                        IF k = 0 THEN b ELSE ShowOp(f[k - 1], ops[k], me)]
<1>1. Replayed(b, ops, me) = after[Len(ops)]
  BY DEF Replayed
<1>2. ReplaySteps(after, Len(ops), b, ops, me)
  BY ReplayExists DEF ReplaySteps
<1> HIDE DEF after
<1> DEFINE S == {k \in 0 .. Len(ops) : Aligned(after[k]) /\ SameSession(b, after[k])}
<1>3. 0 \in S
  <2>1. after[0] = b
    BY <1>2 DEF ReplaySteps
  <2> QED
    BY <2>1 DEF SameSession
<1>4. ASSUME NEW k \in 0 .. Len(ops) - 1, k \in S PROVE k + 1 \in S
  <2>1. after[k + 1] = ShowOp(after[k], ops[k + 1], me)
    <3>1. k + 1 \in 0 .. Len(ops) /\ k + 1 # 0 /\ k + 1 - 1 = k
      OBVIOUS
    <3> QED
      BY <1>2, <3>1 DEF ReplaySteps
  <2>2. ops[k + 1] \in Op
    OBVIOUS
  <2>3. Aligned(after[k + 1]) /\ SameSession(after[k], after[k + 1])
    BY <1>4, <2>1, <2>2, ShowOpAligned
  <2> QED
    BY SMTT(30), <1>4, <2>3 DEF SameSession
<1>5. 0 .. Len(ops) \subseteq S
  <2> DEFINE N == Len(ops)
  <2>1. N \in Nat
    OBVIOUS
  <2>2. \A k \in 0 .. N - 1 : k \in S => k + 1 \in S
    BY <1>4
  <2> HIDE DEF S, N
  <2>3. 0 .. N \subseteq S
    BY <1>3, <2>1, <2>2, UpTo
  <2> QED
    BY <2>3 DEF N
<1> QED
  BY <1>1, <1>5

\* Merging gives a text, whatever was typed meanwhile.
LEMMA MergeType ==
    ASSUME NEW base \in Seq(Chars), NEW local \in Seq(Chars), NEW server \in Seq(Chars)
    PROVE  mergeTexts(base, local, server) \in Seq(Chars)
<1> DEFINE P == PrefixLen(base, server)
           S == SuffixLen(base, server)
           p == PrefixLen(base, local)
           pos == MergePos(p, base, server)
           put == Middle(base, local)
<1>1. SharedEnds(base, server, P, S) /\ SharedEnds(base, local, p, SuffixLen(base, local))
  BY EndsShared
<1>2. pos = IF p < P THEN p
            ELSE IF p >= Len(base) - S THEN Len(server) - S + (p - (Len(base) - S))
            ELSE Len(server) - S
  BY DEF MergePos
<1>3. put \in Seq(Chars)
  BY MiddleProperties
<1> HIDE DEF P, S, p, pos, put
<1>4. pos \in 0 .. Len(server)
  BY <1>1, <1>2 DEF SharedEnds
<1>5. /\ SubSeq(server, 1, pos) \in Seq(Chars)
      /\ SubSeq(server, pos + 1, Len(server)) \in Seq(Chars)
  BY <1>4, SubSeqProperties
<1>6. SubSeq(server, 1, pos) \o put \o SubSeq(server, pos + 1, Len(server)) \in Seq(Chars)
  BY <1>3, <1>5, ConcatProperties
<1> QED
  BY <1>6 DEF mergeTexts, p, pos, put

\* What a tab shows after a full_sync that it does not answer with a restore.
LEMMA RebuiltAligned ==
    ASSUME NEW b, Aligned(b), NEW m, Matched(m), m.type = "full_sync"
    PROVE  /\ Aligned(Rebuilt(b, m))
           /\ ~Rebuilt(b, m).restoring /\ ~Rebuilt(b, m).away
           /\ Rebuilt(b, m).lastSeq = b.lastSeq
           /\ Merged(b, m) \in Seq(Chars)
<1>1. b \in Tab
  BY DEF Aligned
<1>2. /\ m.content \in Seq(Chars) /\ m.nodeIDs \in Seq(OpID)
      /\ Len(m.nodeIDs) = Len(m.content)
  BY MessageTypes DEF Matched, FullSync
<1>3. Merged(b, m) \in Seq(Chars)
  BY <1>1, <1>2, MergeType DEF Merged, Tab
<1> QED
  BY <1>1, <1>2, <1>3 DEF Aligned, Rebuilt, Tab

\* The text that is shown is now the one the tab believes the server has.
LEMMA SyncedAligned ==
    ASSUME NEW b, Aligned(b)
    PROVE  /\ Aligned(Synced(b))
           /\ Synced(b).restoring = b.restoring /\ Synced(b).away = b.away
           /\ Synced(b).lastSeq = b.lastSeq /\ Synced(b).value = b.value
BY DEF Aligned, Synced, Tab

\* The tab that has seen the number of a message.
Numbered(b, m) == [b EXCEPT !.lastSeq = Max({@, m.seq})]

\* Taking over the number of a message changes nothing else.
LEMMA NumberedAligned ==
    ASSUME NEW b, Aligned(b), NEW m \in Message
    PROVE  /\ Aligned(Numbered(b, m))
           /\ Numbered(b, m).lastSeq = Max({b.lastSeq, m.seq})
           /\ Numbered(b, m).restoring = b.restoring /\ Numbered(b, m).away = b.away
           /\ hasOfflineEdits(Numbered(b, m)) = hasOfflineEdits(b)
           /\ AsksRestore(Numbered(b, m), m) = AsksRestore(b, m)
           /\ Merged(Numbered(b, m), m) = Merged(b, m)
<1>1. b \in Tab
  BY DEF Aligned
<1>2. b.lastSeq \in Nat /\ m.seq \in Nat
  BY <1>1, MessageTypes DEF Tab
<1>3. Max({b.lastSeq, m.seq}) \in Nat
  BY <1>2, MaxOfTwo
<1>4. /\ Aligned(Numbered(b, m))
      /\ Numbered(b, m).lastSeq = Max({b.lastSeq, m.seq})
      /\ Numbered(b, m).restoring = b.restoring /\ Numbered(b, m).away = b.away
      /\ Numbered(b, m).synced = b.synced
      /\ Numbered(b, m).value = b.value /\ Numbered(b, m).base = b.base
  BY <1>1, <1>3 DEF Numbered, Aligned, Tab
<1> QED
  BY <1>4 DEF hasOfflineEdits, AsksRestore, Merged

\* What a full_sync makes of a tab.
LEMMA FullSyncedAligned ==
    ASSUME NEW b, Aligned(b), NEW m, Matched(m), m.type = "full_sync"
    PROVE  /\ Aligned(FullSynced(b, m))
           /\ FullSynced(b, m).restoring = AsksRestore(b, m)
           /\ FullSynced(b, m).lastSeq = b.lastSeq
           /\ IF AsksRestore(b, m) THEN FullSynced(b, m).away = b.away
              ELSE FullSynced(b, m).value = Merged(b, m)
<1>1. CASE AsksRestore(b, m)
  BY <1>1 DEF FullSynced, Aligned, Tab
<1>2. CASE ~AsksRestore(b, m)
  <2> DEFINE e == Edited(Rebuilt(b, m), Merged(b, m))
  <2>1. /\ Aligned(Rebuilt(b, m))
        /\ ~Rebuilt(b, m).restoring
        /\ Rebuilt(b, m).lastSeq = b.lastSeq
        /\ Merged(b, m) \in Seq(Chars)
    BY RebuiltAligned
  <2>2. Aligned(e) /\ e.value = Merged(b, m) /\ SameSession(Rebuilt(b, m), e)
    BY <2>1, EditedAligned
  <2>3. FullSynced(b, m) = Synced(e)
    BY <1>2 DEF FullSynced
  <2> HIDE DEF e
  <2>4. /\ Aligned(Synced(e))
        /\ Synced(e).restoring = e.restoring
        /\ Synced(e).lastSeq = e.lastSeq /\ Synced(e).value = e.value
    BY <2>2, SyncedAligned
  <2>5. ~e.restoring /\ e.lastSeq = b.lastSeq
    BY <2>1, <2>2 DEF SameSession
  <2>6. e.restoring \in BOOLEAN
    BY <2>2 DEF Aligned, Tab
  <2> QED
    BY <1>2, <2>2, <2>3, <2>4, <2>5, <2>6 DEF AsksRestore
<1> QED
  BY <1>1, <1>2

\* A tab that takes a message stays a tab; it waits for a restore from the
\* full_sync it answers with one to the next; and it only goes on to the number
\* of the message.
LEMMA ReceivedEffect ==
    ASSUME NEW b, Aligned(b), NEW m, Matched(m), NEW me
    PROVE  /\ Aligned(Received(b, m, me))
           /\ Received(b, m, me).restoring =
                IF m.type = "full_sync" THEN AsksRestore(b, m) ELSE b.restoring
           /\ Received(b, m, me).lastSeq \in {b.lastSeq, m.seq}
           /\ Received(b, m, me).lastSeq >= b.lastSeq
           /\ m.type = "full_sync" =>
                IF AsksRestore(b, m) THEN Received(b, m, me).away = b.away
                ELSE Received(b, m, me).value = Merged(b, m)
<1> DEFINE n == Numbered(b, m)
           r == Received(b, m, me)
<1>1. b \in Tab /\ m \in Message
  BY DEF Aligned, Matched
<1>2. b.lastSeq \in Nat /\ m.seq \in Nat /\ b.restoring \in BOOLEAN
  BY <1>1, MessageTypes DEF Tab
<1>3. /\ Aligned(n)
      /\ n.lastSeq = Max({b.lastSeq, m.seq}) /\ n.restoring = b.restoring /\ n.away = b.away
      /\ AsksRestore(n, m) = AsksRestore(b, m) /\ Merged(n, m) = Merged(b, m)
  BY <1>1, NumberedAligned
<1>4. n.lastSeq \in {b.lastSeq, m.seq} /\ n.lastSeq >= b.lastSeq
  BY <1>2, <1>3, MaxOfTwo
<1> HIDE DEF n
<1>5. CASE IsOp(m)
  <2>1. m \in Op /\ m.type \notin {"full_sync", "replay_sync", "signal"}
    BY <1>1, <1>5, MessageTypes
  <2>2. r = IF Duplicate(b, m) THEN b ELSE IF b.restoring THEN n ELSE Synced(ShowOp(n, m, me))
    BY <1>3, <1>5, <2>1 DEF Received, n, Numbered
  <2>3. CASE r = b
    BY <1>2, <2>1, <2>3
  <2>4. CASE r = n
    BY <1>3, <1>4, <2>1, <2>4
  <2>5. CASE r = Synced(ShowOp(n, m, me))
    <3> DEFINE x == ShowOp(n, m, me)
    <3>1. Aligned(x) /\ SameSession(n, x)
      BY <1>3, <2>1, ShowOpAligned
    <3> HIDE DEF x
    <3>2. Aligned(Synced(x)) /\ Synced(x).restoring = x.restoring /\ Synced(x).lastSeq = x.lastSeq
      BY <3>1, SyncedAligned
    <3> QED
      BY <1>3, <1>4, <2>1, <2>5, <3>1, <3>2 DEF SameSession, x
  <2> QED
    BY <2>2, <2>3, <2>4, <2>5
<1>6. CASE m.type = "replay_sync"
  <2>1. m.ops \in Seq(Op) /\ ~IsOp(m)
    BY <1>1, <1>6, MessageTypes DEF ReplaySync
  <2> DEFINE x == Replayed(n, m.ops, me)
             y == [x EXCEPT !.away = FALSE]
  <2>2. r = Synced(y)
    BY <1>6, <2>1 DEF Received, n, Numbered
  <2>3. Aligned(x) /\ SameSession(n, x)
    BY <1>3, <2>1, ReplayedAligned
  <2> HIDE DEF x
  <2>4. Aligned(y) /\ y.restoring = x.restoring /\ y.lastSeq = x.lastSeq
    BY <2>3 DEF Aligned, Tab
  <2> HIDE DEF y
  <2>5. Aligned(Synced(y)) /\ Synced(y).restoring = y.restoring /\ Synced(y).lastSeq = y.lastSeq
    BY <2>4, SyncedAligned
  <2> QED
    BY <1>3, <1>4, <1>6, <2>2, <2>3, <2>4, <2>5 DEF SameSession
<1>7. CASE m.type = "full_sync"
  <2>1. ~IsOp(m)
    BY <1>1, <1>7, MessageTypes
  <2>2. r = FullSynced(n, m)
    BY <1>7, <2>1 DEF Received, n, Numbered
  <2>3. /\ Aligned(FullSynced(n, m))
        /\ FullSynced(n, m).restoring = AsksRestore(n, m)
        /\ FullSynced(n, m).lastSeq = n.lastSeq
        /\ IF AsksRestore(n, m) THEN FullSynced(n, m).away = n.away
           ELSE FullSynced(n, m).value = Merged(n, m)
    BY <1>3, <1>7, FullSyncedAligned
  <2> HIDE DEF r
  <2> QED
    BY <1>3, <1>4, <1>7, <2>2, <2>3 DEF r
<1>8. CASE m.type = "signal"
  <2>1. ~IsOp(m)
    BY <1>1, <1>8, MessageTypes
  <2>2. r = n
    BY <1>8, <2>1 DEF Received, n, Numbered
  <2> QED
    BY <1>3, <1>4, <1>8, <2>2
<1> QED
  BY <1>1, <1>5, <1>6, <1>7, <1>8, MessageTypes

\* What a full_sync makes a tab send are messages of a tab.
LEMMA ReplyType ==
    ASSUME NEW b, Aligned(b), NEW m, Matched(m), m.type = "full_sync"
    PROVE  /\ FullSyncReply(b, m) \in Seq(Sent)
           /\ AsksRestore(b, m) => FullSyncReply(b, m) = <<[type |-> "restore", content |-> b.value]>>
<1>1. CASE AsksRestore(b, m)
  <2>1. [type |-> "restore", content |-> b.value] \in Sent
    BY DEF Aligned, Tab, Sent
  <2> QED
    BY <1>1, <2>1 DEF FullSyncReply
<1>2. CASE ~AsksRestore(b, m)
  <2>1. diffToOps(Rebuilt(b, m), Merged(b, m)) \in Seq(Request)
    BY RebuiltAligned, DiffIsRequests
  <2>2. [type |-> "batch_sync", ops |-> diffToOps(Rebuilt(b, m), Merged(b, m))] \in Sent
    BY <2>1 DEF Sent
  <2> QED
    BY <1>2, <2>2 DEF FullSyncReply
<1> QED
  BY <1>1, <1>2

-----------------------------------------------------------------------------
(***************************************************************************)
(* Every step keeps the types.                                             *)
(***************************************************************************)

\* No channel holds more than it can, and every full_sync in one names all the
\* characters it brings.
ChannelsOK ==
    \A t \in Clients : /\ Len(send[t]) <= SendBuf
                       /\ \A j \in DOMAIN send[t] : Matched(send[t][j])

\* What the proofs rely on: the room, the types, and what channels may hold.
EditorInv == RoomInv /\ EditorTypeOK /\ ChannelsOK

\* The tabs, as far as one of them changes.
LEMMA TabsAligned ==
    (tab \in [Clients -> Tab] /\ \A t \in Clients : Len(tab[t].shadow) = Len(tab[t].value))
    <=> (tab = [t \in Clients |-> tab[t]] /\ \A t \in Clients : Aligned(tab[t]))
BY DEF Aligned

\* What a tab has sent, by its type.
LEMMA SentTypes ==
    ASSUME NEW r \in Sent
    PROVE  /\ r.type \in {"insert", "delete"} => r \in Request
           /\ r.type = "join" => r.lastSeq \in Nat /\ r.hasOfflineEdits \in BOOLEAN
           /\ r.type = "batch_sync" => r.ops \in Seq(Request)
           /\ r.type = "restore" => r.content \in Seq(Chars)
BY DEF Sent, Request, InsertRequest, DeleteRequest

\* What a step takes from a tab is something the tab sent.
LEMMA TakesTypes ==
    ASSUME EditorTypeOK, NEW t \in Clients, NEW type, Takes(t, type)
    PROVE  Head(up[t]) \in Sent /\ Head(up[t]).type = type /\ up'[t] = Tail(up[t])
BY DEF Takes, EditorTypeOK

\* For the room, tabs are clients that send any operations and restore any text.
LEMMA EditorIsRoomStep ==
    ASSUME EditorTypeOK, [EditorNext]_allVars
    PROVE  RoomStep(Seq(Chars))
<1>1. ASSUME NEW t \in Clients, ServeJoin(t) PROVE RoomStep(Seq(Chars))
  BY <1>1, TakesTypes, SentTypes DEF ServeJoin, RoomStep
<1>2. ASSUME NEW t \in Clients, NEW type \in {"insert", "delete"}, ServeOp(t, type)
      PROVE  RoomStep(Seq(Chars))
  BY <1>2, TakesTypes, SentTypes DEF ServeOp, RoomStep
<1>3. ASSUME NEW t \in Clients, ServeBatch(t) PROVE RoomStep(Seq(Chars))
  BY <1>3, TakesTypes, SentTypes DEF ServeBatch, RoomStep
<1>4. ASSUME NEW t \in Clients, ServeRestore(t) PROVE RoomStep(Seq(Chars))
  BY <1>4, TakesTypes, SentTypes DEF ServeRestore, RoomStep
<1>5. ASSUME NEW t \in Clients, Open(t) \/ Type(t) PROVE RoomStep(Seq(Chars))
  BY <1>5 DEF Open, Type, RoomStep
<1>6. ASSUME NEW t \in Clients, Show(t) PROVE RoomStep(Seq(Chars))
  BY <1>6 DEF Show, RoomStep
<1>7. ASSUME NEW t \in Clients, Disconnect(t) PROVE RoomStep(Seq(Chars))
  BY <1>7 DEF Disconnect, RoomStep
<1>8. ASSUME ServeBatchOp \/ ServerCrash PROVE RoomStep(Seq(Chars))
  BY <1>8 DEF ServeBatchOp, ServerCrash, RoomStep
<1>9. ASSUME UNCHANGED allVars PROVE RoomStep(Seq(Chars))
  BY <1>9 DEF allVars, RoomStep
<1> QED
  BY <1>1, <1>2, <1>3, <1>4, <1>5, <1>6, <1>7, <1>8, <1>9 DEF EditorNext

\* The channels stay in shape.
LEMMA ChannelsOKStep ==
    ASSUME EditorInv, RoomInv', RoomStep(Seq(Chars))
    PROVE  ChannelsOK'
<1> SUFFICES ASSUME NEW t \in Clients
             PROVE  /\ Len(send'[t]) <= SendBuf
                    /\ \A j \in DOMAIN send'[t] : Matched(send'[t][j])
  BY DEF ChannelsOK
<1>1. Len(send[t]) <= SendBuf /\ \A j \in DOMAIN send[t] : Matched(send[t][j])
  BY DEF EditorInv, ChannelsOK
<1>2. /\ \A j \in DOMAIN send'[t] :
            (\E i \in DOMAIN send[t] : send'[t][j] = send[t][i]) \/ Sendable(send'[t][j])
      /\ Len(send[t]) <= SendBuf => Len(send'[t]) <= SendBuf
  BY ChannelStep DEF EditorInv
<1> QED
  BY <1>1, <1>2 DEF Sendable

\* The parts of EditorTypeOK that are not the room's.
TabsOK ==
    tab \in [Clients -> Tab] /\ \A t \in Clients : Len(tab[t].shadow) = Len(tab[t].value)
\* EditorTypeOK in parts.
BoundsOK == typed \in 0 .. MaxTyped /\ broken \in 0 .. MaxEvents
StrayedOK == strayed \in [Clients -> SUBSET Causes]
UpOK == up \in [Clients -> Seq(Sent)]

\* EditorTypeOK is these parts.
LEMMA EditorTypeParts == EditorTypeOK <=> TypeOK /\ TabsOK /\ UpOK /\ BoundsOK /\ StrayedOK
BY DEF EditorTypeOK, TabsOK, UpOK, BoundsOK, StrayedOK

\* The same after a step.
LEMMA EditorTypePartsNext ==
    EditorTypeOK' <=> TypeOK' /\ TabsOK' /\ UpOK' /\ BoundsOK' /\ StrayedOK'
BY DEF EditorTypeOK, TabsOK, UpOK, BoundsOK, StrayedOK

\* One tab that changes and stays a tab.
LEMMA OneTab ==
    ASSUME TabsOK, NEW t \in Clients, NEW b, Aligned(b), tab' = [tab EXCEPT ![t] = b]
    PROVE  TabsOK'
BY DEF TabsOK, Aligned

\* Every tab has a shadow as long as its text.
LEMMA TabAligned ==
    ASSUME EditorTypeOK, NEW t \in Clients
    PROVE  Aligned(tab[t]) /\ tab[t] \in Tab
BY DEF EditorTypeOK, Aligned

\* One tab that sends more.
LEMMA OneUp ==
    ASSUME UpOK, NEW t \in Clients, NEW q \in Seq(Sent), up' = [up EXCEPT ![t] = @ \o q]
    PROVE  UpOK'
<1>1. up[t] \o q \in Seq(Sent)
  BY ConcatProperties DEF UpOK
<1> QED
  BY <1>1 DEF UpOK

\* Typing one character makes a text of a text.
LEMMA EditsType ==
    ASSUME NEW text \in Seq(Chars), NEW new \in Edits(text)
    PROVE  new \in Seq(Chars)
<1>1. ASSUME NEW pos \in 0 .. Len(text), NEW char \in Keys
      PROVE  PutAt(text, pos, char) \in Seq(Chars)
  BY TypingAssumption, PutAnywhere
<1>2. ASSUME NEW pos \in 0 .. Len(text) - 1
      PROVE  CutAt(text, pos) \in Seq(Chars)
  BY CutAnywhere
<1>3. ASSUME NEW i \in DOMAIN text, NEW char \in Chars
      PROVE  [text EXCEPT ![i] = char] \in Seq(Chars)
  BY ExceptSeq
<1> QED
  BY <1>1, <1>2, <1>3 DEF Edits

\* A tab whose connection ends stays a tab.
LEMMA ClosedAligned ==
    ASSUME NEW b, Aligned(b)
    PROVE  Aligned(Closed(b)) /\ ~Closed(b).restoring /\ Closed(b).lastSeq = b.lastSeq
           /\ Closed(b).away
BY DEF Aligned, Closed, Tab

\* What the histories are given are causes.
LEMMA CausesAre ==
    /\ GoneCauses \in SUBSET Causes
    /\ \A t, m : ShowCauses(t, m) \in SUBSET Causes
    /\ \A t, r : ServeCauses(t, r) \in SUBSET Causes
    /\ \A t : LostCauses(t) \in SUBSET Causes
    /\ "unanswered" \in Causes /\ "untold" \in Causes
<1>1. /\ "unanswered" \in Causes /\ "untold" \in Causes
      /\ "reloaded" \in Causes /\ "torn" \in Causes
  BY DEF Causes
<1>2. GoneCauses \in SUBSET Causes
  BY <1>1 DEF GoneCauses
<1>3. \A t : LostCauses(t) \in SUBSET Causes
  BY <1>1, <1>2 DEF LostCauses
<1> QED
  BY <1>1, <1>2, <1>3 DEF ShowCauses, ServeCauses

\* One history that grows by causes.
LEMMA OneStrayed ==
    ASSUME StrayedOK, NEW t, NEW X \in SUBSET Causes,
           strayed' = [strayed EXCEPT ![t] = @ \cup X]
    PROVE  StrayedOK'
BY DEF StrayedOK

\* What a step takes from a tab leaves the rest.
LEMMA TakesKeeps ==
    ASSUME TabsOK, UpOK, BoundsOK, NEW t \in Clients, NEW type, Takes(t, type)
    PROVE  TabsOK' /\ UpOK' /\ BoundsOK'
<1>1. up[t] \in Seq(Sent) /\ up[t] # << >>
  BY DEF UpOK, Takes
<1>2. Tail(up[t]) \in Seq(Sent)
  BY <1>1, HeadTailProperties
<1>3. up' = [up EXCEPT ![t] = Tail(up[t])] /\ UNCHANGED <<tab, typed, broken>>
  BY DEF Takes
<1> QED
  BY <1>2, <1>3 DEF UpOK, TabsOK, BoundsOK

\* An event is counted within its bound.
LEMMA BreaksKeeps ==
    ASSUME BoundsOK, Breaks PROVE BoundsOK'
BY TypingAssumption DEF BoundsOK, Breaks

\* Each action in turn keeps the types: opening a connection,
LEMMA OpenTypes ==
    ASSUME EditorInv, NEW t \in Clients, Open(t)
    PROVE  TabsOK' /\ UpOK' /\ BoundsOK' /\ StrayedOK'
<1> DEFINE m == [type |-> "join", lastSeq |-> tab[t].lastSeq,
                 hasOfflineEdits |-> hasOfflineEdits(tab[t])]
<1>1. TabsOK /\ UpOK /\ BoundsOK /\ StrayedOK
  BY EditorTypeParts DEF EditorInv
<1>2. m \in Sent
  <2>1. tab[t].lastSeq \in Nat
    BY TabAligned DEF EditorInv, Tab
  <2>2. hasOfflineEdits(tab[t]) \in BOOLEAN
    BY DEF hasOfflineEdits
  <2> QED
    BY <2>1, <2>2 DEF Sent
<1>3. up' = [up EXCEPT ![t] = <<m>>] /\ UNCHANGED <<tab, typed, broken, strayed>>
  BY DEF Open
<1> HIDE DEF m
<1>4. <<m>> \in Seq(Sent)
  BY <1>2
<1> QED
  BY <1>1, <1>3, <1>4 DEF TabsOK, UpOK, BoundsOK, StrayedOK

\* typing,
LEMMA TypeTypes ==
    ASSUME EditorInv, NEW t \in Clients, Type(t)
    PROVE  TabsOK' /\ UpOK' /\ BoundsOK' /\ StrayedOK'
<1>1. TabsOK /\ UpOK /\ BoundsOK /\ StrayedOK /\ Aligned(tab[t]) /\ tab[t] \in Tab
  BY EditorTypeParts, TabAligned DEF EditorInv
<1>2. PICK new \in Edits(tab[t].value) :
        /\ tab' = [tab EXCEPT ![t] = Edited(tab[t], new)]
        /\ up' = IF Connected(t) THEN [up EXCEPT ![t] = @ \o diffToOps(tab[t], new)] ELSE up
  BY DEF Type
<1>3. new \in Seq(Chars)
  BY <1>1, EditsType DEF Tab
<1>4. TabsOK'
  BY <1>1, <1>2, <1>3, EditedAligned, OneTab
<1>5. UpOK'
  <2>1. CASE Connected(t)
    <3>1. diffToOps(tab[t], new) \in Seq(Request)
      BY <1>1, <1>3, DiffIsRequests
    <3>2. diffToOps(tab[t], new) \in Seq(Sent)
      BY <3>1 DEF Sent
    <3> QED
      BY <1>1, <1>2, <2>1, <3>2, OneUp
  <2>2. CASE ~Connected(t)
    BY <1>1, <1>2, <2>2 DEF UpOK
  <2> QED
    BY <2>1, <2>2
<1>6. BoundsOK'
  BY <1>1, TypingAssumption DEF BoundsOK, Type
<1>7. StrayedOK'
  <2>1. {"retyped"} \in SUBSET Causes
    BY DEF Causes
  <2>2. strayed' = strayed \/ strayed' = [strayed EXCEPT ![t] = @ \cup {"retyped"}]
    BY DEF Type
  <2> QED
    BY <1>1, <2>1, <2>2, OneStrayed DEF StrayedOK
<1> QED
  BY <1>4, <1>5, <1>6, <1>7

\* The message a tab is shown is one of its channel.
LEMMA ShownMatched ==
    ASSUME EditorInv, NEW t \in Clients, Show(t)
    PROVE  /\ send[t] \in Seq(Message) /\ send[t] # << >>
           /\ Matched(Head(send[t])) /\ Head(send[t]) = send[t][1] /\ 1 \in DOMAIN send[t]
           /\ tab' = [tab EXCEPT ![t] = Received(tab[t], Head(send[t]), user[t])]
           /\ send' = [send EXCEPT ![t] = Tail(send[t])]
<1>1. send[t] \in Seq(Message) /\ send[t] # << >>
  BY DEF EditorInv, RoomInv, TypeOK, Show, Pump
<1>2. Head(send[t]) = send[t][1] /\ 1 \in DOMAIN send[t]
  BY <1>1
<1>3. Matched(send[t][1])
  BY <1>2 DEF EditorInv, ChannelsOK
<1> QED
  BY <1>1, <1>2, <1>3 DEF Show, Pump

\* showing a message,
LEMMA ShowTypes ==
    ASSUME EditorInv, NEW t \in Clients, Show(t)
    PROVE  TabsOK' /\ UpOK' /\ BoundsOK' /\ StrayedOK'
<1> DEFINE m == Head(send[t])
<1>1. TabsOK /\ UpOK /\ BoundsOK /\ StrayedOK /\ Aligned(tab[t])
  BY EditorTypeParts, TabAligned DEF EditorInv
<1>2. Matched(m) /\ tab' = [tab EXCEPT ![t] = Received(tab[t], m, user[t])]
  BY ShownMatched
<1>3. /\ up' = IF m.type = "full_sync" THEN [up EXCEPT ![t] = @ \o FullSyncReply(tab[t], m)]
               ELSE up
      /\ strayed' = [strayed EXCEPT ![t] = @ \cup ShowCauses(t, m)]
      /\ UNCHANGED <<typed, broken>>
  BY DEF Show
<1> HIDE DEF m
<1>4. TabsOK'
  <2>1. Aligned(Received(tab[t], m, user[t]))
    BY <1>1, <1>2, ReceivedEffect
  <2> QED
    BY <1>1, <1>2, <2>1, OneTab
<1>5. UpOK'
  <2>1. CASE m.type = "full_sync"
    <3>1. FullSyncReply(tab[t], m) \in Seq(Sent)
      BY <1>1, <1>2, <2>1, ReplyType
    <3> QED
      BY <1>1, <1>3, <2>1, <3>1, OneUp
  <2>2. CASE m.type # "full_sync"
    BY <1>1, <1>3, <2>2 DEF UpOK
  <2> QED
    BY <2>1, <2>2
<1>6. StrayedOK'
  BY <1>1, <1>3, CausesAre, OneStrayed
<1>7. BoundsOK'
  BY <1>1, <1>3 DEF BoundsOK
<1> QED
  BY <1>4, <1>5, <1>6, <1>7

\* losing a connection,
LEMMA DisconnectTypes ==
    ASSUME EditorInv, NEW t \in Clients, Disconnect(t)
    PROVE  TabsOK' /\ UpOK' /\ BoundsOK' /\ StrayedOK'
<1>1. TabsOK /\ UpOK /\ BoundsOK /\ StrayedOK /\ Aligned(tab[t])
  BY EditorTypeParts, TabAligned DEF EditorInv
<1>2. TabsOK'
  BY <1>1, ClosedAligned, OneTab DEF Disconnect
<1>3. UpOK'
  <2>1. up' = [up EXCEPT ![t] = << >>]
    BY DEF Disconnect
  <2> QED
    BY <1>1, <2>1 DEF UpOK
<1>4. BoundsOK'
  BY <1>1, BreaksKeeps DEF Disconnect
<1>5. StrayedOK'
  <2>1. strayed' = [u \in Clients |->
            strayed[u] \cup IF u = t THEN LostCauses(t) ELSE GoneCauses]
    BY DEF Disconnect
  <2>2. \A u \in Clients : strayed[u] \in SUBSET Causes
    BY <1>1 DEF StrayedOK
  <2>3. \A u \in Clients :
            strayed[u] \cup (IF u = t THEN LostCauses(t) ELSE GoneCauses) \in SUBSET Causes
    BY <2>2, CausesAre
  <2> QED
    BY <2>1, <2>3 DEF StrayedOK
<1> QED
  BY <1>2, <1>3, <1>4, <1>5

\* losing the server,
LEMMA CrashTypes ==
    ASSUME EditorInv, ServerCrash
    PROVE  TabsOK' /\ UpOK' /\ BoundsOK' /\ StrayedOK'
<1>1. TabsOK /\ UpOK /\ BoundsOK /\ StrayedOK /\ \A t \in Clients : Aligned(tab[t])
  BY EditorTypeParts, TabAligned DEF EditorInv
<1>2. TabsOK'
  <2>1. tab' = [t \in Clients |-> IF Connected(t) THEN Closed(tab[t]) ELSE tab[t]]
    BY DEF ServerCrash
  <2>2. \A t \in Clients : Aligned(IF Connected(t) THEN Closed(tab[t]) ELSE tab[t])
    BY <1>1, ClosedAligned
  <2> QED
    BY <2>1, <2>2 DEF TabsOK, Aligned
<1>3. UpOK'
  BY <1>1 DEF UpOK, ServerCrash
<1>4. BoundsOK'
  BY <1>1, BreaksKeeps DEF ServerCrash
<1>5. StrayedOK'
  <2>1. strayed' = [t \in Clients |-> strayed[t] \cup LostCauses(t)]
    BY DEF ServerCrash
  <2>2. \A t \in Clients : strayed[t] \cup LostCauses(t) \in SUBSET Causes
    BY <1>1, CausesAre DEF StrayedOK
  <2> QED
    BY <2>1, <2>2 DEF StrayedOK
<1> QED
  BY <1>2, <1>3, <1>4, <1>5

\* and what the room does with what tabs sent.
LEMMA ServeTypes ==
    ASSUME EditorInv,
           \/ \E t \in Clients :
                \/ ServeJoin(t)
                \/ ServeOp(t, "insert")
                \/ ServeOp(t, "delete")
                \/ ServeBatch(t)
                \/ ServeRestore(t)
           \/ ServeBatchOp
    PROVE  TabsOK' /\ UpOK' /\ BoundsOK' /\ StrayedOK'
<1>1. TabsOK /\ UpOK /\ BoundsOK /\ StrayedOK
  BY EditorTypeParts DEF EditorInv
<1>2. ASSUME NEW t \in Clients, ServeJoin(t) PROVE TabsOK' /\ UpOK' /\ BoundsOK' /\ StrayedOK'
  <2>1. strayed' \in {strayed, [strayed EXCEPT ![t] = {}]}
    BY <1>2 DEF ServeJoin
  <2>2. StrayedOK'
    BY <1>1, <2>1 DEF StrayedOK
  <2> QED
    BY <1>1, <1>2, <2>2, TakesKeeps DEF ServeJoin
<1>3. ASSUME NEW t \in Clients, NEW type, ServeOp(t, type)
      PROVE  TabsOK' /\ UpOK' /\ BoundsOK' /\ StrayedOK'
  <2>1. strayed' = [strayed EXCEPT ![t] = @ \cup ServeCauses(t, Head(up[t]))]
    BY <1>3 DEF ServeOp
  <2> QED
    BY <1>1, <1>3, <2>1, CausesAre, OneStrayed, TakesKeeps DEF ServeOp
<1>4. ASSUME NEW t \in Clients, ServeBatch(t) PROVE TabsOK' /\ UpOK' /\ BoundsOK' /\ StrayedOK'
  <2>1. StrayedOK'
    BY <1>1, <1>4 DEF StrayedOK, ServeBatch
  <2> QED
    BY <1>1, <1>4, <2>1, TakesKeeps DEF ServeBatch
<1>5. ASSUME NEW t \in Clients, ServeRestore(t) PROVE TabsOK' /\ UpOK' /\ BoundsOK' /\ StrayedOK'
  <2>1. PICK X \in SUBSET {"untold"}, Y \in SUBSET Causes :
            strayed' = [u \in Clients |-> IF u = t THEN Y ELSE strayed[u] \cup X]
    <3> DEFINE dropped == Len(send[t]) = SendBuf
               X == {x \in {"untold"} : doc' # doc}
               Y == IF dropped THEN strayed[t] \cup {"unanswered"} ELSE {}
    <3>1. strayed' = [u \in Clients |-> IF u = t THEN Y ELSE strayed[u] \cup X]
      BY <1>5 DEF ServeRestore
    <3>2. X \in SUBSET {"untold"}
      OBVIOUS
    <3>3. Y \in SUBSET Causes
      BY <1>1, CausesAre DEF StrayedOK
    <3> HIDE DEF X, Y
    <3> QED
      BY <3>1, <3>2, <3>3
  <2>2. \A u \in Clients : strayed[u] \cup X \in SUBSET Causes
    <3>1. X \subseteq Causes
      BY CausesAre
    <3> QED
      BY <1>1, <3>1 DEF StrayedOK
  <2>3. StrayedOK'
    BY <2>1, <2>2 DEF StrayedOK
  <2> QED
    BY <1>1, <1>5, <2>3, TakesKeeps DEF ServeRestore
<1>6. ASSUME ServeBatchOp PROVE TabsOK' /\ UpOK' /\ BoundsOK' /\ StrayedOK'
  <2>1. /\ strayed' = [strayed EXCEPT ![task.who] = @ \cup ServeCauses(task.who, Head(task.todo))]
        /\ UNCHANGED <<tab, up, typed, broken>>
    BY <1>6 DEF ServeBatchOp
  <2>2. StrayedOK'
    BY <1>1, <2>1, CausesAre, OneStrayed
  <2> QED
    BY <1>1, <2>1, <2>2 DEF TabsOK, UpOK, BoundsOK
<1> QED
  BY <1>2, <1>3, <1>4, <1>5, <1>6

\* Every step keeps the types of the tabs.
LEMMA EditorTypesStep ==
    ASSUME EditorInv, [EditorNext]_allVars
    PROVE  TabsOK' /\ UpOK' /\ BoundsOK' /\ StrayedOK'
<1>1. CASE UNCHANGED allVars
  <2>1. TabsOK /\ UpOK /\ BoundsOK /\ StrayedOK
    BY EditorTypeParts DEF EditorInv
  <2> QED
    BY <1>1, <2>1 DEF allVars, editorVars, TabsOK, UpOK, BoundsOK, StrayedOK
<1>2. CASE EditorNext
  BY <1>2, OpenTypes, TypeTypes, ShowTypes, DisconnectTypes, CrashTypes, ServeTypes DEF EditorNext
<1> QED
  BY <1>1, <1>2

\* The invariant holds when the tabs open the document, and stays.
LEMMA EditorInvInit == ASSUME EditorInit PROVE EditorInv
<1>1. RoomInv
  BY RowAssumption, RoomInvInitWith DEF EditorInit
<1>2. TabsOK
  <2>1. NewTab \in Tab /\ Len(NewTab.shadow) = Len(NewTab.value)
    BY DEF NewTab, Tab
  <2> QED
    BY <2>1 DEF TabsOK, EditorInit
<1>3. UpOK /\ BoundsOK /\ StrayedOK
  BY TypingAssumption DEF UpOK, BoundsOK, StrayedOK, EditorInit
<1>4. ChannelsOK
  BY BufferAssumption DEF ChannelsOK, EditorInit, InitWith
<1> QED
  BY <1>1, <1>2, <1>3, <1>4, EditorTypeParts DEF EditorInv, RoomInv

\* Every step keeps the room, the types and the channels in order.
LEMMA EditorInvStep ==
    ASSUME EditorInv, [EditorNext]_allVars
    PROVE  EditorInv'
<1>1. RoomStep(Seq(Chars))
  BY EditorIsRoomStep DEF EditorInv
<1>2. RoomInv'
  BY <1>1, RoomInvStep DEF EditorInv
<1>3. ChannelsOK'
  BY <1>1, <1>2, ChannelsOKStep
<1>4. EditorTypeOK'
  BY <1>2, EditorTypesStep, EditorTypePartsNext DEF RoomInv
<1> QED
  BY <1>2, <1>3, <1>4 DEF EditorInv

\* EditorInv holds in every behaviour.
LEMMA EditorInvCorrect == EditorSpec => []EditorInv
<1>1. EditorInit => EditorInv
  BY EditorInvInit
<1>2. EditorInv /\ [EditorNext]_allVars => EditorInv'
  BY EditorInvStep
<1> QED
  BY <1>1, <1>2, PTL DEF EditorSpec

\* Every tab keeps one identifier per character of its text, and sends nothing
\* but operations the server can take: through typing, remote operations at any
\* position, acknowledgements, replays, merges, restores, breaks and restarts.
THEOREM TabsTypeCorrect == EditorSpec => []EditorTypeOK
<1>1. EditorInv => EditorTypeOK
  BY DEF EditorInv
<1> QED
  BY <1>1, EditorInvCorrect, PTL

-----------------------------------------------------------------------------
(***************************************************************************)
(* Merging, as a step.                                                     *)
(***************************************************************************)

\* A tab that was away comes back by a full_sync that it merges with.
LEMMA ShowMerges ==
    ASSUME EditorInv, NEW t \in Clients, Show(t),
           hasOfflineEdits(tab[t]), ~tab'[t].away, Head(send[t]).type = "full_sync",
           Apart(tab[t].base, tab[t].value, Head(send[t]).content)
    PROVE  KeepsPlace(tab[t].base, tab[t].value, Head(send[t]).content, tab'[t].value)
<1> DEFINE m == Head(send[t])
           b == tab[t]
           r == Received(b, m, user[t])
<1>1. Matched(m) /\ tab' = [tab EXCEPT ![t] = r]
  BY ShownMatched
<1>2. Aligned(b) /\ b \in Tab
  BY TabAligned DEF EditorInv
<1>3. tab'[t] = r
  BY <1>1 DEF EditorInv, EditorTypeOK
<1>4. b.away /\ b.value # b.base
  BY DEF hasOfflineEdits
<1>5. IF AsksRestore(b, m) THEN r.away = b.away ELSE r.value = Merged(b, m)
  BY <1>1, <1>2, ReceivedEffect
<1>6. r.value = mergeTexts(b.base, b.value, m.content)
  <2>1. ~AsksRestore(b, m)
    BY <1>3, <1>4, <1>5
  <2> QED
    BY <1>5, <2>1 DEF Merged
<1>7. m.content \in Seq(Chars)
  BY <1>1, MessageTypes DEF Matched, FullSync
<1>8. b.base \in Seq(Chars) /\ b.value \in Seq(Chars)
  BY <1>2 DEF Tab
<1> QED
  BY <1>3, <1>4, <1>6, <1>7, <1>8, MergeKeeps

\* Only a message, or the end of its connection, takes a tab to another session.
LEMMA TabSteps ==
    ASSUME EditorInv, [EditorNext]_allVars, NEW t \in Clients
    PROVE  Show(t) \/ SameSession(tab[t], tab'[t]) \/ tab'[t] = Closed(tab[t])
<1>1. TabsOK
  BY EditorTypeParts DEF EditorInv
<1>2. ASSUME tab'[t] = tab[t] PROVE SameSession(tab[t], tab'[t])
  BY <1>2 DEF SameSession
<1>3. ASSUME NEW u \in Clients, Type(u) PROVE SameSession(tab[t], tab'[t])
  <2>1. PICK new \in Edits(tab[u].value) : tab' = [tab EXCEPT ![u] = Edited(tab[u], new)]
    BY <1>3 DEF Type
  <2>2. Aligned(tab[u]) /\ new \in Seq(Chars)
    BY <2>1, TabAligned, EditsType DEF EditorInv, Tab
  <2>3. SameSession(tab[u], Edited(tab[u], new))
    BY <2>2, EditedAligned
  <2>4. tab'[t] = IF t = u THEN Edited(tab[u], new) ELSE tab[t]
    BY <1>1, <2>1 DEF TabsOK
  <2> QED
    BY <1>2, <2>3, <2>4
<1>4. ASSUME NEW u \in Clients, Show(u) PROVE Show(t) \/ SameSession(tab[t], tab'[t])
  <2>1. t # u => tab'[t] = tab[t]
    BY <1>1, <1>4 DEF Show, TabsOK
  <2> QED
    BY <1>2, <1>4, <2>1
<1>5. ASSUME NEW u \in Clients, Disconnect(u)
      PROVE  SameSession(tab[t], tab'[t]) \/ tab'[t] = Closed(tab[t])
  <2>1. tab'[t] = IF t = u THEN Closed(tab[u]) ELSE tab[t]
    BY <1>1, <1>5 DEF Disconnect, TabsOK
  <2> QED
    BY <1>2, <2>1
<1>6. ASSUME ServerCrash PROVE SameSession(tab[t], tab'[t]) \/ tab'[t] = Closed(tab[t])
  <2>1. tab'[t] = IF Connected(t) THEN Closed(tab[t]) ELSE tab[t]
    BY <1>6 DEF ServerCrash
  <2> QED
    BY <1>2, <2>1
<1>7. ASSUME UNCHANGED tab PROVE SameSession(tab[t], tab'[t])
  BY <1>2, <1>7
<1> QED
  BY <1>3, <1>4, <1>5, <1>6, <1>7
     DEF EditorNext, allVars, editorVars, Open, ServeJoin, ServeOp, ServeBatch, ServeRestore,
         ServeBatchOp, Takes

\* No other step of the tab or the server ends that a tab was away.
LEMMA OnlyShowReturns ==
    ASSUME EditorInv, [EditorNext]_allVars, NEW t \in Clients, tab[t].away, ~tab'[t].away
    PROVE  Show(t)
<1>1. ~SameSession(tab[t], tab'[t])
  BY DEF SameSession
<1>2. tab'[t] # Closed(tab[t])
  BY TabAligned, ClosedAligned DEF EditorInv
<1> QED
  BY <1>1, <1>2, TabSteps

\* What was typed offline comes back between the characters it was typed between,
\* for texts of any length, wherever the server's text was changed meanwhile.
THEOREM MergeAlwaysKeepsPlace == EditorSpec => MergeKeepsPlace
<1> DEFINE Kept(t) ==
            LET b == tab[t]
                m == Head(send[t])
            IN  /\ hasOfflineEdits(b) /\ ~tab'[t].away
                /\ m.type = "full_sync" /\ Apart(b.base, b.value, m.content)
                => KeepsPlace(b.base, b.value, m.content, tab'[t].value)
<1>1. ASSUME EditorInv, [EditorNext]_allVars, NEW t \in Clients
      PROVE  Kept(t)
  <2> SUFFICES ASSUME hasOfflineEdits(tab[t]), ~tab'[t].away, Head(send[t]).type = "full_sync",
                      Apart(tab[t].base, tab[t].value, Head(send[t]).content)
               PROVE  KeepsPlace(tab[t].base, tab[t].value, Head(send[t]).content, tab'[t].value)
    OBVIOUS
  <2>1. Show(t)
    BY <1>1, OnlyShowReturns DEF hasOfflineEdits
  <2> QED
    BY <1>1, <2>1, ShowMerges
<1>2. EditorInv /\ [EditorNext]_allVars => [\A t \in Clients : Kept(t)]_allVars
  BY <1>1
<1> QED
  BY <1>2, EditorInvCorrect, PTL DEF EditorSpec, MergeKeepsPlace

-----------------------------------------------------------------------------
(***************************************************************************)
(* The numbers a tab has seen.                                             *)
(***************************************************************************)

\* The database works.
Working == ~SaveMayFail /\ ~LoadMayFail

\* The number of the document never goes back.
LEMMA NumberGrows ==
    ASSUME Working, RoomInv, SavedBeforeSent, RoomStep(Seq(Chars))
    PROVE  /\ DocumentNumber \in Nat /\ DocumentNumber' \in Nat
           /\ DocumentNumber <= DocumentNumber'
<1>1. seqNum \in Nat /\ db.seq \in Nat /\ live \in BOOLEAN
  BY DEF RoomInv, TypeOK
<1>2. RoomInv'
  BY RoomInvStep
<1>3. seqNum' \in Nat /\ db'.seq \in Nat /\ live' \in BOOLEAN
  BY <1>2 DEF RoomInv, TypeOK
<1>4. live => db.seq = seqNum
  BY DEF Working, SavedBeforeSent
<1>5. CASE Shows
  BY <1>1, <1>3, <1>5 DEF Shows, Publish, DocumentNumber
<1>6. CASE Opens
  <2>1. live' /\ db' = db /\ (live => seqNum' = seqNum) /\ (~live => seqNum' = db.seq)
    BY <1>6 DEF Opens, OpenRoom, LoadDocument, Working
  <2> QED
    BY <1>1, <1>3, <2>1 DEF DocumentNumber
<1>7. CASE Removes
  BY <1>1, <1>3, <1>4, <1>7 DEF Removes, DocumentNumber
<1>8. CASE Stays(Seq(Chars))
  BY <1>1, <1>3, <1>8 DEF Stays, DocumentNumber
<1> QED
  BY <1>5, <1>6, <1>7, <1>8, TextSteps

\* No tab is ahead of the document, and every operation that waits for one is
\* above the last number it saw.
NumbersAhead ==
    \A t \in Clients :
        /\ tab[t].lastSeq <= DocumentNumber
        /\ \A j \in DOMAIN send[t] : IsOp(send[t][j]) => send[t][j].seq > tab[t].lastSeq

\* A step that leaves the number a tab has seen.
LEMMA SameNumberAhead ==
    ASSUME Working, EditorInv, EditorInv', SavedBeforeSent, RoomStep(Seq(Chars)), NumbersAhead,
           NEW t \in Clients, tab'[t].lastSeq = tab[t].lastSeq
    PROVE  /\ tab'[t].lastSeq <= DocumentNumber'
           /\ \A j \in DOMAIN send'[t] : IsOp(send'[t][j]) => send'[t][j].seq > tab'[t].lastSeq
<1>1. /\ tab[t].lastSeq <= DocumentNumber
      /\ \A j \in DOMAIN send[t] : IsOp(send[t][j]) => send[t][j].seq > tab[t].lastSeq
  BY DEF NumbersAhead
<1>2. tab[t].lastSeq \in Nat
  BY TabAligned DEF EditorInv, Tab
<1>3. /\ DocumentNumber \in Nat /\ DocumentNumber' \in Nat
      /\ DocumentNumber <= DocumentNumber'
  BY NumberGrows DEF EditorInv
<1>4. ASSUME NEW j \in DOMAIN send'[t], IsOp(send'[t][j])
      PROVE  send'[t][j].seq > tab'[t].lastSeq
  <2>1. CASE \E i \in DOMAIN send[t] : send'[t][j] = send[t][i]
    BY <1>1, <1>4, <2>1
  <2>2. CASE Sendable(send'[t][j])
    <3>1. live /\ send'[t][j].seq = seqNum + 1 /\ seqNum \in Nat
      BY <1>4, <2>2 DEF Sendable, EditorInv, RoomInv, TypeOK
    <3> QED
      BY <1>1, <1>2, <3>1 DEF DocumentNumber
  <2> QED
    BY <2>1, <2>2, ChannelStep DEF EditorInv
<1> QED
  BY <1>1, <1>2, <1>3, <1>4

\* The tab that is shown a message goes on to its number, and what waits behind
\* it is above that.
LEMMA ShowAhead ==
    ASSUME EditorInv, OutboxOrdered, NumbersAhead, NEW t \in Clients, Show(t)
    PROVE  /\ tab'[t].lastSeq <= DocumentNumber'
           /\ \A j \in DOMAIN send'[t] : IsOp(send'[t][j]) => send'[t][j].seq > tab'[t].lastSeq
<1> DEFINE m == Head(send[t])
           r == Received(tab[t], m, user[t])
<1>1. /\ send[t] \in Seq(Message) /\ send[t] # << >>
      /\ Matched(m) /\ m = send[t][1] /\ 1 \in DOMAIN send[t]
      /\ tab' = [tab EXCEPT ![t] = r]
      /\ send' = [send EXCEPT ![t] = Tail(send[t])]
  BY ShownMatched
<1>2. /\ tab[t].lastSeq <= DocumentNumber
      /\ \A j \in DOMAIN send[t] : IsOp(send[t][j]) => send[t][j].seq > tab[t].lastSeq
  BY DEF NumbersAhead
<1>3. Aligned(tab[t])
  BY TabAligned DEF EditorInv
<1>4. r.lastSeq \in {tab[t].lastSeq, m.seq}
  BY <1>1, <1>3, ReceivedEffect
<1>5. tab'[t] = r /\ send'[t] = Tail(send[t])
  BY <1>1 DEF EditorInv, EditorTypeOK, TypeOK
<1>6. m.seq <= seqNum
  BY <1>1 DEF OutboxOrdered
<1>7. live
  BY <1>1 DEF EditorInv, RoomInv, Occupied
<1>8. live' = live /\ seqNum' = seqNum
  BY DEF Show, Pump, roomVars
<1> HIDE DEF m, r
<1>9. tab'[t].lastSeq <= DocumentNumber'
  BY <1>2, <1>4, <1>5, <1>6, <1>7, <1>8 DEF DocumentNumber
<1>10. ASSUME NEW j \in DOMAIN send'[t], IsOp(send'[t][j])
       PROVE  send'[t][j].seq > tab'[t].lastSeq
  <2>1. j + 1 \in DOMAIN send[t] /\ send'[t][j] = send[t][j + 1] /\ 1 \in 1 .. (j + 1) - 1
    <3>1. /\ Tail(send[t]) \in Seq(Message) /\ Len(Tail(send[t])) = Len(send[t]) - 1
          /\ \A i \in 1 .. Len(Tail(send[t])) : Tail(send[t])[i] = send[t][i + 1]
      BY <1>1, HeadTailProperties
    <3>2. j \in 1 .. Len(Tail(send[t]))
      BY <1>5, <1>10, <3>1
    <3>3. send'[t][j] = send[t][j + 1]
      BY <1>5, <3>1, <3>2
    <3>4. j \in Nat /\ j >= 1 /\ j + 1 \in 1 .. Len(send[t])
      BY <1>1, <3>1, <3>2
    <3> QED
      BY <1>1, <3>3, <3>4
  <2>2. send[t][j + 1].seq > tab[t].lastSeq
    BY <1>2, <1>10, <2>1
  <2>3. send[t][1].seq < send[t][j + 1].seq
    BY <1>10, <2>1 DEF OutboxOrdered
  <2>4. send[t][1].seq \in Nat /\ send[t][j + 1].seq \in Nat
    BY <1>1, <2>1, MessageSeq
  <2> QED
    BY <1>1, <1>4, <1>5, <2>1, <2>2, <2>3, <2>4
<1> QED
  BY <1>9, <1>10

\* Every step keeps the numbers ahead.
LEMMA NumbersAheadStep ==
    ASSUME Working, EditorInv, EditorInv', SavedBeforeSent, OutboxOrdered, NumbersAhead,
           [EditorNext]_allVars
    PROVE  NumbersAhead'
<1>1. RoomStep(Seq(Chars))
  BY EditorIsRoomStep DEF EditorInv
<1> SUFFICES ASSUME NEW t \in Clients
             PROVE  /\ tab'[t].lastSeq <= DocumentNumber'
                    /\ \A j \in DOMAIN send'[t] :
                          IsOp(send'[t][j]) => send'[t][j].seq > tab'[t].lastSeq
  BY DEF NumbersAhead
<1>2. CASE Show(t)
  BY <1>2, ShowAhead
<1>3. CASE tab'[t].lastSeq = tab[t].lastSeq
  BY <1>1, <1>3, SameNumberAhead
<1>4. Closed(tab[t]).lastSeq = tab[t].lastSeq
  BY TabAligned, ClosedAligned DEF EditorInv
<1> QED
  BY <1>2, <1>3, <1>4, TabSteps DEF SameSession

\* As long as the database works, the test of onmessage against lastSeq never
\* discards an operation that the tab has not seen, through greetings, replays,
\* dropped messages, rooms that are removed and servers that are restarted.
THEOREM FreshOpsAlwaysShown ==
    ASSUME Working
    PROVE  EditorSpec => []FreshOpsShown
<1> DEFINE Inv == EditorInv /\ SavedBeforeSent /\ OutboxOrdered /\ NumbersAhead
<1>1. EditorInit => Inv
  <2> SUFFICES ASSUME EditorInit PROVE Inv
    OBVIOUS
  <2>1. EditorInv
    BY EditorInvInit
  <2>2. SavedBeforeSent /\ OutboxOrdered
    BY SavedInit, OutboxOrderedInit DEF EditorInit
  <2>3. NumbersAhead
    <3>1. Row.seq \in Nat
      BY RowAssumption
    <3> QED
      BY <3>1 DEF NumbersAhead, EditorInit, InitWith, NewTab, DocumentNumber
  <2> QED
    BY <2>1, <2>2, <2>3
<1>2. Inv /\ [EditorNext]_allVars => Inv'
  <2> SUFFICES ASSUME Inv, [EditorNext]_allVars PROVE Inv'
    OBVIOUS
  <2>1. EditorInv'
    BY EditorInvStep
  <2>2. RoomStep(Seq(Chars))
    BY EditorIsRoomStep DEF EditorInv
  <2>3. SavedBeforeSent' /\ OutboxOrdered'
    BY <2>1, <2>2, SavedBeforeSentStep, OutboxOrderedStep DEF EditorInv
  <2>4. NumbersAhead'
    BY <2>1, NumbersAheadStep
  <2> QED
    BY <2>1, <2>3, <2>4
<1>3. Inv => FreshOpsShown
  <2> SUFFICES ASSUME Inv, NEW t \in Clients, send[t] # << >>, IsOp(Head(send[t]))
               PROVE  Head(send[t]).seq > tab[t].lastSeq
    BY DEF FreshOpsShown
  <2>1. send[t] \in Seq(Message)
    BY DEF EditorInv, RoomInv, TypeOK
  <2>2. 1 \in DOMAIN send[t] /\ Head(send[t]) = send[t][1]
    BY <2>1
  <2> QED
    BY <2>2 DEF NumbersAhead
<1> QED
  BY <1>1, <1>2, <1>3, PTL DEF EditorSpec

-----------------------------------------------------------------------------
(***************************************************************************)
(* A tab that waits for its restore.                                       *)
(***************************************************************************)

\* RestoreAnswered of one tab, with what it waits for.
Awaits(b, s, q, out) ==
    b.restoring /\ "unanswered" \notin s
        => \/ \E i \in DOMAIN out : out[i].type = "restore"
           \/ \E i \in DOMAIN q : q[i].type = "full_sync"

\* Channel r still has all that q had.
KeepsAll(q, r) == \A i \in DOMAIN q : i \in DOMAIN r /\ r[i] = q[i]

\* RestoreAnswered, tab by tab.
LEMMA RestoreAnsweredIs ==
    RestoreAnswered <=> \A t \in Clients : Awaits(tab[t], strayed[t], send[t], up[t])
BY DEF RestoreAnswered, Awaits

\* The same after a step.
LEMMA RestoreAnsweredIsNext ==
    RestoreAnswered' <=> \A t \in Clients : Awaits(tab'[t], strayed'[t], send'[t], up'[t])
BY DEF RestoreAnswered, Awaits

\* What is on its way stays: the tab does not start to wait, the history, the
\* channel and what was sent only grow.
LEMMA AwaitsGrows ==
    ASSUME NEW b, NEW s, NEW q, NEW out, Awaits(b, s, q, out),
           NEW b2, NEW s2, NEW q2, NEW out2, KeepsAll(q, q2),
           b2.restoring => b.restoring, s \subseteq s2,
           \A i \in DOMAIN out : out[i].type = "restore" =>
                \E j \in DOMAIN out2 : out2[j].type = "restore"
    PROVE  Awaits(b2, s2, q2, out2)
<1> SUFFICES ASSUME b2.restoring, "unanswered" \notin s2
             PROVE  \/ \E i \in DOMAIN out2 : out2[i].type = "restore"
                    \/ \E i \in DOMAIN q2 : q2[i].type = "full_sync"
  BY DEF Awaits
<1>1. CASE \E i \in DOMAIN out : out[i].type = "restore"
  BY <1>1
<1>2. CASE \E i \in DOMAIN q : q[i].type = "full_sync"
  BY <1>2 DEF KeepsAll
<1> QED
  BY <1>1, <1>2 DEF Awaits

\* A message that is taken, and is of another type, is not what the tab waits for.
Has(q, type) == \E i \in DOMAIN q : q[i].type = type

\* A message that is not the first stays when the first is taken.
LEMMA TailKeeps ==
    ASSUME NEW S, NEW out \in Seq(S), NEW type, out # << >>, Head(out).type # type, Has(out, type)
    PROVE  Has(Tail(out), type)
<1> PICK i \in DOMAIN out : out[i].type = type
  BY DEF Has
<1>1. i # 1
  OBVIOUS
<1>2. /\ Tail(out) \in Seq(S) /\ Len(Tail(out)) = Len(out) - 1
      /\ \A k \in 1 .. Len(Tail(out)) : Tail(out)[k] = out[k + 1]
  BY HeadTailProperties
<1>3. i - 1 \in 1 .. Len(Tail(out)) /\ (i - 1) + 1 = i
  BY <1>1, <1>2
<1>4. i - 1 \in DOMAIN Tail(out) /\ Tail(out)[i - 1].type = type
  BY <1>2, <1>3
<1> QED
  BY <1>4 DEF Has

\* A channel that gets a message keeps the others.
LEMMA AddsKeepsAll == ASSUME NEW q, NEW r, NEW m, Adds(q, r, m) PROVE KeepsAll(q, r)
BY DEF Adds, KeepsAll

\* Each action in turn leaves no tab waiting for nothing: opening a connection,
LEMMA OpenAwaits ==
    ASSUME EditorInv, RestoreAnswered, NEW u \in Clients, Open(u), NEW t \in Clients
    PROVE  Awaits(tab'[t], strayed'[t], send'[t], up'[t])
<1>1. Awaits(tab[t], strayed[t], send[t], up[t])
  BY RestoreAnsweredIs
<1>2. UNCHANGED <<tab, send, strayed>>
  BY DEF Open, vars
<1>3. up'[t] = up[t] \/ DOMAIN up[t] = {}
  <2>1. CASE t = u
    BY <2>1 DEF Open, Connected
  <2>2. CASE t # u
    BY <2>2 DEF Open, EditorInv, EditorTypeOK
  <2> QED
    BY <2>1, <2>2
<1> QED
  BY <1>1, <1>2, <1>3, AwaitsGrows DEF KeepsAll

\* typing,
LEMMA TypeAwaits ==
    ASSUME EditorInv, RestoreAnswered, NEW u \in Clients, Type(u), NEW t \in Clients
    PROVE  Awaits(tab'[t], strayed'[t], send'[t], up'[t])
<1>1. Awaits(tab[t], strayed[t], send[t], up[t]) /\ UpOK /\ TabsOK
  BY RestoreAnsweredIs, EditorTypeParts DEF EditorInv
<1>2. send' = send /\ strayed[t] \subseteq strayed'[t]
  BY EditorTypeParts DEF Type, vars, EditorInv, StrayedOK
<1>3. PICK new \in Edits(tab[u].value) :
        /\ tab' = [tab EXCEPT ![u] = Edited(tab[u], new)]
        /\ up' = IF Connected(u) THEN [up EXCEPT ![u] = @ \o diffToOps(tab[u], new)] ELSE up
  BY DEF Type
<1>4. Aligned(tab[u]) /\ new \in Seq(Chars)
  BY <1>3, TabAligned, EditsType DEF EditorInv, Tab
<1>5. tab'[t].restoring = tab[t].restoring
  <2>1. Edited(tab[u], new).restoring = tab[u].restoring
    BY <1>4, EditedAligned DEF SameSession
  <2> QED
    BY <1>1, <1>3, <2>1 DEF TabsOK
<1>6. \A i \in DOMAIN up[t] : i \in DOMAIN up'[t] /\ up'[t][i] = up[t][i]
  <2>1. CASE up'[t] = up[t]
    BY <2>1
  <2>2. CASE up'[t] = up[t] \o diffToOps(tab[u], new)
    <3>1. up[t] \in Seq(Sent) /\ diffToOps(tab[u], new) \in Seq(Sent)
      BY <1>1, <1>4, DiffIsRequests DEF UpOK, Sent
    <3> DEFINE d == diffToOps(tab[u], new)
    <3>2. d \in Seq(Sent)
      BY <3>1
    <3> HIDE DEF d
    <3>3. ASSUME NEW i \in DOMAIN up[t]
          PROVE  i \in DOMAIN (up[t] \o d) /\ (up[t] \o d)[i] = up[t][i]
      <4>1. /\ up[t] \o d \in Seq(Sent) /\ Len(up[t] \o d) = Len(up[t]) + Len(d)
            /\ \A k \in 1 .. Len(up[t]) + Len(d) :
                (up[t] \o d)[k] = IF k <= Len(up[t]) THEN up[t][k] ELSE d[k - Len(up[t])]
        BY <3>1, <3>2, ConcatProperties
      <4>2. i \in 1 .. Len(up[t]) /\ Len(d) \in Nat /\ Len(up[t]) \in Nat
        BY <3>1, <3>2
      <4>3. i \in 1 .. Len(up[t]) + Len(d) /\ i <= Len(up[t])
        BY <4>2
      <4> QED
        BY <4>1, <4>3
    <3> QED
      BY <2>2, <3>3 DEF d
  <2> QED
    BY <1>1, <1>3, <2>1, <2>2 DEF UpOK
<1> QED
  BY <1>1, <1>2, <1>5, <1>6, AwaitsGrows DEF KeepsAll

\* showing a message, which may start or end the waiting,
LEMMA ShowAwaits ==
    ASSUME EditorInv, RestoreAnswered, NEW u \in Clients, Show(u), NEW t \in Clients
    PROVE  Awaits(tab'[t], strayed'[t], send'[t], up'[t])
<1> DEFINE m == Head(send[u])
<1>1. Awaits(tab[t], strayed[t], send[t], up[t]) /\ UpOK /\ TabsOK /\ StrayedOK
  BY RestoreAnsweredIs, EditorTypeParts DEF EditorInv
<1>2. /\ send[u] \in Seq(Message) /\ send[u] # << >> /\ Matched(m)
      /\ tab' = [tab EXCEPT ![u] = Received(tab[u], m, user[u])]
      /\ send' = [send EXCEPT ![u] = Tail(send[u])]
  BY ShownMatched
<1>3. /\ up' = IF m.type = "full_sync" THEN [up EXCEPT ![u] = @ \o FullSyncReply(tab[u], m)]
               ELSE up
      /\ strayed' = [strayed EXCEPT ![u] = @ \cup ShowCauses(u, m)]
  BY DEF Show
<1>4. send \in [Clients -> Seq(Message)]
  BY DEF EditorInv, RoomInv, TypeOK
<1> HIDE DEF m
<1>5. CASE t # u
  <2>1. tab'[t] = tab[t] /\ strayed'[t] = strayed[t] /\ send'[t] = send[t] /\ up'[t] = up[t]
    BY <1>1, <1>2, <1>3, <1>4, <1>5 DEF TabsOK, StrayedOK, UpOK
  <2> QED
    BY <1>1, <2>1
<1>6. CASE t = u
  <2>1. /\ tab'[t] = Received(tab[t], m, user[t]) /\ Aligned(tab[t])
        /\ send'[t] = Tail(send[t])
        /\ strayed[t] \subseteq strayed'[t]
    BY <1>1, <1>2, <1>3, <1>4, <1>6, TabAligned DEF TabsOK, StrayedOK, EditorInv
  <2>2. tab'[t].restoring =
            IF m.type = "full_sync" THEN AsksRestore(tab[t], m) ELSE tab[t].restoring
    BY <1>2, <2>1, ReceivedEffect
  <2>3. CASE m.type = "full_sync" /\ AsksRestore(tab[t], m)
    <3> DEFINE r == [type |-> "restore", content |-> tab[t].value]
    <3>1. FullSyncReply(tab[t], m) = <<r>> /\ <<r>> \in Seq(Sent)
      BY <1>2, <2>1, <2>3, ReplyType
    <3>2. up'[t] = up[t] \o <<r>> /\ up[t] \in Seq(Sent)
      BY <1>1, <1>3, <1>6, <2>3, <3>1 DEF UpOK
    <3> HIDE DEF r
    <3>3. Len(up[t]) + 1 \in DOMAIN up'[t] /\ up'[t][Len(up[t]) + 1] = r
      BY <3>1, <3>2, ConcatProperties
    <3>4. r.type = "restore"
      BY DEF r
    <3>5. \E i \in DOMAIN up'[t] : up'[t][i].type = "restore"
      BY <3>3, <3>4
    <3> QED
      BY <3>5 DEF Awaits
  <2>4. CASE m.type = "full_sync" /\ ~AsksRestore(tab[t], m)
    BY <2>2, <2>4 DEF Awaits
  <2>5. CASE m.type # "full_sync"
    <3>1. up'[t] = up[t] /\ tab'[t].restoring = tab[t].restoring
      BY <1>3, <2>2, <2>5
    <3>2. \A i \in DOMAIN send[t] : send[t][i].type = "full_sync" =>
                \E j \in DOMAIN send'[t] : send'[t][j].type = "full_sync"
      <4>1. send[t] \in Seq(Message) /\ send[t] # << >> /\ Head(send[t]).type # "full_sync"
        BY <1>2, <1>6, <2>5 DEF m
      <4>2. Has(send[t], "full_sync") => Has(Tail(send[t]), "full_sync")
        BY <4>1, TailKeeps
      <4> QED
        BY <2>1, <4>2 DEF Has
    <3> QED
      BY <1>1, <2>1, <3>1, <3>2 DEF Awaits
  <2> QED
    BY <2>3, <2>4, <2>5
<1> QED
  BY <1>5, <1>6

\* losing a connection, which ends it,
LEMMA DisconnectAwaits ==
    ASSUME EditorInv, RestoreAnswered, NEW u \in Clients, Disconnect(u), NEW t \in Clients
    PROVE  Awaits(tab'[t], strayed'[t], send'[t], up'[t])
<1>1. Awaits(tab[t], strayed[t], send[t], up[t]) /\ UpOK /\ TabsOK /\ StrayedOK
  BY RestoreAnsweredIs, EditorTypeParts DEF EditorInv
<1>2. /\ tab' = [tab EXCEPT ![u] = Closed(@)]
      /\ up' = [up EXCEPT ![u] = << >>]
      /\ strayed' = [v \in Clients |-> strayed[v] \cup IF v = u THEN LostCauses(u) ELSE GoneCauses]
  BY DEF Disconnect
<1>3. CASE t = u
  <2>1. tab'[t] = Closed(tab[t])
    BY <1>1, <1>2, <1>3 DEF TabsOK
  <2> QED
    BY <2>1, TabAligned, ClosedAligned DEF Awaits, EditorInv
<1>4. CASE t # u
  <2>1. tab'[t] = tab[t] /\ up'[t] = up[t] /\ strayed[t] \subseteq strayed'[t]
    BY <1>1, <1>2, <1>4 DEF TabsOK, UpOK, StrayedOK
  <2>2. KeepsAll(send[t], send'[t])
    <3>1. CASE Leave(u)
      BY <1>4, <3>1, LeaveAdds, AddsKeepsAll DEF EditorInv
    <3>2. CASE UNCHANGED vars
      BY <3>2 DEF vars, KeepsAll
    <3> QED
      BY <3>1, <3>2 DEF Disconnect
  <2> QED
    BY <1>1, <2>1, <2>2, AwaitsGrows
<1> QED
  BY <1>3, <1>4

\* losing the server,
LEMMA CrashAwaits ==
    ASSUME EditorInv, RestoreAnswered, ServerCrash, NEW t \in Clients
    PROVE  Awaits(tab'[t], strayed'[t], send'[t], up'[t])
<1>1. Awaits(tab[t], strayed[t], send[t], up[t])
  BY RestoreAnsweredIs
<1>2. /\ tab' = [v \in Clients |-> IF Connected(v) THEN Closed(tab[v]) ELSE tab[v]]
      /\ strayed' = [v \in Clients |-> strayed[v] \cup LostCauses(v)]
  BY DEF ServerCrash
<1>3. CASE Connected(t)
  <2>1. tab'[t] = Closed(tab[t])
    BY <1>2, <1>3
  <2> QED
    BY <2>1, TabAligned, ClosedAligned DEF Awaits, EditorInv
<1>4. CASE ~Connected(t)
  <2>1. tab'[t] = tab[t] /\ strayed[t] \subseteq strayed'[t]
    BY <1>2, <1>4
  <2>2. send[t] = << >> /\ up[t] = << >>
    BY <1>4 DEF Connected, EditorInv, RoomInv, Occupied
  <2> QED
    BY <1>1, <2>1, <2>2 DEF Awaits
<1> QED
  BY <1>3, <1>4

\* greeting a connection,
LEMMA ServeJoinAwaits ==
    ASSUME EditorInv, RoomInv', RestoreAnswered, NEW u \in Clients, ServeJoin(u), NEW t \in Clients
    PROVE  Awaits(tab'[t], strayed'[t], send'[t], up'[t])
<1>1. Awaits(tab[t], strayed[t], send[t], up[t]) /\ UpOK /\ StrayedOK
  BY RestoreAnsweredIs, EditorTypeParts DEF EditorInv
<1>2. /\ Head(up[u]) \in Sent /\ Head(up[u]).type = "join"
      /\ up' = [up EXCEPT ![u] = Tail(@)] /\ up[u] # << >> /\ tab' = tab
      /\ strayed' = IF Head(send'[u]).type = "full_sync" THEN [strayed EXCEPT ![u] = {}] ELSE strayed
  BY TakesTypes DEF ServeJoin, Takes, EditorInv
<1>3. PICK since \in Nat, offlineEdits \in BOOLEAN : Join(u, since, offlineEdits)
  BY <1>2, SentTypes DEF ServeJoin
<1>4. /\ send[u] = << >> /\ send'[u] # << >>
      /\ \A v \in Clients \ {u} : Adds(send[v], send'[v], Signal)
  BY <1>3, JoinAdds DEF EditorInv
<1>5. CASE t # u
  <2>1. up'[t] = up[t] /\ strayed'[t] = strayed[t]
    BY <1>1, <1>2, <1>5 DEF UpOK, StrayedOK
  <2>2. KeepsAll(send[t], send'[t])
    BY <1>4, <1>5, AddsKeepsAll
  <2> QED
    BY <1>1, <1>2, <2>1, <2>2, AwaitsGrows
<1>6. CASE t = u /\ Head(send'[u]).type = "full_sync"
  <2>1. send'[u] \in Seq(Message)
    BY DEF RoomInv, TypeOK
  <2>2. 1 \in DOMAIN send'[t] /\ send'[t][1].type = "full_sync"
    BY <1>4, <1>6, <2>1
  <2> QED
    BY <2>2 DEF Awaits
<1>7. CASE t = u /\ Head(send'[u]).type # "full_sync"
  <2>1. up[t] \in Seq(Sent) /\ up'[t] = Tail(up[t]) /\ strayed'[t] = strayed[t]
    BY <1>1, <1>2, <1>7 DEF UpOK
  <2>2. \A i \in DOMAIN up[t] : up[t][i].type = "restore" =>
            \E j \in DOMAIN up'[t] : up'[t][j].type = "restore"
    <3>1. up[t] # << >> /\ Head(up[t]).type # "restore"
      BY <1>2, <1>7
    <3>2. Has(up[t], "restore") => Has(Tail(up[t]), "restore")
      BY <2>1, <3>1, TailKeeps
    <3> QED
      BY <2>1, <3>2 DEF Has
  <2>3. KeepsAll(send[t], send'[t])
    BY <1>4, <1>7 DEF KeepsAll
  <2>4. (tab'[t].restoring => tab[t].restoring) /\ strayed[t] \subseteq strayed'[t]
    BY <1>2, <2>1
  <2> QED
    BY <1>1, <2>2, <2>3, <2>4, AwaitsGrows
<1> QED
  BY <1>5, <1>6, <1>7

\* The server takes something that is no restore, of a tab that it goes on serving.
LEMMA TakesAwaits ==
    ASSUME EditorInv, RestoreAnswered, NEW u \in Clients, NEW type, Takes(u, type),
           type # "restore", NEW t \in Clients, KeepsAll(send[t], send'[t]),
           strayed[t] \subseteq strayed'[t]
    PROVE  Awaits(tab'[t], strayed'[t], send'[t], up'[t])
<1>1. Awaits(tab[t], strayed[t], send[t], up[t]) /\ UpOK
  BY RestoreAnsweredIs, EditorTypeParts DEF EditorInv
<1>2. /\ Head(up[u]).type = type /\ up[u] # << >> /\ tab' = tab
      /\ up' = [up EXCEPT ![u] = Tail(@)]
  BY DEF Takes
<1>3. \A i \in DOMAIN up[t] : up[t][i].type = "restore" =>
            \E j \in DOMAIN up'[t] : up'[t][j].type = "restore"
  <2>1. CASE t # u
    <3>1. up'[t] = up[t]
      BY <1>1, <1>2, <2>1 DEF UpOK
    <3> QED
      BY <3>1
  <2>2. CASE t = u
    <3>1. /\ up[t] \in Seq(Sent) /\ up'[t] = Tail(up[t]) /\ up[t] # << >>
          /\ Head(up[t]).type # "restore"
      BY <1>1, <1>2, <2>2 DEF UpOK
    <3>2. Has(up[t], "restore") => Has(Tail(up[t]), "restore")
      BY <3>1, TailKeeps
    <3> QED
      BY <3>1, <3>2 DEF Has
  <2> QED
    BY <2>1, <2>2
<1>4. tab'[t].restoring => tab[t].restoring
  BY <1>2
<1> QED
  BY <1>1, <1>3, <1>4, AwaitsGrows

\* taking an operation,
LEMMA ServeOpAwaits ==
    ASSUME EditorInv, RestoreAnswered, NEW u \in Clients, NEW type \in {"insert", "delete"},
           ServeOp(u, type), NEW t \in Clients
    PROVE  Awaits(tab'[t], strayed'[t], send'[t], up'[t])
<1>1. StrayedOK
  BY EditorTypeParts DEF EditorInv
<1>2. strayed' = [strayed EXCEPT ![u] = @ \cup ServeCauses(u, Head(up[u]))] /\ Takes(u, type)
  BY DEF ServeOp
<1>3. strayed[t] \subseteq strayed'[t]
  BY <1>1, <1>2 DEF StrayedOK
<1>4. KeepsAll(send[t], send'[t])
  <2>1. CASE HandleOp(u, Head(up[u]))
    <3>1. Head(up[u]) \in Request
      BY <1>2, TakesTypes, SentTypes DEF EditorInv
    <3>2. PICK m : Adds(send[t], send'[t], m)
      BY <2>1, <3>1, HandleOpAdds DEF EditorInv
    <3> QED
      BY <3>2, AddsKeepsAll
  <2>2. CASE UNCHANGED vars
    BY <2>2 DEF vars, KeepsAll
  <2> QED
    BY <2>1, <2>2 DEF ServeOp
<1> QED
  BY <1>2, <1>3, <1>4, TakesAwaits

\* taking a batch,
LEMMA ServeBatchAwaits ==
    ASSUME EditorInv, RestoreAnswered, NEW u \in Clients, ServeBatch(u), NEW t \in Clients
    PROVE  Awaits(tab'[t], strayed'[t], send'[t], up'[t])
<1>1. Takes(u, "batch_sync") /\ UNCHANGED <<send, strayed>>
  BY DEF ServeBatch, StartBatch
<1> QED
  BY <1>1, TakesAwaits DEF KeepsAll

\* applying an operation of it,
LEMMA ServeBatchOpAwaits ==
    ASSUME EditorInv, RestoreAnswered, ServeBatchOp, NEW t \in Clients
    PROVE  Awaits(tab'[t], strayed'[t], send'[t], up'[t])
<1>1. Awaits(tab[t], strayed[t], send[t], up[t]) /\ StrayedOK
  BY RestoreAnsweredIs, EditorTypeParts DEF EditorInv
<1>2. /\ BatchStep /\ tab' = tab /\ up' = up
      /\ strayed' = [strayed EXCEPT ![task.who] = @ \cup ServeCauses(task.who, Head(task.todo))]
  BY DEF ServeBatchOp
<1>3. strayed[t] \subseteq strayed'[t]
  BY <1>1, <1>2 DEF StrayedOK
<1>4. PICK m : Adds(send[t], send'[t], m)
  BY <1>2, BatchStepAdds DEF EditorInv
<1> QED
  BY <1>1, <1>2, <1>3, <1>4, AddsKeepsAll, AwaitsGrows

\* The answer goes into the channel of the one who asked, or the channel is full.
LEMMA ServeRestoreAwaits ==
    ASSUME EditorInv, RoomInv', RestoreAnswered, NEW u \in Clients, ServeRestore(u),
           NEW t \in Clients
    PROVE  Awaits(tab'[t], strayed'[t], send'[t], up'[t])
<1> DEFINE dropped == Len(send[u]) = SendBuf
<1>1. Awaits(tab[t], strayed[t], send[t], up[t]) /\ UpOK /\ StrayedOK
  BY RestoreAnsweredIs, EditorTypeParts DEF EditorInv
<1>2. /\ HandleRestore(u, Head(up[u]).content)
      /\ strayed' = [v \in Clients |->
              IF v = u THEN IF dropped THEN strayed[v] \cup {"unanswered"} ELSE {}
              ELSE strayed[v] \cup {x \in {"untold"} : doc' # doc}]
      /\ up' = [up EXCEPT ![u] = Tail(@)] /\ tab' = tab
  BY DEF ServeRestore, Takes
<1>3. PICK m : /\ m.type = "full_sync"
               /\ \A v \in Clients : Adds(send[v], send'[v], m)
               /\ Len(send[u]) < SendBuf => \E j \in DOMAIN send'[u] : send'[u][j] = m
  BY <1>2, RestoreAdds DEF EditorInv
<1>4. CASE t # u
  <2>1. up'[t] = up[t] /\ strayed[t] \subseteq strayed'[t]
    BY <1>1, <1>2, <1>4 DEF UpOK
  <2> QED
    BY <1>1, <1>2, <1>3, <2>1, AddsKeepsAll, AwaitsGrows
<1>5. CASE t = u /\ dropped
  <2>1. "unanswered" \in strayed'[t]
    BY <1>2, <1>5
  <2> QED
    BY <2>1 DEF Awaits
<1>6. CASE t = u /\ ~dropped
  <2>1. Len(send[u]) <= SendBuf /\ Len(send[u]) \in Nat /\ SendBuf \in Nat
    BY BufferAssumption DEF EditorInv, ChannelsOK, RoomInv, TypeOK
  <2>2. Len(send[u]) < SendBuf
    BY <1>6, <2>1
  <2>3. \E j \in DOMAIN send'[t] : send'[t][j].type = "full_sync"
    BY <1>3, <1>6, <2>2
  <2> QED
    BY <2>3 DEF Awaits
<1> QED
  BY <1>4, <1>5, <1>6

\* Every step leaves every waiting tab with its restore or its answer on the way.
LEMMA RestoreAnsweredStep ==
    ASSUME EditorInv, EditorInv', RestoreAnswered, [EditorNext]_allVars
    PROVE  RestoreAnswered'
<1> SUFFICES ASSUME NEW t \in Clients
             PROVE  Awaits(tab'[t], strayed'[t], send'[t], up'[t])
  BY RestoreAnsweredIsNext
<1>1. RoomInv'
  BY DEF EditorInv
<1>2. ASSUME UNCHANGED allVars
      PROVE  Awaits(tab'[t], strayed'[t], send'[t], up'[t])
  BY <1>2, RestoreAnsweredIs DEF allVars, editorVars, vars
<1> QED
  BY <1>1, <1>2, OpenAwaits, TypeAwaits, ShowAwaits, DisconnectAwaits, CrashAwaits,
     ServeJoinAwaits, ServeOpAwaits, ServeBatchAwaits, ServeBatchOpAwaits, ServeRestoreAwaits
     DEF EditorNext

\* A tab that ignores operations until its restore is answered has the restore on
\* its way to the server or the full_sync on its way back, or its channel was full
\* when the server answered: breaks, restarts and rejoins never leave it waiting.
THEOREM RestoreAlwaysAnswered == EditorSpec => []RestoreAnswered
<1>1. EditorInit => RestoreAnswered
  BY DEF EditorInit, RestoreAnswered, NewTab
<1>2. EditorInv /\ EditorInv' /\ RestoreAnswered /\ [EditorNext]_allVars => RestoreAnswered'
  BY RestoreAnsweredStep
<1> QED
  BY <1>1, <1>2, EditorInvCorrect, PTL DEF EditorSpec

-----------------------------------------------------------------------------
(***************************************************************************)
(* What a tab has done and the server has not: the steps its text took.    *)
(***************************************************************************)

\* What the messages of a tab do to a text: a batch does what its operations do.
MsgSteps ==
    OpSteps \cup
    {e \in Seq(Chars) \X Sent \X Seq(Chars) :
        e[2].type = "batch_sync" /\ Steps(OpSteps, e[1], e[2].ops, e[3])}

\* diffToOps names the edits that take the tab's text to the new one.
LEMMA DiffShows ==
    ASSUME NEW b, Aligned(b), NEW new \in Seq(Chars)
    PROVE  Steps(OpSteps, b.value, diffToOps(b, new), new)
<1> DEFINE a == b.value
           p == PrefixLen(a, new)
           s == SuffixLen(a, new)
           cut == Len(Middle(new, a))
           put == Middle(a, new)
           k == Len(put)
           Del(d) == [type |-> "delete", Position |-> p + cut - d, ID |-> b.shadow[p + cut - d + 1]]
           Ins(i) == [type |-> "insert", Char |-> put[i], Position |-> p + i - 1,
                      ID |-> IF i > 1 THEN Placeholder(b.count + i - 1)
                             ELSE IF p = 0 THEN RootID ELSE b.shadow[p],
                      clientOpID |-> b.count + i]
           dels == [d \in 1 .. cut |-> Del(d)]
           puts == [i \in DOMAIN put |-> Ins(i)]
<1>1. a \in Seq(Chars) /\ Len(a) \in Nat
  BY DEF Aligned, Tab
<1>2. diffToOps(b, new) = dels \o puts /\ dels \in Seq(Request) /\ puts \in Seq(Request)
  <2>1. dels = Cuts(b, new) /\ puts = Puts(b, new)
    BY DEF Cuts, Puts
  <2> HIDE DEF dels, puts
  <2> QED
    BY <2>1, DiffHalves
<1> HIDE DEF Del, Ins
<1>3. /\ p \in Nat /\ cut \in Nat /\ p + cut <= Len(a) /\ k \in Nat
      /\ Len(new) = p + k + (Len(a) - (p + cut))
      /\ Len(a) \in Nat
  <2> HIDE DEF a
  <2> QED
    BY <1>1, Parts DEF dels, puts
<1>4. put \in Seq(Chars) /\ \A i \in 1 .. k : put[i] = new[p + i]
  <2> HIDE DEF a, dels, puts
  <2>1. /\ put \in Seq(Chars) /\ Len(put) = Len(new) - s - p
        /\ \A i \in 1 .. Len(new) - s - p : put[i] = new[p + i]
    BY <1>1, MiddleProperties
  <2> QED
    BY <2>1
<1>5. /\ \A i \in 1 .. p : a[i] = new[i]
      /\ \A i \in 0 .. Len(a) - (p + cut) - 1 : a[Len(a) - i] = new[Len(new) - i]
  <2>1. SharedEnds(a, new, p, s)
    BY <1>1, EndsShared
  <2>2. Len(put) = Len(new) - s - p
    BY <1>1, MiddleProperties
  <2> HIDE DEF a, p, s, cut, put
  <2>3. s = Len(a) - (p + cut)
    BY <1>3, <2>1, <2>2 DEF SharedEnds
  <2> QED
    BY <2>1, <2>3 DEF SharedEnds
<1> HIDE DEF a, p, s, cut, put, k
<1>6. Steps(OpSteps, a, dels \o puts, More(a, p, cut, put, k))
  <2>1. Len(dels) = cut /\ Len(puts) = k
    BY <1>3, <1>4 DEF k
  <2>2. ASSUME NEW t \in Seq(Chars), NEW d \in 1 .. cut, CutAt(t, p + cut - d) \in Seq(Chars)
        PROVE  <<t, dels[d], CutAt(t, p + cut - d)>> \in OpSteps
    <3>1. d \in DOMAIN dels /\ dels[d] = Del(d)
      BY <1>3
    <3>2. dels[d] \in Request
      <4> HIDE DEF dels
      <4> QED
        BY <1>2, <3>1
    <3>3. dels[d].type = "delete" /\ dels[d].Position = p + cut - d
      BY <3>1 DEF Del
    <3> HIDE DEF dels
    <3> QED
      BY <2>2, <3>2, <3>3 DEF OpSteps, Applied
  <2>3. ASSUME NEW t \in Seq(Chars), NEW i \in 1 .. k, PutAt(t, p + i - 1, put[i]) \in Seq(Chars)
        PROVE  <<t, puts[i], PutAt(t, p + i - 1, put[i])>> \in OpSteps
    <3>1. i \in DOMAIN put
      BY <1>4 DEF k
    <3>2. i \in DOMAIN puts /\ puts[i] = Ins(i)
      BY <3>1
    <3>3. puts[i] \in Request
      <4> HIDE DEF puts
      <4> QED
        BY <1>2, <3>2
    <3>4. puts[i].type = "insert" /\ puts[i].Position = p + i - 1 /\ puts[i].Char = put[i]
      BY <3>2 DEF Ins
    <3> HIDE DEF puts
    <3> QED
      BY <2>3, <3>3, <3>4 DEF OpSteps, Applied
  <2> HIDE DEF dels, puts
  <2> QED
    BY <1>1, <1>2, <1>3, <1>4, <2>1, <2>2, <2>3, EditLeads DEF Steps, Asks, k
<1>7. More(a, p, cut, put, k) = new
  <2>1. Between(a, p, cut, put, new)
    BY <1>3, <1>4, <1>5 DEF Between, k
  <2> QED
    BY <1>1, <1>3, <1>4, <2>1, MoreLast DEF k
<1> HIDE DEF dels, puts
<1> QED
  BY <1>2, <1>6, <1>7 DEF a

-----------------------------------------------------------------------------
(***************************************************************************)
(* What a step is to a tab that has no part in it.                         *)
(***************************************************************************)

\* What a tab is forgiven: identifiers that are wrong, and a restore whose answer
\* was dropped.
Excused == {"reloaded", "relabelled", "retyped", "unanswered"}

\* What is left of the batch of t.
Todo(t) == IF task # NoTask /\ task.who = t THEN task.todo ELSE << >>

\* The document stays what it is, and the log gets nothing.
SameRoom ==
    /\ DocumentNumber' = DocumentNumber /\ DocumentText' = DocumentText
    /\ Range(opLog') \subseteq Range(opLog)

\* The room publishes op.
Grows(op) ==
    /\ op \in Op /\ live /\ live'
    /\ op.seq = seqNum + 1 /\ Publish(op) /\ Fits(op)

\* The tab and its connection are left as they are, but for what they are sent.
Elsewhere(t) ==
    /\ tab'[t] = tab[t] /\ up'[t] = up[t] /\ user'[t] = user[t] /\ Todo(t)' = Todo(t)
    /\ (t \in clients' <=> t \in clients)
    /\ strayed[t] \subseteq strayed'[t]
    /\ \/ /\ strayed'[t] \subseteq Excused => SameRoom
          /\ Adds(send[t], send'[t], Signal)
       \/ \E op : /\ Grows(op) /\ (t \in clients => op.userID # user[t])
                  /\ Adds(send[t], send'[t], op)

\* What the proof knows of the room, its users, channels and numbers.
RoomKnown ==
    /\ EditorInv /\ SavedBeforeSent /\ OutboxOrdered /\ NumbersAhead /\ LogContiguous
    /\ UsersKnown

\* A channel that gets nothing might as well have dropped a signal.
LEMMA SameQueue == ASSUME RoomInv, NEW t \in Clients, send'[t] = send[t]
                   PROVE  Adds(send[t], send'[t], Signal)
BY SafeSendAdds, SignalProperties DEF RoomInv, TypeOK

\* The document and its log are in these variables.
LEMMA RoomStays ==
    ASSUME UNCHANGED <<live, doc, seqNum, opLog, db>>
    PROVE  SameRoom
BY DEF SameRoom, DocumentNumber, DocumentText

\* An operation that a client sends, or one of a batch.
LEMMA ServedGrows ==
    ASSUME RoomKnown, NEW c \in clients, NEW r \in Request, applyOp(c, r),
           UNCHANGED <<live, clients, user>>
    PROVE  \E op : /\ Grows(op) /\ Echoes(op, c, r)
                   /\ \A t \in Clients : Adds(send[t], send'[t], op)
<1>1. RoomInv /\ TypeOK /\ FreshIDs /\ c \in Clients /\ live
  BY DEF RoomKnown, EditorInv, RoomInv, TypeOK, Occupied
<1>2. PICK op \in Op : op.seq = seqNum + 1 /\ Publish(op) /\ Fits(op) /\ Echoes(op, c, r)
  BY <1>1, ApplyOpShows
<1>3. \A t \in Clients : Adds(send[t], send'[t], op)
  BY <1>1, <1>2, PublishAdds
<1> QED
  BY <1>1, <1>2, <1>3 DEF Grows

\* Two connections of a room are two users.
LEMMA OthersID ==
    ASSUME RoomKnown, NEW c \in clients, NEW t \in Clients, t # c, t \in clients
    PROVE  user[c] # user[t]
BY DEF RoomKnown, UsersKnown

\* A room that is opened has the text and the number of the row.
LEMMA OpenSame ==
    ASSUME Working, RoomKnown, OpenRoom, UNCHANGED db
    PROVE  SameRoom
<1>1. CASE live
  BY <1>1 DEF OpenRoom, SameRoom, DocumentNumber, DocumentText
<1>2. CASE ~live
  <2>1. live' /\ LoadDocument /\ UNCHANGED opLog
    BY <1>2 DEF OpenRoom, Working
  <2>2. db.content \in Seq(Chars) /\ PersistSite \in Nat
    BY BoundAssumption DEF RoomKnown, EditorInv, RoomInv, TypeOK, PersistSite
  <2>3. DocString(doc') = db.content /\ seqNum' = db.seq
    BY <2>1, <2>2, ChainText DEF LoadDocument, hydrateRoomFromContent
  <2> QED
    BY <1>2, <2>1, <2>3 DEF SameRoom, DocumentNumber, DocumentText
<1> QED
  BY <1>1, <1>2

\* A room that goes leaves the row, which has its text unless tabs are told of
\* nothing that was restored.
LEMMA GoneSame ==
    ASSUME Working, RoomKnown, NEW t \in Clients, GoneCauses \subseteq strayed'[t],
           strayed'[t] \subseteq Excused, UNCHANGED db,
           NoRoom \/ UNCHANGED <<live, doc, seqNum, opLog>>
    PROVE  SameRoom
<1>1. CASE UNCHANGED <<live, doc, seqNum, opLog>>
  BY <1>1, RoomStays
<1>2. CASE NoRoom
  <2>1. ~live' /\ Range(opLog') = {}
    BY <1>2 DEF NoRoom, Range
  <2>2. CASE live
    <3>1. "untold" \notin GoneCauses
      BY DEF Excused
    <3>2. db.content = DocString(doc)
      BY <2>1, <2>2, <3>1 DEF GoneCauses
    <3>3. db.seq = seqNum
      BY <2>2 DEF Working, RoomKnown, SavedBeforeSent
    <3> QED
      BY <2>1, <2>2, <3>2, <3>3 DEF SameRoom, DocumentNumber, DocumentText
  <2>3. CASE ~live
    BY <2>1, <2>3 DEF SameRoom, DocumentNumber, DocumentText
  <2> QED
    BY <2>2, <2>3
<1> QED
  BY <1>1, <1>2

\* Who leaves takes the room along, or leaves it as it is.
LEMMA LeaveSame ==
    ASSUME NEW u, Leave(u)
    PROVE  /\ UNCHANGED <<db, task>> /\ task = NoTask /\ u \in clients
           /\ clients' = clients \ {u} /\ user' = [user EXCEPT ![u] = 0]
           /\ NoRoom \/ UNCHANGED <<live, doc, seqNum, opLog>>
BY DEF Leave, Free, Unlocked, roomVars

\* A step of tab u, or of the server for tab u, is elsewhere to all others.
LEMMA OthersElsewhere ==
    ASSUME Working, RoomKnown, EditorInv', NEW u \in Clients, NEW t \in Clients, t # u,
           \/ Open(u) \/ Type(u) \/ Show(u) \/ Disconnect(u)
           \/ ServeJoin(u) \/ ServeOp(u, "insert") \/ ServeOp(u, "delete")
           \/ ServeBatch(u) \/ ServeRestore(u)
    PROVE  Elsewhere(t)
<1>0. /\ RoomInv /\ RoomInv' /\ EditorTypeOK
      /\ tab \in [Clients -> Tab] /\ up \in [Clients -> Seq(Sent)]
      /\ strayed \in [Clients -> SUBSET Causes]
      /\ send \in [Clients -> Seq(Message)] /\ user \in [Clients -> Nat]
  BY DEF RoomKnown, EditorInv, EditorTypeOK, RoomInv, TypeOK
<1>1. CASE Open(u) \/ Type(u)
  <2>1. UNCHANGED vars /\ strayed'[t] = strayed[t] /\ tab'[t] = tab[t] /\ up'[t] = up[t]
    BY <1>0, <1>1 DEF Open, Type
  <2>2. SameRoom /\ Adds(send[t], send'[t], Signal)
    BY <1>0, <2>1, RoomStays, SameQueue DEF vars
  <2> QED
    BY <2>1, <2>2 DEF Elsewhere, vars, Todo
<1>2. CASE Show(u)
  <2>1. /\ UNCHANGED <<live, doc, seqNum, opLog, db, clients, user, task>> /\ send'[t] = send[t]
        /\ tab'[t] = tab[t] /\ up'[t] = up[t] /\ strayed'[t] = strayed[t]
    BY <1>0, <1>2 DEF Show, Pump, roomVars
  <2>2. SameRoom /\ Adds(send[t], send'[t], Signal)
    BY <1>0, <2>1, RoomStays, SameQueue
  <2> QED
    BY <2>1, <2>2 DEF Elsewhere, Todo
<1>3. CASE Disconnect(u)
  <2>1. /\ tab'[t] = tab[t] /\ up'[t] = up[t]
        /\ strayed[t] \subseteq strayed'[t] /\ GoneCauses \subseteq strayed'[t]
        /\ IF u \in clients THEN Leave(u) ELSE UNCHANGED vars
    BY <1>0, <1>3 DEF Disconnect
  <2>2. CASE Leave(u)
    <3>1. /\ UNCHANGED <<db, task>> /\ user'[t] = user[t] /\ (t \in clients' <=> t \in clients)
          /\ NoRoom \/ UNCHANGED <<live, doc, seqNum, opLog>>
      BY <1>0, <2>2, LeaveSame
    <3>2. strayed'[t] \subseteq Excused => SameRoom
      BY <2>1, <3>1, GoneSame
    <3>3. Adds(send[t], send'[t], Signal)
      BY <1>0, <2>2, LeaveAdds
    <3> QED
      BY <2>1, <3>1, <3>2, <3>3 DEF Elsewhere, Todo
  <2>3. CASE UNCHANGED vars
    <3>1. SameRoom /\ Adds(send[t], send'[t], Signal)
      BY <1>0, <2>3, RoomStays, SameQueue DEF vars
    <3> QED
      BY <2>1, <2>3, <3>1 DEF Elsewhere, vars, Todo
  <2> QED
    BY <2>1, <2>2, <2>3
<1>4. CASE ServeJoin(u)
  <2> DEFINE m == Head(up[u])
  <2>1. /\ Join(u, m.lastSeq, m.hasOfflineEdits) /\ m.lastSeq \in Nat /\ m.hasOfflineEdits \in BOOLEAN
        /\ tab'[t] = tab[t] /\ up'[t] = up[t] /\ strayed'[t] = strayed[t]
    <3>1. Takes(u, "join")
      BY <1>4 DEF ServeJoin
    <3>2. m \in Sent /\ m.type = "join"
      BY <1>0, <3>1, TakesTypes
    <3>3. m.lastSeq \in Nat /\ m.hasOfflineEdits \in BOOLEAN
      BY <3>2, SentTypes
    <3> QED
      BY <1>0, <1>4, <3>1, <3>3 DEF ServeJoin, Takes
  <2> HIDE DEF m
  <2>2. /\ OpenRoom /\ UNCHANGED <<db, task>> /\ user'[t] = user[t] /\ (t \in clients' <=> t \in clients)
    BY <1>0, <2>1 DEF Join
  <2>3. SameRoom
    BY <2>2, OpenSame
  <2>4. Adds(send[t], send'[t], Signal)
    BY <1>0, <2>1, JoinAdds
  <2> QED
    BY <2>1, <2>2, <2>3, <2>4 DEF Elsewhere, Todo
<1>5. ASSUME NEW type \in {"insert", "delete"}, ServeOp(u, type) PROVE Elsewhere(t)
  <2> DEFINE r == Head(up[u])
  <2>1. /\ r \in Request
        /\ HandleOp(u, r) \/ UNCHANGED vars
        /\ tab'[t] = tab[t] /\ up'[t] = up[t] /\ strayed'[t] = strayed[t]
    <3>1. Takes(u, type)
      BY <1>5 DEF ServeOp
    <3>2. r \in Request
      BY <1>0, <1>5, <3>1, TakesTypes, SentTypes
    <3> QED
      BY <1>0, <1>5, <3>1, <3>2 DEF ServeOp, Takes
  <2> HIDE DEF r
  <2>2. CASE HandleOp(u, r)
    <3>1. applyOp(u, r) /\ u \in clients /\ UNCHANGED <<live, clients, user, task>>
      BY <2>2 DEF HandleOp, Free
    <3>2. PICK op : /\ Grows(op) /\ Echoes(op, u, r) /\ Adds(send[t], send'[t], op)
      BY <2>1, <3>1, ServedGrows
    <3>3. t \in clients => op.userID # user[t]
      BY <3>1, <3>2, OthersID DEF Echoes
    <3> QED
      BY <2>1, <3>1, <3>2, <3>3 DEF Elsewhere, Todo
  <2>3. CASE UNCHANGED vars
    <3>1. SameRoom /\ Adds(send[t], send'[t], Signal)
      BY <1>0, <2>3, RoomStays, SameQueue DEF vars
    <3> QED
      BY <2>1, <2>3, <3>1 DEF Elsewhere, vars, Todo
  <2> QED
    BY <2>1, <2>2, <2>3
<1>6. CASE ServeBatch(u)
  <2>1. /\ UNCHANGED <<live, doc, seqNum, opLog, db, clients, user, send>>
        /\ task = NoTask /\ task'.who = u
        /\ tab'[t] = tab[t] /\ up'[t] = up[t] /\ strayed'[t] = strayed[t]
    BY <1>0, <1>6 DEF ServeBatch, StartBatch, Takes, roomVars, Free, Unlocked
  <2>2. SameRoom /\ Adds(send[t], send'[t], Signal)
    BY <1>0, <2>1, RoomStays, SameQueue
  <2> QED
    BY <2>1, <2>2 DEF Elsewhere, Todo
<1>7. CASE ServeRestore(u)
  <2>1. /\ UNCHANGED <<live, seqNum, opLog, db, clients, user, task>> /\ send'[t] = send[t]
        /\ tab'[t] = tab[t] /\ up'[t] = up[t]
        /\ strayed'[t] = strayed[t] \cup {x \in {"untold"} : doc' # doc}
    BY <1>0, <1>7 DEF ServeRestore, HandleRestore, Takes
  <2>2. strayed'[t] \subseteq Excused => doc' = doc
    BY <2>1 DEF Excused
  <2>3. strayed'[t] \subseteq Excused => SameRoom
    BY <2>1, <2>2, RoomStays
  <2>4. Adds(send[t], send'[t], Signal)
    BY <1>0, <2>1, SameQueue
  <2> QED
    BY <2>1, <2>3, <2>4 DEF Elsewhere, Todo
<1> QED
  BY <1>1, <1>2, <1>3, <1>4, <1>5, <1>6, <1>7

\* So is an operation of the batch of another tab, and a step of nobody.
LEMMA BatchElsewhere ==
    ASSUME RoomKnown, NEW t \in Clients, ServeBatchOp, task.who # t
    PROVE  Elsewhere(t)
<1>1. /\ RoomInv /\ strayed \in [Clients -> SUBSET Causes]
  BY DEF RoomKnown, EditorInv, EditorTypeOK
<1>2. /\ BatchStep /\ task # NoTask /\ UNCHANGED <<tab, up>>
      /\ UNCHANGED <<live, clients, user>>
      /\ task' = IF Len(task.todo) = 1 THEN NoTask ELSE [task EXCEPT !.todo = Tail(@)]
      /\ strayed' = [strayed EXCEPT ![task.who] = @ \cup ServeCauses(task.who, Head(task.todo))]
  BY DEF ServeBatchOp, BatchStep, Unlocked
<1>3. /\ task.who \in clients /\ Head(task.todo) \in Request
      /\ task \in [who : Clients, todo : Seq(Request)]
  BY <1>1, <1>2, TaskTypes DEF RoomKnown, UsersKnown, RoomInv
<1>4. strayed'[t] = strayed[t] /\ Todo(t)' = Todo(t)
  <2>1. task' # NoTask => task'.who = task.who
    BY <1>2, <1>3
  <2> QED
    BY <1>1, <1>2, <2>1 DEF Todo
<1>5. CASE applyOp(task.who, Head(task.todo))
  <2>1. PICK op : /\ Grows(op) /\ Echoes(op, task.who, Head(task.todo))
                  /\ Adds(send[t], send'[t], op)
    BY <1>2, <1>3, <1>5, ServedGrows
  <2>2. t \in clients => op.userID # user[t]
    BY <1>3, <2>1, OthersID DEF Echoes
  <2> QED
    BY <1>2, <1>4, <2>1, <2>2 DEF Elsewhere
<1>6. CASE UNCHANGED <<doc, clock, seqNum, opLog, send, db>>
  <2>1. SameRoom /\ Adds(send[t], send'[t], Signal)
    BY <1>1, <1>2, <1>6, RoomStays, SameQueue
  <2> QED
    BY <1>2, <1>4, <2>1 DEF Elsewhere
<1> QED
  BY <1>2, <1>5, <1>6 DEF BatchStep

\* When nothing happens, nothing happens to a tab.
LEMMA NobodyElsewhere ==
    ASSUME RoomKnown, NEW t \in Clients, UNCHANGED allVars
    PROVE  Elsewhere(t)
<1>1. SameRoom /\ Adds(send[t], send'[t], Signal)
  BY RoomStays, SameQueue DEF allVars, vars, RoomKnown, EditorInv
<1> QED
  BY <1>1 DEF Elsewhere, allVars, vars, editorVars, Todo

-----------------------------------------------------------------------------
(***************************************************************************)
(* What waits for a tab, and what waits for the server, is in order.       *)
(***************************************************************************)

\* At most one element of q is of that type.
Only(q, type) == \A i, j \in DOMAIN q : q[i].type = type /\ q[j].type = type => i = j

\* Of a tab b to which s happened, that has q in its channel and out on its way,
\* and that is in the room or not: it asks for one restore at a time, and has no
\* full_sync to wait for when it does; a full_sync is alone, a replay comes first,
\* and a join comes before everything else, with the number of the tab.
InOrder(b, s, q, out, in) ==
    /\ Has(out, "restore") => "torn" \in s /\ in /\ ~Has(q, "full_sync")
    /\ Only(out, "restore") /\ Only(q, "full_sync")
    /\ \A j \in DOMAIN q : q[j].type = "replay_sync" => j = 1
    /\ \A i \in DOMAIN out : out[i].type = "join" => i = 1 /\ ~in /\ out[i].lastSeq = b.lastSeq

\* Every tab and its connection are in order.
Orderly == \A t \in Clients : InOrder(tab[t], strayed[t], send[t], up[t], t \in clients)

\* The synchronizing messages of channel r are those of q, where they were.
SameSyncs(q, r) ==
    \A j \in DOMAIN r : r[j].type \in {"full_sync", "replay_sync"} => j \in DOMAIN q /\ r[j] = q[j]

\* The joins and restores of r are those of out, d places further on.
SameCalls(out, r, d) ==
    \A i \in DOMAIN r : r[i].type \in {"join", "restore"} =>
        i > 0 /\ i + d \in DOMAIN out /\ r[i] = out[i + d]

\* A channel that gets no synchronizing message, and a connection that sends no join
\* or restore, stay in order.
LEMMA OrderKept ==
    ASSUME NEW b, NEW s, NEW q, NEW out, NEW in, InOrder(b, s, q, out, in),
           NEW b2, NEW s2, NEW q2, NEW out2, NEW in2, NEW d \in {0, 1},
           b2.lastSeq = b.lastSeq, s \subseteq s2, in2 <=> in,
           SameSyncs(q, q2), SameCalls(out, out2, d),
           DOMAIN out2 \subseteq Nat
    PROVE  InOrder(b2, s2, q2, out2, in2)
<1>1. Has(out2, "restore") => Has(out, "restore")
  BY DEF Has, SameCalls
<1>2. Has(q2, "full_sync") => Has(q, "full_sync")
  BY DEF Has, SameSyncs
<1>3. Only(out2, "restore")
  <2> SUFFICES ASSUME NEW i \in DOMAIN out2, NEW j \in DOMAIN out2,
                      out2[i].type = "restore", out2[j].type = "restore"
               PROVE  i = j
    BY DEF Only
  <2>1. i + d = j + d
    BY DEF InOrder, Only, SameCalls
  <2> QED
    BY <2>1
<1>4. Only(q2, "full_sync")
  BY DEF InOrder, Only, SameSyncs
<1>5. \A j \in DOMAIN q2 : q2[j].type = "replay_sync" => j = 1
  BY DEF InOrder, SameSyncs
<1>6. ASSUME NEW i \in DOMAIN out2, out2[i].type = "join"
      PROVE  i = 1 /\ ~in2 /\ out2[i].lastSeq = b2.lastSeq
  <2>1. i > 0 /\ i + d \in DOMAIN out /\ out2[i] = out[i + d]
    BY <1>6 DEF SameCalls
  <2>2. i + d = 1 /\ ~in /\ out[i + d].lastSeq = b.lastSeq
    BY <1>6, <2>1 DEF InOrder
  <2> QED
    BY <2>1, <2>2
<1> QED
  BY <1>1, <1>2, <1>3, <1>4, <1>5, <1>6 DEF InOrder

\* Another message is no synchronizing one.
LEMMA AddedSyncs ==
    ASSUME NEW q, NEW r, NEW m, Adds(q, r, m), m.type \notin {"full_sync", "replay_sync"}
    PROVE  SameSyncs(q, r)
BY DEF Adds, SameSyncs

\* What the tab sent is what it sent.
LEMMA SameQueueCalls ==
    ASSUME NEW out \in Seq(Sent)
    PROVE  SameCalls(out, out, 0) /\ DOMAIN out \subseteq Nat
<1>1. DOMAIN out = 1 .. Len(out)
  OBVIOUS
<1> QED
  BY <1>1 DEF SameCalls

\* Operations that are sent, or a batch.
LEMMA AppendedCalls ==
    ASSUME NEW out \in Seq(Sent), NEW more \in Seq(Sent),
           \A i \in DOMAIN more : more[i].type \notin {"join", "restore"}
    PROVE  SameCalls(out, out \o more, 0) /\ DOMAIN (out \o more) \subseteq Nat
<1> DEFINE r == out \o more
<1>1. /\ r \in Seq(Sent) /\ Len(r) = Len(out) + Len(more)
      /\ \A i \in 1 .. Len(r) : r[i] = IF i <= Len(out) THEN out[i] ELSE more[i - Len(out)]
  BY ConcatProperties
<1> HIDE DEF r
<1>2. DOMAIN r = 1 .. Len(r) /\ DOMAIN out = 1 .. Len(out) /\ DOMAIN more = 1 .. Len(more)
      /\ Len(out) \in Nat /\ Len(more) \in Nat
  BY <1>1
<1>3. ASSUME NEW i \in DOMAIN r, r[i].type \in {"join", "restore"}
      PROVE  i > 0 /\ i + 0 \in DOMAIN out /\ r[i] = out[i + 0]
  <2>1. i <= Len(out)
    <3> SUFFICES ASSUME ~(i <= Len(out)) PROVE FALSE
      OBVIOUS
    <3>1. i - Len(out) \in DOMAIN more /\ r[i] = more[i - Len(out)]
      BY <1>1, <1>2
    <3> QED
      BY <1>3, <3>1
  <2>2. i \in 1 .. Len(out) /\ i + 0 = i
    BY <1>1, <1>2, <2>1
  <2>3. r[i] = out[i]
    BY <1>1, <1>2, <2>1
  <2> QED
    BY <1>2, <2>2, <2>3
<1>4. SameCalls(out, r, 0) /\ DOMAIN r \subseteq Nat
  BY <1>2, <1>3 DEF SameCalls
<1> QED
  BY <1>4 DEF r

\* When the room takes what the tab sent first, the rest moves up by one.
LEMMA TailCalls ==
    ASSUME NEW out \in Seq(Sent), out # << >>
    PROVE  SameCalls(out, Tail(out), 1) /\ DOMAIN Tail(out) \subseteq Nat
<1>1. /\ Tail(out) \in Seq(Sent) /\ Len(Tail(out)) = Len(out) - 1
      /\ \A i \in 1 .. Len(Tail(out)) : Tail(out)[i] = out[i + 1]
  BY HeadTailProperties
<1> DEFINE r == Tail(out)
<1> HIDE DEF r
<1>2. DOMAIN r = 1 .. Len(out) - 1 /\ DOMAIN out = 1 .. Len(out) /\ Len(out) \in Nat
      /\ \A i \in 1 .. Len(out) - 1 : r[i] = out[i + 1]
  BY <1>1 DEF r
<1>3. SameCalls(out, r, 1) /\ DOMAIN r \subseteq Nat
  BY <1>2 DEF SameCalls
<1> QED
  BY <1>3 DEF r

\* A tab with nothing on its way is in order.
LEMMA NoneOrdered ==
    ASSUME NEW b, NEW s, NEW in
    PROVE  InOrder(b, s, << >>, << >>, in)
BY DEF InOrder, Has, Only

-----------------------------------------------------------------------------
(***************************************************************************)
(* What a step is to the tab that makes it, or for which it is made.       *)
(***************************************************************************)

\* What has types.
LEMMA Typed ==
    ASSUME RoomKnown
    PROVE  /\ RoomInv /\ EditorTypeOK /\ StrayedOK /\ UpOK /\ TabsOK
           /\ send \in [Clients -> Seq(Message)] /\ user \in [Clients -> Nat]
           /\ \A t \in Clients : /\ Aligned(tab[t]) /\ tab[t] \in Tab /\ up[t] \in Seq(Sent)
                                 /\ send[t] \in Seq(Message)
           /\ clients \subseteq Clients
BY TabAligned, EditorTypeParts DEF RoomKnown, EditorInv, RoomInv, TypeOK, UpOK

\* Who is not in the room has nothing in the channel, and no batch.
LEMMA OutsideRoom ==
    ASSUME RoomKnown, NEW t \in Clients, t \notin clients
    PROVE  send[t] = << >> /\ Todo(t) = << >>
BY DEF RoomKnown, EditorInv, RoomInv, Occupied, UsersKnown, Todo

\* A tab that opens its connection sends a join with the number that it has.
LEMMA OpenSelf ==
    ASSUME RoomKnown, NEW t \in Clients, Open(t)
    PROVE  /\ t \notin clients /\ up[t] = << >>
           /\ \E r \in Sent : r.type = "join" /\ r.lastSeq = tab[t].lastSeq /\ up'[t] = <<r>>
           /\ UNCHANGED <<vars, tab, strayed>>
<1> DEFINE r == [type |-> "join", lastSeq |-> tab[t].lastSeq,
                 hasOfflineEdits |-> hasOfflineEdits(tab[t])]
<1>1. up' = [up EXCEPT ![t] = <<r>>] /\ ~Connected(t) /\ UNCHANGED <<vars, tab, strayed>>
  BY DEF Open
<1>2. UpOK /\ tab[t] \in Tab
  BY Typed
<1>3. r \in Sent
  <2>1. tab[t].lastSeq \in Nat
    BY <1>2 DEF Tab
  <2>2. hasOfflineEdits(tab[t]) \in BOOLEAN
    BY <1>2 DEF hasOfflineEdits, Tab
  <2> QED
    BY <2>1, <2>2 DEF Sent
<1>4. r.type = "join" /\ r.lastSeq = tab[t].lastSeq
  OBVIOUS
<1> HIDE DEF r
<1>5. up'[t] = <<r>>
  BY <1>1, <1>2 DEF UpOK
<1> QED
  BY <1>1, <1>3, <1>4, <1>5 DEF Connected

\* A tab in which somebody types shows the new text, and sends the operations that make
\* it when it is connected.
LEMMA TypeSelf ==
    ASSUME RoomKnown, NEW t \in Clients, Type(t)
    PROVE  /\ UNCHANGED vars /\ strayed[t] \subseteq strayed'[t]
           /\ ~Connected(t) => "retyped" \in strayed'[t]
           /\ \E new \in Seq(Chars) :
                /\ tab'[t] = Edited(tab[t], new)
                /\ diffToOps(tab[t], new) \in Seq(Request) /\ diffToOps(tab[t], new) \in Seq(Sent)
                /\ up'[t] = IF Connected(t) THEN up[t] \o diffToOps(tab[t], new) ELSE up[t]
                /\ SameSession(tab[t], tab'[t]) /\ tab'[t].value = new
<1>1. UpOK /\ TabsOK /\ StrayedOK /\ Aligned(tab[t]) /\ tab[t] \in Tab
  BY Typed, EditorTypeParts DEF RoomKnown, EditorInv
<1>2. UNCHANGED vars /\ strayed[t] \subseteq strayed'[t]
      /\ (~Connected(t) => "retyped" \in strayed'[t])
  BY <1>1 DEF Type, StrayedOK
<1>3. PICK new \in Edits(tab[t].value) :
        /\ tab' = [tab EXCEPT ![t] = Edited(@, new)]
        /\ up' = IF Connected(t) THEN [up EXCEPT ![t] = @ \o diffToOps(tab[t], new)] ELSE up
  BY DEF Type
<1>4. new \in Seq(Chars)
  BY <1>1, EditsType DEF Tab
<1>5. diffToOps(tab[t], new) \in Seq(Request)
  BY <1>1, <1>4, DiffIsRequests
<1>6. diffToOps(tab[t], new) \in Seq(Sent)
  BY <1>5 DEF Sent
<1>7. tab'[t] = Edited(tab[t], new)
  BY <1>1, <1>3 DEF TabsOK
<1>8. SameSession(tab[t], tab'[t]) /\ tab'[t].value = new
  BY <1>1, <1>4, <1>7, EditedAligned
<1>9. up'[t] = IF Connected(t) THEN up[t] \o diffToOps(tab[t], new) ELSE up[t]
  BY <1>1, <1>3 DEF UpOK
<1> QED
  BY <1>2, <1>4, <1>5, <1>6, <1>7, <1>8, <1>9

\* A tab is shown the first message of its channel.
LEMMA ShowSelf ==
    ASSUME RoomKnown, NEW t \in Clients, Show(t)
    PROVE  /\ send[t] # << >> /\ Matched(Head(send[t])) /\ t \in clients /\ live
           /\ Head(send[t]) = send[t][1] /\ 1 \in DOMAIN send[t]
           /\ tab'[t] = Received(tab[t], Head(send[t]), user[t])
           /\ send'[t] = Tail(send[t])
           /\ up'[t] = IF Head(send[t]).type = "full_sync"
                       THEN up[t] \o FullSyncReply(tab[t], Head(send[t])) ELSE up[t]
           /\ strayed'[t] = strayed[t] \cup ShowCauses(t, Head(send[t]))
           /\ UNCHANGED <<live, doc, seqNum, opLog, clients, user, userSeq, task, db>>
<1>1. /\ StrayedOK /\ UpOK /\ TabsOK /\ send \in [Clients -> Seq(Message)] /\ EditorInv
      /\ RoomInv
  BY Typed DEF RoomKnown
<1>2. /\ send[t] # << >> /\ Matched(Head(send[t]))
      /\ Head(send[t]) = send[t][1] /\ 1 \in DOMAIN send[t]
      /\ tab' = [tab EXCEPT ![t] = Received(tab[t], Head(send[t]), user[t])]
      /\ send' = [send EXCEPT ![t] = Tail(send[t])]
  BY <1>1, ShownMatched
<1> DEFINE m == Head(send[t])
<1>3. /\ up' = IF m.type = "full_sync" THEN [up EXCEPT ![t] = @ \o FullSyncReply(tab[t], m)]
               ELSE up
      /\ strayed' = [strayed EXCEPT ![t] = @ \cup ShowCauses(t, m)]
      /\ UNCHANGED <<live, doc, seqNum, opLog, clients, user, userSeq, task, db>>
  BY DEF Show, Pump, roomVars
<1>4. t \in clients /\ live
  BY <1>1, <1>2 DEF RoomInv, Occupied
<1> HIDE DEF m
<1>5. tab'[t] = Received(tab[t], m, user[t]) /\ send'[t] = Tail(send[t])
  BY <1>1, <1>2 DEF TabsOK, m
<1>6. up'[t] = IF m.type = "full_sync" THEN up[t] \o FullSyncReply(tab[t], m) ELSE up[t]
  BY <1>1, <1>3 DEF UpOK
<1>7. strayed'[t] = strayed[t] \cup ShowCauses(t, m)
  BY <1>1, <1>3 DEF StrayedOK
<1> QED
  BY <1>2, <1>3, <1>4, <1>5, <1>6, <1>7 DEF m

\* Both ways for a connection to end.
EndSelf(t) ==
    /\ tab'[t] \in {tab[t], Closed(tab[t])} /\ up'[t] = << >> /\ send'[t] = << >>
    /\ t \notin clients'
    /\ GoneCauses \subseteq strayed'[t]
    /\ strayed[t] \subseteq strayed'[t]
    /\ UNCHANGED db
    /\ NoRoom \/ UNCHANGED <<live, doc, seqNum, opLog>>
    /\ LostCauses(t) \subseteq strayed'[t] /\ (t \in clients => tab'[t] = Closed(tab[t]))

\* A connection ends with what was on its way in both directions.
LEMMA DisconnectSelf ==
    ASSUME RoomKnown, NEW t \in Clients, Disconnect(t)
    PROVE  EndSelf(t)
<1>1. /\ StrayedOK /\ UpOK /\ TabsOK /\ RoomInv
  BY Typed
<1>2. /\ IF t \in clients THEN Leave(t) ELSE UNCHANGED vars
      /\ tab' = [tab EXCEPT ![t] = Closed(@)]
      /\ up' = [up EXCEPT ![t] = << >>]
      /\ strayed' = [u \in Clients |-> strayed[u] \cup IF u = t THEN LostCauses(t) ELSE GoneCauses]
  BY DEF Disconnect
<1>3. /\ tab'[t] = Closed(tab[t]) /\ up'[t] = << >>
      /\ strayed'[t] = strayed[t] \cup LostCauses(t)
  BY <1>1, <1>2 DEF TabsOK, UpOK
<1>4. GoneCauses \subseteq LostCauses(t)
  BY DEF LostCauses
<1>5. CASE t \in clients
  <2>1. Leave(t)
    BY <1>2, <1>5
  <2>2. /\ send'[t] = << >> /\ t \notin clients' /\ UNCHANGED db
        /\ NoRoom \/ UNCHANGED <<live, doc, seqNum, opLog>>
    BY <1>1, <2>1, LeaveAdds, LeaveSame
  <2> QED
    BY <1>3, <1>4, <2>2 DEF EndSelf
<1>6. CASE t \notin clients
  <2>1. send[t] = << >>
    BY <1>6, OutsideRoom
  <2>2. UNCHANGED vars
    BY <1>2, <1>6
  <2> QED
    BY <1>3, <1>4, <1>6, <2>1, <2>2 DEF EndSelf, vars
<1> QED
  BY <1>5, <1>6

\* So do all connections of a server that is killed.
LEMMA CrashSelf ==
    ASSUME RoomKnown, NEW t \in Clients, ServerCrash
    PROVE  EndSelf(t)
<1>1. /\ tab' = [u \in Clients |-> IF Connected(u) THEN Closed(tab[u]) ELSE tab[u]]
      /\ up' = [u \in Clients |-> << >>]
      /\ strayed' = [u \in Clients |-> strayed[u] \cup LostCauses(u)]
      /\ Crash
  BY DEF ServerCrash
<1>2. /\ tab'[t] = IF Connected(t) THEN Closed(tab[t]) ELSE tab[t]
      /\ up'[t] = << >> /\ strayed'[t] = strayed[t] \cup LostCauses(t)
  BY <1>1
<1>3. GoneCauses \subseteq LostCauses(t)
  BY DEF LostCauses
<1>4. NoRoom /\ UNCHANGED db /\ send'[t] = << >> /\ t \notin clients'
  BY <1>1 DEF Crash
<1>5. t \in clients => Connected(t)
  BY DEF Connected
<1> QED
  BY <1>2, <1>3, <1>4, <1>5 DEF EndSelf

\* A connection whose join is served is greeted, at once with a full text or the
\* operations that its tab lacks.
LEMMA JoinSelf ==
    ASSUME RoomKnown, RoomInv', NEW t \in Clients, ServeJoin(t)
    PROVE  LET r == Head(up[t])
               g == Greeting(r.lastSeq, r.hasOfflineEdits)
           IN  /\ r \in Sent /\ r.type = "join" /\ up[t] # << >> /\ up'[t] = Tail(up[t])
               /\ r.lastSeq \in Nat /\ r.hasOfflineEdits \in BOOLEAN
               /\ t \notin clients /\ t \in clients' /\ tab'[t] = tab[t]
               /\ OpenRoom /\ UNCHANGED <<task, db>> /\ live'
               /\ user'[t] = userSeq + 1
               /\ Adds(<<g>>, send'[t], Signal) /\ Sendable(g)
               /\ g.type \in {"full_sync", "replay_sync"}
               /\ strayed'[t] = IF g.type = "full_sync" THEN {} ELSE strayed[t]
<1> DEFINE r == Head(up[t])
           g == Greeting(r.lastSeq, r.hasOfflineEdits)
<1>1. /\ StrayedOK /\ UpOK /\ TabsOK /\ RoomInv /\ EditorTypeOK /\ user \in [Clients -> Nat]
  BY Typed
<1>2. /\ Takes(t, "join") /\ Join(t, r.lastSeq, r.hasOfflineEdits)
      /\ strayed' = IF Head(send'[t]).type = "full_sync" THEN [strayed EXCEPT ![t] = {}] ELSE strayed
  BY DEF ServeJoin
<1>3. r \in Sent /\ r.type = "join" /\ up'[t] = Tail(up[t]) /\ up[t] # << >> /\ tab' = tab
  BY <1>1, <1>2, TakesTypes DEF Takes
<1>4. r.lastSeq \in Nat /\ r.hasOfflineEdits \in BOOLEAN
  BY <1>3, SentTypes
<1>5. Sendable(g) /\ g.type \in {"full_sync", "replay_sync"}
  <2>1. seqNum' \in Nat /\ opLog' \in Seq(Op) /\ doc' \in Seq(Node(Chars))
    BY DEF RoomInv, TypeOK
  <2> HIDE DEF r
  <2> QED
    BY <1>4, <2>1, GreetingMatched
<1>6. g \in Message
  BY <1>5 DEF Sendable, Matched
<1>7. /\ t \notin clients /\ OpenRoom /\ clients' = clients \cup {t} /\ UNCHANGED <<task, db>>
      /\ user' = [user EXCEPT ![t] = userSeq + 1]
      /\ send' = [Broadcast(clients, Signal) EXCEPT ![t] = safeSend(<<g>>, Signal)]
  BY <1>2 DEF Join
<1> HIDE DEF r, g
<1>8. send'[t] = safeSend(<<g>>, Signal)
  BY <1>7 DEF Broadcast
<1>9. Adds(<<g>>, send'[t], Signal)
  <2>1. <<g>> \in Seq(Message)
    BY <1>6
  <2> QED
    BY <1>8, <2>1, SafeSendAdds, SignalProperties
<1>10. Head(send'[t]) = g
  <2>1. 1 \in DOMAIN send'[t] /\ send'[t][1] = g
    BY <1>9 DEF Adds
  <2>2. send'[t] \in Seq(Message)
    BY DEF RoomInv, TypeOK
  <2> QED
    BY <2>1, <2>2
<1>11. strayed'[t] = IF g.type = "full_sync" THEN {} ELSE strayed[t]
  BY <1>1, <1>2, <1>10 DEF StrayedOK
<1>12. user'[t] = userSeq + 1 /\ tab'[t] = tab[t] /\ t \in clients' /\ live'
  BY <1>1, <1>3, <1>7 DEF OpenRoom
<1> QED
  BY <1>3, <1>4, <1>5, <1>7, <1>9, <1>11, <1>12 DEF r, g

\* The server takes something else than a join.
LEMMA TakesSelf ==
    ASSUME RoomKnown, NEW t \in Clients, NEW type, Takes(t, type), Free(t)
    PROVE  /\ Head(up[t]) \in Sent /\ Head(up[t]).type = type /\ up[t] # << >>
           /\ up'[t] = Tail(up[t]) /\ tab'[t] = tab[t]
           /\ t \in clients /\ task = NoTask /\ Todo(t) = << >>
<1>1. EditorTypeOK
  BY Typed
<1> QED
  BY <1>1, TakesTypes DEF Takes, Free, Unlocked, Todo

\* An operation of the tab is taken and applied, or changes nothing.
LEMMA OpSelf ==
    ASSUME RoomKnown, NEW t \in Clients, NEW type \in {"insert", "delete"}, ServeOp(t, type)
    PROVE  LET r == Head(up[t])
           IN  /\ Takes(t, type) /\ Free(t)
               /\ r \in Request
               /\ strayed'[t] = strayed[t] \cup ServeCauses(t, r)
               /\ HandleOp(t, r) \/ UNCHANGED vars
<1>1. StrayedOK /\ EditorTypeOK
  BY Typed
<1>2. Takes(t, type) /\ Free(t)
  BY DEF ServeOp, HandleOp
<1>3. Head(up[t]) \in Request
  BY <1>1, <1>2, TakesTypes, SentTypes
<1> QED
  BY <1>1, <1>2, <1>3 DEF ServeOp, StrayedOK

\* A batch of the tab is taken, and waits to be applied one operation at a time.
LEMMA BatchSelf ==
    ASSUME RoomKnown, NEW t \in Clients, ServeBatch(t)
    PROVE  LET m == Head(up[t])
           IN  /\ Takes(t, "batch_sync") /\ Free(t)
               /\ m.ops \in Seq(Request) /\ m.ops # << >>
               /\ Todo(t)' = m.ops /\ task' # NoTask /\ task'.who = t
               /\ UNCHANGED <<live, doc, seqNum, opLog, db, clients, user, send, strayed>>
<1>1. EditorTypeOK
  BY Typed
<1> DEFINE m == Head(up[t])
<1>2. /\ Takes(t, "batch_sync") /\ StartBatch(t, m.ops) /\ UNCHANGED strayed
  BY DEF ServeBatch
<1>3. m.ops \in Seq(Request)
  BY <1>1, <1>2, TakesTypes, SentTypes
<1>4. /\ Free(t) /\ m.ops # << >> /\ task' = [who |-> t, todo |-> m.ops]
      /\ UNCHANGED <<live, doc, seqNum, opLog, db, clients, user, send>>
  BY <1>2 DEF StartBatch, roomVars
<1> HIDE DEF m
<1>5. task' # NoTask /\ task'.who = t /\ task'.todo = m.ops
  BY <1>4 DEF NoTask
<1>6. Todo(t)' = m.ops
  BY <1>5 DEF Todo
<1> QED
  BY <1>2, <1>3, <1>4, <1>5, <1>6 DEF m

\* The next operation of the batch of the tab is applied, or changes nothing.
LEMMA BatchOpSelf ==
    ASSUME RoomKnown, NEW t \in Clients, ServeBatchOp, task.who = t
    PROVE  LET r == Head(task.todo)
           IN  /\ task # NoTask /\ t \in clients /\ r \in Request
               /\ Todo(t) = task.todo /\ task.todo \in Seq(Request) /\ task.todo # << >>
               /\ Todo(t)' = Tail(task.todo)
               /\ strayed'[t] = strayed[t] \cup ServeCauses(t, r)
               /\ UNCHANGED <<tab, up, live, clients, user>>
               /\ applyOp(t, r) \/ UNCHANGED <<doc, clock, seqNum, opLog, send, db>>
<1>1. RoomInv /\ StrayedOK
  BY Typed
<1> DEFINE r == Head(task.todo)
<1>2. /\ BatchStep /\ task # NoTask /\ UNCHANGED <<tab, up, live, clients, user>>
      /\ task' = IF Len(task.todo) = 1 THEN NoTask ELSE [task EXCEPT !.todo = Tail(@)]
      /\ strayed' = [strayed EXCEPT ![task.who] = @ \cup ServeCauses(task.who, Head(task.todo))]
  BY DEF ServeBatchOp, BatchStep, Unlocked
<1>3. /\ task \in [who : Clients, todo : Seq(Request)] /\ task.todo \in Seq(Request)
      /\ task.todo # << >> /\ r \in Request /\ t \in clients
  BY <1>1, <1>2, TaskTypes DEF RoomInv, RoomKnown, UsersKnown
<1>4. Todo(t)' = Tail(task.todo)
  <2>1. CASE Len(task.todo) = 1
    <3>1. task' = NoTask /\ Todo(t)' = << >>
      BY <1>2, <2>1 DEF Todo
    <3> DEFINE q == Tail(task.todo)
    <3>2. q \in Seq(Request) /\ Len(q) = 0
      BY <1>3, <2>1, HeadTailProperties
    <3> HIDE DEF q
    <3>3. q = << >>
      BY <3>2
    <3> QED
      BY <3>1, <3>3 DEF q
  <2>2. CASE Len(task.todo) # 1
    <3>1. Tail(task.todo) # << >>
      BY <1>1, <1>2, <2>2, TaskTypes DEF RoomInv
    <3> DEFINE q == Tail(task.todo)
    <3> HIDE DEF q
    <3>2. task'.who = t /\ task'.todo = Tail(task.todo)
      <4>1. task' = [task EXCEPT !.todo = q]
        BY <1>2, <2>2 DEF q
      <4>2. task'.who = t /\ task'.todo = q
        BY <1>3, <4>1
      <4> QED
        BY <4>2 DEF q
    <3>3. task' # NoTask
      <4>1. q # << >> /\ task'.todo = q
        BY <3>1, <3>2 DEF q
      <4>2. NoTask.todo = << >>
        BY DEF NoTask
      <4> QED
        BY <4>1, <4>2
    <3> QED
      BY <3>2, <3>3 DEF Todo
  <2> QED
    BY <2>1, <2>2
<1>5. strayed'[t] = strayed[t] \cup ServeCauses(t, r)
  BY <1>1, <1>2 DEF StrayedOK
<1>6. Todo(t) = task.todo
  BY <1>2 DEF Todo
<1>7. applyOp(t, r) \/ UNCHANGED <<doc, clock, seqNum, opLog, send, db>>
  BY <1>2 DEF BatchStep
<1> QED
  BY <1>2, <1>3, <1>4, <1>5, <1>6, <1>7

\* A restore is answered with the full text, unless the channel is full.
LEMMA RestoreSelf ==
    ASSUME RoomKnown, RoomInv', NEW t \in Clients, ServeRestore(t)
    PROVE  /\ Takes(t, "restore") /\ Free(t)
           /\ UNCHANGED <<live, seqNum, opLog, db, clients, user, userSeq, task>> /\ live
           /\ \/ send'[t] = send[t] /\ strayed'[t] = strayed[t] \cup {"unanswered"}
              \/ /\ Len(send[t]) < SendBuf
                 /\ send'[t] = Append(send[t], buildFullSync) /\ strayed'[t] = {}
           /\ Sendable(buildFullSync) /\ buildFullSync.type = "full_sync"
<1>1. RoomInv /\ StrayedOK /\ send \in [Clients -> Seq(Message)]
  BY Typed
<1>2. /\ Takes(t, "restore") /\ HandleRestore(t, Head(up[t]).content)
      /\ strayed'[t] = IF Len(send[t]) = SendBuf THEN strayed[t] \cup {"unanswered"} ELSE {}
  BY <1>1 DEF ServeRestore
<1>3. /\ Free(t) /\ send' = [send EXCEPT ![t] = safeSend(@, buildFullSync)]
      /\ UNCHANGED <<live, seqNum, opLog, db, clients, user, userSeq, task>>
  BY <1>2 DEF HandleRestore
<1>4. live
  BY <1>1, <1>3 DEF Free, RoomInv, Occupied
<1>5. send'[t] = safeSend(send[t], buildFullSync)
  BY <1>1, <1>3
<1>6. Len(send[t]) <= SendBuf /\ Len(send[t]) \in Nat /\ SendBuf \in Nat
  BY <1>1, BufferAssumption DEF RoomKnown, EditorInv, ChannelsOK
<1>7. Len(send[t]) = SendBuf \/ Len(send[t]) < SendBuf
  BY <1>6
<1>8. /\ Len(send[t]) = SendBuf => send'[t] = send[t]
      /\ Len(send[t]) < SendBuf => send'[t] = Append(send[t], buildFullSync) /\ Len(send[t]) # SendBuf
  BY <1>5, <1>6 DEF safeSend
<1>9. Sendable(buildFullSync) /\ buildFullSync.type = "full_sync"
  <2>1. seqNum' \in Nat /\ doc' \in Seq(Node(Chars))
    BY DEF RoomInv, TypeOK
  <2> QED
    BY <2>1, FullSyncMatched
<1> QED
  BY <1>2, <1>3, <1>4, <1>7, <1>8, <1>9

\* Every step, as it is to one tab.
LEMMA StepOf ==
    ASSUME Working, RoomKnown, EditorInv', [EditorNext]_allVars, NEW t \in Clients
    PROVE  \/ Elsewhere(t) \/ EndSelf(t)
           \/ Open(t) \/ Type(t) \/ Show(t) \/ ServeJoin(t)
           \/ \E type \in {"insert", "delete"} : ServeOp(t, type)
           \/ ServeBatch(t) \/ ServeRestore(t)
           \/ ServeBatchOp /\ task.who = t
<1>1. CASE \E u \in Clients :
              \/ Open(u) \/ Type(u) \/ Show(u) \/ Disconnect(u)
              \/ ServeJoin(u) \/ ServeOp(u, "insert") \/ ServeOp(u, "delete")
              \/ ServeBatch(u) \/ ServeRestore(u)
  <2>1. PICK u \in Clients :
              \/ Open(u) \/ Type(u) \/ Show(u) \/ Disconnect(u)
              \/ ServeJoin(u) \/ ServeOp(u, "insert") \/ ServeOp(u, "delete")
              \/ ServeBatch(u) \/ ServeRestore(u)
    BY <1>1
  <2>2. CASE u = t
    BY <2>1, <2>2, DisconnectSelf
  <2>3. CASE u # t
    BY <2>1, <2>3, OthersElsewhere
  <2> QED
    BY <2>2, <2>3
<1>2. CASE ServeBatchOp
  BY <1>2, BatchElsewhere
<1>3. CASE ServerCrash
  BY <1>3, CrashSelf
<1>4. CASE UNCHANGED allVars
  BY <1>4, NobodyElsewhere
<1> QED
  BY <1>1, <1>2, <1>3, <1>4 DEF EditorNext

\* The steps that are not about a tab leave what is on its way in order.
LEMMA ElsewhereOrderly ==
    ASSUME RoomKnown, Orderly, NEW t \in Clients, Elsewhere(t)
    PROVE  InOrder(tab'[t], strayed'[t], send'[t], up'[t], t \in clients')
<1>1. InOrder(tab[t], strayed[t], send[t], up[t], t \in clients)
  BY DEF Orderly
<1>2. up[t] \in Seq(Sent)
  BY Typed
<1>3. SameCalls(up[t], up[t], 0) /\ DOMAIN up[t] \subseteq Nat
  BY <1>2, SameQueueCalls
<1>4. SameSyncs(send[t], send'[t])
  <2>1. CASE Adds(send[t], send'[t], Signal)
    <3>1. Signal.type = "signal"
      BY DEF Signal
    <3> QED
      BY <2>1, <3>1, AddedSyncs
  <2>2. ASSUME NEW op, Grows(op), Adds(send[t], send'[t], op)
        PROVE  SameSyncs(send[t], send'[t])
    <3>1. op.type \notin {"full_sync", "replay_sync"}
      BY <2>2, OpKinds DEF Grows, InsertOp, DeleteOp
    <3> QED
      BY <2>2, <3>1, AddedSyncs
  <2> QED
    BY <2>1, <2>2 DEF Elsewhere
<1>5. tab'[t].lastSeq = tab[t].lastSeq /\ up'[t] = up[t] /\ strayed[t] \subseteq strayed'[t]
      /\ (t \in clients' <=> t \in clients)
  BY DEF Elsewhere
<1> QED
  BY <1>1, <1>3, <1>4, <1>5, OrderKept

\* Typing sends operations.
LEMMA TypeOrderly ==
    ASSUME RoomKnown, Orderly, NEW t \in Clients, Type(t)
    PROVE  InOrder(tab'[t], strayed'[t], send'[t], up'[t], t \in clients')
<1>1. InOrder(tab[t], strayed[t], send[t], up[t], t \in clients)
  BY DEF Orderly
<1>2. up[t] \in Seq(Sent)
  BY Typed
<1>3. UNCHANGED <<send, clients>> /\ strayed[t] \subseteq strayed'[t]
  BY TypeSelf DEF vars
<1>4. PICK new \in Seq(Chars) :
          /\ diffToOps(tab[t], new) \in Seq(Request) /\ diffToOps(tab[t], new) \in Seq(Sent)
          /\ up'[t] = IF Connected(t) THEN up[t] \o diffToOps(tab[t], new) ELSE up[t]
          /\ SameSession(tab[t], tab'[t])
  BY TypeSelf
<1> DEFINE more == diffToOps(tab[t], new)
<1> HIDE DEF more
<1>5. \A i \in DOMAIN more : more[i].type \notin {"join", "restore"}
  BY <1>4 DEF more, Request, InsertRequest, DeleteRequest
<1>6. SameCalls(up[t], up'[t], 0) /\ DOMAIN up'[t] \subseteq Nat
  <2>1. up'[t] = up[t] \o more \/ up'[t] = up[t]
    BY <1>4 DEF more
  <2>2. more \in Seq(Sent)
    BY <1>4 DEF more
  <2> QED
    BY <1>2, <1>5, <2>1, <2>2, SameQueueCalls, AppendedCalls
<1>7. SameSyncs(send[t], send'[t])
  BY <1>3 DEF SameSyncs
<1>8. tab'[t].lastSeq = tab[t].lastSeq /\ strayed[t] \subseteq strayed'[t]
      /\ (t \in clients' <=> t \in clients)
  BY <1>3, <1>4 DEF SameSession
<1> QED
  BY <1>1, <1>6, <1>7, <1>8, OrderKept

\* A message that is shown leaves at most one full_sync, and no replay_sync.
LEMMA TailSyncs ==
    ASSUME NEW q \in Seq(Message), q # << >>,
           \A j \in DOMAIN q : q[j].type = "replay_sync" => j = 1, Only(q, "full_sync")
    PROVE  /\ Only(Tail(q), "full_sync") /\ ~Has(Tail(q), "replay_sync")
           /\ Has(Tail(q), "full_sync") => Has(q, "full_sync") /\ Head(q).type # "full_sync"
<1>1. /\ Tail(q) \in Seq(Message) /\ Len(Tail(q)) = Len(q) - 1 /\ Head(q) = q[1]
      /\ \A i \in 1 .. Len(Tail(q)) : Tail(q)[i] = q[i + 1]
  BY HeadTailProperties
<1> DEFINE r == Tail(q)
<1> HIDE DEF r
<1>2. DOMAIN r = 1 .. Len(q) - 1 /\ DOMAIN q = 1 .. Len(q) /\ Len(q) \in Nat
      /\ \A i \in 1 .. Len(q) - 1 : r[i] = q[i + 1]
  BY <1>1 DEF r
<1>3. \A i \in DOMAIN r : i + 1 \in DOMAIN q /\ i + 1 # 1 /\ r[i] = q[i + 1] /\ i \in Nat
  BY <1>2
<1>4. Only(r, "full_sync")
  <2> SUFFICES ASSUME NEW i \in DOMAIN r, NEW j \in DOMAIN r,
                      r[i].type = "full_sync", r[j].type = "full_sync"
               PROVE  i = j
    BY DEF Only
  <2>1. i + 1 = j + 1
    BY <1>3 DEF Only
  <2> QED
    BY <1>3, <2>1
<1>5. ~Has(r, "replay_sync")
  BY <1>3 DEF Has
<1>6. ASSUME Has(r, "full_sync") PROVE Has(q, "full_sync") /\ Head(q).type # "full_sync"
  <2>1. PICK i \in DOMAIN r : r[i].type = "full_sync"
    BY <1>6 DEF Has
  <2>2. i + 1 \in DOMAIN q /\ i + 1 # 1 /\ q[i + 1].type = "full_sync" /\ 1 \in DOMAIN q
    BY <1>2, <1>3, <2>1
  <2> QED
    BY <1>1, <2>2 DEF Has, Only
<1> QED
  BY <1>4, <1>5, <1>6 DEF r

\* What a tab answers to a full_sync.
LEMMA ReplyKinds ==
    ASSUME NEW b, Aligned(b), NEW m, Matched(m), m.type = "full_sync"
    PROVE  LET more == FullSyncReply(b, m)
           IN  IF AsksRestore(b, m)
               THEN Len(more) = 1 /\ more[1].type = "restore"
               ELSE \A i \in DOMAIN more : more[i].type = "batch_sync"
<1>1. CASE AsksRestore(b, m)
  BY <1>1 DEF FullSyncReply
<1>2. CASE ~AsksRestore(b, m)
  BY <1>2 DEF FullSyncReply
<1> QED
  BY <1>1, <1>2

\* A message that is shown leaves the others in order; what the tab sends in return is
\* a batch, or a restore when nothing else is on its way.
LEMMA ShowOrderly ==
    ASSUME RoomKnown, Orderly, NEW t \in Clients, Show(t)
    PROVE  InOrder(tab'[t], strayed'[t], send'[t], up'[t], t \in clients')
<1> DEFINE m == Head(send[t])
           more == FullSyncReply(tab[t], m)
<1>1. InOrder(tab[t], strayed[t], send[t], up[t], t \in clients)
  BY DEF Orderly
<1>2. up[t] \in Seq(Sent) /\ send[t] \in Seq(Message) /\ Aligned(tab[t])
  BY Typed
<1>3. /\ send[t] # << >> /\ Matched(m) /\ t \in clients /\ clients' = clients
      /\ send'[t] = Tail(send[t])
      /\ up'[t] = IF m.type = "full_sync" THEN up[t] \o more ELSE up[t]
      /\ strayed'[t] = strayed[t] \cup ShowCauses(t, m)
  BY ShowSelf
<1>4. /\ Only(send'[t], "full_sync") /\ ~Has(send'[t], "replay_sync")
      /\ Has(send'[t], "full_sync") => Has(send[t], "full_sync") /\ m.type # "full_sync"
  BY <1>1, <1>2, <1>3, TailSyncs DEF InOrder
<1> HIDE DEF m, more
<1>5. \A i \in DOMAIN up[t] : up[t][i].type # "join"
  BY <1>1, <1>3 DEF InOrder
<1>6. CASE m.type # "full_sync"
  <2>1. up'[t] = up[t]
    BY <1>3, <1>6
  <2> QED
    BY <1>1, <1>3, <1>4, <1>5, <2>1 DEF InOrder, Has
<1>7. CASE m.type = "full_sync"
  <2>1. Has(send[t], "full_sync")
    <3>1. 1 \in DOMAIN send[t] /\ m = send[t][1]
      BY ShowSelf DEF m
    <3> QED
      BY <1>7, <3>1 DEF Has
  <2>2. ~Has(up[t], "restore")
    BY <1>1, <2>1 DEF InOrder
  <2>3. more \in Seq(Sent)
    BY <1>2, <1>3, <1>7, ReplyType DEF more
  <2>4. IF AsksRestore(tab[t], m) THEN Len(more) = 1 /\ more[1].type = "restore"
        ELSE \A i \in DOMAIN more : more[i].type = "batch_sync"
    BY <1>2, <1>3, <1>7, ReplyKinds DEF more
  <2>5. /\ up'[t] \in Seq(Sent) /\ Len(up'[t]) = Len(up[t]) + Len(more)
        /\ \A i \in 1 .. Len(up'[t]) :
                up'[t][i] = IF i <= Len(up[t]) THEN up[t][i] ELSE more[i - Len(up[t])]
    BY <1>2, <1>3, <1>7, <2>3, ConcatProperties
  <2>6. \A i \in DOMAIN up'[t] :
            \/ i \in DOMAIN up[t] /\ up'[t][i] = up[t][i]
            \/ i - Len(up[t]) \in DOMAIN more /\ up'[t][i] = more[i - Len(up[t])] /\ i \in Nat
    <3>1. /\ DOMAIN up'[t] = 1 .. Len(up[t]) + Len(more) /\ DOMAIN up[t] = 1 .. Len(up[t])
          /\ DOMAIN more = 1 .. Len(more) /\ Len(up[t]) \in Nat /\ Len(more) \in Nat
      BY <1>2, <2>3, <2>5
    <3>2. ASSUME NEW i \in 1 .. Len(up[t]) + Len(more)
          PROVE  \/ i \in 1 .. Len(up[t]) /\ up'[t][i] = up[t][i]
                 \/ i - Len(up[t]) \in 1 .. Len(more) /\ up'[t][i] = more[i - Len(up[t])]
      BY <2>5, <3>1
    <3> QED
      BY <3>1, <3>2
  <2>7. CASE AsksRestore(tab[t], m)
    <3>1. DOMAIN more = 1 .. 1 /\ Len(up[t]) \in Nat
      BY <1>2, <2>3, <2>4, <2>7
    <3>2. \A i \in DOMAIN up'[t] : up'[t][i].type = "restore" => i = Len(up[t]) + 1
      <4> SUFFICES ASSUME NEW i \in DOMAIN up'[t], up'[t][i].type = "restore"
                   PROVE  i = Len(up[t]) + 1
        OBVIOUS
      <4>1. ~(i \in DOMAIN up[t] /\ up'[t][i] = up[t][i])
        BY <2>2 DEF Has
      <4>2. i - Len(up[t]) = 1 /\ i \in Nat
        BY <2>6, <3>1, <4>1
      <4> QED
        BY <3>1, <4>2
    <3>3. \A i \in DOMAIN up'[t] : up'[t][i].type # "join"
      <4> SUFFICES ASSUME NEW i \in DOMAIN up'[t], up'[t][i].type = "join" PROVE FALSE
        OBVIOUS
      <4>1. ~(i \in DOMAIN up[t] /\ up'[t][i] = up[t][i])
        BY <1>5
      <4>2. i - Len(up[t]) \in DOMAIN more /\ up'[t][i] = more[i - Len(up[t])]
        BY <2>6, <4>1
      <4>3. i - Len(up[t]) = 1
        BY <3>1, <4>2
      <4> QED
        BY <2>4, <2>7, <4>2, <4>3
    <3>4. "torn" \in strayed'[t]
      BY <1>3, <1>7, <2>7 DEF ShowCauses, Causes
    <3> QED
      BY <1>3, <1>4, <1>7, <3>2, <3>3, <3>4 DEF InOrder, Only, Has
  <2>8. CASE ~AsksRestore(tab[t], m)
    <3>1. \A i \in DOMAIN up'[t] : up'[t][i].type \notin {"join", "restore"}
      BY <1>5, <2>2, <2>4, <2>6, <2>8 DEF Has
    <3> QED
      BY <1>4, <1>7, <3>1 DEF InOrder, Only, Has
  <2> QED
    BY <2>7, <2>8
<1> QED
  BY <1>6, <1>7

\* A greeting is the first message of its connection.
LEMMA JoinOrderly ==
    ASSUME RoomKnown, RoomInv', Orderly, NEW t \in Clients, ServeJoin(t)
    PROVE  InOrder(tab'[t], strayed'[t], send'[t], up'[t], t \in clients')
<1> DEFINE g == Greeting(Head(up[t]).lastSeq, Head(up[t]).hasOfflineEdits)
<1>1. InOrder(tab[t], strayed[t], send[t], up[t], t \in clients)
  BY DEF Orderly
<1>2. up[t] \in Seq(Sent)
  BY Typed
<1>3. /\ up[t] # << >> /\ up'[t] = Tail(up[t]) /\ t \notin clients
      /\ Adds(<<g>>, send'[t], Signal)
  BY JoinSelf
<1> HIDE DEF g
<1>4. SameCalls(up[t], up'[t], 1) /\ DOMAIN up'[t] \subseteq Nat
  BY <1>2, <1>3, TailCalls
<1>5. \A i \in DOMAIN up'[t] : up'[t][i].type \notin {"join", "restore"}
  <2>1. ~Has(up[t], "restore") /\ \A i \in DOMAIN up[t] : up[t][i].type = "join" => i = 1
    BY <1>1, <1>3 DEF InOrder
  <2>2. ASSUME NEW i \in DOMAIN up'[t], up'[t][i].type \in {"join", "restore"} PROVE FALSE
    <3>1. i > 0 /\ i \in Nat /\ i + 1 \in DOMAIN up[t] /\ up'[t][i] = up[t][i + 1]
      BY <1>4, <2>2 DEF SameCalls
    <3> QED
      BY <2>1, <2>2, <3>1 DEF Has
  <2> QED
    BY <2>2
<1>6. \A j \in DOMAIN send'[t] : send'[t][j].type \in {"full_sync", "replay_sync"} => j = 1
  <2>1. Signal.type = "signal" /\ DOMAIN <<g>> = {1}
    BY DEF Signal
  <2> QED
    BY <1>3, <2>1 DEF Adds
<1> QED
  BY <1>5, <1>6 DEF InOrder, Has, Only

\* The server takes an operation or a batch of a tab.
LEMMA TakesOrderly ==
    ASSUME RoomKnown, Orderly, NEW t \in Clients, NEW type, Takes(t, type), Free(t),
           clients' = clients, strayed[t] \subseteq strayed'[t], SameSyncs(send[t], send'[t])
    PROVE  InOrder(tab'[t], strayed'[t], send'[t], up'[t], t \in clients')
<1>1. InOrder(tab[t], strayed[t], send[t], up[t], t \in clients)
  BY DEF Orderly
<1>2. up[t] \in Seq(Sent)
  BY Typed
<1>3. up[t] # << >> /\ up'[t] = Tail(up[t]) /\ tab'[t] = tab[t]
  BY TakesSelf
<1>4. SameCalls(up[t], up'[t], 1) /\ DOMAIN up'[t] \subseteq Nat
  BY <1>2, <1>3, TailCalls
<1>5. tab'[t].lastSeq = tab[t].lastSeq /\ (t \in clients' <=> t \in clients)
  BY <1>3
<1> QED
  BY <1>1, <1>4, <1>5, OrderKept

\* An operation that the room publishes is no synchronizing message.
LEMMA GrownSyncs ==
    ASSUME NEW op, Grows(op), NEW t, Adds(send[t], send'[t], op)
    PROVE  SameSyncs(send[t], send'[t])
<1>1. op.type \notin {"full_sync", "replay_sync"}
  BY OpKinds DEF Grows, InsertOp, DeleteOp
<1> QED
  BY <1>1, AddedSyncs

\* An operation that the room takes leaves the rest in order.
LEMMA OpOrderly ==
    ASSUME RoomKnown, Orderly, NEW t \in Clients, NEW type \in {"insert", "delete"}, ServeOp(t, type)
    PROVE  InOrder(tab'[t], strayed'[t], send'[t], up'[t], t \in clients')
<1> DEFINE r == Head(up[t])
<1>1. /\ Takes(t, type) /\ Free(t) /\ r \in Request
      /\ strayed[t] \subseteq strayed'[t]
      /\ HandleOp(t, r) \/ UNCHANGED vars
  BY OpSelf
<1> HIDE DEF r
<1>2. CASE HandleOp(t, r)
  <2>1. applyOp(t, r) /\ t \in clients /\ UNCHANGED <<live, clients, user>>
    BY <1>2 DEF HandleOp, Free
  <2>2. SameSyncs(send[t], send'[t])
    BY <1>1, <2>1, ServedGrows, GrownSyncs
  <2> QED
    BY <1>1, <2>1, <2>2, TakesOrderly
<1>3. CASE UNCHANGED vars
  <2>1. clients' = clients /\ SameSyncs(send[t], send'[t])
    BY <1>3 DEF vars, SameSyncs
  <2> QED
    BY <1>1, <2>1, TakesOrderly
<1> QED
  BY <1>1, <1>2, <1>3

\* So does an operation of a batch.
LEMMA BatchOpOrderly ==
    ASSUME RoomKnown, Orderly, NEW t \in Clients, ServeBatchOp, task.who = t
    PROVE  InOrder(tab'[t], strayed'[t], send'[t], up'[t], t \in clients')
<1> DEFINE r == Head(task.todo)
<1>1. /\ t \in clients /\ r \in Request
      /\ strayed[t] \subseteq strayed'[t]
      /\ UNCHANGED <<tab, up, live, clients, user>>
      /\ applyOp(t, r) \/ UNCHANGED <<doc, clock, seqNum, opLog, send, db>>
  BY BatchOpSelf
<1> HIDE DEF r
<1>2. SameSyncs(send[t], send'[t])
  <2>1. CASE applyOp(t, r)
    BY <1>1, <2>1, ServedGrows, GrownSyncs
  <2>2. CASE UNCHANGED send
    BY <2>2 DEF SameSyncs
  <2> QED
    BY <1>1, <2>1, <2>2
<1>3. InOrder(tab[t], strayed[t], send[t], up[t], t \in clients)
  BY DEF Orderly
<1>4. SameCalls(up[t], up[t], 0) /\ DOMAIN up[t] \subseteq Nat
  BY Typed, SameQueueCalls
<1> QED
  BY <1>1, <1>2, <1>3, <1>4, OrderKept

\* The answer to a restore is the only full_sync.
LEMMA RestoreOrderly ==
    ASSUME RoomKnown, RoomInv', Orderly, NEW t \in Clients, ServeRestore(t)
    PROVE  InOrder(tab'[t], strayed'[t], send'[t], up'[t], t \in clients')
<1>1. InOrder(tab[t], strayed[t], send[t], up[t], t \in clients)
  BY DEF Orderly
<1>2. up[t] \in Seq(Sent) /\ send[t] \in Seq(Message)
  BY Typed
<1>3. /\ Takes(t, "restore") /\ Free(t) /\ clients' = clients
      /\ \/ send'[t] = send[t] /\ strayed'[t] = strayed[t] \cup {"unanswered"}
         \/ send'[t] = Append(send[t], buildFullSync) /\ strayed'[t] = {}
      /\ buildFullSync.type = "full_sync" /\ buildFullSync \in Message
  BY RestoreSelf DEF Sendable, Matched
<1>4. CASE send'[t] = send[t] /\ strayed'[t] = strayed[t] \cup {"unanswered"}
  <2>1. SameSyncs(send[t], send'[t]) /\ strayed[t] \subseteq strayed'[t]
    BY <1>4 DEF SameSyncs
  <2> QED
    BY <1>3, <2>1, TakesOrderly
<1>5. CASE send'[t] = Append(send[t], buildFullSync)
  <2>1. /\ Head(up[t]).type = "restore" /\ up[t] # << >> /\ up'[t] = Tail(up[t])
        /\ tab'[t] = tab[t] /\ t \in clients
    BY <1>3, TakesSelf
  <2>2. 1 \in DOMAIN up[t] /\ up[t][1].type = "restore" /\ Has(up[t], "restore")
    <3>1. 1 \in DOMAIN up[t] /\ up[t][1] = Head(up[t])
      BY <1>2, <2>1
    <3> QED
      BY <2>1, <3>1 DEF Has
  <2>3. SameCalls(up[t], up'[t], 1) /\ DOMAIN up'[t] \subseteq Nat
    BY <1>2, <2>1, TailCalls
  <2>4. \A i \in DOMAIN up'[t] : up'[t][i].type \notin {"join", "restore"}
    <3> SUFFICES ASSUME NEW i \in DOMAIN up'[t], up'[t][i].type \in {"join", "restore"}
                 PROVE  FALSE
      OBVIOUS
    <3>1. i > 0 /\ i \in Nat /\ i + 1 \in DOMAIN up[t] /\ up'[t][i] = up[t][i + 1]
      BY <2>3 DEF SameCalls
    <3>2. i + 1 # 1
      BY <3>1
    <3> QED
      BY <1>1, <2>1, <2>2, <3>1, <3>2 DEF InOrder, Only
  <2>5. ~Has(send[t], "full_sync")
    BY <1>1, <2>2 DEF InOrder
  <2> DEFINE f == buildFullSync
  <2>6. f \in Message /\ f.type = "full_sync" /\ send'[t] = Append(send[t], f)
    BY <1>3, <1>5
  <2> HIDE DEF f
  <2>7. /\ DOMAIN send'[t] = 1 .. Len(send[t]) + 1 /\ DOMAIN send[t] = 1 .. Len(send[t])
        /\ Len(send[t]) \in Nat
        /\ \A i \in 1 .. Len(send[t]) : send'[t][i] = send[t][i]
        /\ send'[t][Len(send[t]) + 1] = f
    BY <1>2, <2>6, AppendProperties
  <2>8. \A j \in DOMAIN send'[t] : send'[t][j].type = "full_sync" => j = Len(send[t]) + 1
    <3> SUFFICES ASSUME NEW j \in DOMAIN send'[t], send'[t][j].type = "full_sync",
                        j # Len(send[t]) + 1
                 PROVE  FALSE
      OBVIOUS
    <3>1. j \in DOMAIN send[t] /\ send'[t][j] = send[t][j]
      BY <2>7
    <3> QED
      BY <2>5, <3>1 DEF Has
  <2>9. \A j \in DOMAIN send'[t] : send'[t][j].type = "replay_sync" => j = 1
    <3> SUFFICES ASSUME NEW j \in DOMAIN send'[t], send'[t][j].type = "replay_sync"
                 PROVE  j = 1
      OBVIOUS
    <3>1. j # Len(send[t]) + 1
      BY <2>6, <2>7
    <3>2. j \in DOMAIN send[t] /\ send'[t][j] = send[t][j]
      BY <2>7, <3>1
    <3> QED
      BY <1>1, <3>2 DEF InOrder
  <2> QED
    BY <2>4, <2>8, <2>9 DEF InOrder, Only, Has
<1> QED
  BY <1>3, <1>4, <1>5

\* Every step leaves what is on its way in order.
LEMMA OrderlyStep ==
    ASSUME Working, RoomKnown, EditorInv', Orderly, [EditorNext]_allVars
    PROVE  Orderly'
<1> SUFFICES ASSUME NEW t \in Clients
             PROVE  InOrder(tab'[t], strayed'[t], send'[t], up'[t], t \in clients')
  BY DEF Orderly
<1>1. RoomInv'
  BY DEF EditorInv
<1>2. CASE EndSelf(t)
  <2>1. send'[t] = << >> /\ up'[t] = << >>
    BY <1>2 DEF EndSelf
  <2> QED
    BY <2>1, NoneOrdered
<1>3. CASE Open(t)
  <2>1. PICK r \in Sent : r.type = "join" /\ r.lastSeq = tab[t].lastSeq /\ up'[t] = <<r>>
    BY <1>3, OpenSelf
  <2>2. t \notin clients' /\ tab' = tab /\ send'[t] = send[t]
    BY <1>3, OpenSelf DEF vars
  <2>3. send'[t] = << >>
    BY <1>3, <2>2, OpenSelf, OutsideRoom
  <2>4. DOMAIN <<r>> = {1} /\ <<r>>[1] = r
    OBVIOUS
  <2> QED
    BY <2>1, <2>2, <2>3, <2>4 DEF InOrder, Has, Only
<1>4. CASE ServeBatch(t)
  <2>1. /\ Takes(t, "batch_sync") /\ Free(t) /\ UNCHANGED <<clients, send, strayed>>
    BY <1>4, BatchSelf
  <2>2. SameSyncs(send[t], send'[t])
    BY <2>1 DEF SameSyncs
  <2> QED
    BY <2>1, <2>2, TakesOrderly
<1> QED
  BY <1>1, <1>2, <1>3, <1>4, StepOf, ElsewhereOrderly, TypeOrderly, ShowOrderly, JoinOrderly,
     OpOrderly, BatchOpOrderly, RestoreOrderly

-----------------------------------------------------------------------------
(***************************************************************************)
(* How a tab follows the room: SettledSameText while things are on their   *)
(* way.  T is the text that the document had at every number.              *)
(***************************************************************************)

\* A text for every number.
Texts == [Nat -> Seq(Chars)]

\* op takes the text before it to the text after it.
Makes(T, op) == T[op.seq] = Shown(T[op.seq - 1], op)

\* The operations in a channel or in the log.
Ops(q) == {q[i] : i \in {j \in DOMAIN q : IsOp(q[j])}}

\* The operations that t may still be told of.
Past(t) == Ops(opLog) \cup Ops(send[t])

\* The numbers of those that t made itself.
Own(t) == {op.seq : op \in {o \in Ops(send[t]) : o.userID = user[t]}}

\* T ends with the text of the document, which has number n, and the operations S
\* behind number since make it.
Record(T, S, since, n, text) ==
    /\ T[n] = text /\ since <= n
    /\ \A op \in S : op.seq > since => Makes(T, op)

\* A tab that saw number last has made the operations own of what came next, and
\* nothing lies between them; of todo and out it knows how they go on, when the
\* room has nothing that it was not shown.
Keeps(T, last, n, own, todo, out, value) ==
    \E k \in last .. n :
        /\ last + 1 .. k \subseteq own /\ \A o \in own : o <= k
        /\ todo # << >> \/ out # << >> => k = n
        /\ \E w \in Seq(Chars) : Steps(OpSteps, T[k], todo, w) /\ Steps(MsgSteps, w, out, value)

\* A tab will be shown an operation of somebody else before it is told of all that
\* it did itself.
Lost(last, n, own, todo, out) ==
    \E k \in last + 1 .. n :
        /\ k \notin own
        /\ todo # << >> \/ out # << >> \/ \E o \in own : o > k

\* A tab that has seen number last is told the text of a later one.
FullAt(T, q, last, S, n, text) ==
    \E g \in DOMAIN q :
        /\ q[g].type = "full_sync"
        /\ \A j \in 1 .. g - 1 : q[j].seq <= q[g].seq
        /\ last <= q[g].seq /\ T[q[g].seq] = q[g].content
        /\ Record(T, S, q[g].seq, n, text)

\* A tab that has seen number last is told the operations of others behind it.
ReplayAt(T, m, last, me) ==
    /\ m.type = "replay_sync" /\ last <= m.seq
    /\ \A i \in DOMAIN m.ops :
        /\ m.ops[i].seq = m.seq - Len(m.ops) + i /\ m.ops[i].seq > last
        /\ Makes(T, m.ops[i]) /\ m.ops[i].userID # me

\* Something the tab did is on its way.
Busy(own, todo, out) == own # {} \/ todo # << >> \/ out # << >>

\* The same of tab b, which has shown what it did.
Tracks(T, b, n, own, todo, out) ==
    /\ \/ Lost(b.lastSeq, n, own, todo, out)
       \/ Keeps(T, b.lastSeq, n, own, todo, out, b.value)
    /\ Busy(own, todo, out) \/ b.base = b.value

\* Tab t is at one of four places: a full_sync is on its way to it; or it has the base
\* that a replay_sync on its way starts from; or it is connected and has been told
\* everything so far; or it is away, and its base is the text of its number.
Follows(t, T) ==
    LET b == tab[t]
        q == send[t]
        n == DocumentNumber
    IN  IF Has(q, "full_sync") THEN FullAt(T, q, b.lastSeq, Past(t), n, DocumentText)
        ELSE /\ ~b.restoring /\ Record(T, Past(t), b.lastSeq, n, DocumentText)
             /\ IF Has(q, "replay_sync")
                THEN b.base = T[b.lastSeq] /\ ReplayAt(T, q[1], b.lastSeq, user[t])
                ELSE IF t \in clients
                THEN Tracks(T, b, n, Own(t), Todo(t), up[t])
                ELSE b.lastSeq > 0 => b.base = T[b.lastSeq]

\* A tab that has not strayed follows some history of texts.
Followed == \A t \in Clients : strayed[t] \subseteq Excused => \E T \in Texts : Follows(t, T)

\* U is T up to number n.
Agree(T, U, n) == \A k \in 0 .. n : U[k] = T[k]

-----------------------------------------------------------------------------

\* A channel gets an operation, or drops it.
LEMMA OpsAdded ==
    ASSUME NEW q, NEW r, NEW m, Adds(q, r, m)
    PROVE  Ops(q) \subseteq Ops(r) /\ Ops(r) \subseteq Ops(q) \cup (IF IsOp(m) THEN {m} ELSE {})
<1>1. Ops(q) \subseteq Ops(r)
  BY DEF Adds, Ops
<1>2. ASSUME NEW x \in Ops(r) PROVE x \in Ops(q) \cup (IF IsOp(m) THEN {m} ELSE {})
  BY <1>2 DEF Adds, Ops
<1> QED
  BY <1>1, <1>2

\* A message that is shown takes its operation out of the channel.
LEMMA OpsTail ==
    ASSUME NEW q \in Seq(Message), q # << >>
    PROVE  /\ Ops(Tail(q)) \subseteq Ops(q) /\ Ops(q) \subseteq Ops(Tail(q)) \cup {Head(q)}
           /\ IsOp(Head(q)) => Head(q) \in Ops(q)
           /\ ~IsOp(Head(q)) => Ops(q) \subseteq Ops(Tail(q))
<1>1. /\ Tail(q) \in Seq(Message) /\ Len(Tail(q)) = Len(q) - 1 /\ Head(q) = q[1]
      /\ \A i \in 1 .. Len(Tail(q)) : Tail(q)[i] = q[i + 1]
  BY HeadTailProperties
<1> DEFINE r == Tail(q)
           h == Head(q)
<1> HIDE DEF r, h
<1>2. DOMAIN r = 1 .. Len(q) - 1 /\ DOMAIN q = 1 .. Len(q) /\ Len(q) \in Nat
      /\ \A i \in 1 .. Len(q) - 1 : r[i] = q[i + 1]
  BY <1>1 DEF r
<1>3. 1 \in DOMAIN q /\ h = q[1]
  BY <1>1, <1>2 DEF h
<1>4. Ops(r) \subseteq Ops(q)
  <2>1. \A i \in DOMAIN r : i + 1 \in DOMAIN q /\ r[i] = q[i + 1]
    BY <1>2
  <2> QED
    BY <2>1 DEF Ops
<1>5. ASSUME NEW x \in Ops(q) PROVE x \in Ops(r) \/ (x = h /\ IsOp(h))
  <2>1. PICK i \in DOMAIN q : IsOp(q[i]) /\ x = q[i]
    BY DEF Ops
  <2>2. CASE i = 1
    BY <1>3, <2>1, <2>2
  <2>3. CASE i # 1
    <3>1. i - 1 \in DOMAIN r /\ (i - 1) + 1 = i
      BY <1>2, <2>1, <2>3
    <3>2. r[i - 1] = q[i]
      BY <1>2, <3>1
    <3>3. \E k \in DOMAIN r : x = r[k] /\ IsOp(r[k])
      BY <2>1, <3>1, <3>2
    <3> HIDE DEF r
    <3> QED
      BY <3>3 DEF Ops
  <2> QED
    BY <2>2, <2>3
<1>6. IsOp(h) => h \in Ops(q)
  BY <1>3 DEF Ops
<1> QED
  BY <1>4, <1>5, <1>6 DEF r, h

\* What t may still be told of has numbers that the document has reached.
LEMMA PastKnown ==
    ASSUME RoomKnown, NEW t \in Clients
    PROVE  /\ \A op \in Past(t) : op \in Op /\ op.seq \in Nat /\ op.seq <= DocumentNumber
           /\ DocumentNumber \in Nat /\ DocumentText \in Seq(Chars)
           /\ tab[t].lastSeq \in Nat /\ tab[t].lastSeq <= DocumentNumber
           /\ Own(t) \subseteq Nat
           /\ \A k \in Own(t) : k > tab[t].lastSeq /\ k <= DocumentNumber
<1>1. /\ RoomInv /\ TypeOK /\ Occupied /\ send[t] \in Seq(Message) /\ opLog \in Seq(Op)
      /\ seqNum \in Nat /\ doc \in Seq(Node(Chars))
      /\ db \in [content : Seq(Chars), seq : Nat] /\ tab[t].lastSeq \in Nat
  BY Typed DEF RoomInv, TypeOK, Tab
<1>2. DocumentNumber \in Nat
  BY <1>1 DEF DocumentNumber
<1>3. DocumentText \in Seq(Chars)
  BY <1>1, DocStringType DEF DocumentText
<1>4. ASSUME NEW op \in Ops(opLog) PROVE op \in Op /\ op.seq <= DocumentNumber
  <2>1. PICK i \in DOMAIN opLog : op = opLog[i]
    BY DEF Ops
  <2>2. op \in Op /\ live
    BY <1>1, <2>1 DEF Occupied
  <2>3. op.seq = seqNum - Len(opLog) + i
    BY <2>1 DEF RoomKnown, LogContiguous
  <2>4. i \in 1 .. Len(opLog) /\ Len(opLog) \in Nat
    BY <1>1, <2>1
  <2>5. op.seq <= seqNum
    BY <1>1, <2>3, <2>4
  <2> QED
    BY <2>2, <2>5 DEF DocumentNumber
<1>5. ASSUME NEW op \in Ops(send[t])
      PROVE  op \in Op /\ op.seq <= DocumentNumber /\ op.seq > tab[t].lastSeq
  <2>1. PICK i \in DOMAIN send[t] : op = send[t][i] /\ IsOp(op)
    BY DEF Ops
  <2>2. op \in Message /\ op \in Op
    BY <1>1, <2>1, MessageTypes
  <2>3. live
    BY <1>1, <2>1 DEF Occupied
  <2>4. op.seq <= seqNum /\ op.seq > tab[t].lastSeq
    BY <2>1 DEF RoomKnown, OutboxOrdered, NumbersAhead
  <2> QED
    BY <2>2, <2>3, <2>4 DEF DocumentNumber
<1>6. \A op \in Op : op.seq \in Nat
  BY DEF Op, InsertOp, DeleteOp
<1>7. tab[t].lastSeq <= DocumentNumber
  BY DEF RoomKnown, NumbersAhead
<1>8. \A op \in Past(t) : op \in Op /\ op.seq \in Nat /\ op.seq <= DocumentNumber
  BY <1>4, <1>5, <1>6 DEF Past
<1>9. ASSUME NEW k \in Own(t) PROVE k \in Nat /\ k > tab[t].lastSeq /\ k <= DocumentNumber
  <2>1. PICK op \in Ops(send[t]) : k = op.seq
    BY DEF Own
  <2> QED
    BY <1>5, <1>6, <2>1
<1> QED
  BY <1>1, <1>2, <1>3, <1>7, <1>8, <1>9

\* The log and the channel hold what they held, and what the room published.
LEMMA PastGrows ==
    ASSUME RoomKnown, NEW t \in Clients, NEW op, Grows(op), Adds(send[t], send'[t], op)
    PROVE  Past(t)' \subseteq Past(t) \cup {op} /\ IsOp(op)
<1>1. opLog \in Seq(Op) /\ TypeOK
  BY DEF RoomKnown, EditorInv, RoomInv, TypeOK
<1>2. IsOp(op) /\ op \in Op /\ Publish(op)
  BY OpKinds DEF Grows, IsOp
<1>3. ASSUME NEW x \in Ops(opLog)' PROVE x \in Ops(opLog) \cup {op}
  <2>1. PICK i \in DOMAIN opLog' : x = opLog'[i] /\ IsOp(x)
    BY DEF Ops
  <2>2. x = op \/ \E j \in DOMAIN opLog : x = opLog[j]
    BY <1>1, <1>2, <2>1, LogGrows
  <2> QED
    BY <2>1, <2>2 DEF Ops
<1>4. Ops(send'[t]) \subseteq Ops(send[t]) \cup {op}
  BY OpsAdded
<1> QED
  BY <1>2, <1>3, <1>4 DEF Past

\* What the tab may still be told of gets nothing when the room publishes nothing.
LEMMA PastStays ==
    ASSUME NEW t, SameRoom, Ops(send'[t]) \subseteq Ops(send[t])
    PROVE  Past(t)' \subseteq Past(t)
<1>1. Ops(opLog)' \subseteq Ops(opLog)
  BY DEF SameRoom, Ops, Range
<1> QED
  BY <1>1 DEF Past

\* The document goes on, and its past with it.
LEMMA RecordMoves ==
    ASSUME RoomKnown, NEW t \in Clients, NEW T \in Texts,
           \/ SameRoom /\ Ops(send'[t]) \subseteq Ops(send[t])
           \/ \E op : Grows(op) /\ Adds(send[t], send'[t], op)
    PROVE  \E U \in Texts :
             /\ Agree(T, U, DocumentNumber)
             /\ DocumentNumber' \in {DocumentNumber, DocumentNumber + 1}
             /\ \A since \in Nat :
                  Record(T, Past(t), since, DocumentNumber, DocumentText)
                  => Record(U, Past(t)', since, DocumentNumber', DocumentText')
<1> DEFINE n == DocumentNumber
<1>1. /\ \A op \in Past(t) : op \in Op /\ op.seq \in Nat /\ op.seq <= n
      /\ n \in Nat /\ DocumentText \in Seq(Chars)
  BY PastKnown
<1>2. CASE SameRoom /\ Ops(send'[t]) \subseteq Ops(send[t])
  <2>1. Past(t)' \subseteq Past(t) /\ DocumentNumber' = n /\ DocumentText' = DocumentText
    BY <1>2, PastStays DEF SameRoom
  <2>2. Agree(T, T, n)
    BY DEF Agree
  <2> QED
    BY <2>1, <2>2 DEF Record
<1>3. ASSUME NEW op, Grows(op), Adds(send[t], send'[t], op)
      PROVE  \E U \in Texts :
               /\ Agree(T, U, DocumentNumber)
               /\ DocumentNumber' \in {DocumentNumber, DocumentNumber + 1}
               /\ \A since \in Nat :
                    Record(T, Past(t), since, DocumentNumber, DocumentText)
                    => Record(U, Past(t)', since, DocumentNumber', DocumentText')
  <2>1. Past(t)' \subseteq Past(t) \cup {op}
    BY <1>3, PastGrows
  <2>2. /\ op.seq = n + 1 /\ DocumentNumber' = n + 1
        /\ DocumentText = DocString(doc) /\ DocumentText' = DocString(doc')
        /\ DocumentText' = Shown(DocumentText, op)
    BY <1>3 DEF Grows, Publish, Fits, DocumentNumber, DocumentText
  <2>3. DocumentText' \in Seq(Chars)
    <3>1. op.position \in Nat /\ (op.type = "insert" => op.Char \in Chars)
      BY <1>3 DEF Grows, Op, InsertOp, DeleteOp
    <3> DEFINE s == DocumentText
    <3> HIDE DEF s
    <3>2. s \in Seq(Chars) /\ DocumentText' = Shown(s, op)
      BY <1>1, <2>2 DEF s
    <3>3. CASE op.type = "insert"
      BY <3>1, <3>2, <3>3, PutInText DEF Shown
    <3>4. CASE op.type # "insert"
      <4>1. CutAt(s, op.position) \in Seq(Chars)
        BY <3>1, <3>2, <3>4, CutAnywhere
      <4> QED
        BY <3>2, <3>4, <4>1 DEF Shown
    <3> QED
      BY <3>3, <3>4
  <2> DEFINE text == DocumentText'
             U == [k \in Nat |-> IF k = n + 1 THEN text ELSE T[k]]
  <2> HIDE DEF n, text
  <2>4. U \in Texts
    <3>1. \A k \in Nat : (IF k = n + 1 THEN text ELSE T[k]) \in Seq(Chars)
      BY <2>3 DEF Texts, text
    <3> QED
      BY <3>1 DEF Texts
  <2>5. Agree(T, U, n) /\ U[n + 1] = text /\ \A k \in 0 .. n : U[k] = T[k]
    BY <1>1 DEF Agree
  <2> HIDE DEF U
  <2>6. ASSUME NEW since \in Nat, Record(T, Past(t), since, n, DocumentText)
        PROVE  Record(U, Past(t)', since, n + 1, text)
    <3>1. T[n] = DocumentText /\ since <= n
      BY <2>6 DEF Record
    <3>2. ASSUME NEW o \in Past(t)', o.seq > since PROVE Makes(U, o)
      <4>1. CASE o \in Past(t)
        <5>1. Makes(T, o)
          BY <2>6, <3>2, <4>1 DEF Record
        <5>2. o.seq \in 0 .. n /\ o.seq - 1 \in 0 .. n
          BY <1>1, <3>2, <4>1
        <5> QED
          BY <2>5, <5>1, <5>2 DEF Makes
      <4>2. CASE o = op
        <5>1. o.seq = n + 1 /\ o.seq - 1 = n /\ n \in 0 .. n
          BY <1>1, <2>2, <4>2 DEF n
        <5> QED
          BY <2>2, <2>5, <3>1, <4>2, <5>1 DEF Makes, text
      <4> QED
        BY <2>1, <4>1, <4>2
    <3> QED
      BY <1>1, <2>5, <3>1, <3>2 DEF Record
  <2>7. DocumentNumber' = n + 1 /\ DocumentNumber = n
    BY <2>2 DEF n
  <2> QED
    BY <2>4, <2>5, <2>6, <2>7 DEF text
<1> QED
  BY <1>2, <1>3

\* A full_sync on its way stays right when the document goes on.
LEMMA FullMoves ==
    ASSUME NEW T, NEW U, NEW q \in Seq(Message), NEW r, KeepsAll(q, r),
           NEW last, NEW S, NEW n \in Nat, NEW text, FullAt(T, q, last, S, n, text),
           NEW S2, NEW n2, NEW text2, Agree(T, U, n),
           \A since \in Nat : Record(T, S, since, n, text) => Record(U, S2, since, n2, text2)
    PROVE  FullAt(U, r, last, S2, n2, text2)
<1>1. PICK g \in DOMAIN q :
        /\ q[g].type = "full_sync"
        /\ \A j \in 1 .. g - 1 : q[j].seq <= q[g].seq
        /\ last <= q[g].seq /\ T[q[g].seq] = q[g].content
        /\ Record(T, S, q[g].seq, n, text)
  BY DEF FullAt
<1>2. q[g].seq \in Nat /\ DOMAIN q = 1 .. Len(q) /\ Len(q) \in Nat
  BY MessageSeq
<1>3. q[g].seq \in 0 .. n
  BY <1>1, <1>2 DEF Record
<1>4. U[q[g].seq] = q[g].content
  BY <1>1, <1>3 DEF Agree
<1>5. g \in DOMAIN r /\ r[g] = q[g] /\ \A j \in 1 .. g - 1 : r[j] = q[j]
  BY <1>2 DEF KeepsAll
<1>6. Record(U, S2, r[g].seq, n2, text2)
  BY <1>1, <1>2, <1>5
<1> QED
  BY <1>1, <1>4, <1>5, <1>6 DEF FullAt

\* So does a replay_sync.
LEMMA ReplayMoves ==
    ASSUME NEW T, NEW U, NEW n \in Nat, Agree(T, U, n), NEW m \in Message, m.seq <= n,
           NEW last \in Nat, NEW me, ReplayAt(T, m, last, me)
    PROVE  ReplayAt(U, m, last, me)
<1>1. m.ops \in Seq(Op) /\ m.seq \in Nat
  BY MessageTypes DEF ReplayAt, ReplaySync
<1>2. ASSUME NEW i \in DOMAIN m.ops PROVE Makes(U, m.ops[i])
  <2>1. /\ m.ops[i].seq = m.seq - Len(m.ops) + i /\ m.ops[i].seq > last
        /\ Makes(T, m.ops[i])
    BY DEF ReplayAt
  <2>2. i \in 1 .. Len(m.ops) /\ Len(m.ops) \in Nat
    BY <1>1
  <2>3. m.ops[i].seq \in 0 .. n /\ m.ops[i].seq - 1 \in 0 .. n
    BY <1>1, <2>1, <2>2
  <2> QED
    BY <2>1, <2>3 DEF Agree, Makes
<1> QED
  BY <1>2 DEF ReplayAt

\* So does what a tab shows of a document that did not go on.
LEMMA KeepsMoves ==
    ASSUME NEW T, NEW U, NEW n \in Nat, Agree(T, U, n), NEW last \in Nat,
           NEW own, NEW todo, NEW out, NEW value, Keeps(T, last, n, own, todo, out, value)
    PROVE  Keeps(U, last, n, own, todo, out, value)
<1>1. \A k \in last .. n : U[k] = T[k]
  BY DEF Agree
<1> QED
  BY <1>1 DEF Keeps

-----------------------------------------------------------------------------
(***************************************************************************)
(* What a tab shows.                                                       *)
(***************************************************************************)

\* An operation that is new to a tab that does not wait for a restore.
LEMMA ReceivedOp ==
    ASSUME NEW b, Aligned(b), NEW m \in Message, IsOp(m), m.seq > b.lastSeq, ~b.restoring, NEW me
    PROVE  LET r == Received(b, m, me)
           IN  /\ r.value = IF m.userID = me THEN b.value ELSE Shown(b.value, m)
               /\ r.base = r.value /\ r.lastSeq = m.seq /\ ~r.restoring
<1> DEFINE n == Numbered(b, m)
           x == ShowOp(n, m, me)
<1>1. b \in Tab /\ b.lastSeq \in Nat /\ m.seq \in Nat /\ m \in Op
  BY MessageTypes DEF Aligned, Tab
<1>2. /\ Aligned(n) /\ n.lastSeq = m.seq /\ ~n.restoring /\ n.value = b.value
  <2>1. Aligned(n) /\ n.lastSeq = Max({b.lastSeq, m.seq}) /\ n.restoring = b.restoring
    BY NumberedAligned
  <2>2. Max({b.lastSeq, m.seq}) = m.seq
    BY <1>1, MaxOfTwo
  <2>3. n.value = b.value
    BY <1>1 DEF Numbered, Tab
  <2> QED
    BY <2>1, <2>2, <2>3
<1>3. Received(b, m, me) = Synced(x)
  <2>1. ~Duplicate(b, m)
    BY <1>1 DEF Duplicate
  <2> HIDE DEF x
  <2>2. Received(b, m, me) = IF Duplicate(b, m) THEN b ELSE IF b.restoring THEN n ELSE Synced(x)
    <3>1. IsOp(m) /\ m.type \notin {"full_sync", "replay_sync", "signal"}
      BY MessageTypes
    <3> QED
      BY <3>1 DEF Received, n, x, Numbered
  <2> QED
    BY <2>1, <2>2
<1> HIDE DEF n
<1>4. Aligned(x) /\ SameSession(n, x)
  BY <1>1, <1>2, ShowOpAligned
<1>5. x.value = IF m.userID = me THEN b.value ELSE Shown(b.value, m)
  <2>1. n \in Tab
    BY <1>2 DEF Aligned
  <2>2. CASE m.userID # me
    <3>1. x = RemoteOp(n, m)
      BY <2>2 DEF ShowOp
    <3>2. RemoteOp(n, m).value = Shown(n.value, m)
      BY <2>1 DEF RemoteOp, Tab
    <3> QED
      BY <1>2, <2>2, <3>1, <3>2
  <2>3. CASE m.userID = me /\ m.type = "insert"
    <3>1. x = SelfInsertAck(n, m)
      BY <2>3 DEF ShowOp
    <3>2. SelfInsertAck(n, m).value = n.value
      BY <2>1 DEF SelfInsertAck, Tab
    <3> QED
      BY <1>2, <2>3, <3>1, <3>2
  <2>4. CASE m.userID = me /\ m.type # "insert"
    BY <1>2, <2>4 DEF ShowOp
  <2> QED
    BY <2>2, <2>3, <2>4
<1> HIDE DEF x
<1>6. Synced(x).value = x.value /\ Synced(x).base = x.value
      /\ Synced(x).lastSeq = x.lastSeq /\ Synced(x).restoring = x.restoring
  BY <1>4 DEF Synced, Aligned, Tab
<1> QED
  BY <1>2, <1>3, <1>4, <1>5, <1>6 DEF SameSession

\* A message that is not about the document leaves the text and the number.
LEMMA ReceivedSignal ==
    ASSUME NEW b, Aligned(b), NEW m \in Message, m.type = "signal", NEW me
    PROVE  LET r == Received(b, m, me)
           IN  /\ r.value = b.value /\ r.base = b.base /\ r.lastSeq = b.lastSeq
               /\ r.restoring = b.restoring
<1>1. b \in Tab /\ b.lastSeq \in Nat
  BY DEF Aligned, Tab
<1>2. m.seq = 0
  BY DEF Message, Op, InsertOp, DeleteOp, FullSync, ReplaySync, Signal
<1>3. Max({b.lastSeq, m.seq}) = b.lastSeq
  BY <1>1, <1>2, MaxOfTwo
<1>4. Received(b, m, me) = [b EXCEPT !.lastSeq = Max({@, m.seq})]
  BY DEF Received, IsOp
<1> QED
  BY <1>1, <1>3, <1>4 DEF Tab

\* after[k] is what tab b is after k of ops.
Through(after, b, ops, me) ==
    /\ Replayed(b, ops, me) = after[Len(ops)] /\ after[0] = b
    /\ \A k \in 0 .. Len(ops) - 1 : after[k + 1] = ShowOp(after[k], ops[k + 1], me)

\* What a replay computes.
LEMMA ReplayedIs ==
    ASSUME NEW b, NEW ops \in Seq(Op), NEW me
    PROVE  \E after : Through(after, b, ops, me)
<1> DEFINE after == CHOOSE f : f = [k \in 0 .. Len(ops) |->
                        IF k = 0 THEN b ELSE ShowOp(f[k - 1], ops[k], me)]
<1>1. Replayed(b, ops, me) = after[Len(ops)]
  BY DEF Replayed
<1>2. ReplaySteps(after, Len(ops), b, ops, me)
  BY ReplayExists DEF ReplaySteps
<1> HIDE DEF after
<1>3. after[0] = b
  BY <1>2 DEF ReplaySteps
<1>4. ASSUME NEW k \in 0 .. Len(ops) - 1 PROVE after[k + 1] = ShowOp(after[k], ops[k + 1], me)
  <2>1. k + 1 \in 0 .. Len(ops) /\ k + 1 # 0 /\ k + 1 - 1 = k
    OBVIOUS
  <2> QED
    BY <1>2, <2>1 DEF ReplaySteps
<1> QED
  BY <1>1, <1>3, <1>4 DEF Through

\* ops are made by others, and T goes on with them behind number from.
GoesOn(T, from, ops, me) ==
    \A i \in DOMAIN ops : ops[i].seq = from + i /\ Makes(T, ops[i]) /\ ops[i].userID # me

\* The operations of a replay take a text of T to a later one.
LEMMA ReplayedText ==
    ASSUME NEW T, NEW b, Aligned(b), NEW ops \in Seq(Op), NEW me, NEW from \in Nat,
           b.value = T[from], GoesOn(T, from, ops, me)
    PROVE  Replayed(b, ops, me).value = T[from + Len(ops)]
<1>0. PICK after : Through(after, b, ops, me)
  BY ReplayedIs
<1>1. /\ Replayed(b, ops, me) = after[Len(ops)] /\ after[0] = b
      /\ \A k \in 0 .. Len(ops) - 1 : after[k + 1] = ShowOp(after[k], ops[k + 1], me)
  BY <1>0 DEF Through
<1> DEFINE S == {k \in 0 .. Len(ops) : Aligned(after[k]) /\ after[k].value = T[from + k]}
<1>3. 0 \in S
  BY <1>1
<1>4. ASSUME NEW k \in 0 .. Len(ops) - 1, k \in S PROVE k + 1 \in S
  <2>1. after[k + 1] = ShowOp(after[k], ops[k + 1], me)
    BY <1>1
  <2> DEFINE x == after[k]
             op == ops[k + 1]
  <2>2. k + 1 \in DOMAIN ops
    OBVIOUS
  <2>3. op \in Op /\ op.seq = from + (k + 1) /\ Makes(T, op) /\ op.userID # me
    BY <2>2 DEF GoesOn
  <2>4. Aligned(x) /\ x.value = T[from + k]
    BY <1>4
  <2>5. after[k + 1] = ShowOp(x, op, me)
    BY <2>1
  <2> HIDE DEF x, op
  <2>6. Aligned(ShowOp(x, op, me))
    BY <2>3, <2>4, ShowOpAligned
  <2>7. ShowOp(x, op, me).value = Shown(x.value, op)
    <3>1. ShowOp(x, op, me) = RemoteOp(x, op)
      BY <2>3 DEF ShowOp
    <3>2. x \in Tab
      BY <2>4 DEF Aligned
    <3> QED
      BY <3>1, <3>2 DEF RemoteOp, Tab
  <2>8. Shown(x.value, op) = T[from + (k + 1)]
    <3>1. from + (k + 1) - 1 = from + k
      OBVIOUS
    <3> QED
      BY <2>3, <2>4, <3>1 DEF Makes
  <2>9. k + 1 \in 0 .. Len(ops)
    OBVIOUS
  <2> QED
    BY <2>5, <2>6, <2>7, <2>8, <2>9
<1>5. 0 .. Len(ops) \subseteq S
  <2> DEFINE N == Len(ops)
  <2>1. N \in Nat
    OBVIOUS
  <2>2. \A k \in 0 .. N - 1 : k \in S => k + 1 \in S
    BY <1>4
  <2> HIDE DEF S, N
  <2>3. 0 .. N \subseteq S
    BY <1>3, <2>1, <2>2, UpTo
  <2> QED
    BY <2>3 DEF N
<1>6. Len(ops) \in 0 .. Len(ops)
  OBVIOUS
<1> QED
  BY <1>1, <1>5, <1>6

\* A replay_sync takes the tab through its operations, to its number.
LEMMA ReceivedReplay ==
    ASSUME NEW b, Aligned(b), NEW m \in Message, m.type = "replay_sync", NEW me
    PROVE  LET r == Received(b, m, me)
           IN  /\ r.value = Replayed(Numbered(b, m), m.ops, me).value
               /\ r.base = r.value /\ r.lastSeq = Max({b.lastSeq, m.seq})
               /\ r.restoring = b.restoring
<1> DEFINE n == Numbered(b, m)
           x == Replayed(n, m.ops, me)
           y == [x EXCEPT !.away = FALSE]
<1>1. m.ops \in Seq(Op) /\ ~IsOp(m)
  BY MessageTypes DEF ReplaySync
<1>2. Aligned(n) /\ n.lastSeq = Max({b.lastSeq, m.seq}) /\ n.restoring = b.restoring
  BY NumberedAligned
<1>3. Received(b, m, me) = Synced(y)
  BY <1>1 DEF Received, Numbered
<1> HIDE DEF n
<1>4. Aligned(x) /\ SameSession(n, x)
  BY <1>1, <1>2, ReplayedAligned
<1> HIDE DEF x
<1>5. /\ Synced(y).value = x.value /\ Synced(y).base = x.value
      /\ Synced(y).lastSeq = x.lastSeq /\ Synced(y).restoring = x.restoring
  BY <1>4 DEF Synced, Aligned, Tab
<1> HIDE DEF y
<1>6. x.lastSeq = Max({b.lastSeq, m.seq}) /\ x.restoring = b.restoring
  BY <1>2, <1>4 DEF SameSession
<1> QED
  BY <1>3, <1>5, <1>6 DEF x, n

\* A full_sync that is no reason to ask for a restore, and what it makes the tab send.
LEMMA ReceivedFull ==
    ASSUME NEW b, Aligned(b), NEW m, Matched(m), m.type = "full_sync", ~AsksRestore(b, m), NEW me
    PROVE  LET r == Received(b, m, me)
           IN  /\ r.base = r.value /\ r.lastSeq = Max({b.lastSeq, m.seq}) /\ ~r.restoring
               /\ m.content \in Seq(Chars) /\ r.value \in Seq(Chars)
               /\ FullSyncReply(b, m) \in Seq(Sent)
               /\ Steps(MsgSteps, m.content, FullSyncReply(b, m), r.value)
<1> DEFINE n == Numbered(b, m)
           r == Received(b, m, me)
           v == Merged(b, m)
           x == Edited(Rebuilt(n, m), Merged(n, m))
<1>1. b \in Tab /\ m \in Message /\ m \in FullSync /\ ~IsOp(m)
  BY MessageTypes DEF Aligned, Matched
<1>2. m.content \in Seq(Chars)
  BY <1>1 DEF FullSync
<1>3. /\ Aligned(n) /\ n.lastSeq = Max({b.lastSeq, m.seq})
      /\ AsksRestore(n, m) = AsksRestore(b, m) /\ Merged(n, m) = v
  BY <1>1, NumberedAligned
<1>4. r = Synced(x)
  <2>1. r = FullSynced(n, m)
    BY <1>1 DEF Received, Numbered
  <2> QED
    BY <1>3, <2>1 DEF FullSynced
<1> HIDE DEF n, v
<1>5. Aligned(Rebuilt(n, m)) /\ ~Rebuilt(n, m).restoring /\ Rebuilt(n, m).lastSeq = n.lastSeq
      /\ v \in Seq(Chars)
  <2>1. Aligned(Rebuilt(n, m)) /\ ~Rebuilt(n, m).restoring /\ Rebuilt(n, m).lastSeq = n.lastSeq
    BY <1>3, RebuiltAligned
  <2>2. v \in Seq(Chars)
    BY RebuiltAligned DEF v
  <2> QED
    BY <2>1, <2>2
<1>6. Aligned(x) /\ x.value = v /\ SameSession(Rebuilt(n, m), x)
  BY <1>3, <1>5, EditedAligned
<1> HIDE DEF x
<1>7. /\ r.value = v /\ r.base = v /\ r.lastSeq = n.lastSeq /\ ~r.restoring
  <2>1. /\ Synced(x).value = x.value /\ Synced(x).base = x.value
        /\ Synced(x).lastSeq = x.lastSeq /\ Synced(x).restoring = x.restoring
    BY <1>6 DEF Synced, Aligned, Tab
  <2> HIDE DEF r
  <2> QED
    BY <1>4, <1>5, <1>6, <2>1 DEF SameSession
<1> HIDE DEF r
<1>8. FullSyncReply(b, m) \in Seq(Sent)
  BY ReplyType
<1>9. Steps(MsgSteps, m.content, FullSyncReply(b, m), v)
  <2>1. CASE v = m.content
    <3>1. FullSyncReply(b, m) = << >>
      BY <2>1 DEF FullSyncReply, v
    <3> QED
      BY <1>2, <2>1, <3>1, StepsNone
  <2>2. CASE v # m.content
    <3> DEFINE msg == [type |-> "batch_sync", ops |-> diffToOps(Rebuilt(b, m), v)]
    <3>1. FullSyncReply(b, m) = <<msg>>
      BY <2>2 DEF FullSyncReply, v
    <3>2. Aligned(Rebuilt(b, m)) /\ Rebuilt(b, m).value = m.content
      BY <1>1, RebuiltAligned DEF Rebuilt, Tab
    <3>3. Steps(OpSteps, m.content, msg.ops, v)
      BY <1>5, <3>2, DiffShows
    <3>4. msg \in Sent
      <4>1. msg.ops \in Seq(Request)
        BY <1>5, <3>2, DiffIsRequests
      <4> QED
        BY <4>1 DEF Sent
    <3>5. <<m.content, msg, v>> \in MsgSteps
      <4>1. msg.type = "batch_sync"
        OBVIOUS
      <4> HIDE DEF msg
      <4> QED
        BY <1>2, <1>5, <3>3, <3>4, <4>1 DEF MsgSteps
    <3> HIDE DEF msg
    <3> QED
      BY <1>2, <1>5, <3>1, <3>5, StepsOne
  <2> QED
    BY <2>1, <2>2
<1> QED
  BY <1>2, <1>3, <1>5, <1>7, <1>8, <1>9 DEF r

-----------------------------------------------------------------------------
(***************************************************************************)
(* How what a tab does and what the room does fit together, as long as the *)
(* tab has nothing to wait for but operations.                             *)
(***************************************************************************)

\* A tab to which nothing bad happened, and that waits for nothing, has nothing on
\* its way.
LEMMA NotBusy ==
    ASSUME RoomKnown, Orderly, NEW t \in clients, strayed[t] \subseteq Excused, ~Outstanding(t)
    PROVE  Own(t) = {} /\ Todo(t) = << >> /\ up[t] = << >>
<1>1. t \in Clients /\ up[t] \in Seq(Sent)
  BY Typed
<1>2. InOrder(tab[t], strayed[t], send[t], up[t], TRUE)
  BY <1>1 DEF Orderly
<1>3. Own(t) = {}
  <2> SUFFICES ASSUME NEW op \in Ops(send[t]), op.userID = user[t] PROVE FALSE
    BY DEF Own
  <2> QED
    BY DEF Ops, Outstanding
<1>4. Todo(t) = << >>
  BY DEF Outstanding, Todo, Unlocked
<1>5. up[t] = << >>
  <2> DEFINE out == up[t]
  <2> SUFFICES ASSUME out # << >> PROVE FALSE
    OBVIOUS
  <2>1. 1 \in DOMAIN out /\ out[1] \in Sent
    <3>1. out \in Seq(Sent)
      BY <1>1
    <3> HIDE DEF out
    <3> QED
      BY <3>1
  <2>2. out[1].type \notin {"insert", "delete", "batch_sync"}
    BY <2>1 DEF Outstanding
  <2> HIDE DEF out
  <2>3. out[1].type \in {"join", "restore"}
    BY <2>1, <2>2 DEF Sent, Request, InsertRequest, DeleteRequest
  <2>4. out[1].type # "join"
    BY <1>2, <2>1 DEF InOrder, out
  <2>5. out[1].type # "restore"
    <3>1. "torn" \notin strayed[t]
      BY DEF Excused
    <3> QED
      BY <1>2, <2>1, <3>1 DEF InOrder, Has, out
  <2> QED
    BY <2>3, <2>4, <2>5
<1> QED
  BY <1>3, <1>4, <1>5

\* A tab for which nothing of its own is on its way shows the text of its number.
LEMMA TracksQuiet ==
    ASSUME NEW T \in Texts, NEW b, NEW n \in Nat, b.lastSeq \in Nat,
           Tracks(T, b, n, {}, << >>, << >>)
    PROVE  b.value = T[b.lastSeq] /\ b.base = T[b.lastSeq]
<1> DEFINE last == b.lastSeq
<1>1. last \in Nat
  OBVIOUS
<1>2. ~Lost(last, n, {}, << >>, << >>) /\ b.base = b.value
  BY DEF Tracks, Busy, Lost
<1>3. Keeps(T, last, n, {}, << >>, << >>, b.value)
  BY <1>2 DEF Tracks
<1> HIDE DEF last
<1>4. PICK k \in last .. n :
        /\ last + 1 .. k \subseteq {}
        /\ \E w \in Seq(Chars) : Steps(OpSteps, T[k], << >>, w) /\ Steps(MsgSteps, w, << >>, b.value)
  BY <1>3 DEF Keeps
<1>5. k = last
  <2> SUFFICES ASSUME k # last PROVE FALSE
    OBVIOUS
  <2>1. last + 1 \in last + 1 .. k
    BY <1>1, <1>4
  <2> QED
    BY <1>4, <2>1
<1>6. T[k] \in Seq(Chars)
  BY <1>1, <1>4 DEF Texts
<1>7. b.value = T[k]
  BY <1>4, <1>6, StepsNone
<1> QED
  BY <1>2, <1>5, <1>7 DEF last

\* And the other way round.
LEMMA QuietTracks ==
    ASSUME NEW T \in Texts, NEW b, NEW n \in Nat, b.lastSeq \in Nat, b.lastSeq <= n,
           b.value = T[b.lastSeq], b.base = b.value
    PROVE  Tracks(T, b, n, {}, << >>, << >>)
<1> DEFINE last == b.lastSeq
<1>1. last \in Nat /\ last <= n /\ T[last] \in Seq(Chars) /\ b.value = T[last]
  BY DEF Texts
<1> HIDE DEF last
<1>2. Steps(OpSteps, T[last], << >>, T[last]) /\ Steps(MsgSteps, T[last], << >>, b.value)
  BY <1>1, StepsNone
<1>3. last \in last .. n /\ last + 1 .. last \subseteq {}
  BY <1>1
<1>4. Keeps(T, last, n, {}, << >>, << >>, b.value)
  BY <1>1, <1>2, <1>3 DEF Keeps
<1> QED
  BY <1>4 DEF Tracks, last

\* Somebody else does something.
LEMMA TracksOthers ==
    ASSUME NEW T \in Texts, NEW U, NEW b, NEW n \in Nat, Agree(T, U, n), b.lastSeq \in Nat,
           b.lastSeq <= n, NEW own \in SUBSET Nat, \A o \in own : o <= n, NEW todo, NEW out,
           Tracks(T, b, n, own, todo, out), NEW m \in {n, n + 1}
    PROVE  Tracks(U, b, m, own, todo, out)
<1> DEFINE last == b.lastSeq
<1>1. last \in Nat /\ last <= n /\ m \in Nat /\ m >= n
  OBVIOUS
<1> HIDE DEF last
<1>2. CASE Lost(last, n, own, todo, out)
  <2>1. Lost(last, m, own, todo, out)
    BY <1>1, <1>2 DEF Lost
  <2> QED
    BY <2>1 DEF Tracks, last
<1>3. CASE Keeps(T, last, n, own, todo, out, b.value)
  <2>1. Keeps(U, last, n, own, todo, out, b.value)
    BY <1>1, <1>3, KeepsMoves
  <2>2. CASE m = n
    BY <2>1, <2>2 DEF Tracks, last
  <2>3. CASE m = n + 1 /\ (todo # << >> \/ out # << >>)
    <3>1. n + 1 \in last + 1 .. m /\ n + 1 \notin own
      BY <1>1, <2>3
    <3>2. Lost(last, m, own, todo, out)
      BY <2>3, <3>1 DEF Lost
    <3> QED
      BY <3>2 DEF Tracks, last
  <2>4. CASE todo = << >> /\ out = << >>
    <3>1. Keeps(U, last, m, own, todo, out, b.value)
      <4>1. PICK k \in last .. n :
              /\ last + 1 .. k \subseteq own /\ \A o \in own : o <= k
              /\ \E w \in Seq(Chars) : Steps(OpSteps, U[k], todo, w) /\ Steps(MsgSteps, w, out, b.value)
        BY <2>1 DEF Keeps
      <4>2. k \in last .. m
        BY <1>1
      <4> QED
        BY <2>4, <4>1, <4>2 DEF Keeps
    <3> QED
      BY <3>1 DEF Tracks, last
  <2> QED
    BY <2>2, <2>3, <2>4
<1> QED
  BY <1>2, <1>3 DEF Tracks, last

\* The tab is told of the next operation of its own.
LEMMA TracksTold ==
    ASSUME NEW T, NEW b, NEW n \in Nat, b.lastSeq \in Nat,
           NEW own \in SUBSET Nat, NEW todo, NEW out, Tracks(T, b, n, own, todo, out),
           b.lastSeq + 1 \in own, NEW c, c.lastSeq = b.lastSeq + 1, c.value = b.value, c.base = c.value,
           NEW rest, rest \subseteq own, own \subseteq rest \cup {b.lastSeq + 1}
    PROVE  Tracks(T, c, n, rest, todo, out)
<1> DEFINE last == b.lastSeq
<1>1. last \in Nat /\ last + 1 \in own /\ own \subseteq rest \cup {last + 1} /\ rest \subseteq own
      /\ own \subseteq Nat
  OBVIOUS
<1> HIDE DEF last
<1>2. CASE Lost(last, n, own, todo, out)
  <2>1. PICK k \in last + 1 .. n :
          k \notin own /\ (todo # << >> \/ out # << >> \/ \E o \in own : o > k)
    BY <1>2 DEF Lost
  <2>2. k # last + 1 /\ k \notin rest /\ k \in last + 1 + 1 .. n
    BY <1>1, <2>1
  <2>3. (\E o \in own : o > k) => \E o \in rest : o > k
    BY <1>1, <2>1
  <2>4. Lost(last + 1, n, rest, todo, out)
    BY <2>1, <2>2, <2>3 DEF Lost
  <2> QED
    BY <2>4 DEF Tracks, last
<1>3. CASE Keeps(T, last, n, own, todo, out, b.value)
  <2>1. PICK k \in last .. n :
          /\ last + 1 .. k \subseteq own /\ \A o \in own : o <= k
          /\ todo # << >> \/ out # << >> => k = n
          /\ \E w \in Seq(Chars) : Steps(OpSteps, T[k], todo, w) /\ Steps(MsgSteps, w, out, b.value)
    BY <1>3 DEF Keeps
  <2>2. k \in last + 1 .. n /\ \A o \in rest : o <= k
    BY <1>1, <2>1
  <2>3. last + 1 + 1 .. k \subseteq rest
    BY <1>1, <2>1
  <2>4. Keeps(T, last + 1, n, rest, todo, out, b.value)
    BY <2>1, <2>2, <2>3 DEF Keeps
  <2> QED
    BY <2>4 DEF Tracks, last
<1> QED
  BY <1>2, <1>3 DEF Tracks, last

\* What operations do one by one, they do as messages.
LEMMA MoreSteps ==
    ASSUME NEW s, NEW q, NEW v, Steps(OpSteps, s, q, v)
    PROVE  Steps(MsgSteps, s, q, v)
<1>1. OpSteps \subseteq MsgSteps
  BY DEF MsgSteps
<1>2. PICK S \in [0 .. Len(q) -> Seq(Chars)] :
          /\ S[0] = s /\ S[Len(q)] = v
          /\ \A i \in 1 .. Len(q) : <<S[i - 1], q[i], S[i]>> \in OpSteps
  BY DEF Steps, Leads
<1>3. \A i \in 1 .. Len(q) : <<S[i - 1], q[i], S[i]>> \in MsgSteps
  BY <1>1, <1>2
<1> QED
  BY <1>2, <1>3 DEF Steps, Leads

\* The tab does something, and sends it.
LEMMA TracksTyped ==
    ASSUME NEW T, NEW b, NEW n \in Nat, b.lastSeq \in Nat, b.lastSeq <= n, b.value \in Seq(Chars),
           NEW own \in SUBSET Nat, NEW todo, NEW out \in Seq(Sent), Tracks(T, b, n, own, todo, out),
           NEW c, c.lastSeq = b.lastSeq, c.base = b.base, NEW more \in Seq(Sent),
           Steps(OpSteps, b.value, more, c.value)
    PROVE  Tracks(T, c, n, own, todo, out \o more)
<1>1. CASE more = << >>
  <2>1. c.value = b.value
    BY <1>1, StepsNone
  <2>2. out \o more = out
    BY <1>1
  <2> QED
    BY <2>1, <2>2 DEF Tracks
<1>2. CASE more # << >>
  <2> DEFINE last == b.lastSeq
             all == out \o more
  <2>1. all # << >>
    <3>1. Len(all) = Len(out) + Len(more) /\ Len(more) > 0 /\ Len(out) \in Nat /\ Len(more) \in Nat
      BY <1>2, ConcatProperties
    <3> HIDE DEF all
    <3> QED
      BY <3>1
  <2>2. last \in Nat /\ last <= n /\ c.lastSeq = last
    OBVIOUS
  <2>3. Steps(MsgSteps, b.value, more, c.value)
    BY MoreSteps
  <2>4. ASSUME NEW w, Steps(MsgSteps, w, out, b.value) PROVE Steps(MsgSteps, w, all, c.value)
    BY <2>3, <2>4, StepsOn
  <2> HIDE DEF last, all
  <2>5. CASE Lost(last, n, own, todo, out)
    <3>1. Lost(last, n, own, todo, all)
      BY <2>1, <2>5 DEF Lost
    <3> QED
      BY <2>1, <2>2, <3>1 DEF Tracks, Busy, all
  <2>6. CASE Keeps(T, last, n, own, todo, out, b.value)
    <3>1. PICK k \in last .. n :
            /\ last + 1 .. k \subseteq own /\ \A o \in own : o <= k
            /\ todo # << >> \/ out # << >> => k = n
            /\ \E w \in Seq(Chars) : Steps(OpSteps, T[k], todo, w) /\ Steps(MsgSteps, w, out, b.value)
      BY <2>6 DEF Keeps
    <3>2. CASE k = n
      <4>1. Keeps(T, last, n, own, todo, all, c.value)
        BY <2>4, <3>1, <3>2 DEF Keeps
      <4> QED
        BY <2>1, <2>2, <4>1 DEF Tracks, Busy, all
    <3>3. CASE k # n
      <4>1. k + 1 \in last + 1 .. n /\ k + 1 \notin own
        BY <2>2, <3>1, <3>3
      <4>2. Lost(last, n, own, todo, all)
        BY <2>1, <4>1 DEF Lost
      <4> QED
        BY <2>1, <2>2, <4>2 DEF Tracks, Busy, all
    <3> QED
      BY <3>2, <3>3
  <2> QED
    BY <2>5, <2>6 DEF Tracks, last
<1> QED
  BY <1>1, <1>2

\* A message does its operation, or those of its batch.
LEMMA MsgStepIs ==
    ASSUME NEW s, NEW r, NEW w, <<s, r, w>> \in MsgSteps
    PROVE  /\ r.type \in {"insert", "delete"} => w = Applied(s, r)
           /\ r.type = "batch_sync" => Steps(OpSteps, s, r.ops, w)
<1>1. CASE <<s, r, w>> \in OpSteps
  BY <1>1 DEF OpSteps, Request, InsertRequest, DeleteRequest
<1>2. CASE r.type = "batch_sync" /\ Steps(OpSteps, s, r.ops, w)
  BY <1>2
<1> QED
  BY <1>1, <1>2 DEF MsgSteps

\* The server starts the batch that the tab sent.
LEMMA TracksBatch ==
    ASSUME NEW T \in Texts, NEW b, NEW n \in Nat, b.lastSeq \in Nat,
           NEW own, NEW out \in Seq(Sent), Tracks(T, b, n, own, << >>, out),
           out # << >>, Head(out).type = "batch_sync", Head(out).ops # << >>
    PROVE  Tracks(T, b, n, own, Head(out).ops, Tail(out))
<1> DEFINE last == b.lastSeq
           r == Head(out)
           rest == Tail(out)
<1>1. last \in Nat /\ r.type = "batch_sync" /\ r.ops # << >>
  OBVIOUS
<1>2. ASSUME NEW w, Steps(MsgSteps, w, out, b.value)
      PROVE  \E x \in Seq(Chars) : <<w, r, x>> \in MsgSteps /\ Steps(MsgSteps, x, rest, b.value)
  BY <1>2, StepsFirst
<1> HIDE DEF last, r, rest
<1>3. CASE Lost(last, n, own, << >>, out)
  <2>1. Lost(last, n, own, r.ops, rest)
    BY <1>1, <1>3 DEF Lost
  <2> QED
    BY <1>1, <2>1 DEF Tracks, Busy, last, r, rest
<1>4. CASE Keeps(T, last, n, own, << >>, out, b.value)
  <2>1. PICK k \in last .. n :
          /\ last + 1 .. k \subseteq own /\ \A o \in own : o <= k
          /\ k = n
          /\ \E w \in Seq(Chars) : Steps(OpSteps, T[k], << >>, w) /\ Steps(MsgSteps, w, out, b.value)
    BY <1>4 DEF Keeps
  <2>2. T[k] \in Seq(Chars)
    BY <1>1, <2>1 DEF Texts
  <2>3. Steps(MsgSteps, T[k], out, b.value)
    BY <2>1, <2>2, StepsNone
  <2>4. PICK x \in Seq(Chars) : <<T[k], r, x>> \in MsgSteps /\ Steps(MsgSteps, x, rest, b.value)
    BY <1>2, <2>3
  <2>5. Steps(OpSteps, T[k], r.ops, x)
    BY <1>1, <2>4, MsgStepIs
  <2>6. Keeps(T, last, n, own, r.ops, rest, b.value)
    BY <2>1, <2>4, <2>5 DEF Keeps
  <2> QED
    BY <1>1, <2>6 DEF Tracks, Busy, last, r, rest
<1> QED
  BY <1>3, <1>4 DEF Tracks, last

\* The server does the next thing that the tab asked for, as the tab did it.
LEMMA TracksServed ==
    ASSUME NEW T \in Texts, NEW U \in Texts, NEW b, NEW n \in Nat, Agree(T, U, n), b.lastSeq \in Nat,
           b.lastSeq <= n, NEW own \in SUBSET Nat, \A o \in own : o <= n,
           NEW todo \in Seq(Request), NEW out \in Seq(Sent),
           Tracks(T, b, n, own, todo, out), NEW rest, NEW left,
           \/ /\ todo = << >> /\ rest = << >> /\ out # << >> /\ left = Tail(out)
              /\ Head(out).type \in {"insert", "delete"} /\ U[n + 1] = Applied(T[n], Head(out))
           \/ /\ todo # << >> /\ rest = Tail(todo) /\ left = out
              /\ Head(todo).type \in {"insert", "delete"} /\ U[n + 1] = Applied(T[n], Head(todo))
    PROVE  Tracks(U, b, n + 1, own \cup {n + 1}, rest, left)
<1> DEFINE last == b.lastSeq
           more == own \cup {n + 1}
<1>1. last \in Nat /\ last <= n /\ more # {}
  OBVIOUS
<1>2. CASE Lost(last, n, own, todo, out)
  <2>1. PICK k \in last + 1 .. n : k \notin own
    BY <1>2 DEF Lost
  <2>2. k \in last + 1 .. n + 1 /\ k \notin more /\ n + 1 \in more /\ n + 1 > k
    BY <2>1
  <2> HIDE DEF last, more
  <2>3. Lost(last, n + 1, more, rest, left)
    BY <2>2 DEF Lost
  <2> QED
    BY <1>1, <2>3 DEF Tracks, Busy, last, more
<1>3. CASE Keeps(T, last, n, own, todo, out, b.value)
  <2> HIDE DEF last
  <2>1. PICK k \in last .. n, w \in Seq(Chars) :
          /\ last + 1 .. k \subseteq own /\ k = n
          /\ Steps(OpSteps, T[k], todo, w) /\ Steps(MsgSteps, w, out, b.value)
    BY <1>3 DEF Keeps
  <2>2. T[n] \in Seq(Chars) /\ U[n + 1] \in Seq(Chars)
    BY DEF Texts
  <2>3. \E x \in Seq(Chars) : Steps(OpSteps, U[n + 1], rest, x) /\ Steps(MsgSteps, x, left, b.value)
    <3>1. CASE todo = << >>
      <4>1. /\ rest = << >> /\ out # << >> /\ left = Tail(out)
            /\ Head(out).type \in {"insert", "delete"} /\ U[n + 1] = Applied(T[n], Head(out))
        BY <3>1
      <4>2. w = T[n]
        BY <2>1, <2>2, <3>1, StepsNone
      <4>3. PICK x \in Seq(Chars) :
              <<T[n], Head(out), x>> \in MsgSteps /\ Steps(MsgSteps, x, Tail(out), b.value)
        BY <2>1, <4>1, <4>2, StepsFirst
      <4>4. x = U[n + 1]
        BY <4>1, <4>3, MsgStepIs
      <4>5. Steps(OpSteps, U[n + 1], rest, x)
        BY <2>2, <4>1, <4>4, StepsNone
      <4> QED
        BY <4>1, <4>3, <4>5
    <3>2. CASE todo # << >>
      <4>1. /\ rest = Tail(todo) /\ left = out
            /\ Head(todo).type \in {"insert", "delete"} /\ U[n + 1] = Applied(T[n], Head(todo))
        BY <3>2
      <4>2. PICK x \in Seq(Chars) :
              <<T[n], Head(todo), x>> \in OpSteps /\ Steps(OpSteps, x, Tail(todo), w)
        BY <2>1, <3>2, StepsFirst
      <4>3. x = U[n + 1]
        BY <4>1, <4>2 DEF OpSteps
      <4> QED
        BY <2>1, <4>1, <4>2, <4>3
    <3> QED
      BY <3>1, <3>2
  <2>4. n + 1 \in last .. n + 1 /\ last + 1 .. n + 1 \subseteq more /\ \A o \in more : o <= n + 1
    BY <1>1, <2>1
  <2> HIDE DEF more
  <2>5. Keeps(U, last, n + 1, more, rest, left, b.value)
    BY <2>3, <2>4 DEF Keeps
  <2> QED
    BY <1>1, <2>5 DEF Tracks, Busy, last, more
<1> QED
  BY <1>2, <1>3 DEF Tracks, last

\* The tab is told the text of number c.lastSeq, and sends the edits that make its
\* own of it.
LEMMA TracksAnew ==
    ASSUME NEW T \in Texts, NEW c, NEW n \in Nat, c.lastSeq \in Nat, c.lastSeq <= n,
           c.base = c.value, NEW out, Steps(MsgSteps, T[c.lastSeq], out, c.value)
    PROVE  Tracks(T, c, n, {}, << >>, out)
<1> DEFINE last == c.lastSeq
<1>1. last \in Nat /\ last <= n /\ Steps(MsgSteps, T[last], out, c.value)
  OBVIOUS
<1> HIDE DEF last
<1>2. T[last] \in Seq(Chars)
  BY <1>1 DEF Texts
<1>3. CASE last = n \/ out = << >>
  <2>1. Steps(OpSteps, T[last], << >>, T[last])
    BY <1>2, StepsNone
  <2>2. last \in last .. n /\ last + 1 .. last \subseteq {}
    BY <1>1
  <2>3. Keeps(T, last, n, {}, << >>, out, c.value)
    BY <1>1, <1>2, <1>3, <2>1, <2>2 DEF Keeps
  <2> QED
    BY <2>3 DEF Tracks, last
<1>4. CASE last # n /\ out # << >>
  <2>1. last + 1 \in last + 1 .. n
    BY <1>1, <1>4
  <2>2. Lost(last, n, {}, << >>, out)
    BY <1>4, <2>1 DEF Lost
  <2> QED
    BY <2>2 DEF Tracks, last
<1> QED
  BY <1>3, <1>4

-----------------------------------------------------------------------------
(***************************************************************************)
(* Steps of the room, and of a tab that is shown nothing.                  *)
(***************************************************************************)

\* A message of another type adds none of this type.
LEMMA AddsHas ==
    ASSUME NEW q, NEW r, NEW m, Adds(q, r, m), NEW type, m.type # type
    PROVE  Has(r, type) <=> Has(q, type)
BY DEF Adds, Has

\* The number, the base and the connection of t stay, and its channel gets m, as
\* the room goes on.
LEMMA FollowsMoves ==
    ASSUME RoomKnown, Orderly, NEW t \in Clients, NEW T \in Texts, Follows(t, T), NEW U \in Texts,
           tab'[t].lastSeq = tab[t].lastSeq, tab'[t].base = tab[t].base,
           tab'[t].restoring = tab[t].restoring, user'[t] = user[t],
           t \in clients' <=> t \in clients,
           NEW m, m.type \notin {"full_sync", "replay_sync"}, Adds(send[t], send'[t], m),
           Agree(T, U, DocumentNumber),
           \A since \in Nat :
             Record(T, Past(t), since, DocumentNumber, DocumentText)
             => Record(U, Past(t)', since, DocumentNumber', DocumentText'),
           (/\ t \in clients /\ Record(T, Past(t), tab[t].lastSeq, DocumentNumber, DocumentText)
            /\ Tracks(T, tab[t], DocumentNumber, Own(t), Todo(t), up[t]))
             => Tracks(U, tab'[t], DocumentNumber', Own(t)', Todo(t)', up'[t])
    PROVE  Follows(t, U)'
<1> DEFINE q == send[t]
           last == tab[t].lastSeq
           n == DocumentNumber
<1>1. /\ n \in Nat /\ last \in Nat /\ last <= n
      /\ q \in Seq(Message)
  BY Typed, PastKnown
<1>2. KeepsAll(q, send'[t])
  BY AddsKeepsAll
<1>3. /\ Has(send'[t], "full_sync") <=> Has(q, "full_sync")
      /\ Has(send'[t], "replay_sync") <=> Has(q, "replay_sync")
  BY AddsHas
<1>4. CASE Has(q, "full_sync")
  <2>1. FullAt(T, q, last, Past(t), n, DocumentText)
    BY <1>4 DEF Follows
  <2>2. FullAt(U, send'[t], last, Past(t)', DocumentNumber', DocumentText')
    BY <1>1, <1>2, <2>1, FullMoves
  <2> QED
    BY <1>3, <1>4, <2>2 DEF Follows
<1>5. CASE ~Has(q, "full_sync")
  <2>1. /\ ~tab[t].restoring /\ Record(T, Past(t), last, n, DocumentText)
        /\ IF Has(q, "replay_sync")
           THEN tab[t].base = T[last] /\ ReplayAt(T, q[1], last, user[t])
           ELSE IF t \in clients
           THEN Tracks(T, tab[t], n, Own(t), Todo(t), up[t])
           ELSE last > 0 => tab[t].base = T[last]
    BY <1>5 DEF Follows
  <2>2. Record(U, Past(t)', last, DocumentNumber', DocumentText')
    BY <1>1, <2>1
  <2>3. U[last] = T[last]
    BY <1>1 DEF Agree
  <2>4. CASE Has(q, "replay_sync")
    <3>1. 1 \in DOMAIN q
      <4>1. InOrder(tab[t], strayed[t], q, up[t], t \in clients)
        BY DEF Orderly
      <4> QED
        BY <2>4, <4>1 DEF Has, InOrder
    <3>2. q[1] \in Message /\ send'[t][1] = q[1]
      BY <1>1, <1>2, <3>1 DEF KeepsAll
    <3>3. q[1].seq <= n
      <4>1. q[1].seq <= seqNum
        BY <3>1 DEF RoomKnown, OutboxOrdered
      <4>2. live
        BY <3>1 DEF RoomKnown, EditorInv, RoomInv, Occupied
      <4> QED
        BY <4>1, <4>2 DEF DocumentNumber
    <3>4. ReplayAt(T, q[1], last, user[t])
      BY <2>1, <2>4
    <3> HIDE DEF q, last, n
    <3>5. ReplayAt(U, q[1], last, user[t])
      BY <1>1, <3>2, <3>3, <3>4, ReplayMoves DEF n
    <3> QED
      BY <1>3, <1>5, <2>1, <2>2, <2>3, <2>4, <3>2, <3>5 DEF Follows, q, last
  <2>5. CASE ~Has(q, "replay_sync")
    BY <1>3, <1>5, <2>1, <2>2, <2>3, <2>5 DEF Follows
  <2> QED
    BY <2>4, <2>5
<1> QED
  BY <1>4, <1>5

\* A step that leaves the room and the channel of t.
LEMMA FollowsStays ==
    ASSUME RoomKnown, Orderly, NEW t \in Clients, NEW T \in Texts, Follows(t, T),
           tab'[t].lastSeq = tab[t].lastSeq, tab'[t].base = tab[t].base,
           tab'[t].restoring = tab[t].restoring, user'[t] = user[t],
           t \in clients' <=> t \in clients, SameRoom, Adds(send[t], send'[t], Signal),
           t \in clients /\ Tracks(T, tab[t], DocumentNumber, Own(t), Todo(t), up[t])
             => Tracks(T, tab'[t], DocumentNumber', Own(t)', Todo(t)', up'[t])
    PROVE  Follows(t, T)'
<1>1. ~IsOp(Signal) /\ Signal.type \notin {"full_sync", "replay_sync"}
  BY DEF Signal, IsOp
<1>2. Past(t)' \subseteq Past(t)
  BY <1>1, OpsAdded, PastStays
<1>3. DocumentNumber' = DocumentNumber /\ DocumentText' = DocumentText
  BY DEF SameRoom
<1>4. \A since \in Nat :
         Record(T, Past(t), since, DocumentNumber, DocumentText)
         => Record(T, Past(t)', since, DocumentNumber', DocumentText')
  BY <1>2, <1>3 DEF Record
<1>5. Agree(T, T, DocumentNumber)
  BY DEF Agree
<1> QED
  BY <1>1, <1>4, <1>5, FollowsMoves

\* What is added to the channel of t is no operation of its own.
LEMMA SameOwn ==
    ASSUME NEW t, NEW m, Adds(send[t], send'[t], m), user'[t] = user[t],
           IsOp(m) => m.userID # user[t]
    PROVE  Own(t)' = Own(t)
<1>1. Ops(send[t]) \subseteq Ops(send'[t])
      /\ Ops(send'[t]) \subseteq Ops(send[t]) \cup (IF IsOp(m) THEN {m} ELSE {})
  BY OpsAdded
<1> QED
  BY <1>1 DEF Own

\* A tab follows the room through the steps that are not about it.
LEMMA ElsewhereFollows ==
    ASSUME RoomKnown, Orderly, NEW t \in Clients, Elsewhere(t), strayed'[t] \subseteq Excused,
           NEW T \in Texts, Follows(t, T)
    PROVE  \E U \in Texts : Follows(t, U)'
<1>1. /\ tab'[t] = tab[t] /\ up'[t] = up[t] /\ user'[t] = user[t] /\ Todo(t)' = Todo(t)
      /\ t \in clients' <=> t \in clients
  BY DEF Elsewhere
<1>2. CASE SameRoom /\ Adds(send[t], send'[t], Signal)
  <2>1. Own(t)' = Own(t)
    BY <1>1, <1>2, SameOwn, SignalProperties
  <2>2. DocumentNumber' = DocumentNumber
    BY <1>2 DEF SameRoom
  <2>3. Follows(t, T)'
    BY <1>1, <1>2, <2>1, <2>2, FollowsStays
  <2> QED
    BY <2>3
<1>3. ASSUME NEW op, Grows(op), t \in clients => op.userID # user[t], Adds(send[t], send'[t], op)
      PROVE  \E U \in Texts : Follows(t, U)'
  <2>1. PICK U \in Texts :
          /\ Agree(T, U, DocumentNumber)
          /\ DocumentNumber' \in {DocumentNumber, DocumentNumber + 1}
          /\ \A since \in Nat :
               Record(T, Past(t), since, DocumentNumber, DocumentText)
               => Record(U, Past(t)', since, DocumentNumber', DocumentText')
    BY <1>3, RecordMoves
  <2>2. op.type \notin {"full_sync", "replay_sync"}
    BY <1>3, OpKinds DEF Grows, InsertOp, DeleteOp
  <2>3. ASSUME t \in clients, Tracks(T, tab[t], DocumentNumber, Own(t), Todo(t), up[t])
        PROVE  Tracks(U, tab'[t], DocumentNumber', Own(t)', Todo(t)', up'[t])
    <3>1. Own(t)' = Own(t)
      BY <1>1, <1>3, <2>3, SameOwn
    <3>2. /\ DocumentNumber \in Nat /\ tab[t].lastSeq \in Nat /\ tab[t].lastSeq <= DocumentNumber
          /\ Own(t) \in SUBSET Nat /\ \A k \in Own(t) : k <= DocumentNumber
      BY PastKnown
    <3>3. PICK m \in {DocumentNumber, DocumentNumber + 1} : m = DocumentNumber'
      BY <2>1
    <3>4. Tracks(U, tab[t], m, Own(t), Todo(t), up[t])
      <4> DEFINE n == DocumentNumber
                 b == tab[t]
                 own == Own(t)
      <4>1. /\ n \in Nat /\ b.lastSeq \in Nat /\ b.lastSeq <= n
            /\ own \in SUBSET Nat /\ \A k \in own : k <= n
            /\ Agree(T, U, n) /\ m \in {n, n + 1} /\ Tracks(T, b, n, own, Todo(t), up[t])
        BY <2>1, <2>3, <3>2, <3>3
      <4> HIDE DEF n, b, own
      <4>2. Tracks(U, b, m, own, Todo(t), up[t])
        BY <4>1, TracksOthers
      <4> QED
        BY <4>2 DEF b, own
    <3> QED
      BY <1>1, <3>1, <3>3, <3>4
  <2>4. Follows(t, U)'
    BY <1>1, <1>3, <2>1, <2>2, <2>3, FollowsMoves
  <2> QED
    BY <2>4
<1> QED
  BY <1>2, <1>3 DEF Elsewhere

\* A tab that opens its connection follows the room as before.
LEMMA OpenFollows ==
    ASSUME RoomKnown, Orderly, NEW t \in Clients, Open(t), NEW T \in Texts, Follows(t, T)
    PROVE  Follows(t, T)'
<1>1. UNCHANGED <<vars, tab, strayed>> /\ t \notin clients
  BY OpenSelf
<1>2. SameRoom /\ Adds(send[t], send'[t], Signal)
  BY <1>1, RoomStays, SameQueue DEF vars, RoomKnown, EditorInv
<1> QED
  BY <1>1, <1>2, FollowsStays DEF vars

\* What is typed is on its way, or kept as an edit that a full text is merged with.
LEMMA TypeFollows ==
    ASSUME RoomKnown, Orderly, NEW t \in Clients, Type(t), NEW T \in Texts, Follows(t, T)
    PROVE  Follows(t, T)'
<1>1. UNCHANGED vars
  BY TypeSelf
<1>2. SameRoom /\ Adds(send[t], send'[t], Signal)
  BY <1>1, RoomStays, SameQueue DEF vars, RoomKnown, EditorInv
<1>3. PICK new \in Seq(Chars) :
        /\ diffToOps(tab[t], new) \in Seq(Request) /\ diffToOps(tab[t], new) \in Seq(Sent)
        /\ up'[t] = IF Connected(t) THEN up[t] \o diffToOps(tab[t], new) ELSE up[t]
        /\ SameSession(tab[t], tab'[t]) /\ tab'[t].value = new
  BY TypeSelf
<1>4. ASSUME t \in clients, Tracks(T, tab[t], DocumentNumber, Own(t), Todo(t), up[t])
      PROVE  Tracks(T, tab'[t], DocumentNumber', Own(t)', Todo(t)', up'[t])
  <2> DEFINE more == diffToOps(tab[t], new)
             c == tab'[t]
             value == tab[t].value
  <2>1. up'[t] = up[t] \o more
    BY <1>3, <1>4 DEF Connected
  <2>2. Own(t)' = Own(t) /\ Todo(t)' = Todo(t) /\ DocumentNumber' = DocumentNumber
    BY <1>1 DEF vars, Own, Todo, DocumentNumber
  <2>3. /\ DocumentNumber \in Nat /\ tab[t].lastSeq \in Nat /\ tab[t].lastSeq <= DocumentNumber
        /\ Own(t) \in SUBSET Nat
    BY PastKnown
  <2>4. Aligned(tab[t]) /\ value \in Seq(Chars) /\ up[t] \in Seq(Sent)
    BY Typed DEF Tab
  <2>5. Steps(OpSteps, value, more, new)
    BY <2>4, DiffShows
  <2>6. more \in Seq(Sent) /\ c.lastSeq = tab[t].lastSeq /\ c.base = tab[t].base /\ c.value = new
    BY <1>3 DEF SameSession
  <2> HIDE DEF more, c, value
  <2>7. Tracks(T, c, DocumentNumber, Own(t), Todo(t), up[t] \o more)
    BY <1>4, <2>3, <2>4, <2>5, <2>6, TracksTyped DEF value
  <2> QED
    BY <2>1, <2>2, <2>7 DEF c
<1>5. /\ tab'[t].lastSeq = tab[t].lastSeq /\ tab'[t].base = tab[t].base
      /\ tab'[t].restoring = tab[t].restoring
  BY <1>3 DEF SameSession
<1> QED
  BY <1>1, <1>2, <1>4, <1>5, FollowsStays DEF vars

\* The operations of a batch are on their way before and after the room takes it.
LEMMA BatchFollows ==
    ASSUME RoomKnown, Orderly, NEW t \in Clients, ServeBatch(t), NEW T \in Texts, Follows(t, T)
    PROVE  Follows(t, T)'
<1> DEFINE r == Head(up[t])
<1>1. /\ Takes(t, "batch_sync") /\ Free(t) /\ r.ops # << >> /\ Todo(t)' = r.ops
      /\ UNCHANGED <<live, doc, seqNum, opLog, db, clients, user, send, strayed>>
  BY BatchSelf
<1>2. /\ r.type = "batch_sync" /\ up[t] # << >> /\ up'[t] = Tail(up[t]) /\ tab'[t] = tab[t]
      /\ t \in clients /\ Todo(t) = << >>
  BY <1>1, TakesSelf
<1>3. SameRoom /\ Adds(send[t], send'[t], Signal)
  BY <1>1, RoomStays, SameQueue DEF RoomKnown, EditorInv
<1>4. ASSUME Tracks(T, tab[t], DocumentNumber, Own(t), Todo(t), up[t])
      PROVE  Tracks(T, tab'[t], DocumentNumber', Own(t)', Todo(t)', up'[t])
  <2>1. Own(t)' = Own(t) /\ DocumentNumber' = DocumentNumber
    BY <1>1 DEF Own, DocumentNumber
  <2>2. DocumentNumber \in Nat /\ tab[t].lastSeq \in Nat
    BY PastKnown
  <2>3. up[t] \in Seq(Sent)
    BY Typed
  <2>4. Tracks(T, tab[t], DocumentNumber, Own(t), r.ops, Tail(up[t]))
    BY <1>1, <1>2, <1>4, <2>2, <2>3, TracksBatch
  <2> QED
    BY <1>1, <1>2, <2>1, <2>4
<1> QED
  BY <1>1, <1>2, <1>3, <1>4, FollowsStays

-----------------------------------------------------------------------------
(***************************************************************************)
(* Steps of the server for a tab.                                          *)
(***************************************************************************)

\* What the server did for t it did where t did it, and t is told.
LEMMA ServedRight ==
    ASSUME NEW t \in Clients, NEW r, strayed'[t] = strayed[t] \cup ServeCauses(t, r),
           strayed'[t] \subseteq Excused
    PROVE  /\ seqNum' # seqNum /\ opLog'[Len(opLog')].position = r.Position
           /\ Len(send[t]) # SendBuf
<1>1. ServeCauses(t, r) \subseteq Excused
  OBVIOUS
<1>2. {"crossed", "misnamed", "skipped"} \subseteq Causes
      /\ {"crossed", "misnamed", "skipped"} \cap Excused = {}
  BY DEF Causes, Excused
<1>3. seqNum' # seqNum /\ opLog'[Len(opLog')].position = r.Position
  <2> SUFFICES ASSUME seqNum' = seqNum \/ opLog'[Len(opLog')].position # r.Position PROVE FALSE
    OBVIOUS
  <2>1. (IF strayed[t] \cap {"reloaded", "relabelled", "retyped"} # {} THEN "misnamed" ELSE "crossed")
        \in ServeCauses(t, r)
    BY <1>2 DEF ServeCauses
  <2> QED
    BY <1>1, <1>2, <2>1
<1>4. Len(send[t]) # SendBuf
  <2> SUFFICES ASSUME Len(send[t]) = SendBuf PROVE FALSE
    OBVIOUS
  <2>1. "skipped" \in ServeCauses(t, r)
    BY <1>2 DEF ServeCauses
  <2> QED
    BY <1>1, <1>2, <2>1
<1> QED
  BY <1>3, <1>4

\* The room publishes the operation of the tab where the tab asked for it, and tells it.
LEMMA ServedEcho ==
    ASSUME RoomKnown, NEW t \in clients, NEW r \in Request, applyOp(t, r),
           UNCHANGED <<live, clients, user>>,
           opLog'[Len(opLog')].position = r.Position, Len(send[t]) # SendBuf
    PROVE  \E op : /\ Grows(op) /\ Adds(send[t], send'[t], op) /\ op \in Ops(send'[t])
                   /\ op.userID = user[t] /\ op.position = r.Position /\ Echoes(op, t, r)
                   /\ \A text : Shown(text, op) = Applied(text, r)
<1>1. t \in Clients /\ RoomInv /\ TypeOK /\ send[t] \in Seq(Message)
  BY Typed DEF RoomInv
<1>2. PICK op : Grows(op) /\ Echoes(op, t, r) /\ Adds(send[t], send'[t], op)
  BY <1>1, ServedGrows
<1>3. op \in Op /\ Publish(op) /\ op \in Message /\ IsOp(op)
  BY <1>2, MessageKinds, OpKinds DEF Grows, IsOp
<1>4. op.position = r.Position
  BY <1>1, <1>3, LastLogged
<1>5. \A text : Shown(text, op) = Applied(text, r)
  BY <1>2, <1>4 DEF Shown, Applied, Echoes
<1>6. op \in Ops(send'[t])
  <2>1. Len(send[t]) < SendBuf
    <3>1. Len(send[t]) <= SendBuf /\ Len(send[t]) \in Nat /\ SendBuf \in Nat
      BY <1>1, BufferAssumption DEF RoomKnown, EditorInv, ChannelsOK
    <3> QED
      BY <3>1
  <2>2. send'[t] = safeSend(send[t], op)
    BY <1>1, <1>3 DEF Publish, Broadcast
  <2>3. \E j \in DOMAIN send'[t] : send'[t][j] = op
    BY <1>1, <1>3, <2>1, <2>2, SafeSendAdds
  <2> QED
    BY <1>3, <2>3 DEF Ops
<1> QED
  BY <1>2, <1>4, <1>5, <1>6 DEF Echoes

\* An operation that was on its way becomes one that the tab will be told of.
LEMMA ServedFollows ==
    ASSUME RoomKnown, Orderly, NEW t \in clients, NEW T \in Texts, Follows(t, T),
           NEW r \in Request, applyOp(t, r) \/ seqNum' = seqNum,
           UNCHANGED <<live, clients, user>>, tab'[t] = tab[t],
           strayed'[t] = strayed[t] \cup ServeCauses(t, r), strayed'[t] \subseteq Excused,
           \/ /\ Todo(t) = << >> /\ Todo(t)' = << >> /\ up[t] # << >>
              /\ up'[t] = Tail(up[t]) /\ r = Head(up[t])
           \/ /\ Todo(t) # << >> /\ Todo(t)' = Tail(Todo(t)) /\ up'[t] = up[t] /\ r = Head(Todo(t))
    PROVE  \E U \in Texts : Follows(t, U)'
<1>1. t \in Clients /\ up[t] \in Seq(Sent) /\ RoomInv
  BY Typed
<1>2. /\ seqNum' # seqNum /\ opLog'[Len(opLog')].position = r.Position
      /\ Len(send[t]) # SendBuf
  BY <1>1, ServedRight
<1>3. PICK op : /\ Grows(op) /\ Adds(send[t], send'[t], op) /\ op \in Ops(send'[t])
                /\ op.userID = user[t]
                /\ \A text : Shown(text, op) = Applied(text, r)
  BY <1>2, ServedEcho
<1>4. PICK U \in Texts :
        /\ Agree(T, U, DocumentNumber)
        /\ \A since \in Nat :
             Record(T, Past(t), since, DocumentNumber, DocumentText)
             => Record(U, Past(t)', since, DocumentNumber', DocumentText')
  BY <1>1, <1>3, RecordMoves
<1>5. op.type \notin {"full_sync", "replay_sync"}
  BY <1>3, OpKinds DEF Grows, InsertOp, DeleteOp
<1>6. /\ DocumentNumber' = DocumentNumber + 1 /\ op.seq = DocumentNumber + 1
      /\ DocumentText' = Shown(DocumentText, op)
  BY <1>3 DEF Grows, Publish, Fits, DocumentNumber, DocumentText
<1>7. Own(t)' = Own(t) \cup {DocumentNumber + 1}
  <2>1. /\ Ops(send[t]) \subseteq Ops(send'[t])
        /\ Ops(send'[t]) \subseteq Ops(send[t]) \cup {op}
    BY <1>3, OpsAdded
  <2>2. user'[t] = user[t]
    OBVIOUS
  <2> QED
    BY <1>3, <1>6, <2>1, <2>2 DEF Own
<1>8. Todo(t) \in Seq(Request)
  BY <1>1, TaskTypes DEF Todo, RoomInv
<1>9. ASSUME Record(T, Past(t), tab[t].lastSeq, DocumentNumber, DocumentText),
             Tracks(T, tab[t], DocumentNumber, Own(t), Todo(t), up[t])
      PROVE  Tracks(U, tab'[t], DocumentNumber', Own(t)', Todo(t)', up'[t])
  <2> DEFINE n == DocumentNumber
             b == tab[t]
             own == Own(t)
             todo == Todo(t)
             out == up[t]
             rest == Todo(t)'
             left == up'[t]
  <2>1. /\ n \in Nat /\ b.lastSeq \in Nat /\ b.lastSeq <= n
        /\ own \in SUBSET Nat /\ \A k \in own : k <= n
    BY <1>1, PastKnown
  <2>2. r.type \in {"insert", "delete"}
    BY DEF Request, InsertRequest, DeleteRequest
  <2>3. U[n + 1] = Applied(T[n], r)
    <3>1. T[n] = DocumentText
      BY <1>9 DEF Record
    <3>2. U[n + 1] = DocumentText'
      BY <1>4, <1>6, <1>9, <2>1 DEF Record
    <3> QED
      BY <1>3, <1>6, <3>1, <3>2
  <2>4. /\ todo \in Seq(Request) /\ out \in Seq(Sent) /\ Agree(T, U, n)
        /\ Tracks(T, b, n, own, todo, out)
    BY <1>1, <1>4, <1>8, <1>9
  <2>5. \/ /\ todo = << >> /\ rest = << >> /\ out # << >> /\ left = Tail(out) /\ r = Head(out)
        \/ /\ todo # << >> /\ rest = Tail(todo) /\ left = out /\ r = Head(todo)
    OBVIOUS
  <2> HIDE DEF n, b, own, todo, out, rest, left
  <2>6. Tracks(U, b, n + 1, own \cup {n + 1}, rest, left)
    BY <2>1, <2>2, <2>3, <2>4, <2>5, TracksServed
  <2> QED
    BY <1>6, <1>7, <2>6 DEF n, b, own, rest, left
<1>10. Follows(t, U)'
  BY <1>1, <1>3, <1>4, <1>5, <1>9, FollowsMoves
<1> QED
  BY <1>10

\* One that the tab sent alone.
LEMMA OpFollows ==
    ASSUME RoomKnown, Orderly, NEW t \in Clients, NEW type \in {"insert", "delete"}, ServeOp(t, type),
           strayed'[t] \subseteq Excused, NEW T \in Texts, Follows(t, T)
    PROVE  \E U \in Texts : Follows(t, U)'
<1> DEFINE r == Head(up[t])
<1>1. /\ Takes(t, type) /\ Free(t) /\ r \in Request
      /\ strayed'[t] = strayed[t] \cup ServeCauses(t, r)
      /\ HandleOp(t, r) \/ UNCHANGED vars
  BY OpSelf
<1>2. /\ up[t] # << >> /\ up'[t] = Tail(up[t]) /\ tab'[t] = tab[t]
      /\ t \in clients /\ Todo(t) = << >>
  BY <1>1, TakesSelf
<1> HIDE DEF r
<1>3. /\ UNCHANGED <<live, clients, user, task>>
      /\ applyOp(t, r) \/ seqNum' = seqNum
  BY <1>1 DEF HandleOp, vars
<1>4. Todo(t)' = << >>
  BY <1>2, <1>3 DEF Todo
<1> QED
  BY <1>1, <1>2, <1>3, <1>4, ServedFollows DEF r

\* One of a batch.
LEMMA BatchOpFollows ==
    ASSUME RoomKnown, Orderly, NEW t \in Clients, ServeBatchOp, task.who = t,
           strayed'[t] \subseteq Excused, NEW T \in Texts, Follows(t, T)
    PROVE  \E U \in Texts : Follows(t, U)'
<1> DEFINE r == Head(task.todo)
<1>1. /\ t \in clients /\ r \in Request
      /\ Todo(t) = task.todo /\ task.todo # << >> /\ Todo(t)' = Tail(task.todo)
      /\ strayed'[t] = strayed[t] \cup ServeCauses(t, r)
      /\ UNCHANGED <<tab, up, live, clients, user>>
      /\ applyOp(t, r) \/ seqNum' = seqNum
  BY BatchOpSelf
<1> HIDE DEF r
<1> QED
  BY <1>1, ServedFollows DEF r

-----------------------------------------------------------------------------
(***************************************************************************)
(* Connections that begin and end, and what a tab is told to start from.   *)
(***************************************************************************)

\* What is behind number since in a log without a gap.
LEMMA MissedProperties ==
    ASSUME NEW log \in Seq(Op), NEW n \in Nat, \A i \in DOMAIN log : log[i].seq = n - Len(log) + i,
           NEW since \in Nat, since <= n
    PROVE  /\ Len(Missed(log, since)) \in Nat
           /\ \A i \in DOMAIN Missed(log, since) :
                /\ Missed(log, since)[i].seq = n - Len(Missed(log, since)) + i
                /\ Missed(log, since)[i].seq > since
                /\ Missed(log, since)[i] \in Range(log)
<1> DEFINE N == Len(log)
           seen == {i \in DOMAIN log : log[i].seq <= since}
           c == IF since - n + N < 0 THEN 0 ELSE since - n + N
           ops == Missed(log, since)
<1>1. N \in Nat /\ DOMAIN log = 1 .. N /\ c \in 0 .. N
  OBVIOUS
<1>2. seen = 1 .. c
  BY <1>1
<1>3. Cardinality(1 .. c) = c
  <2> HIDE DEF c
  <2>1. c \in Int /\ c >= 0 /\ 1 \in Int
    BY <1>1
  <2>2. Cardinality(1 .. c) = IF 1 > c THEN 0 ELSE c - 1 + 1
    BY <2>1, FS_Interval
  <2> QED
    BY <2>1, <2>2
<1>4. ops = SubSeq(log, c + 1, N)
  BY <1>2, <1>3 DEF Missed
<1> HIDE DEF seen, ops
<1>5. /\ ops \in Seq(Op) /\ Len(ops) = N - c
      /\ \A i \in 1 .. N - c : ops[i] = log[c + i]
  <2> HIDE DEF c
  <2>1. \A i \in c + 1 .. N : log[i] \in Op
    BY <1>1
  <2>2. c + 1 \in Int /\ N \in Int
    BY <1>1
  <2> HIDE DEF N, Op
  <2>3. /\ SubSeq(log, c + 1, N) \in Seq(Op)
        /\ Len(SubSeq(log, c + 1, N)) = IF c + 1 <= N THEN N - (c + 1) + 1 ELSE 0
        /\ \A i \in 1 .. N - (c + 1) + 1 : SubSeq(log, c + 1, N)[i] = log[c + 1 + i - 1]
    BY <2>1, <2>2, SubSeqProperties
  <2>4. N - (c + 1) + 1 = N - c /\ \A i \in 1 .. N - c : c + 1 + i - 1 = c + i
    BY <1>1
  <2>5. Len(ops) = N - c
    BY <1>1, <1>4, <2>3
  <2> QED
    BY <1>4, <2>3, <2>4, <2>5
<1>6. ASSUME NEW i \in DOMAIN ops
      PROVE  ops[i].seq = n - Len(ops) + i /\ ops[i].seq > since /\ ops[i] \in Range(log)
  <2>1. i \in 1 .. N - c
    BY <1>1, <1>5
  <2>2. c + i \in DOMAIN log /\ ops[i] = log[c + i]
    <3> HIDE DEF c
    <3>1. c + i \in 1 .. N
      BY <1>1, <2>1
    <3> HIDE DEF N
    <3> QED
      BY <1>1, <1>5, <2>1, <3>1
  <2>3. ops[i].seq = n - N + (c + i)
    BY <2>2
  <2>4. ops[i].seq > since
    BY <1>1, <2>1, <2>3
  <2>5. ops[i].seq = n - Len(ops) + i
    <3> HIDE DEF c
    <3> QED
      BY <1>1, <1>5, <2>1, <2>3
  <2> QED
    BY <2>2, <2>4, <2>5 DEF Range
<1>7. Len(ops) \in Nat
  BY <1>5
<1> QED
  BY <1>6, <1>7 DEF ops

\* A tab that is told the whole text can start from there.
LEMMA FullFollows ==
    ASSUME RoomKnown', NEW t \in Clients, NEW g, g \in DOMAIN send'[t],
           send'[t][g].type = "full_sync", send'[t][g].seq = DocumentNumber',
           send'[t][g].content = DocumentText',
           \A j \in 1 .. g - 1 : send'[t][j].seq <= DocumentNumber',
           \A op \in Past(t)' : op.seq \in Nat /\ op.seq <= DocumentNumber'
    PROVE  \E U \in Texts : Follows(t, U)'
<1>1. /\ DocumentText' \in Seq(Chars) /\ DocumentNumber' \in Nat
      /\ tab'[t].lastSeq <= DocumentNumber'
  <2>1. TypeOK'
    BY DEF RoomKnown, EditorInv, RoomInv
  <2>2. /\ doc' \in Seq(Node(Chars)) /\ seqNum' \in Nat
        /\ db' \in [content : Seq(Chars), seq : Nat]
    BY <2>1 DEF TypeOK
  <2>3. DocString(doc') \in Seq(Chars)
    BY <2>2, DocStringType
  <2> QED
    BY <2>2, <2>3 DEF DocumentText, DocumentNumber, RoomKnown, NumbersAhead
<1>2. PICK text \in Seq(Chars) : text = DocumentText'
  BY <1>1
<1> DEFINE U == [k \in Nat |-> text]
<1>3. U \in Texts /\ \A k \in Nat : U[k] = text
  BY DEF Texts
<1> HIDE DEF U
<1>4. Record(U, Past(t)', DocumentNumber', DocumentNumber', DocumentText')
  BY <1>1, <1>2, <1>3 DEF Record
<1>5. Has(send'[t], "full_sync")
  BY DEF Has
<1>6. FullAt(U, send'[t], tab'[t].lastSeq, Past(t)', DocumentNumber', DocumentText')
  BY <1>1, <1>2, <1>3, <1>4 DEF FullAt
<1>7. Follows(t, U)'
  BY <1>5, <1>6 DEF Follows
<1> QED
  BY <1>3, <1>7

\* A restore that is answered gives the tab a text of the document to start from.
LEMMA RestoreFollows ==
    ASSUME RoomKnown, RoomKnown', Orderly, NEW t \in Clients, ServeRestore(t),
           strayed'[t] \subseteq Excused
    PROVE  \E U \in Texts : Follows(t, U)'
<1> DEFINE q == send[t]
           m == buildFullSync
<1>1. /\ Takes(t, "restore") /\ Free(t)
      /\ UNCHANGED <<live, seqNum, opLog, db, clients, user, userSeq, task>> /\ live
      /\ \/ strayed'[t] = strayed[t] \cup {"unanswered"}
         \/ Len(q) < SendBuf /\ send'[t] = Append(q, m)
      /\ Sendable(m) /\ m.type = "full_sync"
  BY RestoreSelf DEF RoomKnown, EditorInv
<1>2. q \in Seq(Message) /\ up[t] # << >> /\ Head(up[t]).type = "restore" /\ up[t] \in Seq(Sent)
  BY <1>1, Typed, TakesSelf
<1>3. send'[t] = Append(q, m) /\ Len(q) < SendBuf
  <2>1. Has(up[t], "restore")
    <3>1. 1 \in DOMAIN up[t] /\ up[t][1] = Head(up[t])
      BY <1>2
    <3> QED
      BY <1>2, <3>1 DEF Has
  <2>2. "torn" \in strayed[t]
    BY <2>1 DEF Orderly, InOrder
  <2>3. "torn" \notin Excused
    BY DEF Excused
  <2> QED
    BY <1>1, <2>2, <2>3
<1>4. m.seq = seqNum /\ m.content = DocString(doc')
  BY <1>1 DEF buildFullSync
<1>5. /\ DocumentNumber' = DocumentNumber /\ m.seq = DocumentNumber'
      /\ m.content = DocumentText' /\ DocumentNumber' = seqNum
  BY <1>1, <1>4 DEF DocumentNumber, DocumentText
<1>6. m \in Message /\ ~IsOp(m)
  BY <1>1, MessageTypes DEF Sendable, Matched
<1> HIDE DEF m
<1> DEFINE g == Len(q) + 1
<1>7. /\ g \in DOMAIN send'[t] /\ send'[t][g] = m
      /\ \A j \in 1 .. g - 1 : j \in DOMAIN q /\ send'[t][j] = q[j]
      /\ Adds(q, send'[t], m)
  <2>1. Adds(q, send'[t], m)
    <3> HIDE DEF q
    <3>1. safeSend(q, m) = Append(q, m)
      BY <1>3 DEF safeSend
    <3>2. Adds(q, safeSend(q, m), m)
      BY <1>2, <1>6, SafeSendAdds
    <3> QED
      BY <1>3, <3>1, <3>2
  <2> HIDE DEF q
  <2>2. /\ Len(Append(q, m)) = g /\ Append(q, m)[g] = m /\ g \in Nat
        /\ Append(q, m) \in Seq(Message)
        /\ \A j \in 1 .. g - 1 : j \in DOMAIN q /\ Append(q, m)[j] = q[j]
    BY <1>2, <1>6, AppendProperties
  <2> QED
    BY <1>3, <2>1, <2>2
<1>8. \A j \in 1 .. g - 1 : send'[t][j].seq <= DocumentNumber'
  BY <1>5, <1>7 DEF RoomKnown, OutboxOrdered
<1>9. \A op \in Past(t)' : op.seq \in Nat /\ op.seq <= DocumentNumber'
  <2>1. Ops(send'[t]) \subseteq Ops(q)
    BY <1>6, <1>7, OpsAdded
  <2>2. Past(t)' \subseteq Past(t)
    BY <1>1, <2>1 DEF Past
  <2> QED
    BY <1>5, <2>2, PastKnown
<1> HIDE DEF g
<1> QED
  BY <1>1, <1>5, <1>7, <1>8, <1>9, FullFollows

\* A greeting brings the text of the document, or takes the tab from the text of its
\* number to that of the document.
LEMMA JoinFollows ==
    ASSUME Working, RoomKnown, RoomKnown', Orderly, NEW t \in Clients, ServeJoin(t),
           strayed'[t] \subseteq Excused,
           strayed[t] \subseteq Excused => \E T \in Texts : Follows(t, T)
    PROVE  \E U \in Texts : Follows(t, U)'
<1> DEFINE r == Head(up[t])
           g == Greeting(r.lastSeq, r.hasOfflineEdits)
           last == tab[t].lastSeq
<1>1. /\ r \in Sent /\ r.type = "join" /\ up[t] # << >> /\ r.lastSeq \in Nat
      /\ t \notin clients /\ t \in clients' /\ tab'[t] = tab[t]
      /\ OpenRoom /\ UNCHANGED <<task, db>> /\ live'
      /\ user'[t] = userSeq + 1
      /\ Adds(<<g>>, send'[t], Signal) /\ Sendable(g)
      /\ g.type \in {"full_sync", "replay_sync"}
      /\ strayed'[t] = IF g.type = "full_sync" THEN {} ELSE strayed[t]
  BY JoinSelf DEF RoomKnown, EditorInv
<1>2. r.lastSeq = last
  <2>1. 1 \in DOMAIN up[t] /\ up[t][1] = r
    <3>1. up[t] \in Seq(Sent)
      BY Typed
    <3> QED
      BY <1>1, <3>1
  <2>2. InOrder(tab[t], strayed[t], send[t], up[t], t \in clients)
    BY DEF Orderly
  <2> HIDE DEF r
  <2> QED
    BY <1>1, <2>1, <2>2 DEF InOrder
<1>3. SameRoom
  BY <1>1, OpenSame
<1>4. /\ DocumentNumber' = seqNum' /\ DocumentText' = DocString(doc')
      /\ DocumentNumber' = DocumentNumber /\ DocumentText' = DocumentText
  BY <1>1, <1>3 DEF DocumentNumber, DocumentText, SameRoom
<1> HIDE DEF r
<1>5. /\ g.type = "full_sync" => g = buildFullSync
      /\ g.type = "replay_sync" =>
           /\ last > 0 /\ last <= seqNum'
           /\ g = [type |-> "replay_sync", seq |-> seqNum', ops |-> Missed(opLog', last)]
  BY <1>2 DEF Greeting, buildFullSync
<1> HIDE DEF g
<1>6. 1 \in DOMAIN send'[t] /\ send'[t][1] = g /\ \A j \in DOMAIN send'[t] : j = 1 \/ send'[t][j] = Signal
  <2>1. DOMAIN <<g>> = {1} /\ <<g>>[1] = g
    OBVIOUS
  <2> QED
    BY <1>1, <2>1 DEF Adds
<1>7. ~IsOp(g) /\ ~IsOp(Signal) /\ Signal.type = "signal"
  BY <1>1 DEF IsOp, Signal
<1>8. Ops(send'[t]) = {}
  BY <1>6, <1>7 DEF Ops
<1>9. Past(t)' \subseteq Past(t)
  BY <1>3, <1>8, PastStays
<1>10. CASE g.type = "full_sync"
  <2>1. g.seq = DocumentNumber' /\ g.content = DocumentText'
    BY <1>4, <1>5, <1>10 DEF buildFullSync
  <2>2. \A op \in Past(t)' : op.seq \in Nat /\ op.seq <= DocumentNumber'
    BY <1>4, <1>9, PastKnown
  <2> QED
    BY <1>6, <1>10, <2>1, <2>2, FullFollows
<1>11. CASE g.type = "replay_sync"
  <2>1. PICK T \in Texts : Follows(t, T)
    BY <1>1, <1>11
  <2>2. /\ ~tab[t].restoring /\ Record(T, Past(t), last, DocumentNumber, DocumentText)
        /\ tab[t].base = T[last]
    <3>1. send[t] = << >>
      BY <1>1, OutsideRoom
    <3>2. ~Has(send[t], "full_sync") /\ ~Has(send[t], "replay_sync")
      BY <3>1 DEF Has
    <3> QED
      BY <1>1, <1>5, <1>11, <2>1, <3>2 DEF Follows
  <2>3. Record(T, Past(t)', last, DocumentNumber', DocumentText')
    BY <1>4, <1>9, <2>2 DEF Record
  <2>4. Has(send'[t], "replay_sync") /\ ~Has(send'[t], "full_sync")
    BY <1>6, <1>7, <1>11 DEF Has
  <2> DEFINE ops == Missed(opLog', last)
  <2>5. /\ opLog' \in Seq(Op) /\ seqNum' \in Nat /\ last \in Nat /\ last <= seqNum'
        /\ \A i \in DOMAIN opLog' : opLog'[i].seq = seqNum' - Len(opLog') + i
        /\ userSeq \in Nat
    <3>1. TypeOK' /\ LogContiguous' /\ TypeOK
      BY DEF RoomKnown, EditorInv, RoomInv
    <3>2. last \in Nat
      BY PastKnown
    <3> HIDE DEF last
    <3> QED
      BY <1>5, <1>11, <3>1, <3>2 DEF TypeOK, LogContiguous
  <2>6. \A i \in DOMAIN ops :
          ops[i].seq = seqNum' - Len(ops) + i /\ ops[i].seq > last /\ ops[i] \in Range(opLog')
    <3> HIDE DEF last
    <3> QED
      BY <2>5, MissedProperties
  <2>7. g.seq = seqNum' /\ g.ops = ops
    BY <1>5, <1>11
  <2> HIDE DEF ops, last
  <2>8. ASSUME NEW i \in DOMAIN ops PROVE Makes(T, ops[i]) /\ ops[i].userID # user'[t]
    <3>1. ops[i] \in Range(opLog') /\ ops[i].seq > last
      BY <2>6
    <3>2. ops[i] \in Op /\ IsOp(ops[i])
      BY <2>5, <3>1, OpKinds DEF Range, IsOp
    <3>3. ops[i] \in Past(t)'
      BY <3>1, <3>2 DEF Past, Ops, Range
    <3>4. Makes(T, ops[i])
      BY <2>3, <3>1, <3>3 DEF Record
    <3>5. PICK j \in DOMAIN opLog : ops[i] = opLog[j]
      BY <1>3, <3>1 DEF SameRoom, Range
    <3>6. ops[i].userID <= userSeq
      BY <3>5 DEF RoomKnown, UsersKnown
    <3>7. ops[i].userID \in Nat
      BY <3>2 DEF Op, InsertOp, DeleteOp
    <3> QED
      BY <1>1, <2>5, <3>4, <3>6, <3>7
  <2>9. ReplayAt(T, g, last, user'[t])
    BY <1>11, <2>5, <2>6, <2>7, <2>8 DEF ReplayAt
  <2>10. Follows(t, T)'
    BY <1>1, <1>6, <2>2, <2>3, <2>4, <2>9 DEF Follows, last
  <2> QED
    BY <2>10
<1> QED
  BY <1>1, <1>10, <1>11

\* A connection ends with the tab at a text that the document had, or something was
\* lost with it.
LEMMA EndFollows ==
    ASSUME Working, RoomKnown, Orderly, NEW t \in Clients, EndSelf(t),
           strayed'[t] \subseteq Excused, NEW T \in Texts, Follows(t, T)
    PROVE  Follows(t, T)'
<1> DEFINE b == tab[t]
           last == tab[t].lastSeq
<1>1. /\ SameRoom /\ send'[t] = << >> /\ t \notin clients' /\ strayed[t] \subseteq Excused
      /\ tab'[t] \in {b, Closed(b)} /\ (t \in clients => LostCauses(t) \subseteq Excused)
      /\ (t \in clients => tab'[t] = Closed(b))
  BY GoneSame DEF EndSelf
<1>2. /\ last \in Nat /\ b \in Tab
  BY Typed, PastKnown
<1>3. /\ tab'[t].lastSeq = last /\ tab'[t].base = b.base
      /\ tab'[t].restoring => b.restoring
  BY <1>1, <1>2 DEF Closed, Tab
<1>4. ~Has(send[t], "full_sync") /\ (t \in clients => ~Outstanding(t))
  <2>1. CASE t \in clients
    <3>1. "torn" \notin Excused
      BY DEF Excused
    <3>2. "torn" \notin LostCauses(t)
      BY <1>1, <2>1, <3>1
    <3>3. ~(Outstanding(t) \/ \E i \in DOMAIN send[t] : send[t][i].type = "full_sync")
      BY <3>2 DEF LostCauses
    <3> QED
      BY <3>3 DEF Has
  <2>2. CASE t \notin clients
    <3>1. send[t] = << >>
      BY <2>2, OutsideRoom
    <3> QED
      BY <2>2, <3>1 DEF Has
  <2> QED
    BY <2>1, <2>2
<1>5. /\ ~b.restoring /\ Record(T, Past(t), last, DocumentNumber, DocumentText)
      /\ IF Has(send[t], "replay_sync")
         THEN b.base = T[last] /\ ReplayAt(T, send[t][1], last, user[t])
         ELSE IF t \in clients
         THEN Tracks(T, b, DocumentNumber, Own(t), Todo(t), up[t])
         ELSE last > 0 => b.base = T[last]
  BY <1>4 DEF Follows
<1>6. last > 0 => b.base = T[last]
  <2>1. CASE t \in clients /\ ~Has(send[t], "replay_sync")
    <3>1. Own(t) = {} /\ Todo(t) = << >> /\ up[t] = << >>
      BY <1>1, <1>4, <2>1, NotBusy
    <3>2. Tracks(T, b, DocumentNumber, {}, << >>, << >>)
      BY <1>5, <2>1, <3>1
    <3>3. DocumentNumber \in Nat
      BY PastKnown
    <3> QED
      BY <1>2, <3>2, <3>3, TracksQuiet
  <2> QED
    BY <1>5, <2>1
<1>7. Past(t)' \subseteq Past(t)
  <2>1. Ops(send'[t]) = {}
    BY <1>1 DEF Ops
  <2> QED
    BY <1>1, <2>1, PastStays
<1>8. Record(T, Past(t)', last, DocumentNumber', DocumentText')
  BY <1>1, <1>5, <1>7 DEF Record, SameRoom
<1>9. ~Has(send'[t], "full_sync") /\ ~Has(send'[t], "replay_sync")
  BY <1>1 DEF Has
<1> HIDE DEF b, last
<1> QED
  BY <1>1, <1>3, <1>5, <1>6, <1>8, <1>9 DEF Follows

-----------------------------------------------------------------------------
(***************************************************************************)
(* A tab is shown a message.                                               *)
(***************************************************************************)

\* What a tab is shown is about the text that it has, and lacks nothing.
LEMMA ShownRight ==
    ASSUME NEW t, NEW m, ShowCauses(t, m) \subseteq Excused
    PROVE  /\ IsOp(m) /\ ~tab[t].restoring /\ m.userID # user[t] => ~Outstanding(t)
           /\ ~Skips(tab[t], m)
           /\ m.type \in {"replay_sync", "full_sync"} => ~Outstanding(t)
           /\ m.type = "replay_sync" => tab[t].value = tab[t].base
           /\ m.type = "full_sync" => ~AsksRestore(tab[t], m)
<1>1. {"crossed", "skipped", "early", "torn"} \subseteq Causes
      /\ {"crossed", "skipped", "early", "torn"} \cap Excused = {}
  BY DEF Causes, Excused
<1>2. /\ "crossed" \notin ShowCauses(t, m) /\ "skipped" \notin ShowCauses(t, m)
      /\ "early" \notin ShowCauses(t, m) /\ "torn" \notin ShowCauses(t, m)
  BY <1>1
<1>3. IsOp(m) /\ ~tab[t].restoring /\ m.userID # user[t] => ~Outstanding(t)
  BY <1>1, <1>2 DEF ShowCauses
<1>4. ~Skips(tab[t], m)
  BY <1>1, <1>2 DEF ShowCauses
<1>5. m.type \in {"replay_sync", "full_sync"} => ~Outstanding(t)
  BY <1>1, <1>2 DEF ShowCauses
<1>6. /\ m.type = "replay_sync" => tab[t].value = tab[t].base
      /\ m.type = "full_sync" => ~AsksRestore(tab[t], m)
  BY <1>1, <1>2 DEF ShowCauses
<1> QED
  BY <1>3, <1>4, <1>5, <1>6

\* The document and what is left of its past.
LEMMA ShowKeeps ==
    ASSUME RoomKnown, NEW t \in Clients, Show(t)
    PROVE  /\ DocumentNumber' = DocumentNumber /\ DocumentText' = DocumentText
           /\ Past(t)' \subseteq Past(t)
           /\ Own(t)' \subseteq Own(t)
           /\ Own(t) \subseteq Own(t)' \cup {Head(send[t]).seq}
           /\ ~(IsOp(Head(send[t])) /\ Head(send[t]).userID = user[t]) => Own(t)' = Own(t)
           /\ IsOp(Head(send[t])) => Head(send[t]) \in Past(t)
           /\ IsOp(Head(send[t])) /\ Head(send[t]).userID = user[t] => Head(send[t]).seq \in Own(t)
<1> DEFINE q == send[t]
           m == Head(send[t])
<1>1. /\ q # << >> /\ q \in Seq(Message) /\ send'[t] = Tail(q) /\ user'[t] = user[t]
      /\ UNCHANGED <<live, doc, seqNum, opLog, db>>
  BY ShowSelf, Typed
<1>2. SameRoom
  BY <1>1, RoomStays
<1>3. /\ Ops(Tail(q)) \subseteq Ops(q) /\ Ops(q) \subseteq Ops(Tail(q)) \cup {m}
      /\ IsOp(m) => m \in Ops(q)
      /\ ~IsOp(m) => Ops(q) \subseteq Ops(Tail(q))
  BY <1>1, OpsTail
<1> HIDE DEF q, m
<1>4. Past(t)' \subseteq Past(t)
  BY <1>1, <1>2, <1>3, PastStays DEF q
<1>5. /\ Own(t) = {op.seq : op \in {o \in Ops(q) : o.userID = user[t]}}
      /\ Own(t)' = {op.seq : op \in {o \in Ops(Tail(q)) : o.userID = user[t]}}
  BY <1>1 DEF Own, q
<1>6. Own(t)' \subseteq Own(t) /\ Own(t) \subseteq Own(t)' \cup {m.seq}
  BY <1>3, <1>5
<1>7. ~(IsOp(m) /\ m.userID = user[t]) => Own(t)' = Own(t)
  BY <1>3, <1>5
<1>8. IsOp(m) => m \in Past(t)
  BY <1>3 DEF Past, q
<1>9. IsOp(m) /\ m.userID = user[t] => m.seq \in Own(t)
  BY <1>3, <1>5
<1> QED
  BY <1>2, <1>4, <1>6, <1>7, <1>8, <1>9 DEF SameRoom, m

\* A full_sync waits behind what is shown.
LEMMA ShowBefore ==
    ASSUME RoomKnown, Orderly, NEW t \in Clients, Show(t), NEW T \in Texts, Follows(t, T),
           Has(send[t], "full_sync"), Head(send[t]).type # "full_sync"
    PROVE  Follows(t, T)'
<1> DEFINE q == send[t]
           r == send'[t]
           m == Head(send[t])
           n == DocumentNumber
           last == tab[t].lastSeq
           next == tab'[t].lastSeq
<1>1. /\ q # << >> /\ q \in Seq(Message) /\ r = Tail(q) /\ m = q[1] /\ 1 \in DOMAIN q
      /\ Matched(m) /\ tab'[t] = Received(tab[t], m, user[t]) /\ Aligned(tab[t])
  BY ShowSelf, Typed
<1>2. next \in {last, m.seq}
  BY <1>1, ReceivedEffect
<1>3. DocumentNumber' = n /\ DocumentText' = DocumentText /\ Past(t)' \subseteq Past(t)
  BY ShowKeeps
<1>4. PICK g \in DOMAIN q :
        /\ q[g].type = "full_sync"
        /\ \A j \in 1 .. g - 1 : q[j].seq <= q[g].seq
        /\ last <= q[g].seq /\ T[q[g].seq] = q[g].content
        /\ Record(T, Past(t), q[g].seq, n, DocumentText)
  BY DEF Follows, FullAt
<1>5. /\ r \in Seq(Message) /\ Len(r) = Len(q) - 1 /\ Len(q) \in Nat
      /\ \A i \in 1 .. Len(r) : r[i] = q[i + 1]
  <2> HIDE DEF q, r
  <2> QED
    BY <1>1, HeadTailProperties
<1> HIDE DEF q, r, m, n, last, next
<1>6. g # 1
  BY <1>1, <1>4 DEF m, q
<1>7. g \in 1 .. Len(q) /\ 1 \in 1 .. g - 1
  <2>1. g \in 1 .. Len(q)
    BY <1>1, <1>4
  <2> QED
    BY <1>5, <1>6, <2>1
<1>8. g - 1 \in DOMAIN r /\ r[g - 1] = q[g]
  BY <1>5, <1>6, <1>7
<1>9. next <= q[g].seq
  BY <1>1, <1>2, <1>4, <1>7
<1>10. ASSUME NEW j \in 1 .. g - 1 - 1 PROVE r[j].seq <= r[g - 1].seq
  <2>1. j \in 1 .. Len(r) /\ j + 1 \in 1 .. g - 1
    BY <1>5, <1>7
  <2> QED
    BY <1>4, <1>5, <1>8, <2>1
<1>11. Record(T, Past(t)', r[g - 1].seq, n, DocumentText)
  BY <1>3, <1>4, <1>8 DEF Record
<1>12. FullAt(T, r, next, Past(t)', n, DocumentText)
  BY <1>4, <1>8, <1>9, <1>10, <1>11 DEF FullAt
<1>13. Has(r, "full_sync")
  BY <1>4, <1>8 DEF Has
<1> QED
  BY <1>3, <1>12, <1>13 DEF Follows, r, n, next

\* The tab is at a text of the document, and follows it from there.
LEMMA FollowsFrom ==
    ASSUME NEW t, NEW T, ~Has(send'[t], "full_sync"), ~Has(send'[t], "replay_sync"), t \in clients',
           ~tab'[t].restoring,
           Record(T, Past(t)', tab'[t].lastSeq, DocumentNumber', DocumentText'),
           Tracks(T, tab'[t], DocumentNumber', Own(t)', Todo(t)', up'[t])
    PROVE  Follows(t, T)'
BY DEF Follows

\* The tab is shown a full text, merges its own edits into it, and sends them.
LEMMA ShowFull ==
    ASSUME RoomKnown, Orderly, NEW t \in Clients, Show(t), strayed'[t] \subseteq Excused,
           NEW T \in Texts, Follows(t, T), Head(send[t]).type = "full_sync"
    PROVE  Follows(t, T)'
<1> DEFINE q == send[t]
           m == Head(send[t])
           n == DocumentNumber
           b == tab[t]
           c == tab'[t]
           more == FullSyncReply(tab[t], Head(send[t]))
<1>1. /\ q # << >> /\ q \in Seq(Message) /\ send'[t] = Tail(q) /\ m = q[1] /\ 1 \in DOMAIN q
      /\ Matched(m) /\ c = Received(b, m, user[t]) /\ Aligned(b) /\ t \in clients
      /\ up'[t] = up[t] \o more /\ strayed'[t] = strayed[t] \cup ShowCauses(t, m)
      /\ UNCHANGED <<clients, user, task>>
  BY ShowSelf, Typed
<1>2. ~Outstanding(t) /\ ~AsksRestore(b, m) /\ strayed[t] \subseteq Excused
  BY <1>1, ShownRight
<1>3. Own(t) = {} /\ Todo(t) = << >> /\ up[t] = << >>
  BY <1>1, <1>2, NotBusy
<1>4. /\ DocumentNumber' = n /\ DocumentText' = DocumentText /\ Past(t)' \subseteq Past(t)
      /\ Own(t)' \subseteq Own(t)
  BY ShowKeeps
<1>5. /\ c.base = c.value /\ c.lastSeq = Max({b.lastSeq, m.seq}) /\ ~c.restoring
      /\ m.content \in Seq(Chars) /\ more \in Seq(Sent)
      /\ Steps(MsgSteps, m.content, more, c.value)
  <2> DEFINE me == user[t]
  <2>1. /\ Aligned(b) /\ Matched(m) /\ m.type = "full_sync" /\ ~AsksRestore(b, m)
        /\ c = Received(b, m, me) /\ more = FullSyncReply(b, m)
    BY <1>1, <1>2
  <2> HIDE DEF b, m, c, more, me
  <2> QED
    BY <2>1, ReceivedFull
<1>6. /\ \A j \in DOMAIN q : q[j].type = "replay_sync" => j = 1
      /\ Only(q, "full_sync")
  BY DEF Orderly, InOrder
<1>7. ~Has(Tail(q), "replay_sync") /\ ~Has(Tail(q), "full_sync")
  BY <1>1, <1>6, TailSyncs
<1> HIDE DEF more, c
<1>8. PICK g \in DOMAIN q :
        /\ q[g].type = "full_sync"
        /\ b.lastSeq <= q[g].seq /\ T[q[g].seq] = q[g].content
        /\ Record(T, Past(t), q[g].seq, n, DocumentText)
  <2>1. Has(q, "full_sync")
    BY <1>1 DEF Has
  <2>2. FullAt(T, q, b.lastSeq, Past(t), n, DocumentText)
    BY <2>1 DEF Follows
  <2> HIDE DEF q, b, n
  <2> QED
    BY <2>2 DEF FullAt
<1>9. q[g] = m
  BY <1>1, <1>6, <1>8 DEF Only
<1>10. b.lastSeq \in Nat /\ m.seq \in Nat /\ n \in Nat
  BY <1>1, PastKnown, MessageTypes DEF Matched
<1> HIDE DEF q, m, n, b
<1>11. c.lastSeq = m.seq /\ m.seq <= n
  <2>1. Max({b.lastSeq, m.seq}) = m.seq
    BY <1>8, <1>9, <1>10, MaxOfTwo
  <2> QED
    BY <1>5, <1>8, <1>9, <2>1 DEF Record
<1>12. Record(T, Past(t)', c.lastSeq, n, DocumentText)
  BY <1>4, <1>8, <1>9, <1>11 DEF Record
<1>13. Tracks(T, c, n, {}, << >>, more)
  BY <1>5, <1>8, <1>9, <1>10, <1>11, TracksAnew
<1>14. Own(t)' = {} /\ Todo(t)' = << >> /\ up'[t] = more
  BY <1>1, <1>3, <1>4, <1>5 DEF Todo
<1>15. Record(T, Past(t)', c.lastSeq, DocumentNumber', DocumentText')
  BY <1>4, <1>12
<1>16. Tracks(T, c, DocumentNumber', Own(t)', Todo(t)', up'[t])
  BY <1>4, <1>13, <1>14
<1> QED
  BY <1>1, <1>5, <1>7, <1>15, <1>16, FollowsFrom DEF c

\* The replay that a tab waits for goes on where the tab stopped.
LEMMA ReplayNumbers ==
    ASSUME RoomKnown, Orderly, NEW t \in Clients, Show(t), strayed'[t] \subseteq Excused,
           NEW T \in Texts, Follows(t, T), ~Has(send[t], "full_sync"), Has(send[t], "replay_sync")
    PROVE  LET m == Head(send[t])
               b == tab[t]
           IN  /\ m.type = "replay_sync" /\ m.seq \in Nat /\ m.ops \in Seq(Op)
               /\ m.seq = b.lastSeq + Len(m.ops) /\ m.seq <= DocumentNumber
               /\ \A i \in DOMAIN m.ops :
                    /\ m.ops[i].seq = b.lastSeq + i
                    /\ Makes(T, m.ops[i]) /\ m.ops[i].userID # user[t]
               /\ b.base = T[b.lastSeq] /\ b.value = b.base /\ ~b.restoring
               /\ Record(T, Past(t), b.lastSeq, DocumentNumber, DocumentText)
               /\ ~Outstanding(t)
               /\ Own(t) = {} /\ Todo(t) = << >> /\ up[t] = << >>
               /\ ~Has(Tail(send[t]), "replay_sync") /\ ~Has(Tail(send[t]), "full_sync")
<1> DEFINE q == send[t]
           m == Head(send[t])
           n == DocumentNumber
           b == tab[t]
           me == user[t]
<1>1. /\ q # << >> /\ q \in Seq(Message) /\ m = q[1] /\ 1 \in DOMAIN q
      /\ Matched(m) /\ t \in clients
      /\ strayed'[t] = strayed[t] \cup ShowCauses(t, m)
  BY ShowSelf, Typed
<1>2. /\ ~b.restoring /\ Record(T, Past(t), b.lastSeq, n, DocumentText)
      /\ b.base = T[b.lastSeq] /\ ReplayAt(T, m, b.lastSeq, me)
  BY <1>1 DEF Follows
<1>3. m.type = "replay_sync" /\ b.lastSeq <= m.seq
  BY <1>2 DEF ReplayAt
<1>4. ~Outstanding(t) /\ b.value = b.base /\ ~Skips(b, m) /\ strayed[t] \subseteq Excused
  BY <1>1, <1>3, ShownRight
<1>5. Own(t) = {} /\ Todo(t) = << >> /\ up[t] = << >>
  BY <1>1, <1>4, NotBusy
<1>6. ~Has(Tail(q), "replay_sync") /\ ~Has(Tail(q), "full_sync")
  <2>1. /\ \A j \in DOMAIN q : q[j].type = "replay_sync" => j = 1
        /\ Only(q, "full_sync")
    BY DEF Orderly, InOrder
  <2> QED
    BY <1>1, <2>1, TailSyncs
<1>7. m.seq <= n
  <2>1. m.seq <= seqNum
    BY <1>1 DEF RoomKnown, OutboxOrdered
  <2>2. live
    BY <1>1 DEF RoomKnown, EditorInv, RoomInv, Occupied
  <2> QED
    BY <2>1, <2>2 DEF DocumentNumber
<1>8. /\ b.lastSeq \in Nat /\ m.seq \in Nat /\ n \in Nat /\ m \in Message /\ m.ops \in Seq(Op)
      /\ ~IsOp(m)
  BY <1>1, <1>3, PastKnown, MessageTypes DEF Matched, ReplaySync
<1> HIDE DEF q, m, n, b, me
<1>9. m.seq = b.lastSeq + Len(m.ops)
  <2>1. Brought(m) = m.ops
    BY <1>3, <1>8 DEF Brought
  <2>2. CASE m.seq > b.lastSeq
    BY <1>3, <1>4, <2>1, <2>2 DEF Skips
  <2>3. CASE m.seq = b.lastSeq
    <3>1. Len(m.ops) = 0
      <4> SUFFICES ASSUME Len(m.ops) # 0 PROVE FALSE
        OBVIOUS
      <4>1. Len(m.ops) \in DOMAIN m.ops /\ Len(m.ops) \in Nat
        BY <1>8
      <4>2. m.ops[Len(m.ops)].seq = m.seq - Len(m.ops) + Len(m.ops)
            /\ m.ops[Len(m.ops)].seq > b.lastSeq
        BY <1>2, <4>1 DEF ReplayAt
      <4> QED
        BY <1>8, <2>3, <4>1, <4>2
    <3> QED
      BY <1>8, <2>3, <3>1
  <2> QED
    BY <1>3, <1>8, <2>2, <2>3
<1>10. ASSUME NEW i \in DOMAIN m.ops
       PROVE  m.ops[i].seq = b.lastSeq + i /\ Makes(T, m.ops[i]) /\ m.ops[i].userID # me
  <2>1. Len(m.ops) \in Nat /\ DOMAIN m.ops = 1 .. Len(m.ops)
    BY <1>8
  <2>2. /\ m.ops[i].seq = m.seq - Len(m.ops) + i
        /\ Makes(T, m.ops[i]) /\ m.ops[i].userID # me
    BY <1>2 DEF ReplayAt
  <2> QED
    BY <1>8, <1>9, <2>1, <2>2
<1> QED
  BY <1>2, <1>3, <1>4, <1>5, <1>6, <1>7, <1>8, <1>9, <1>10 DEF q, m, n, b, me

\* The tab is shown the replay that its text waits for.
LEMMA ShowReplay ==
    ASSUME RoomKnown, Orderly, NEW t \in Clients, Show(t), strayed'[t] \subseteq Excused,
           NEW T \in Texts, Follows(t, T), ~Has(send[t], "full_sync"), Has(send[t], "replay_sync")
    PROVE  Follows(t, T)'
<1> DEFINE q == send[t]
           m == Head(send[t])
           n == DocumentNumber
           b == tab[t]
           c == tab'[t]
           me == user[t]
<1>1. /\ send'[t] = Tail(q) /\ Matched(m) /\ c = Received(b, m, me) /\ Aligned(b) /\ t \in clients
      /\ UNCHANGED <<clients, user, task>>
      /\ (m.type # "full_sync" => up'[t] = up[t])
  BY ShowSelf, Typed
<1>2. /\ ~b.restoring /\ Record(T, Past(t), b.lastSeq, n, DocumentText)
      /\ b.base = T[b.lastSeq] /\ b.value = b.base
      /\ \A i \in DOMAIN m.ops :
           m.ops[i].seq = b.lastSeq + i /\ Makes(T, m.ops[i]) /\ m.ops[i].userID # me
  BY ReplayNumbers
<1>3. m.type = "replay_sync"
  BY ReplayNumbers
<1>5. Own(t) = {} /\ Todo(t) = << >> /\ up[t] = << >>
  BY ReplayNumbers
<1>6. /\ DocumentNumber' = n /\ DocumentText' = DocumentText /\ Past(t)' \subseteq Past(t)
      /\ Own(t)' \subseteq Own(t)
  BY ShowKeeps
<1>7. ~Has(Tail(q), "replay_sync") /\ ~Has(Tail(q), "full_sync")
  BY ReplayNumbers
<1>8. m.seq <= n /\ m.seq = b.lastSeq + Len(m.ops)
  BY ReplayNumbers
<1>9. /\ b.lastSeq \in Nat /\ m.seq \in Nat /\ n \in Nat /\ m \in Message /\ m.ops \in Seq(Op)
      /\ b.lastSeq <= m.seq
  <2>1. m.seq \in Nat /\ m.ops \in Seq(Op)
    BY ReplayNumbers
  <2>2. b.lastSeq \in Nat /\ n \in Nat /\ m \in Message
    BY <1>1, PastKnown DEF Matched
  <2> HIDE DEF m, n, b
  <2> QED
    BY <1>8, <2>1, <2>2
<1> HIDE DEF q, m, n, b, c, me
<1> DEFINE a == Numbered(b, m)
<1>11. /\ c.value = Replayed(a, m.ops, me).value
       /\ c.base = c.value /\ c.lastSeq = Max({b.lastSeq, m.seq}) /\ c.restoring = b.restoring
  <2>1. /\ Aligned(b) /\ m \in Message /\ m.type = "replay_sync" /\ c = Received(b, m, me)
        /\ a = Numbered(b, m)
    BY <1>1, <1>3, <1>9
  <2> HIDE DEF a
  <2> QED
    BY <2>1, ReceivedReplay
<1>12. c.lastSeq = m.seq
  BY <1>9, <1>11, MaxOfTwo
<1>13. Aligned(a) /\ a.value = T[b.lastSeq]
  <2>1. Aligned(a)
    BY <1>1, <1>9, NumberedAligned
  <2>2. a.value = b.value
    BY <1>1 DEF Numbered, Aligned, Tab
  <2> QED
    BY <1>2, <2>1, <2>2
<1> HIDE DEF a
<1>14. GoesOn(T, b.lastSeq, m.ops, me)
  BY <1>2 DEF GoesOn
<1>15. c.value = T[c.lastSeq]
  <2>1. Replayed(a, m.ops, me).value = T[b.lastSeq + Len(m.ops)]
    BY <1>9, <1>13, <1>14, ReplayedText
  <2> QED
    BY <1>8, <1>11, <1>12, <2>1
<1>16. Tracks(T, c, n, {}, << >>, << >>)
  BY <1>8, <1>9, <1>11, <1>12, <1>15, QuietTracks
<1>17. Own(t)' = {} /\ Todo(t)' = << >> /\ up'[t] = << >>
  BY <1>1, <1>3, <1>5, <1>6 DEF Todo
<1>18. Record(T, Past(t)', c.lastSeq, DocumentNumber', DocumentText')
  <2>1. \A op \in Past(t) : op.seq \in Nat
    BY PastKnown
  <2>2. \A op \in Past(t)' : op.seq > m.seq => Makes(T, op)
    BY <1>2, <1>6, <1>9, <2>1 DEF Record
  <2> QED
    BY <1>2, <1>6, <1>8, <1>12, <2>2 DEF Record
<1>19. Tracks(T, c, DocumentNumber', Own(t)', Todo(t)', up'[t])
  BY <1>6, <1>16, <1>17
<1> QED
  BY <1>1, <1>2, <1>7, <1>11, <1>18, <1>19, FollowsFrom DEF c

\* The tab is told of an operation, its own or another's, or of none.
LEMMA ShowNext ==
    ASSUME RoomKnown, Orderly, NEW t \in Clients, Show(t), strayed'[t] \subseteq Excused,
           NEW T \in Texts, Follows(t, T), ~Has(send[t], "full_sync"), ~Has(send[t], "replay_sync")
    PROVE  Follows(t, T)'
<1> DEFINE q == send[t]
           m == Head(send[t])
           n == DocumentNumber
           b == tab[t]
           c == tab'[t]
           me == user[t]
           own == Own(t)
           todo == Todo(t)
           out == up[t]
<1>1. /\ q # << >> /\ q \in Seq(Message) /\ send'[t] = Tail(q) /\ m = q[1] /\ 1 \in DOMAIN q
      /\ Matched(m) /\ c = Received(b, m, me) /\ Aligned(b) /\ t \in clients
      /\ strayed'[t] = strayed[t] \cup ShowCauses(t, m)
      /\ UNCHANGED <<clients, user, task>>
      /\ (m.type # "full_sync" => up'[t] = up[t])
  BY ShowSelf, Typed
<1>2. /\ ~b.restoring /\ Record(T, Past(t), b.lastSeq, n, DocumentText)
      /\ Tracks(T, b, n, own, todo, out)
  BY <1>1 DEF Follows
<1>3. m.type \notin {"full_sync", "replay_sync"}
  BY <1>1 DEF Has
<1>4. /\ ~Has(Tail(q), "full_sync") /\ ~Has(Tail(q), "replay_sync")
  <2>1. Ops(Tail(q)) \subseteq Ops(q)
    BY <1>1, OpsTail
  <2>2. \A i \in DOMAIN Tail(q) : i + 1 \in DOMAIN q /\ Tail(q)[i] = q[i + 1]
    <3> HIDE DEF q
    <3>1. /\ Tail(q) \in Seq(Message) /\ Len(Tail(q)) = Len(q) - 1 /\ Len(q) \in Nat
          /\ \A i \in 1 .. Len(Tail(q)) : Tail(q)[i] = q[i + 1]
      BY <1>1, HeadTailProperties
    <3> QED
      BY <1>1, <3>1
  <2> QED
    BY <2>2 DEF Has
<1>5. /\ DocumentNumber' = n /\ DocumentText' = DocumentText /\ Past(t)' \subseteq Past(t)
      /\ Own(t)' \subseteq own /\ own \subseteq Own(t)' \cup {m.seq}
      /\ ~(IsOp(m) /\ m.userID = me) => Own(t)' = own
      /\ IsOp(m) => m \in Past(t)
      /\ IsOp(m) /\ m.userID = me => m.seq \in own
  BY ShowKeeps
<1>6. Todo(t)' = todo /\ up'[t] = out
  BY <1>1, <1>3 DEF Todo
<1>7. /\ (IsOp(m) /\ m.userID # me => ~Outstanding(t)) /\ ~Skips(b, m) /\ strayed[t] \subseteq Excused
  BY <1>1, <1>2, ShownRight
<1>8. /\ b.lastSeq \in Nat /\ m.seq \in Nat /\ n \in Nat /\ m \in Message /\ own \in SUBSET Nat
      /\ b.lastSeq <= n
  BY <1>1, PastKnown, MessageTypes DEF Matched
<1>9. IsOp(m) => m.seq > b.lastSeq
  BY <1>1 DEF RoomKnown, NumbersAhead
<1>10. IsOp(m) /\ m.userID # me => own = {} /\ todo = << >> /\ out = << >>
  BY <1>1, <1>7, NotBusy
<1> HIDE DEF q, m, n, b, c, me, own, todo, out
<1>11. CASE ~IsOp(m)
  <2>1. m.type = "signal"
    BY <1>3, <1>8, <1>11, MessageTypes
  <2>2. /\ c.value = b.value /\ c.base = b.base /\ c.lastSeq = b.lastSeq
        /\ c.restoring = b.restoring
    BY <1>1, <1>8, <2>1, ReceivedSignal
  <2>3. Tracks(T, c, n, own, todo, out)
    BY <1>2, <2>2 DEF Tracks
  <2>4. Record(T, Past(t)', c.lastSeq, DocumentNumber', DocumentText')
    BY <1>2, <1>5, <2>2 DEF Record
  <2>5. Tracks(T, c, DocumentNumber', Own(t)', Todo(t)', up'[t])
    BY <1>5, <1>6, <1>11, <2>3
  <2> QED
    BY <1>1, <1>2, <1>4, <2>2, <2>4, <2>5, FollowsFrom DEF c
<1>12. CASE IsOp(m)
  <2>1. m.seq = b.lastSeq + 1
    <3>1. Brought(m) = <<m>>
      BY <1>3, <1>12 DEF Brought
    <3>2. Len(<<m>>) = 1
      OBVIOUS
    <3> QED
      BY <1>3, <1>7, <1>9, <1>12, <3>1, <3>2 DEF Skips
  <2>2. /\ c.value = IF m.userID = me THEN b.value ELSE Shown(b.value, m)
        /\ c.base = c.value /\ c.lastSeq = m.seq /\ ~c.restoring
    BY <1>1, <1>2, <1>8, <1>9, <1>12, ReceivedOp
  <2>3. m.seq <= n
    BY <1>5, <1>12, PastKnown DEF n
  <2>4. Record(T, Past(t)', c.lastSeq, DocumentNumber', DocumentText')
    <3>1. \A op \in Past(t) : op.seq \in Nat
      BY PastKnown
    <3>2. \A op \in Past(t)' : op.seq > m.seq => Makes(T, op)
      BY <1>2, <1>5, <1>8, <2>1, <3>1 DEF Record
    <3> QED
      BY <1>2, <1>5, <2>2, <2>3, <3>2 DEF Record
  <2>5. Tracks(T, c, DocumentNumber', Own(t)', Todo(t)', up'[t])
    <3>1. CASE m.userID = me
      <4> DEFINE rest == Own(t)'
      <4>1. rest \subseteq own /\ own \subseteq rest \cup {b.lastSeq + 1} /\ b.lastSeq + 1 \in own
        BY <1>5, <1>12, <2>1, <3>1
      <4>2. c.lastSeq = b.lastSeq + 1 /\ c.value = b.value /\ c.base = c.value
        BY <2>1, <2>2, <3>1
      <4> HIDE DEF rest
      <4>3. Tracks(T, c, n, rest, todo, out)
        BY <1>2, <1>8, <4>1, <4>2, TracksTold
      <4> QED
        BY <1>5, <1>6, <4>3 DEF rest
    <3>2. CASE m.userID # me
      <4>1. own = {} /\ todo = << >> /\ out = << >>
        BY <1>10, <1>12, <3>2
      <4>2. b.value = T[b.lastSeq]
        BY <1>2, <1>8, <4>1, TracksQuiet
      <4>3. c.value = T[c.lastSeq]
        <5>1. Makes(T, m)
          BY <1>2, <1>5, <1>9, <1>12 DEF Record
        <5>2. m.seq - 1 = b.lastSeq
          BY <1>8, <2>1
        <5> QED
          BY <2>2, <3>2, <4>2, <5>1, <5>2 DEF Makes
      <4>4. c.lastSeq \in Nat /\ c.lastSeq <= n /\ c.base = c.value
        BY <1>8, <2>2, <2>3
      <4>5. Tracks(T, c, n, {}, << >>, << >>)
        BY <1>8, <4>3, <4>4, QuietTracks
      <4>6. Own(t)' = {}
        BY <1>5, <3>2, <4>1
      <4> QED
        BY <1>5, <1>6, <4>1, <4>5, <4>6
    <3> QED
      BY <3>1, <3>2
  <2> QED
    BY <1>1, <1>4, <2>2, <2>4, <2>5, FollowsFrom DEF c
<1> QED
  BY <1>11, <1>12

\* A tab follows the room through whatever it is shown.
LEMMA ShowFollows ==
    ASSUME RoomKnown, Orderly, NEW t \in Clients, Show(t), strayed'[t] \subseteq Excused,
           NEW T \in Texts, Follows(t, T)
    PROVE  Follows(t, T)'
<1>1. CASE Head(send[t]).type = "full_sync"
  BY <1>1, ShowFull
<1>2. CASE Has(send[t], "full_sync") /\ Head(send[t]).type # "full_sync"
  BY <1>2, ShowBefore
<1>3. CASE ~Has(send[t], "full_sync")
  BY <1>3, ShowReplay, ShowNext
<1> QED
  BY <1>1, <1>2, <1>3

-----------------------------------------------------------------------------
(***************************************************************************)
(* All steps.                                                              *)
(***************************************************************************)

\* No step that is held against a tab is forgotten, unless it starts anew.
LEMMA StrayedGrows ==
    ASSUME RoomKnown, NEW t \in Clients,
           \/ Elsewhere(t) \/ EndSelf(t) \/ Open(t) \/ Type(t) \/ Show(t)
           \/ \E type \in {"insert", "delete"} : ServeOp(t, type)
           \/ ServeBatch(t) \/ (ServeBatchOp /\ task.who = t)
    PROVE  strayed[t] \subseteq strayed'[t]
<1>1. CASE Elsewhere(t) \/ EndSelf(t)
  BY <1>1 DEF Elsewhere, EndSelf
<1>2. CASE Open(t) \/ Type(t)
  BY <1>2, TypeSelf DEF Open
<1>3. CASE Show(t)
  BY <1>3, ShowSelf
<1>4. CASE \E type \in {"insert", "delete"} : ServeOp(t, type)
  BY <1>4, OpSelf
<1>5. CASE ServeBatch(t)
  BY <1>5 DEF ServeBatch
<1>6. CASE ServeBatchOp /\ task.who = t
  BY <1>6, BatchOpSelf
<1> QED
  BY <1>1, <1>2, <1>3, <1>4, <1>5, <1>6

\* Every tab that has not strayed follows the room through every step.
LEMMA FollowedStep ==
    ASSUME Working, RoomKnown, RoomKnown', Orderly, Followed, [EditorNext]_allVars
    PROVE  Followed'
<1> SUFFICES ASSUME NEW t \in Clients, strayed'[t] \subseteq Excused
             PROVE  \E U \in Texts : Follows(t, U)'
  BY DEF Followed
<1>1. EditorInv'
  BY DEF RoomKnown
<1>2. strayed[t] \subseteq Excused => \E T \in Texts : Follows(t, T)
  BY DEF Followed
<1>3. CASE ServeJoin(t)
  BY <1>2, <1>3, JoinFollows
<1>4. CASE ServeRestore(t)
  BY <1>4, RestoreFollows
<1>5. ASSUME \/ Elsewhere(t) \/ EndSelf(t) \/ Open(t) \/ Type(t) \/ Show(t)
             \/ \E type \in {"insert", "delete"} : ServeOp(t, type)
             \/ ServeBatch(t) \/ (ServeBatchOp /\ task.who = t)
      PROVE  \E U \in Texts : Follows(t, U)'
  <2>1. strayed[t] \subseteq strayed'[t]
    BY <1>5, StrayedGrows
  <2>2. PICK T \in Texts : Follows(t, T)
    BY <1>2, <2>1
  <2>3. CASE Elsewhere(t)
    BY <2>2, <2>3, ElsewhereFollows
  <2>4. CASE EndSelf(t)
    BY <2>2, <2>4, EndFollows
  <2>5. CASE Open(t) \/ Type(t)
    BY <2>2, <2>5, OpenFollows, TypeFollows
  <2>6. CASE Show(t)
    BY <2>2, <2>6, ShowFollows
  <2>7. CASE \E type \in {"insert", "delete"} : ServeOp(t, type)
    BY <2>2, <2>7, OpFollows
  <2>8. CASE ServeBatch(t)
    BY <2>2, <2>8, BatchFollows
  <2>9. CASE ServeBatchOp /\ task.who = t
    BY <2>2, <2>9, BatchOpFollows
  <2> QED
    BY <1>5, <2>3, <2>4, <2>5, <2>6, <2>7, <2>8, <2>9
<1> QED
  BY <1>1, <1>3, <1>4, <1>5, StepOf

-----------------------------------------------------------------------------
(***************************************************************************)
(* The tabs converge.                                                      *)
(***************************************************************************)

\* What is known of the room and of every tab, and preserved by every step.
TabsInv == RoomKnown /\ Orderly /\ Followed

\* Before the first step the document is its row, and no tab is connected.
LEMMA TabsInvInit == ASSUME EditorInit PROVE TabsInv
<1>1. RoomKnown
  <2>1. EditorInv
    BY EditorInvInit
  <2>2. SavedBeforeSent /\ OutboxOrdered /\ LogContiguous /\ UsersKnown
    BY SavedInit, OutboxOrderedInit, LogContiguousInit, UsersKnownInit DEF EditorInit
  <2>3. NumbersAhead
    <3>1. Row.seq \in Nat
      BY RowAssumption
    <3> QED
      BY <3>1 DEF NumbersAhead, EditorInit, InitWith, NewTab, DocumentNumber
  <2> QED
    BY <2>1, <2>2, <2>3 DEF RoomKnown
<1>2. Orderly
  BY NoneOrdered DEF Orderly, EditorInit, InitWith
<1>3. Followed
  <2> SUFFICES ASSUME NEW t \in Clients PROVE \E T \in Texts : Follows(t, T)
    BY DEF Followed
  <2> DEFINE T == [k \in Nat |-> Row.content]
  <2>1. T \in Texts /\ Row.seq \in Nat
    BY RowAssumption DEF Texts
  <2>2. /\ send[t] = << >> /\ t \notin clients /\ tab[t].lastSeq = 0 /\ ~tab[t].restoring
        /\ DocumentNumber = Row.seq /\ DocumentText = Row.content /\ opLog = << >>
    BY DEF EditorInit, InitWith, NewTab, DocumentNumber, DocumentText
  <2>3. ~Has(send[t], "full_sync") /\ ~Has(send[t], "replay_sync") /\ Past(t) = {}
    BY <2>2 DEF Has, Past, Ops
  <2>4. Record(T, Past(t), 0, DocumentNumber, DocumentText)
    BY <2>1, <2>2, <2>3 DEF Record
  <2>5. Follows(t, T)
    BY <2>2, <2>3, <2>4 DEF Follows
  <2> QED
    BY <2>1, <2>5
<1> QED
  BY <1>1, <1>2, <1>3 DEF TabsInv

\* Every step keeps what is known of the room and of every tab.
LEMMA TabsInvStep ==
    ASSUME Working, TabsInv, [EditorNext]_allVars
    PROVE  TabsInv'
<1>1. RoomKnown /\ Orderly /\ Followed /\ EditorInv
  BY DEF TabsInv, RoomKnown
<1>2. EditorInv'
  BY <1>1, EditorInvStep
<1>3. RoomStep(Seq(Chars))
  BY <1>1, EditorIsRoomStep DEF EditorInv
<1>4. RoomInv /\ RoomInv'
  BY <1>1, <1>2 DEF EditorInv
<1>5. SavedBeforeSent' /\ OutboxOrdered' /\ LogContiguous' /\ UsersKnown'
  BY <1>1, <1>3, <1>4, SavedBeforeSentStep, OutboxOrderedStep, LogContiguousStep, UsersKnownStep
     DEF RoomKnown
<1>6. NumbersAhead'
  BY <1>1, <1>2, NumbersAheadStep DEF RoomKnown
<1>7. RoomKnown'
  BY <1>2, <1>5, <1>6 DEF RoomKnown
<1>8. Orderly'
  BY <1>1, <1>2, OrderlyStep
<1>9. Followed'
  BY <1>1, <1>7, FollowedStep
<1> QED
  BY <1>7, <1>8, <1>9 DEF TabsInv

\* A tab that has all that is on its way, and the room's number, shows the text
\* that the document has at that number.
LEMMA TabsInvSettled == ASSUME TabsInv PROVE SettledSameText
<1> SUFFICES ASSUME NEW t \in Clients, Settled(t), strayed[t] \subseteq Excused
             PROVE  SameText(t)
  BY DEF SettledSameText, Excused
<1>1. RoomKnown /\ Orderly
  BY DEF TabsInv
<1>2. PICK T \in Texts : Follows(t, T)
  BY DEF TabsInv, Followed
<1>3. /\ t \in clients /\ up[t] = << >> /\ Unlocked /\ tab[t].lastSeq = seqNum
      /\ ~Has(send[t], "full_sync") /\ ~Has(send[t], "replay_sync")
      /\ \A i \in DOMAIN send[t] : ~IsOp(send[t][i])
  BY DEF Settled, Has, IsOp
<1>4. Own(t) = {} /\ Todo(t) = << >>
  BY <1>3 DEF Own, Ops, Todo, Unlocked, NoTask
<1>5. live
  BY <1>1, <1>3 DEF RoomKnown, EditorInv, RoomInv, Occupied
<1>6. DocumentNumber = seqNum /\ DocumentText = DocString(doc)
  BY <1>5 DEF DocumentNumber, DocumentText
<1>7. Record(T, Past(t), tab[t].lastSeq, DocumentNumber, DocumentText)
      /\ Tracks(T, tab[t], DocumentNumber, Own(t), Todo(t), up[t])
  BY <1>2, <1>3 DEF Follows
<1>8. DocumentNumber \in Nat /\ tab[t].lastSeq \in Nat
  BY <1>1, PastKnown
<1>9. tab[t].value = T[tab[t].lastSeq]
  BY <1>3, <1>4, <1>7, <1>8, TracksQuiet
<1>10. T[DocumentNumber] = DocumentText
  BY <1>7 DEF Record
<1> QED
  BY <1>3, <1>6, <1>9, <1>10 DEF SameText

\* As long as the database works, a tab that has the room's number, and for which
\* nothing is on its way, shows the room's text, unless one of the things happened
\* to it that the model lists: through typing that the room has not confirmed,
\* batches that are served one operation at a time, replays, merges with a full
\* text, tabs that come back, rooms that are removed and servers that are restarted.
THEOREM SettledAlwaysSameText ==
    ASSUME Working
    PROVE  EditorSpec => []SettledSameText
<1>1. EditorInit => TabsInv
  BY TabsInvInit
<1>2. TabsInv /\ [EditorNext]_allVars => TabsInv'
  BY TabsInvStep
<1>3. TabsInv => SettledSameText
  BY TabsInvSettled
<1> QED
  BY <1>1, <1>2, <1>3, PTL DEF EditorSpec

-----------------------------------------------------------------------------
(***************************************************************************)
(* The identifiers of a tab, next to those that the room will have when it *)
(* has done what the tab did.                                              *)
(***************************************************************************)

\* The identifiers that rooms give to characters.
RealID == {id \in OpID : id.clock > 0}

\* In shadow, that has made count placeholders, every identifier that is none of them is
\* that of v at its place.
Bears(shadow, count, v) ==
    /\ Len(v) = Len(shadow)
    /\ \A i \in DOMAIN shadow :
        /\ shadow[i].clock >= -count
        /\ shadow[i].clock >= 0 => shadow[i] = v[i]

\* The tab learns of every operation of own at the places that v has from it.
Told(own, count, shadow, v) ==
    \A op \in own : op.type = "insert" =>
        /\ op.newID \in RealID /\ op.clientOpID \in 1 .. count
        /\ \A i \in DOMAIN shadow : shadow[i] = Placeholder(op.clientOpID) => v[i] = op.newID

\* Of what it asks for, v has its own placeholders, and no two are the same.
Untold(asked, count, shadow, v) ==
    /\ \A j \in DOMAIN asked : asked[j].type = "insert" =>
        /\ asked[j].clientOpID \in 1 .. count
        /\ \A i \in DOMAIN shadow :
            shadow[i] = Placeholder(asked[j].clientOpID) => v[i] = shadow[i]
    /\ \A i, j \in DOMAIN asked :
        /\ asked[i].type = "insert" /\ asked[j].type = "insert"
        /\ asked[i].clientOpID = asked[j].clientOpID
        => i = j

\* The same elements put in for others leave two sequences alike.
LEMMA MoreAlike ==
    ASSUME NEW C, NEW a \in Seq(C), NEW v \in Seq(C), Len(a) = Len(v), NEW p \in Nat, NEW cut \in Nat,
           p + cut <= Len(a), NEW put \in Seq(C)
    PROVE  Alike(More(a, p, cut, put, Len(put)), More(v, p, cut, put, Len(put)), a, v,
                 Range(put))
<1> DEFINE h == Len(put)
           b == More(a, p, cut, put, h)
           w == More(v, p, cut, put, h)
<1>1. h \in Nat /\ h \in 0 .. Len(put) /\ DOMAIN put = 1 .. h /\ Len(a) \in Nat
  OBVIOUS
<1>2. /\ Len(b) = Len(a) - cut + h /\ Len(w) = Len(b) /\ b \in Seq(C)
      /\ \A j \in 1 .. Len(a) - cut + h :
            b[j] = IF j <= p THEN a[j] ELSE IF j <= p + h THEN put[j - p] ELSE a[j - h + cut]
      /\ \A j \in 1 .. Len(v) - cut + h :
            w[j] = IF j <= p THEN v[j] ELSE IF j <= p + h THEN put[j - p] ELSE v[j - h + cut]
  <2>1. Mixed(b, a, p, cut, put, h) /\ b \in Seq(C)
    BY MoreMixed
  <2>2. p + cut <= Len(v)
    OBVIOUS
  <2>3. Mixed(w, v, p, cut, put, h)
    BY <2>2, MoreMixed
  <2> HIDE DEF b, w, h
  <2> QED
    BY <2>1, <2>3 DEF Mixed
<1> HIDE DEF h, b, w
<1>3. ASSUME NEW i \in DOMAIN b
      PROVE  \/ b[i] = w[i] /\ b[i] \in Range(put)
             \/ \E j \in DOMAIN a : b[i] = a[j] /\ w[i] = v[j]
  <2>1. i \in 1 .. Len(a) - cut + h
    BY <1>2
  <2>2. CASE i <= p
    <3>1. i \in DOMAIN a
      BY <1>1, <2>1, <2>2
    <3> QED
      BY <1>2, <2>1, <2>2, <3>1
  <2>3. CASE i > p /\ i <= p + h
    <3>1. i - p \in DOMAIN put
      BY <1>1, <2>1, <2>3
    <3>2. b[i] = put[i - p] /\ w[i] = put[i - p]
      BY <1>2, <2>1, <2>3
    <3> QED
      BY <3>1, <3>2 DEF Range
  <2>4. CASE i > p + h
    <3>1. i - h + cut \in DOMAIN a
      BY <1>1, <2>1, <2>4
    <3>2. b[i] = a[i - h + cut] /\ w[i] = v[i - h + cut]
      <4>1. i \in 1 .. Len(v) - cut + h /\ ~(i <= p) /\ ~(i <= p + h)
        BY <1>1, <2>1, <2>4
      <4> QED
        BY <1>2, <2>1, <4>1
    <3> QED
      BY <3>1, <3>2
  <2> QED
    BY <1>1, <2>1, <2>2, <2>3, <2>4
<1> QED
  BY <1>2, <1>3 DEF Alike, b, w, h

\* What is alike to what bears its names bears them too.
LEMMA AlikeBears ==
    ASSUME NEW a, NEW v, NEW count \in Nat, Bears(a, count, v), NEW a2 \in Seq(OpID), NEW v2, NEW X,
           Alike(a2, v2, a, v, X), NEW more \in Nat, count <= more,
           \A x \in X : x.clock >= -more, a \in Seq(OpID)
    PROVE  Bears(a2, more, v2)
<1> SUFFICES ASSUME NEW i \in DOMAIN a2
             PROVE  /\ a2[i].clock >= -more
                    /\ a2[i].clock >= 0 => a2[i] = v2[i]
  BY DEF Bears, Alike
<1>1. CASE a2[i] = v2[i] /\ a2[i] \in X
  BY <1>1
<1>2. ASSUME NEW j \in DOMAIN a, a2[i] = a[j], v2[i] = v[j]
      PROVE  /\ a2[i].clock >= -more
             /\ a2[i].clock >= 0 => a2[i] = v2[i]
  <2>1. a[j].clock >= -count /\ (a[j].clock >= 0 => a[j] = v[j])
    BY DEF Bears
  <2>2. a[j] \in OpID
    OBVIOUS
  <2>3. a[j].clock \in Int
    BY <2>2 DEF OpID
  <2> QED
    BY <1>2, <2>1, <2>3
<1> QED
  BY <1>1, <1>2 DEF Alike

\* What the tab learns of its operations stays right in what is alike.
LEMMA AlikeTold ==
    ASSUME NEW a \in Seq(OpID), NEW v, NEW count \in Nat, NEW own, Told(own, count, a, v),
           NEW a2, NEW v2, NEW X, Alike(a2, v2, a, v, X), NEW more \in Nat, count <= more,
           \A x \in X, c \in 1 .. count : x # Placeholder(c)
    PROVE  Told(own, more, a2, v2)
<1> SUFFICES ASSUME NEW op \in own, op.type = "insert"
             PROVE  /\ op.newID \in RealID /\ op.clientOpID \in 1 .. more
                    /\ \A i \in DOMAIN a2 : a2[i] = Placeholder(op.clientOpID) => v2[i] = op.newID
  BY DEF Told
<1>1. /\ op.newID \in RealID /\ op.clientOpID \in 1 .. count
      /\ \A i \in DOMAIN a : a[i] = Placeholder(op.clientOpID) => v[i] = op.newID
  BY DEF Told
<1>2. op.clientOpID \in 1 .. more
  BY <1>1
<1> QED
  BY <1>1, <1>2 DEF Alike

\* And what it asks for.
LEMMA AlikeUntold ==
    ASSUME NEW a \in Seq(OpID), NEW v, NEW count \in Nat, NEW asked, Untold(asked, count, a, v),
           NEW a2, NEW v2, NEW X, Alike(a2, v2, a, v, X), NEW more \in Nat, count <= more,
           \A x \in X, c \in 1 .. count : x # Placeholder(c)
    PROVE  Untold(asked, more, a2, v2)
<1>1. ASSUME NEW j \in DOMAIN asked, asked[j].type = "insert"
      PROVE  /\ asked[j].clientOpID \in 1 .. more
             /\ \A i \in DOMAIN a2 : a2[i] = Placeholder(asked[j].clientOpID) => v2[i] = a2[i]
  <2>1. /\ asked[j].clientOpID \in 1 .. count
        /\ \A i \in DOMAIN a : a[i] = Placeholder(asked[j].clientOpID) => v[i] = a[i]
    BY <1>1 DEF Untold
  <2>2. asked[j].clientOpID \in 1 .. more
    BY <2>1
  <2> QED
    BY <2>1, <2>2 DEF Alike
<1> QED
  BY <1>1 DEF Untold

\* The names after the tab did what request r asks for.
AskedNames(s, r) ==
    IF r.type = "insert" THEN PutAt(s, r.Position, Placeholder(r.clientOpID)) ELSE CutAt(s, r.Position)

\* What a request does to them.
NameSteps ==
    {e \in Seq(OpID) \X Request \X Seq(OpID) :
        e[2].Position \in Nat /\ e[3] = AskedNames(e[1], e[2])}

\* A tab whose shadow goes back to the names s of the room, through operations own that the
\* room did, and asked that it will do.
Carries(own, asked, s, shadow, count) ==
    \E v \in Seq(OpID) :
        /\ Leads(Seq(OpID), NameSteps, s, asked, v)
        /\ Bears(shadow, count, v) /\ Told(own, count, shadow, v) /\ Untold(asked, count, shadow, v)

\* What is in a request.
LEMMA RequestKinds ==
    ASSUME NEW r \in Request
    PROVE  \/ r.type = "insert" /\ r.clientOpID \in Nat
           \/ r.type = "delete"
  BY DEF Request, InsertRequest, DeleteRequest

\* No two of the numbers of a tab make the same placeholder, and none is real.
LEMMA Placeholders ==
    /\ \A c \in Nat, d \in Nat : Placeholder(c) = Placeholder(d) => c = d
    /\ \A c \in Nat : Placeholder(c) \in OpID /\ Placeholder(c).clock = -c
    /\ \A c \in Nat : Placeholder(c) \notin RealID
    /\ \A id \in RealID : id \in OpID /\ id.clock > 0
<1>1. \A c \in Nat : Placeholder(c) \in OpID /\ Placeholder(c).clock = -c
  BY PlaceholderType DEF Placeholder
<1>2. \A c \in Nat : -c \in Int /\ ~(-c > 0)
  OBVIOUS
<1>3. \A c \in Nat : Placeholder(c) \notin RealID
  BY <1>1, <1>2 DEF RealID
<1>4. ASSUME NEW c \in Nat, NEW d \in Nat, Placeholder(c) = Placeholder(d) PROVE c = d
  <2>1. -c = -d
    BY <1>1, <1>4
  <2> QED
    BY <2>1
<1> QED
  BY <1>1, <1>3, <1>4 DEF RealID

\* The placeholders of two numbers differ.
LEMMA PlaceholdersDiffer ==
    ASSUME NEW c \in Nat, NEW d \in Nat, c # d
    PROVE  Placeholder(c) # Placeholder(d)
  BY Placeholders

\* A placeholder differs from a real identifier.
LEMMA PlaceholderNotReal ==
    ASSUME NEW c \in Nat, NEW id \in RealID
    PROVE  Placeholder(c) # id
  BY Placeholders

\* With nothing on its way, the tab has the room's names.
LEMMA CarriesNone ==
    ASSUME NEW s \in Seq(OpID), NEW shadow, NEW count
    PROVE  Carries({}, << >>, s, shadow, count) <=> Bears(shadow, count, s)
<1>1. ASSUME Bears(shadow, count, s) PROVE Carries({}, << >>, s, shadow, count)
  <2>1. Leads(Seq(OpID), NameSteps, s, << >>, s)
    BY LeadsNone
  <2>2. Told({}, count, shadow, s)
    BY DEF Told
  <2>3. Untold(<< >>, count, shadow, s)
    BY DEF Untold
  <2> QED
    BY <1>1, <2>1, <2>2, <2>3 DEF Carries
<1>2. ASSUME Carries({}, << >>, s, shadow, count) PROVE Bears(shadow, count, s)
  <2>1. PICK v \in Seq(OpID) : Leads(Seq(OpID), NameSteps, s, << >>, v) /\ Bears(shadow, count, v)
    BY <1>2 DEF Carries
  <2>2. v = s
    BY <2>1, LeadsNone
  <2> QED
    BY <2>1, <2>2
<1> QED
  BY <1>1, <1>2

\* A placeholder that is no request's may have any name.
LEMMA LeadsRename ==
    ASSUME NEW s, NEW q \in Seq(Request), NEW v, Leads(Seq(OpID), NameSteps, s, q, v),
           NEW c, NEW id \in OpID,
           \A j \in DOMAIN q : q[j].type = "insert" => Placeholder(q[j].clientOpID) # c
    PROVE  Leads(Seq(OpID), NameSteps, Rename(s, c, id), q, Rename(v, c, id))
<1>1. PICK S \in [0 .. Len(q) -> Seq(OpID)] :
        /\ S[0] = s /\ S[Len(q)] = v
        /\ \A i \in 1 .. Len(q) : <<S[i - 1], q[i], S[i]>> \in NameSteps
  BY DEF Leads
<1> DEFINE Z == [i \in 0 .. Len(q) |-> Rename(S[i], c, id)]
<1>2. Z \in [0 .. Len(q) -> Seq(OpID)]
  BY RenameType
<1>3. Z[0] = Rename(s, c, id) /\ Z[Len(q)] = Rename(v, c, id)
  BY <1>1
<1>4. ASSUME NEW i \in 1 .. Len(q) PROVE <<Z[i - 1], q[i], Z[i]>> \in NameSteps
  <2> DEFINE a == S[i - 1]
             b == S[i]
             r == q[i]
  <2>1. i - 1 \in 0 .. Len(q) /\ i \in 0 .. Len(q) /\ i \in DOMAIN q
    OBVIOUS
  <2>2. Z[i - 1] = Rename(a, c, id) /\ Z[i] = Rename(b, c, id) /\ a \in Seq(OpID) /\ b \in Seq(OpID)
    BY <2>1
  <2>3. r \in Request /\ q[i] = r
    BY <2>1
  <2>4. <<a, r, b>> \in NameSteps
    BY <1>1
  <2>5. r.type = "insert" => Placeholder(r.clientOpID) # c
    BY <2>1
  <2> HIDE DEF a, b, r, Z
  <2>6. r.Position \in Nat /\ b = AskedNames(a, r)
    BY <2>4 DEF NameSteps
  <2>7. Rename(a, c, id) \in Seq(OpID) /\ Rename(b, c, id) \in Seq(OpID)
    BY <2>2, RenameType
  <2>8. Rename(b, c, id) = AskedNames(Rename(a, c, id), r)
    <3>1. CASE r.type = "insert"
      <4>1. r.clientOpID \in Nat
        BY <2>3, <3>1, RequestKinds
      <4> DEFINE h == Placeholder(r.clientOpID)
      <4>2. h \in OpID /\ h = (IF h = c THEN id ELSE h)
        BY <2>5, <3>1, <4>1, PlaceholderType
      <4>3. b = PutAt(a, r.Position, h)
        BY <2>6, <3>1 DEF AskedNames
      <4>4. AskedNames(Rename(a, c, id), r) = PutAt(Rename(a, c, id), r.Position, h)
        BY <3>1 DEF AskedNames
      <4> HIDE DEF h
      <4>5. Rename(PutAt(a, r.Position, h), c, id) = PutAt(Rename(a, c, id), r.Position, h)
        BY <2>2, <2>6, <4>2, RenamePut
      <4> QED
        BY <4>3, <4>4, <4>5
    <3>2. CASE r.type # "insert"
      <4>1. Rename(CutAt(a, r.Position), c, id) = CutAt(Rename(a, c, id), r.Position)
        BY <2>2, <2>6, RenameCut
      <4> QED
        BY <2>6, <3>2, <4>1 DEF AskedNames
    <3> QED
      BY <3>1, <3>2
  <2> QED
    BY <2>2, <2>3, <2>6, <2>7, <2>8 DEF NameSteps
<1> HIDE DEF Z
<1> QED
  BY <1>2, <1>3, <1>4 DEF Leads

\* op is what became of r, where r was asked for.
Serves(op, r) ==
    /\ op.type = r.type /\ op.position = r.Position
    /\ r.type = "insert" => op.clientOpID = r.clientOpID /\ op.newID \in RealID

\* The room does the next thing that the tab asks for: its placeholder gets a name.
LEMMA CarriesServed ==
    ASSUME NEW own, NEW asked \in Seq(Request), asked # << >>, NEW s \in Seq(RealID),
           NEW shadow \in Seq(OpID), NEW count \in Nat, Carries(own, asked, s, shadow, count),
           NEW op, Serves(op, Head(asked))
    PROVE  Carries(own \cup {op}, Tail(asked), Renamed(s, op), shadow, count)
<1> DEFINE r == Head(asked)
           rest == Tail(asked)
           s2 == Renamed(s, op)
<1>1. PICK v \in Seq(OpID) :
        /\ Leads(Seq(OpID), NameSteps, s, asked, v)
        /\ Bears(shadow, count, v) /\ Told(own, count, shadow, v) /\ Untold(asked, count, shadow, v)
  BY DEF Carries
<1>2. PICK w \in Seq(OpID) : <<s, r, w>> \in NameSteps /\ Leads(Seq(OpID), NameSteps, w, rest, v)
  BY <1>1, LeadsFirst
<1>3. /\ r \in Request /\ 1 \in DOMAIN asked /\ asked[1] = r /\ rest \in Seq(Request)
      /\ \A j \in DOMAIN rest : j \in Nat /\ j + 1 \in DOMAIN asked /\ rest[j] = asked[j + 1] /\ j + 1 # 1
  OBVIOUS
<1>4. r.Position \in Nat /\ w = AskedNames(s, r)
  BY <1>2 DEF NameSteps
<1>5. s \in Seq(OpID)
  BY DEF RealID
<1>6. Serves(op, r)
  OBVIOUS
<1> HIDE DEF r, rest
<1>7. ASSUME NEW x \in Seq(OpID), Leads(Seq(OpID), NameSteps, s2, rest, x), Bears(shadow, count, x),
             \A i \in DOMAIN shadow : v[i] = x[i] \/ (op.type = "insert" /\ v[i] = Placeholder(op.clientOpID)),
             \A i \in DOMAIN shadow : op.type = "insert" /\ v[i] = Placeholder(op.clientOpID) => x[i] = op.newID,
             op.type = "insert" => op.clientOpID \in 1 .. count /\ op.newID \in RealID
      PROVE  Carries(own \cup {op}, rest, s2, shadow, count)
  <2>1. Told(own \cup {op}, count, shadow, x)
    <3> SUFFICES ASSUME NEW o \in own \cup {op}, o.type = "insert"
                 PROVE  /\ o.newID \in RealID /\ o.clientOpID \in 1 .. count
                        /\ \A i \in DOMAIN shadow : shadow[i] = Placeholder(o.clientOpID) => x[i] = o.newID
      BY DEF Told
    <3>1. CASE o \in own
      <4>1. /\ o.newID \in RealID /\ o.clientOpID \in 1 .. count
            /\ \A i \in DOMAIN shadow : shadow[i] = Placeholder(o.clientOpID) => v[i] = o.newID
        BY <1>1, <3>1 DEF Told
      <4>2. ASSUME op.type = "insert" PROVE o.newID # Placeholder(op.clientOpID)
        <5>1. op.clientOpID \in Nat
          BY <1>7, <4>2
        <5> QED
          BY <4>1, <5>1, PlaceholderNotReal
      <4> QED
        BY <1>7, <4>1, <4>2
    <3>2. CASE o = op
      <4>1. r.type = "insert" /\ op.clientOpID = r.clientOpID
        BY <1>6, <3>2 DEF Serves
      <4>2. \A i \in DOMAIN shadow : shadow[i] = Placeholder(op.clientOpID) => v[i] = Placeholder(op.clientOpID)
        BY <1>1, <1>3, <4>1 DEF Untold
      <4> QED
        BY <1>7, <3>2, <4>2
    <3> QED
      BY <3>1, <3>2
  <2>2. Untold(rest, count, shadow, x)
    <3>1. ASSUME NEW j \in DOMAIN rest, rest[j].type = "insert"
          PROVE  /\ rest[j].clientOpID \in 1 .. count
                 /\ \A i \in DOMAIN shadow : shadow[i] = Placeholder(rest[j].clientOpID) => x[i] = shadow[i]
      <4>1. /\ rest[j].clientOpID \in 1 .. count
            /\ \A i \in DOMAIN shadow : shadow[i] = Placeholder(rest[j].clientOpID) => v[i] = shadow[i]
        BY <1>1, <1>3, <3>1 DEF Untold
      <4>2. op.type = "insert" => rest[j].clientOpID # op.clientOpID
        <5>1. op.type = "insert" => r.type = "insert" /\ op.clientOpID = r.clientOpID
          BY <1>6 DEF Serves
        <5> QED
          BY <1>1, <1>3, <3>1, <5>1 DEF Untold
      <4>3. ASSUME op.type = "insert"
            PROVE  Placeholder(rest[j].clientOpID) # Placeholder(op.clientOpID)
        <5>1. op.clientOpID \in Nat /\ rest[j].clientOpID \in Nat
          BY <1>7, <4>1, <4>3
        <5>2. rest[j].clientOpID # op.clientOpID
          BY <4>2, <4>3
        <5> QED
          BY <5>1, <5>2, PlaceholdersDiffer
      <4> QED
        BY <1>7, <4>1, <4>3
    <3>2. ASSUME NEW i \in DOMAIN rest, NEW j \in DOMAIN rest, rest[i].type = "insert",
                 rest[j].type = "insert", rest[i].clientOpID = rest[j].clientOpID
          PROVE  i = j
      <4>1. /\ i \in Nat /\ i + 1 \in DOMAIN asked /\ rest[i] = asked[i + 1]
            /\ j \in Nat /\ j + 1 \in DOMAIN asked /\ rest[j] = asked[j + 1]
        BY <1>3
      <4>2. \A k \in DOMAIN asked, l \in DOMAIN asked :
                /\ asked[k].type = "insert" /\ asked[l].type = "insert"
                /\ asked[k].clientOpID = asked[l].clientOpID
                => k = l
        BY <1>1 DEF Untold
      <4>3. i + 1 = j + 1
        BY <3>2, <4>1, <4>2
      <4> QED
        BY <4>1, <4>3
    <3> QED
      BY <3>1, <3>2 DEF Untold
  <2> QED
    BY <1>7, <2>1, <2>2 DEF Carries
<1>8. CASE r.type = "insert"
  <2> DEFINE c == Placeholder(r.clientOpID)
             x == Rename(v, c, op.newID)
  <2>1. /\ op.type = "insert" /\ op.position = r.Position /\ op.clientOpID = r.clientOpID
        /\ op.newID \in RealID /\ op.newID \in OpID
    BY <1>6, <1>8, Placeholders DEF Serves
  <2>2. r.clientOpID \in 1 .. count
    BY <1>1, <1>3, <1>8 DEF Untold
  <2>3. c \in OpID /\ c \notin RealID /\ c.clock = -r.clientOpID
    <3>1. r.clientOpID \in Nat
      BY <2>2
    <3> QED
      BY <3>1, Placeholders
  <2>4. w = PutAt(s, r.Position, c)
    BY <1>4, <1>8 DEF AskedNames
  <2>5. \A j \in DOMAIN rest : rest[j].type = "insert" => Placeholder(rest[j].clientOpID) # c
    <3> SUFFICES ASSUME NEW j \in DOMAIN rest, rest[j].type = "insert"
                 PROVE  Placeholder(rest[j].clientOpID) # c
      OBVIOUS
    <3>1. rest[j].clientOpID \in 1 .. count /\ rest[j].clientOpID # r.clientOpID
      BY <1>1, <1>3, <1>8 DEF Untold
    <3>2. rest[j].clientOpID \in Nat /\ r.clientOpID \in Nat
      BY <2>2, <3>1
    <3> QED
      BY <3>1, <3>2, PlaceholdersDiffer
  <2> HIDE DEF c
  <2>6. \A i \in DOMAIN s : s[i] # c
    BY <2>3
  <2>7. Rename(w, c, op.newID) = s2
    <3>1. Rename(PutAt(s, r.Position, c), c, op.newID) = PutAt(Rename(s, c, op.newID), r.Position, op.newID)
      BY <1>4, <1>5, <2>1, <2>3, RenamePut
    <3>2. Rename(s, c, op.newID) = s
      BY <1>5, <2>1, <2>6, RenameNone
    <3> QED
      BY <2>1, <2>4, <3>1, <3>2 DEF Renamed
  <2>8. Leads(Seq(OpID), NameSteps, s2, rest, x)
    BY <1>2, <1>3, <2>1, <2>5, <2>7, LeadsRename
  <2>9. /\ x \in Seq(OpID) /\ Len(x) = Len(v) /\ DOMAIN x = DOMAIN v
        /\ \A i \in DOMAIN v : x[i] = IF v[i] = c THEN op.newID ELSE v[i]
    <3>1. x \in Seq(OpID) /\ Len(x) = Len(v) /\ DOMAIN x = DOMAIN v
      BY <2>1, RenameType
    <3> QED
      BY <3>1 DEF Rename
  <2> HIDE DEF x
  <2>10. DOMAIN shadow = DOMAIN v
    BY <1>1 DEF Bears
  <2>11. Bears(shadow, count, x)
    <3>1. ASSUME NEW i \in DOMAIN shadow, shadow[i].clock >= 0 PROVE shadow[i] = x[i]
      <4>1. shadow[i] = v[i]
        BY <1>1, <3>1 DEF Bears
      <4>2. v[i] # c
        BY <2>2, <2>3, <3>1, <4>1
      <4> QED
        BY <2>9, <2>10, <4>1, <4>2
    <3> QED
      BY <1>1, <2>9, <3>1 DEF Bears
  <2>12. /\ op.type = "insert" => op.clientOpID \in 1 .. count /\ op.newID \in RealID
         /\ \A i \in DOMAIN shadow :
              /\ v[i] = x[i] \/ (op.type = "insert" /\ v[i] = Placeholder(op.clientOpID))
              /\ op.type = "insert" /\ v[i] = Placeholder(op.clientOpID) => x[i] = op.newID
    BY <2>1, <2>2, <2>9, <2>10 DEF c
  <2> QED
    BY <1>7, <2>8, <2>9, <2>11, <2>12 DEF rest
<1>9. CASE r.type # "insert"
  <2>1. op.type # "insert" /\ op.position = r.Position
    BY <1>6, <1>9 DEF Serves
  <2>2. w = s2
    BY <1>4, <1>9, <2>1 DEF AskedNames, Renamed
  <2> QED
    BY <1>1, <1>2, <1>7, <2>1, <2>2 DEF rest
<1> QED
  BY <1>8, <1>9 DEF r, rest

\* The tab is told of its own operation.
LEMMA CarriesTold ==
    ASSUME NEW b, Aligned(b), NEW op \in Op, NEW own, op \in own, NEW asked, NEW s,
           Carries(own, asked, s, b.shadow, b.count),
           op.type = "insert" => Named(b, op) # {} \/ Waiting(b) = {},
           NEW rest, rest \subseteq own
    PROVE  LET c == ShowOp(b, op, op.userID)
           IN  Carries(rest, asked, s, c.shadow, c.count)
<1> DEFINE c == ShowOp(b, op, op.userID)
           shadow == b.shadow
           count == b.count
<1>1. PICK v \in Seq(OpID) :
        /\ Leads(Seq(OpID), NameSteps, s, asked, v)
        /\ Bears(shadow, count, v) /\ Told(own, count, shadow, v) /\ Untold(asked, count, shadow, v)
  BY DEF Carries
<1>2. shadow \in Seq(OpID) /\ count \in Nat /\ b \in Tab
  BY DEF Aligned, Tab
<1>3. ASSUME c.shadow = shadow, c.count = count PROVE Carries(rest, asked, s, c.shadow, c.count)
  <2>1. Told(rest, count, shadow, v)
    BY <1>1 DEF Told
  <2> HIDE DEF c
  <2> QED
    BY <1>1, <1>3, <2>1 DEF Carries
<1>4. CASE op.type # "insert"
  <2>1. c = b
    BY <1>4 DEF ShowOp
  <2> QED
    BY <1>3, <2>1
<1>5. CASE op.type = "insert"
  <2> DEFINE at == IF Named(b, op) # {} THEN Named(b, op) ELSE Waiting(b)
  <2>1. c = [b EXCEPT !.shadow = IF at = {} THEN @ ELSE [@ EXCEPT ![Min(at)] = op.newID],
                      !.pending = @ \ {op.clientOpID}]
    BY <1>5 DEF ShowOp, SelfInsertAck
  <2>2. /\ c.count = count
        /\ c.shadow = IF at = {} THEN shadow ELSE [shadow EXCEPT ![Min(at)] = op.newID]
    <3> HIDE DEF at
    <3> QED
      BY <1>2, <2>1 DEF Tab
  <2>3. CASE Named(b, op) = {}
    BY <1>3, <1>5, <2>2, <2>3
  <2>4. CASE Named(b, op) # {}
    <3> DEFINE k == Min(at)
               x == c.shadow
    <3>1. at = Named(b, op) /\ at # {}
      BY <2>4
    <3>2. at \subseteq DOMAIN shadow /\ DOMAIN shadow \subseteq Nat /\ at \in SUBSET Nat
      BY <1>2, <3>1 DEF Named
    <3>3. k \in at
      <4> HIDE DEF at
      <4> QED
        BY <3>1, <3>2, MinPlace
    <3>4. k \in DOMAIN shadow /\ shadow[k] = Placeholder(op.clientOpID)
      <4> HIDE DEF k
      <4> QED
        BY <3>1, <3>2, <3>3 DEF Named
    <3>5. op.newID \in RealID /\ v[k] = op.newID
      <4> HIDE DEF k
      <4> QED
        BY <1>1, <1>5, <3>4 DEF Told
    <3>6. x = [shadow EXCEPT ![k] = op.newID]
      BY <2>2, <3>1
    <3> HIDE DEF k, x, c, shadow, at
    <3>7. DOMAIN x = DOMAIN shadow /\ Len(x) = Len(shadow)
      <4>1. op.newID \in OpID
        BY <3>5, Placeholders
      <4>2. x \in Seq(OpID) /\ DOMAIN x = DOMAIN shadow
        BY <1>2, <3>4, <3>6, <4>1
      <4> QED
        BY <1>2, <4>2
    <3>8. \A i \in DOMAIN shadow : x[i] = IF i = k THEN op.newID ELSE shadow[i]
      BY <3>6
    <3>9. op.newID.clock > 0 /\ op.newID.clock \in Int
      BY <3>5, Placeholders DEF OpID
    <3>10. Bears(x, count, v)
      <4> SUFFICES ASSUME NEW i \in DOMAIN shadow
                   PROVE  x[i].clock >= -count /\ (x[i].clock >= 0 => x[i] = v[i])
        BY <1>1, <3>7 DEF Bears
      <4>1. CASE i = k
        BY <1>2, <3>5, <3>8, <3>9, <4>1
      <4>2. CASE i # k
        BY <1>1, <3>8, <4>2 DEF Bears
      <4> QED
        BY <4>1, <4>2
    <3>11. \A i \in DOMAIN shadow, d \in Nat : x[i] = Placeholder(d) => x[i] = shadow[i]
      BY <3>5, <3>8, Placeholders
    <3>12. Told(rest, count, x, v)
      <4> SUFFICES ASSUME NEW o \in rest, o.type = "insert"
                   PROVE  /\ o.newID \in RealID /\ o.clientOpID \in 1 .. count
                          /\ \A i \in DOMAIN x : x[i] = Placeholder(o.clientOpID) => v[i] = o.newID
        BY DEF Told
      <4>1. /\ o.newID \in RealID /\ o.clientOpID \in 1 .. count
            /\ \A i \in DOMAIN shadow : shadow[i] = Placeholder(o.clientOpID) => v[i] = o.newID
        BY <1>1 DEF Told
      <4>2. o.clientOpID \in Nat
        BY <4>1
      <4> QED
        BY <3>7, <3>11, <4>1, <4>2
    <3>13. Untold(asked, count, x, v)
      <4>1. ASSUME NEW j \in DOMAIN asked, asked[j].type = "insert"
            PROVE  /\ asked[j].clientOpID \in 1 .. count
                   /\ \A i \in DOMAIN x : x[i] = Placeholder(asked[j].clientOpID) => v[i] = x[i]
        <5>1. /\ asked[j].clientOpID \in 1 .. count
              /\ \A i \in DOMAIN shadow : shadow[i] = Placeholder(asked[j].clientOpID) => v[i] = shadow[i]
          BY <1>1, <4>1 DEF Untold
        <5>2. asked[j].clientOpID \in Nat
          BY <5>1
        <5> QED
          BY <3>7, <3>11, <5>1, <5>2
      <4> QED
        BY <1>1, <4>1 DEF Untold
    <3>14. Carries(rest, asked, s, x, count)
      BY <1>1, <3>10, <3>12, <3>13 DEF Carries
    <3> QED
      BY <2>2, <3>14 DEF x, c
  <2> QED
    BY <2>3, <2>4
<1> QED
  BY <1>4, <1>5

\* Somebody else's operation is shown to a tab that has nothing on its way.
LEMMA BearsOther ==
    ASSUME NEW s \in Seq(RealID), NEW shadow \in Seq(OpID), NEW count \in Nat, Bears(shadow, count, s),
           NEW op \in Op, op.type = "insert" => op.newID \in RealID
    PROVE  Bears(Renamed(shadow, op), count, Renamed(s, op))
<1>1. s \in Seq(OpID) /\ Len(s) = Len(shadow) /\ op.position \in Nat
  BY DEF RealID, Bears, Op, InsertOp, DeleteOp
<1>2. CASE op.type = "insert"
  <2>1. op.newID \in OpID /\ op.newID.clock > 0 /\ op.newID.clock \in Int
    BY <1>2, Placeholders DEF OpID
  <2>2. Alike(PutAt(shadow, op.position, op.newID), PutAt(s, op.position, op.newID), shadow, s, {op.newID})
    BY <1>1, <2>1, PutAlike
  <2>3. PutAt(shadow, op.position, op.newID) \in Seq(OpID)
    BY <1>1, <2>1, PutAnywhere
  <2>4. \A x \in {op.newID} : x.clock >= -count
    BY <2>1
  <2>5. Bears(PutAt(shadow, op.position, op.newID), count, PutAt(s, op.position, op.newID))
    BY <2>2, <2>3, <2>4, AlikeBears
  <2> QED
    BY <1>2, <2>5 DEF Renamed
<1>3. CASE op.type # "insert"
  <2>1. Alike(CutAt(shadow, op.position), CutAt(s, op.position), shadow, s, {})
    BY <1>1, CutAlike
  <2>2. CutAt(shadow, op.position) \in Seq(OpID)
    BY <1>1, CutAnywhere
  <2>3. Bears(CutAt(shadow, op.position), count, CutAt(s, op.position))
    BY <2>1, <2>2, AlikeBears
  <2> QED
    BY <1>3, <2>3 DEF Renamed
<1> QED
  BY <1>2, <1>3

\* The placeholders that a tab makes next.
NewNames(put, count) == \A i \in DOMAIN put : put[i] = Placeholder(count + i)

\* dels are requests for the deletion of cut characters behind place p, and puts for the
\* insertion of n, known by the numbers behind count.
AsksFor(dels, puts, p, cut, n, count) ==
    /\ dels \in Seq(Request) /\ puts \in Seq(Request) /\ Len(dels) = cut /\ Len(puts) = n
    /\ \A d \in 1 .. cut : dels[d].type = "delete" /\ dels[d].Position = p + cut - d
    /\ \A i \in 1 .. n : /\ puts[i].type = "insert" /\ puts[i].Position = p + i - 1
                         /\ puts[i].clientOpID = count + i

\* The tab does what it asks for, to what it has and to what the room will have.
LEMMA CarriesTyped ==
    ASSUME NEW own, NEW asked \in Seq(Request), NEW s, NEW shadow \in Seq(OpID), NEW count \in Nat,
           Carries(own, asked, s, shadow, count),
           NEW p \in Nat, NEW cut \in Nat, p + cut <= Len(shadow), NEW put \in Seq(OpID),
           NewNames(put, count),
           NEW dels, NEW puts, AsksFor(dels, puts, p, cut, Len(put), count)
    PROVE  Carries(own, asked \o (dels \o puts), s, More(shadow, p, cut, put, Len(put)), count + Len(put))
<1> DEFINE h == Len(put)
           more == dels \o puts
           all == asked \o more
           X == Range(put)
<1>1. PICK v \in Seq(OpID) :
        /\ Leads(Seq(OpID), NameSteps, s, asked, v)
        /\ Bears(shadow, count, v) /\ Told(own, count, shadow, v) /\ Untold(asked, count, shadow, v)
  BY DEF Carries
<1> DEFINE a2 == More(shadow, p, cut, put, Len(put))
           v2 == More(v, p, cut, put, Len(put))
<1>2. Len(shadow) = Len(v) /\ p + cut <= Len(v) /\ v \in Seq(OpID)
  BY <1>1 DEF Bears
<1>3. a2 \in Seq(OpID) /\ v2 \in Seq(OpID)
  BY <1>2, MoreMixed
<1>4. Alike(a2, v2, shadow, v, X)
  BY <1>2, MoreAlike
<1>5. dels \in Seq(Request) /\ puts \in Seq(Request) /\ Len(dels) = cut /\ Len(puts) = h
  BY DEF AsksFor
<1>6. h \in Nat /\ DOMAIN put = 1 .. h
  OBVIOUS
<1>7. Leads(Seq(OpID), NameSteps, v, more, v2)
  <2>1. ASSUME NEW z \in Seq(OpID), NEW d \in 1 .. cut, CutAt(z, p + cut - d) \in Seq(OpID)
        PROVE  <<z, dels[d], CutAt(z, p + cut - d)>> \in NameSteps
    <3>1. dels[d] \in Request /\ dels[d].type = "delete" /\ dels[d].Position = p + cut - d
      BY <1>5 DEF AsksFor
    <3>2. p + cut - d \in Nat
      OBVIOUS
    <3> QED
      BY <2>1, <3>1, <3>2 DEF NameSteps, AskedNames
  <2>2. ASSUME NEW z \in Seq(OpID), NEW i \in 1 .. h, PutAt(z, p + i - 1, put[i]) \in Seq(OpID)
        PROVE  <<z, puts[i], PutAt(z, p + i - 1, put[i])>> \in NameSteps
    <3>0. puts[i] \in Request
      BY <1>5
    <3>1. /\ puts[i].type = "insert" /\ puts[i].Position = p + i - 1
          /\ puts[i].clientOpID = count + i
      BY Zenon DEF AsksFor
    <3>2. p + i - 1 \in Nat /\ put[i] = Placeholder(puts[i].clientOpID)
      <4>1. i \in DOMAIN put /\ p + i - 1 \in Nat
        BY <1>6
      <4>2. put[i] = Placeholder(count + i)
        BY <4>1 DEF NewNames
      <4> QED
        BY <3>1, <4>1, <4>2
    <3> QED
      BY <2>2, <3>0, <3>1, <3>2 DEF NameSteps, AskedNames
  <2>3. Asks(OpID, NameSteps, p, cut, put, dels, puts)
    BY <1>5, <2>1, <2>2 DEF Asks
  <2> QED
    BY <1>2, <1>5, <2>3, EditLeads
<1> HIDE DEF h, a2, v2
<1>8. more \in Seq(Request) /\ Joined(more, dels, puts, cut, h)
  BY <1>5, <1>6, ConcatPlaces
<1> HIDE DEF more
<1>9. Leads(Seq(OpID), NameSteps, s, all, v2)
  BY <1>1, <1>7, <1>8, LeadsOn
<1>10. all \in Seq(Request) /\ Joined(all, asked, more, Len(asked), cut + h)
  <2>1. Len(asked) \in Nat /\ cut + h \in Nat /\ Len(more) = cut + h
    BY <1>6, <1>8 DEF Joined
  <2> QED
    BY <1>8, <2>1, ConcatPlaces
<1> HIDE DEF all
<1>11. count + h \in Nat /\ count <= count + h
  BY <1>6
<1>12. /\ \A x \in X : x.clock >= -(count + h)
       /\ \A x \in X, c \in 1 .. count : x # Placeholder(c)
  <2> SUFFICES ASSUME NEW i \in DOMAIN put
               PROVE  /\ put[i].clock >= -(count + h)
                      /\ \A c \in 1 .. count : put[i] # Placeholder(c)
    BY DEF Range
  <2>1. put[i] = Placeholder(count + i) /\ count + i \in Nat /\ i \in 1 .. h
    BY <1>6 DEF NewNames
  <2>2. put[i].clock = -(count + i)
    BY <2>1, Placeholders
  <2>3. \A c \in 1 .. count : c \in Nat /\ c # count + i
    BY <2>1
  <2>4. put[i].clock >= -(count + h)
    BY <1>6, <2>1, <2>2
  <2>5. \A c \in 1 .. count : put[i] # Placeholder(c)
    BY <2>1, <2>3, Placeholders
  <2> QED
    BY <2>4, <2>5
<1> HIDE DEF X
<1>13. Bears(a2, count + h, v2)
  BY <1>1, <1>3, <1>4, <1>11, <1>12, AlikeBears
<1>14. Told(own, count + h, a2, v2)
  BY <1>1, <1>4, <1>11, <1>12, AlikeTold
<1>15. Untold(asked, count + h, a2, v2)
  BY <1>1, <1>4, <1>11, <1>12, AlikeUntold
<1>16. \* where a request of all comes from
       ASSUME NEW j \in DOMAIN all, all[j].type = "insert"
       PROVE  \/ j \in DOMAIN asked /\ all[j] = asked[j]
              \/ \E i \in 1 .. h : j = Len(asked) + cut + i /\ all[j].clientOpID = count + i
  <2>1. Len(asked) \in Nat /\ j \in 1 .. Len(asked) + (cut + h)
    BY <1>10 DEF Joined
  <2>2. CASE j <= Len(asked)
    BY <1>10, <2>1, <2>2 DEF Joined
  <2>3. CASE j > Len(asked)
    <3> DEFINE g == j - Len(asked)
    <3>1. g \in 1 .. cut + h /\ all[j] = more[g] /\ j = Len(asked) + g
      BY <1>6, <1>10, <2>1, <2>3 DEF Joined
    <3> HIDE DEF g
    <3>2. ~(g <= cut)
      <4>1. CASE g <= cut
        <5>1. more[g] = dels[g] /\ dels[g].type = "delete"
          BY <1>6, <1>8, <3>1, <4>1 DEF AsksFor, Joined
        <5> QED
          BY <1>16, <3>1, <5>1
      <4> QED
        BY <4>1
    <3>3. g - cut \in 1 .. h /\ more[g] = puts[g - cut]
      BY <1>6, <1>8, <3>1, <3>2 DEF Joined
    <3>4. puts[g - cut].clientOpID = count + (g - cut)
      BY <3>3 DEF AsksFor, h
    <3>5. j = Len(asked) + cut + (g - cut)
      BY <1>6, <2>1, <3>1
    <3> QED
      BY <3>1, <3>3, <3>4, <3>5
  <2> QED
    BY <2>1, <2>2, <2>3
<1>17. Untold(all, count + h, a2, v2)
  <2>1. ASSUME NEW j \in DOMAIN all, all[j].type = "insert"
        PROVE  /\ all[j].clientOpID \in 1 .. count + h
               /\ \A i \in DOMAIN a2 : a2[i] = Placeholder(all[j].clientOpID) => v2[i] = a2[i]
    <3>1. CASE j \in DOMAIN asked /\ all[j] = asked[j]
      BY <1>15, <2>1, <3>1 DEF Untold
    <3>2. ASSUME NEW g \in 1 .. h, all[j].clientOpID = count + g
          PROVE  /\ all[j].clientOpID \in 1 .. count + h
                 /\ \A i \in DOMAIN a2 : a2[i] = Placeholder(all[j].clientOpID) => v2[i] = a2[i]
      <4>1. count + g \in 1 .. count + h /\ count + g \in Nat /\ count + g > count
        BY <1>6
      <4>2. ASSUME NEW i \in DOMAIN a2, a2[i] = Placeholder(count + g) PROVE v2[i] = a2[i]
        <5>1. ASSUME NEW k \in DOMAIN shadow, a2[i] = shadow[k] PROVE FALSE
          <6>1. shadow[k].clock >= -count
            BY <1>1 DEF Bears
          <6>2. shadow[k].clock = -(count + g)
            BY <4>1, <4>2, <5>1, Placeholders
          <6> QED
            BY <4>1, <6>1, <6>2
        <5> QED
          BY <1>4, <5>1 DEF Alike
      <4> QED
        BY <3>2, <4>1, <4>2
    <3> QED
      BY <1>16, <2>1, <3>1, <3>2
  <2>2. ASSUME NEW i \in DOMAIN all, NEW j \in DOMAIN all, all[i].type = "insert", all[j].type = "insert",
               all[i].clientOpID = all[j].clientOpID
        PROVE  i = j
    <3>1. ASSUME NEW k \in DOMAIN asked, asked[k].type = "insert" PROVE asked[k].clientOpID \in 1 .. count
      BY <1>1, <3>1 DEF Untold
    <3>2. CASE i \in DOMAIN asked /\ all[i] = asked[i]
      <4>1. CASE j \in DOMAIN asked /\ all[j] = asked[j]
        BY <1>1, <2>2, <3>2, <4>1 DEF Untold
      <4>2. ASSUME NEW g \in 1 .. h, all[j].clientOpID = count + g PROVE FALSE
        <5>1. all[i].clientOpID \in 1 .. count
          BY <2>2, <3>1, <3>2
        <5> QED
          BY <1>6, <2>2, <4>2, <5>1
      <4> QED
        BY <1>16, <2>2, <4>1, <4>2
    <3>3. ASSUME NEW g \in 1 .. h, i = Len(asked) + cut + g, all[i].clientOpID = count + g PROVE i = j
      <4>1. CASE j \in DOMAIN asked /\ all[j] = asked[j]
        <5>1. all[j].clientOpID \in 1 .. count
          BY <2>2, <3>1, <4>1
        <5> QED
          BY <1>6, <2>2, <3>3, <5>1
      <4>2. ASSUME NEW k \in 1 .. h, j = Len(asked) + cut + k, all[j].clientOpID = count + k PROVE i = j
        <5>1. count + g = count + k
          BY <2>2, <3>3, <4>2
        <5>2. g = k
          BY <1>6, <5>1
        <5> QED
          BY <3>3, <4>2, <5>2
      <4> QED
        BY <1>16, <2>2, <4>1, <4>2
    <3> QED
      BY <1>16, <2>2, <3>2, <3>3
  <2> QED
    BY <2>1, <2>2 DEF Untold
<1> QED
  BY <1>3, <1>9, <1>13, <1>14, <1>17 DEF Carries, a2, h, all, more

\* What is typed changes the shadow as the requests for it will change the room's names.
LEMMA EditedCarries ==
    ASSUME NEW b, Aligned(b), NEW new \in Seq(Chars), NEW own, NEW asked \in Seq(Request), NEW s,
           Carries(own, asked, s, b.shadow, b.count)
    PROVE  Carries(own, asked \o diffToOps(b, new), s, Edited(b, new).shadow, Edited(b, new).count)
<1> DEFINE p == PrefixLen(b.value, new)
           cut == Len(Middle(new, b.value))
           put == Middle(b.value, new)
           h == Len(put)
           ids == b.count + 1 .. b.count + Len(put)
           names == [i \in DOMAIN put |-> Placeholder(b.count + i)]
           front == SubSeq(b.shadow, 1, p)
           back == SubSeq(b.shadow, p + cut + 1, Len(b.shadow))
           dels == Cuts(b, new)
           puts == Puts(b, new)
<1>1. b \in Tab /\ Len(b.shadow) = Len(b.value)
  BY DEF Aligned
<1>2. b.value \in Seq(Chars) /\ b.shadow \in Seq(OpID) /\ b.count \in Nat
  BY <1>1 DEF Tab
<1>3. p \in Nat /\ cut \in Nat /\ p + cut <= Len(b.shadow) /\ h \in Nat
  BY <1>1, <1>2, Parts
<1>4. put \in Seq(Chars) /\ DOMAIN put = 1 .. h
  <2>1. put \in Seq(Chars)
    BY <1>2, MiddleProperties
  <2> HIDE DEF put
  <2> QED
    BY <2>1
<1>5. /\ DOMAIN dels = 1 .. cut
      /\ \A d \in 1 .. cut : dels[d].type = "delete" /\ dels[d].Position = p + cut - d
  BY DEF Cuts
<1>6. /\ DOMAIN puts = DOMAIN put
      /\ \A i \in DOMAIN put : /\ puts[i].type = "insert" /\ puts[i].Position = p + i - 1
                               /\ puts[i].clientOpID = b.count + i
  BY DEF Puts
<1>7. /\ Edited(b, new).shadow = front \o names \o back
      /\ Edited(b, new).count = b.count + Cardinality(ids)
  BY <1>1 DEF Edited, Tab
<1>8. diffToOps(b, new) = dels \o puts /\ dels \in Seq(Request) /\ puts \in Seq(Request)
  BY DiffHalves
<1> HIDE DEF dels, puts, p, cut, put
<1>9. names \in Seq(OpID) /\ Len(names) = h /\ \A i \in DOMAIN names : names[i] = Placeholder(b.count + i)
  <2>1. \A i \in 1 .. h : Placeholder(b.count + i) \in OpID
    BY <1>2, <1>3, PlaceholderType
  <2> QED
    BY <1>3, <1>4, <2>1
<1>10. Cardinality(ids) = h
  <2> DEFINE lo == b.count + 1
             hi == b.count + h
  <2> HIDE DEF h
  <2> DEFINE c == b.count
  <2>0. c \in Nat /\ h \in Nat
    BY <1>2, <1>3
  <2> HIDE DEF c
  <2>1. lo \in Int /\ hi \in Int /\ hi - lo + 1 = h /\ (lo > hi => h = 0)
    BY <2>0 DEF c
  <2> HIDE DEF lo, hi
  <2>2. Cardinality(lo .. hi) = IF lo > hi THEN 0 ELSE hi - lo + 1
    BY <2>1, FS_Interval
  <2>3. ids = lo .. hi
    BY DEF h, ids, lo, hi
  <2> QED
    BY <2>1, <2>2, <2>3
<1> HIDE DEF names, ids
<1>11. Len(dels) = cut /\ Len(puts) = h
  <2>1. DOMAIN dels = 1 .. Len(dels) /\ DOMAIN puts = 1 .. Len(puts) /\ Len(dels) \in Nat /\ Len(puts) \in Nat
    BY <1>8
  <2> HIDE DEF h
  <2> QED
    BY <1>3, <1>4, <1>5, <1>6, <2>1
<1>12. AsksFor(dels, puts, p, cut, Len(names), b.count)
  BY <1>4, <1>5, <1>6, <1>8, <1>9, <1>11 DEF AsksFor
<1>13. NewNames(names, b.count)
  BY <1>9 DEF NewNames
<1>14. front \o names \o back = More(b.shadow, p, cut, names, Len(names))
  <2> DEFINE a == b.shadow
  <2>1. a \in Seq(OpID) /\ p + cut <= Len(a) /\ p \in Nat /\ cut \in Nat /\ names \in Seq(OpID)
    BY <1>2, <1>3, <1>9
  <2> HIDE DEF a
  <2>2. SubSeq(a, 1, p) \o names \o SubSeq(a, p + cut + 1, Len(a)) = More(a, p, cut, names, Len(names))
    BY <2>1, ReplacedIs
  <2> QED
    BY <2>2 DEF front, back, a
<1> HIDE DEF front, back
<1>15. Carries(own, asked \o (dels \o puts), s, More(b.shadow, p, cut, names, Len(names)),
               b.count + Len(names))
  BY <1>2, <1>3, <1>9, <1>12, <1>13, CarriesTyped
<1> QED
  BY <1>7, <1>8, <1>9, <1>10, <1>14, <1>15

-----------------------------------------------------------------------------
(***************************************************************************)
(* How the shadow of a tab follows the identifiers that the room had: N    *)
(* has them for every number.                                              *)
(***************************************************************************)

\* What a message asks for.
Bodies(m) == IF m.type = "batch_sync" THEN m.ops ELSE <<m>>

\* A message adds that to what is asked.
Unpacks ==
    {e \in Seq(Request) \X Sent \X Seq(Request) :
        Bodies(e[2]) \in Seq(Request) /\ e[3] = e[1] \o Bodies(e[2])}

\* asked is all that is asked for in todo and the messages out.
Unpacked(todo, out, asked) == Leads(Seq(Request), Unpacks, todo, out, asked)

\* The identifiers for every number.
Namings == [Nat -> Seq(RealID)]

\* op takes the identifiers before it to those after it.
MakesNames(N, op) ==
    /\ op.type = "insert" => op.newID \in RealID
    /\ N[op.seq] = Renamed(N[op.seq - 1], op)

\* N ends with the identifiers ids of the document, which has number n, and the
\* operations S behind number since make them.
NamesRecord(N, S, since, n, ids) ==
    /\ N[n] = ids /\ since <= n
    /\ \A op \in S : op.seq > since => MakesNames(N, op)

\* The numbers of operations.
Seqs(own) == {o.seq : o \in own}

\* The operations that t made itself and may still be told of.
OwnOps(t) == {o \in Ops(send[t]) : o.userID = user[t]}

\* Tab b has made the operations own of what came next, and nothing lies between them;
\* what it asked for in todo and out leads to the names that its shadow bears.
NamesKept(N, b, n, own, todo, out) ==
    \E k \in b.lastSeq .. n :
        /\ b.lastSeq + 1 .. k \subseteq Seqs(own) /\ \A o \in own : o.seq <= k
        /\ todo # << >> \/ out # << >> => k = n
        /\ \E asked \in Seq(Request) :
            Unpacked(todo, out, asked) /\ Carries(own, asked, N[k], b.shadow, b.count)

\* Or it will be shown an operation of somebody else too early.
NamesTracked(N, b, n, own, todo, out) ==
    \/ Lost(b.lastSeq, n, Seqs(own), todo, out)
    \/ NamesKept(N, b, n, own, todo, out)

\* Operations of numbers up to n.
UpToNumber(own, n) == \A o \in own : o \in Op /\ o.seq \in Nat /\ o.seq <= n

\* With nothing on its way, only what is to do is asked for.
LEMMA UnpackedNone ==
    ASSUME NEW todo \in Seq(Request)
    PROVE  Unpacked(todo, << >>, todo) /\ \A asked : Unpacked(todo, << >>, asked) => asked = todo
  BY LeadsNone DEF Unpacked

\* A request is a message that a tab sends.
LEMMA RequestSent == \A q \in Seq(Request) : q \in Seq(Sent) /\ \A i \in DOMAIN q : q[i] \in Request /\ q[i] \in Sent
  BY DEF Sent

\* Requests that are sent one by one are asked for one by one.
LEMMA UnpackedMore ==
    ASSUME NEW asked \in Seq(Request), NEW more \in Seq(Request)
    PROVE  Unpacked(asked, more, asked \o more)
<1> DEFINE m == Len(asked)
           n == Len(more)
           F(i, j) == IF j <= m THEN asked[j] ELSE more[j - m]
           S == [i \in 0 .. n |-> [j \in 1 .. m + i |-> F(i, j)]]
<1>1. m \in Nat /\ n \in Nat
  OBVIOUS
<1>2. ASSUME NEW i \in 0 .. n
      PROVE  S[i] \in Seq(Request) /\ Len(S[i]) = m + i /\ \A j \in 1 .. m + i : S[i][j] = F(i, j)
  <2>1. S[i] = [j \in 1 .. m + i |-> F(i, j)]
    OBVIOUS
  <2>2. ASSUME NEW j \in 1 .. m + i PROVE F(i, j) \in Request
    <3>1. CASE j <= m
      BY <3>1
    <3>2. CASE j > m
      <4>1. j - m \in 1 .. n
        BY <1>1, <3>2
      <4> QED
        BY <3>2, <4>1
    <3> QED
      BY <3>1, <3>2
  <2> HIDE DEF S, F, m, n
  <2> QED
    BY <1>1, <2>1, <2>2
<1>3. S \in [0 .. n -> Seq(Request)]
  <2>1. S = [i \in 0 .. n |-> S[i]]
    OBVIOUS
  <2> HIDE DEF S, m, n
  <2> QED
    BY <1>2, <2>1
<1> HIDE DEF S, m, n
<1>4. S[0] = asked
  <2>1. 0 \in 0 .. n
    BY <1>1
  <2>2. S[0] \in Seq(Request) /\ Len(S[0]) = m + 0 /\ \A j \in 1 .. m + 0 : S[0][j] = F(0, j)
    BY <1>2, <2>1
  <2> QED
    BY <1>1, <2>2 DEF m
<1>5. S[n] = asked \o more
  <2>1. asked \o more \in Seq(Request) /\ Joined(asked \o more, asked, more, m, n)
    BY <1>1, ConcatPlaces DEF m, n
  <2>2. n \in 0 .. n
    BY <1>1
  <2>3. S[n] \in Seq(Request) /\ Len(S[n]) = m + n /\ \A j \in 1 .. m + n : S[n][j] = F(n, j)
    BY <1>2, <2>2
  <2> DEFINE all == asked \o more
  <2> HIDE DEF all
  <2>4. all \in Seq(Request) /\ Len(all) = m + n /\ \A j \in 1 .. m + n : all[j] = F(n, j)
    BY <2>1 DEF all, Joined
  <2> DEFINE last == S[n]
             len == m + n
  <2>5. last \in Seq(Request) /\ Len(last) = len /\ Len(all) = len
        /\ \A j \in 1 .. len : all[j] = last[j]
    BY <2>3, <2>4
  <2> HIDE DEF last, len
  <2>6. all = last
    BY <2>4, <2>5
  <2> QED
    BY <2>6 DEF all, last
<1>6. ASSUME NEW i \in 1 .. n PROVE <<S[i - 1], more[i], S[i]>> \in Unpacks
  <2>1. /\ i - 1 \in 0 .. n /\ i \in 0 .. n /\ m + (i - 1) \in Nat
    BY <1>1
  <2>2. more[i] \in Request /\ more[i] \in Sent
    BY RequestSent DEF n
  <2>3. Bodies(more[i]) = <<more[i]>>
    BY <2>2, RequestKinds DEF Bodies
  <2> DEFINE x == <<more[i]>>
             s == S[i - 1]
  <2>4. x \in Seq(Request) /\ Len(x) = 1 /\ x[1] = more[i]
    BY <2>2
  <2>5. s \in Seq(Request) /\ Len(s) = m + (i - 1) /\ \A j \in 1 .. m + (i - 1) : s[j] = F(i - 1, j)
    BY <1>2, <2>1
  <2>6. S[i] \in Seq(Request) /\ Len(S[i]) = m + i /\ \A j \in 1 .. m + i : S[i][j] = F(i, j)
    BY <1>2, <2>1
  <2> HIDE DEF x, s
  <2>7. s \o x \in Seq(Request) /\ Joined(s \o x, s, x, m + (i - 1), 1)
    BY <2>1, <2>4, <2>5, ConcatPlaces
  <2> DEFINE all == s \o x
  <2> HIDE DEF all
  <2>8. ASSUME NEW j \in 1 .. m + i PROVE all[j] = F(i, j)
    <3>0. m + (i - 1) + 1 = m + i
      BY <1>1
    <3>1. all[j] = IF j <= m + (i - 1) THEN s[j] ELSE x[j - (m + (i - 1))]
      BY <2>7, <3>0 DEF all, Joined
    <3>2. CASE j <= m + (i - 1)
      BY <1>1, <2>5, <3>1, <3>2
    <3>3. CASE j > m + (i - 1)
      <4>1. j - (m + (i - 1)) = 1 /\ j - m = i /\ ~(j <= m) /\ ~(j <= m + (i - 1))
        BY <1>1, <3>3
      <4>2. all[j] = x[1]
        BY <3>1, <4>1
      <4> QED
        BY <2>4, <4>1, <4>2
    <3> QED
      BY <1>1, <3>2, <3>3
  <2>9. all = S[i]
    <3> DEFINE next == S[i]
               len == m + i
    <3>1. all \in Seq(Request) /\ Len(all) = len
      BY <1>1, <2>7 DEF all, Joined
    <3>2. next \in Seq(Request) /\ Len(next) = len /\ \A j \in 1 .. len : all[j] = next[j]
      BY <2>6, <2>8
    <3> HIDE DEF next, len
    <3>3. all = next
      BY <3>1, <3>2
    <3> QED
      BY <3>3 DEF next
  <2>10. S[i] = s \o Bodies(more[i]) /\ Bodies(more[i]) \in Seq(Request)
    BY <2>3, <2>4, <2>9 DEF all, x
  <2> QED
    BY <2>2, <2>5, <2>6, <2>10 DEF Unpacks, s
<1> QED
  BY <1>3, <1>4, <1>5, <1>6 DEF Unpacked, Leads, n

\* What is to do comes first in what is asked.
LEMMA UnpackedHead ==
    ASSUME NEW todo \in Seq(Request), todo # << >>, NEW out \in Seq(Sent), NEW asked,
           Unpacked(todo, out, asked)
    PROVE  /\ asked # << >> /\ Head(asked) = Head(todo)
           /\ Unpacked(Tail(todo), out, Tail(asked))
<1> DEFINE n == Len(out)
<1>1. n \in Nat
  OBVIOUS
<1>2. PICK S \in [0 .. n -> Seq(Request)] :
        /\ S[0] = todo /\ S[n] = asked
        /\ \A i \in 1 .. n : <<S[i - 1], out[i], S[i]>> \in Unpacks
  BY DEF Unpacked, Leads
<1> HIDE DEF n
<1> DEFINE P == {k \in 0 .. n : S[k] # << >> /\ Head(S[k]) = Head(todo)}
<1>3. ASSUME NEW k \in 0 .. n - 1, S[k] # << >>
      PROVE  /\ S[k + 1] # << >> /\ Head(S[k + 1]) = Head(S[k])
             /\ <<Tail(S[k]), out[k + 1], Tail(S[k + 1])>> \in Unpacks
  <2>1. k + 1 \in 1 .. n /\ k + 1 - 1 = k /\ k \in 0 .. n /\ k + 1 \in 0 .. n
    BY <1>1
  <2>2. <<S[k], out[k + 1], S[k + 1]>> \in Unpacks
    BY <1>2, <2>1
  <2> DEFINE s == S[k]
             r == S[k + 1]
             m == out[k + 1]
             add == Bodies(out[k + 1])
  <2>3. s \in Seq(Request) /\ r \in Seq(Request) /\ s # << >>
    BY <1>2, <1>3, <2>1
  <2>4. m \in Sent /\ add \in Seq(Request) /\ r = s \o add
    BY <2>2 DEF Unpacks
  <2> HIDE DEF s, r, add, Request
  <2>5. r # << >> /\ Head(r) = Head(s) /\ Tail(r) = Tail(s) \o add
    BY <2>3, <2>4, TailConcat
  <2>6. Tail(s) \in Seq(Request) /\ Tail(r) \in Seq(Request)
    BY <2>3, <2>5, HeadTailProperties
  <2> DEFINE ts == Tail(s)
             tr == Tail(r)
  <2> HIDE DEF ts, tr
  <2>7. <<ts, m, tr>> \in Unpacks
    <3>1. ts \in Seq(Request) /\ tr \in Seq(Request) /\ tr = ts \o Bodies(m) /\ Bodies(m) \in Seq(Request)
      BY <2>4, <2>5, <2>6 DEF ts, tr, add
    <3> HIDE DEF m
    <3> QED
      BY <2>4, <3>1 DEF Unpacks
  <2> QED
    BY <2>5, <2>7 DEF s, r, ts, tr
<1>4. 0 \in P
  BY <1>1, <1>2
<1>5. \A k \in 0 .. n - 1 : k \in P => k + 1 \in P
  <2> TAKE k \in 0 .. n - 1
  <2> HAVE k \in P
  <2>1. k + 1 \in 0 .. n /\ S[k] # << >> /\ Head(S[k]) = Head(todo)
    BY <1>1
  <2> QED
    BY <1>3, <2>1
<1> HIDE DEF P
<1>6. 0 .. n \subseteq P
  BY <1>1, <1>4, <1>5, UpTo
<1>7. \A k \in 0 .. n : S[k] # << >> /\ Head(S[k]) = Head(todo)
  BY <1>6 DEF P
<1>8. asked # << >> /\ Head(asked) = Head(todo)
  BY <1>1, <1>2, <1>7
<1> DEFINE Q == [k \in 0 .. n |-> Tail(S[k])]
<1>9. Q \in [0 .. n -> Seq(Request)]
  <2>1. ASSUME NEW k \in 0 .. n PROVE Tail(S[k]) \in Seq(Request)
    <3> DEFINE s == S[k]
    <3>1. s \in Seq(Request) /\ s # << >>
      BY <1>2, <1>7
    <3> HIDE DEF s
    <3>2. Tail(s) \in Seq(Request)
      BY <3>1, HeadTailProperties
    <3> QED
      BY <3>2 DEF s
  <2> QED
    BY <2>1
<1>10. \A k \in 0 .. n : Q[k] = Tail(S[k])
  OBVIOUS
<1> HIDE DEF Q
<1>11. Q[0] = Tail(todo) /\ Q[n] = Tail(asked)
  BY <1>1, <1>2, <1>10
<1>12. ASSUME NEW i \in 1 .. n PROVE <<Q[i - 1], out[i], Q[i]>> \in Unpacks
  <2>1. i - 1 \in 0 .. n - 1 /\ i - 1 + 1 = i /\ i - 1 \in 0 .. n /\ i \in 0 .. n
    BY <1>1
  <2>2. <<Tail(S[i - 1]), out[i - 1 + 1], Tail(S[i - 1 + 1])>> \in Unpacks
    BY <1>3, <1>7, <2>1
  <2> QED
    BY <1>10, <2>1, <2>2
<1> QED
  BY <1>8, <1>9, <1>11, <1>12 DEF Unpacked, Leads, n

\* The identifiers for a number are those of a list.
LEMMA NamingsTypes ==
    ASSUME NEW N \in Namings, NEW k \in Nat
    PROVE  N[k] \in Seq(RealID) /\ N[k] \in Seq(OpID)
<1>1. N[k] \in Seq(RealID)
  BY DEF Namings
<1>2. RealID \subseteq OpID
  BY DEF RealID
<1> QED
  BY <1>1, <1>2

\* A text that is not changed takes no operation.
LEMMA SameDiff ==
    ASSUME NEW b, Aligned(b)
    PROVE  diffToOps(b, b.value) = << >>
<1> DEFINE v == b.value
           p == PrefixLen(b.value, b.value)
           s == SuffixLen(b.value, b.value)
           put == Middle(b.value, b.value)
<1>1. v \in Seq(Chars)
  BY DEF Aligned, Tab
<1>2. p = Len(v)
  <2> DEFINE len == Len(v)
             P == {k \in 0 .. Min({len, len}) : \A i \in 1 .. k : v[i] = v[i]}
  <2>1. len \in Nat
    BY <1>1
  <2>2. p = Max(P)
    BY DEF PrefixLen
  <2> HIDE DEF len, p, v
  <2>3. P = 0 .. len
    BY <2>1, MinOfTwo
  <2>4. len \in P /\ P # {} /\ P \in SUBSET (0 .. len)
    BY <2>1, <2>3
  <2> HIDE DEF P
  <2>5. Max(P) \in P /\ \A k \in P : k <= Max(P)
    BY <2>1, <2>4, MaxUpTo
  <2>6. Max(P) \in 0 .. len /\ len <= Max(P)
    BY <2>3, <2>4, <2>5
  <2>7. Max(P) = len
    BY <2>1, <2>6
  <2> QED
    BY <2>2, <2>7 DEF len
<1>3. SharedEnds(v, v, p, s)
  BY <1>1, EndsShared
<1>4. /\ put \in Seq(Chars) /\ Len(put) = Len(v) - s - p
  BY <1>1, MiddleProperties
<1> HIDE DEF p, s, put
<1>5. Len(put) = 0
  BY <1>1, <1>2, <1>3, <1>4 DEF SharedEnds
<1>6. put = << >>
  BY <1>4, <1>5
<1>7. Cuts(b, v) = << >> /\ Puts(b, v) = << >>
  <2>1. Middle(v, v) = << >> /\ Len(<< >>) = 0
    BY <1>6 DEF put
  <2> HIDE DEF v
  <2>2. b.value = v
    BY DEF v
  <2>3. 1 .. 0 = {} /\ DOMAIN << >> = {}
    OBVIOUS
  <2>4. DOMAIN Cuts(b, v) = {} /\ DOMAIN Puts(b, v) = {}
    BY <2>1, <2>2, <2>3 DEF Cuts, Puts
  <2>5. Cuts(b, v) \in Seq(Request) /\ Puts(b, v) \in Seq(Request)
    BY <1>1, DiffHalves
  <2> QED
    BY <2>4, <2>5
<1>8. diffToOps(b, v) = Cuts(b, v) \o Puts(b, v)
  BY <1>1, DiffHalves
<1> QED
  BY <1>7, <1>8

\* A tab for which nothing of its own is on its way bears the names of its number.
LEMMA NamesQuiet ==
    ASSUME NEW N \in Namings, NEW b, NEW n \in Nat, b.lastSeq \in Nat,
           NamesTracked(N, b, n, {}, << >>, << >>)
    PROVE  Bears(b.shadow, b.count, N[b.lastSeq])
<1> DEFINE last == b.lastSeq
<1>1. last \in Nat /\ Seqs({}) = {}
  BY DEF Seqs
<1>2. ~Lost(last, n, Seqs({}), << >>, << >>)
  BY <1>1 DEF Lost
<1>3. NamesKept(N, b, n, {}, << >>, << >>)
  BY <1>2 DEF NamesTracked
<1> HIDE DEF last
<1>4. PICK k \in last .. n :
        /\ last + 1 .. k \subseteq Seqs({})
        /\ \E asked \in Seq(Request) :
            Unpacked(<< >>, << >>, asked) /\ Carries({}, asked, N[k], b.shadow, b.count)
  BY <1>3 DEF NamesKept, last
<1>5. k = last
  <2> SUFFICES ASSUME k # last PROVE FALSE
    OBVIOUS
  <2>1. last + 1 \in last + 1 .. k
    BY <1>1, <1>4
  <2> QED
    BY <1>1, <1>4, <2>1
<1>6. << >> \in Seq(Request)
  OBVIOUS
<1>7. Carries({}, << >>, N[k], b.shadow, b.count)
  BY <1>4, <1>6, UnpackedNone
<1>8. N[k] \in Seq(OpID)
  BY <1>1, <1>4, NamingsTypes
<1> QED
  BY <1>5, <1>7, <1>8, CarriesNone DEF last

\* And the other way round.
LEMMA QuietNames ==
    ASSUME NEW N \in Namings, NEW b, NEW n \in Nat, b.lastSeq \in Nat, b.lastSeq <= n,
           Bears(b.shadow, b.count, N[b.lastSeq])
    PROVE  NamesTracked(N, b, n, {}, << >>, << >>)
<1> DEFINE last == b.lastSeq
<1>1. last \in Nat /\ last <= n /\ N[last] \in Seq(OpID)
  BY NamingsTypes
<1>2. Carries({}, << >>, N[last], b.shadow, b.count)
  BY <1>1, CarriesNone
<1> HIDE DEF last
<1>3. << >> \in Seq(Request)
  OBVIOUS
<1>4. Unpacked(<< >>, << >>, << >>)
  BY <1>3, UnpackedNone
<1>5. last \in last .. n /\ last + 1 .. last \subseteq Seqs({})
  BY <1>1
<1>6. NamesKept(N, b, n, {}, << >>, << >>)
  BY <1>2, <1>3, <1>4, <1>5 DEF NamesKept, last
<1> QED
  BY <1>6 DEF NamesTracked

\* The document goes on from n to m, without tab b, whose operations on their way are own.
Elapses(N, U, b, own, n, m) ==
    /\ n \in Nat /\ m \in {n, n + 1} /\ Agree(N, U, n)
    /\ b.lastSeq \in Nat /\ b.lastSeq <= n /\ UpToNumber(own, n)

\* Somebody else does something.
LEMMA NamesOthers ==
    ASSUME NEW N, NEW U, NEW b, NEW n, NEW m, NEW own, Elapses(N, U, b, own, n, m),
           NEW todo, NEW out, NamesTracked(N, b, n, own, todo, out)
    PROVE  NamesTracked(U, b, m, own, todo, out)
<1> DEFINE last == b.lastSeq
<1>1. /\ last \in Nat /\ last <= n /\ n \in Nat /\ m \in Nat /\ m >= n /\ m \in {n, n + 1}
      /\ Agree(N, U, n) /\ UpToNumber(own, n)
  BY DEF Elapses
<1> HIDE DEF last
<1>2. CASE Lost(last, n, Seqs(own), todo, out)
  <2>1. Lost(last, m, Seqs(own), todo, out)
    BY <1>1, <1>2 DEF Lost
  <2> QED
    BY <2>1 DEF NamesTracked, last
<1>3. CASE NamesKept(N, b, n, own, todo, out)
  <2>1. PICK k \in last .. n :
          /\ last + 1 .. k \subseteq Seqs(own) /\ \A o \in own : o.seq <= k
          /\ todo # << >> \/ out # << >> => k = n
          /\ \E asked \in Seq(Request) :
              Unpacked(todo, out, asked) /\ Carries(own, asked, N[k], b.shadow, b.count)
    BY <1>3 DEF NamesKept, last
  <2>2. U[k] = N[k] /\ k \in last .. m
    BY <1>1, <2>1 DEF Agree
  <2>3. CASE m = n \/ (todo = << >> /\ out = << >>)
    <3>1. NamesKept(U, b, m, own, todo, out)
      BY <2>1, <2>2, <2>3 DEF NamesKept, last
    <3> QED
      BY <3>1 DEF NamesTracked
  <2>4. CASE m = n + 1 /\ (todo # << >> \/ out # << >>)
    <3>1. n + 1 \in last + 1 .. m
      BY <1>1, <2>4
    <3>2. n + 1 \notin Seqs(own)
      BY <1>1 DEF Seqs, UpToNumber
    <3>3. Lost(last, m, Seqs(own), todo, out)
      BY <2>4, <3>1, <3>2 DEF Lost
    <3> QED
      BY <3>3 DEF NamesTracked, last
  <2> QED
    BY <1>1, <2>3, <2>4
<1> QED
  BY <1>2, <1>3 DEF NamesTracked, last

\* The tab is told of the next operation of its own.
LEMMA NamesTold ==
    ASSUME NEW N, NEW b, NEW n \in Nat, b.lastSeq \in Nat, NEW own, UpToNumber(own, n),
           NEW todo, NEW out, NamesTracked(N, b, n, own, todo, out),
           NEW op \in Op, op \in own, op.seq = b.lastSeq + 1,
           NEW a, Aligned(a), a.shadow = b.shadow, a.count = b.count,
           op.type = "insert" => Named(a, op) # {} \/ Waiting(a) = {},
           NEW rest, rest \subseteq own, own \subseteq rest \cup {op},
           NEW c, c.lastSeq = b.lastSeq + 1, c.shadow = ShowOp(a, op, op.userID).shadow,
           c.count = ShowOp(a, op, op.userID).count
    PROVE  NamesTracked(N, c, n, rest, todo, out)
<1> DEFINE last == b.lastSeq
           x == ShowOp(a, op, op.userID)
<1>1. last \in Nat /\ last + 1 \in Seqs(own) /\ c.lastSeq = last + 1
  BY DEF Seqs
<1>2. Seqs(own) \subseteq Seqs(rest) \cup {last + 1} /\ Seqs(rest) \subseteq Seqs(own)
      /\ \A o \in Seqs(own) : o \in Nat
  BY DEF Seqs, UpToNumber
<1>3. c.shadow = x.shadow /\ c.count = x.count
  OBVIOUS
<1> HIDE DEF last, x
<1>4. CASE Lost(last, n, Seqs(own), todo, out)
  <2>1. PICK k \in last + 1 .. n :
          k \notin Seqs(own) /\ (todo # << >> \/ out # << >> \/ \E o \in Seqs(own) : o > k)
    BY <1>4 DEF Lost
  <2>2. k # last + 1 /\ k \notin Seqs(rest) /\ k \in last + 1 + 1 .. n
    BY <1>1, <1>2, <2>1
  <2>3. (\E o \in Seqs(own) : o > k) => \E o \in Seqs(rest) : o > k
    BY <1>1, <1>2, <2>1
  <2>4. Lost(last + 1, n, Seqs(rest), todo, out)
    BY <2>1, <2>2, <2>3 DEF Lost
  <2> QED
    BY <1>1, <2>4 DEF NamesTracked
<1>5. CASE NamesKept(N, b, n, own, todo, out)
  <2>1. PICK k \in last .. n :
          /\ last + 1 .. k \subseteq Seqs(own) /\ \A o \in own : o.seq <= k
          /\ todo # << >> \/ out # << >> => k = n
          /\ \E asked \in Seq(Request) :
              Unpacked(todo, out, asked) /\ Carries(own, asked, N[k], b.shadow, b.count)
    BY <1>5 DEF NamesKept, last
  <2>2. PICK asked \in Seq(Request) :
          Unpacked(todo, out, asked) /\ Carries(own, asked, N[k], b.shadow, b.count)
    BY <2>1
  <2>3. k \in last + 1 .. n /\ \A o \in rest : o.seq <= k
    <3>1. op.seq <= k /\ op.seq = last + 1
      BY <2>1 DEF last
    <3> QED
      BY <1>1, <2>1, <3>1
  <2>4. last + 1 + 1 .. k \subseteq Seqs(rest)
    BY <1>1, <1>2, <2>1
  <2>5. Carries(rest, asked, N[k], c.shadow, c.count)
    <3> DEFINE v == N[k]
    <3>1. Carries(own, asked, v, a.shadow, a.count)
      BY <2>2
    <3> HIDE DEF v
    <3>2. Carries(rest, asked, v, x.shadow, x.count)
      BY <3>1, CarriesTold DEF x
    <3> QED
      BY <1>3, <3>2 DEF v
  <2>6. NamesKept(N, c, n, rest, todo, out)
    BY <1>1, <2>1, <2>2, <2>3, <2>4, <2>5 DEF NamesKept
  <2> QED
    BY <2>6 DEF NamesTracked
<1> QED
  BY <1>4, <1>5 DEF NamesTracked, last

\* The tab does something, and sends it.
LEMMA NamesTyped ==
    ASSUME NEW N, NEW b, Aligned(b), NEW n \in Nat, b.lastSeq \in Nat, b.lastSeq <= n,
           NEW own, UpToNumber(own, n), NEW todo \in Seq(Request), NEW out \in Seq(Sent),
           NamesTracked(N, b, n, own, todo, out), NEW new \in Seq(Chars),
           NEW c, c.lastSeq = b.lastSeq, c.shadow = Edited(b, new).shadow,
           c.count = Edited(b, new).count
    PROVE  NamesTracked(N, c, n, own, todo, out \o diffToOps(b, new))
<1> DEFINE last == b.lastSeq
           more == diffToOps(b, new)
           all == out \o more
<1>1. more \in Seq(Request) /\ more \in Seq(Sent)
  BY DiffIsRequests, RequestSent
<1>2. last \in Nat /\ last <= n /\ c.lastSeq = last
  OBVIOUS
<1>3. ASSUME NEW asked \in Seq(Request), NEW v, Carries(own, asked, v, b.shadow, b.count)
      PROVE  Carries(own, asked \o more, v, c.shadow, c.count)
  BY <1>3, EditedCarries
<1>4. ASSUME NEW asked \in Seq(Request), Unpacked(todo, out, asked)
      PROVE  asked \o more \in Seq(Request) /\ Unpacked(todo, all, asked \o more)
  <2> HIDE DEF more
  <2>1. asked \o more \in Seq(Request)
    BY <1>1, ConcatProperties
  <2>2. Unpacked(asked, more, asked \o more)
    BY <1>1, UnpackedMore
  <2>3. Unpacked(todo, all, asked \o more)
    BY <1>1, <1>4, <2>2, LeadsOn DEF Unpacked
  <2> QED
    BY <2>1, <2>3
<1>5. more = << >> => all = out
  <2> HIDE DEF more
  <2> QED OBVIOUS
<1>6. more # << >> => all # << >>
  <2>1. Len(all) = Len(out) + Len(more) /\ Len(out) \in Nat /\ Len(more) \in Nat
    BY <1>1, ConcatProperties
  <2>2. more # << >> => Len(more) > 0
    <3> HIDE DEF more
    <3> QED
      BY <1>1
  <2> HIDE DEF all, more
  <2> QED
    BY <2>1, <2>2
<1> HIDE DEF last, more, all
<1>7. CASE Lost(last, n, Seqs(own), todo, out)
  <2>1. Lost(last, n, Seqs(own), todo, all)
    BY <1>5, <1>6, <1>7 DEF Lost
  <2> QED
    BY <1>2, <2>1 DEF NamesTracked, all, more
<1>8. CASE NamesKept(N, b, n, own, todo, out)
  <2>1. PICK k \in last .. n :
          /\ last + 1 .. k \subseteq Seqs(own) /\ \A o \in own : o.seq <= k
          /\ todo # << >> \/ out # << >> => k = n
          /\ \E asked \in Seq(Request) :
              Unpacked(todo, out, asked) /\ Carries(own, asked, N[k], b.shadow, b.count)
    BY <1>8 DEF NamesKept, last
  <2>2. PICK asked \in Seq(Request) :
          Unpacked(todo, out, asked) /\ Carries(own, asked, N[k], b.shadow, b.count)
    BY <2>1
  <2> DEFINE more2 == asked \o more
  <2>3. more2 \in Seq(Request) /\ Unpacked(todo, all, more2)
        /\ Carries(own, more2, N[k], c.shadow, c.count)
    BY <1>3, <1>4, <2>2
  <2> HIDE DEF more2
  <2>4. CASE k = n \/ more = << >>
    <3>1. todo # << >> \/ all # << >> => k = n
      BY <1>5, <2>1, <2>4
    <3>2. NamesKept(N, c, n, own, todo, all)
      BY <1>2, <2>1, <2>3, <3>1 DEF NamesKept
    <3> QED
      BY <3>2 DEF NamesTracked, all, more
  <2>5. CASE k # n /\ more # << >>
    <3>1. k + 1 \in last + 1 .. n
      BY <1>2, <2>1, <2>5
    <3>2. k + 1 \notin Seqs(own)
      <4>1. \A o \in own : o.seq <= k /\ o.seq \in Nat
        BY <2>1 DEF UpToNumber
      <4>2. k \in Nat
        BY <1>2, <2>1
      <4> QED
        BY <4>1, <4>2 DEF Seqs
    <3>3. Lost(last, n, Seqs(own), todo, all)
      BY <1>6, <2>5, <3>1, <3>2 DEF Lost
    <3> QED
      BY <1>2, <3>3 DEF NamesTracked, all, more
  <2> QED
    BY <2>4, <2>5
<1> QED
  BY <1>7, <1>8 DEF NamesTracked, last

\* The server starts the batch that the tab sent.
LEMMA NamesBatch ==
    ASSUME NEW N, NEW b, NEW n, NEW own, NEW out \in Seq(Sent), NamesTracked(N, b, n, own, << >>, out),
           out # << >>, Head(out).type = "batch_sync", Head(out).ops # << >>
    PROVE  NamesTracked(N, b, n, own, Head(out).ops, Tail(out))
<1> DEFINE ops == Head(out).ops
           rest == Tail(out)
<1>1. ASSUME NEW asked, Unpacked(<< >>, out, asked) PROVE Unpacked(ops, rest, asked)
  <2>1. PICK w \in Seq(Request) :
          <<<< >>, Head(out), w>> \in Unpacks /\ Leads(Seq(Request), Unpacks, w, rest, asked)
    BY <1>1, LeadsFirst DEF Unpacked
  <2>2. Bodies(Head(out)) = ops
    BY DEF Bodies
  <2>3. ops \in Seq(Request) /\ w = << >> \o ops
    BY <2>1, <2>2 DEF Unpacks
  <2> HIDE DEF ops
  <2>4. w = ops
    BY <2>3
  <2> QED
    BY <2>1, <2>4 DEF Unpacked
<1> HIDE DEF ops, rest
<1>2. ops # << >>
  BY DEF ops
<1>3. CASE Lost(b.lastSeq, n, Seqs(own), << >>, out)
  <2>1. Lost(b.lastSeq, n, Seqs(own), ops, rest)
    BY <1>2, <1>3 DEF Lost
  <2> QED
    BY <2>1 DEF NamesTracked, ops, rest
<1>4. CASE NamesKept(N, b, n, own, << >>, out)
  <2>1. NamesKept(N, b, n, own, ops, rest)
    BY <1>1, <1>4 DEF NamesKept
  <2> QED
    BY <2>1 DEF NamesTracked, ops, rest
<1> QED
  BY <1>3, <1>4 DEF NamesTracked

\* The server does the next thing that the tab asked for, where the tab asked for it.
LEMMA NamesServed ==
    ASSUME NEW N \in Namings, NEW U, NEW b, b.shadow \in Seq(OpID), b.count \in Nat,
           NEW n \in Nat, Agree(N, U, n), b.lastSeq \in Nat, b.lastSeq <= n,
           NEW own, UpToNumber(own, n), NEW todo \in Seq(Request), NEW out \in Seq(Sent),
           NamesTracked(N, b, n, own, todo, out), NEW rest, NEW left,
           NEW op, NEW r \in Request, Serves(op, r), op.seq = n + 1, U[n + 1] = Renamed(N[n], op),
           \/ /\ todo = << >> /\ rest = << >> /\ out # << >> /\ left = Tail(out) /\ r = Head(out)
           \/ /\ todo # << >> /\ rest = Tail(todo) /\ left = out /\ r = Head(todo)
    PROVE  NamesTracked(U, b, n + 1, own \cup {op}, rest, left)
<1> DEFINE last == b.lastSeq
           more == own \cup {op}
<1>1. last \in Nat /\ last <= n
  OBVIOUS
<1>2. Seqs(more) = Seqs(own) \cup {n + 1} /\ \A o \in more : o.seq <= n + 1
  <2>1. Seqs(more) = Seqs(own) \cup {n + 1}
    BY DEF Seqs
  <2>2. \A o \in own : o.seq <= n + 1
    <3> SUFFICES ASSUME NEW o \in own PROVE o.seq <= n + 1
      OBVIOUS
    <3>1. o.seq \in Nat /\ o.seq <= n
      BY DEF UpToNumber
    <3> QED
      BY <3>1
  <2>3. op.seq <= n + 1
    OBVIOUS
  <2> QED
    BY <2>1, <2>2, <2>3
<1> HIDE DEF last, more
<1>3. CASE Lost(last, n, Seqs(own), todo, out)
  <2>1. PICK k \in last + 1 .. n : k \notin Seqs(own)
    BY <1>3 DEF Lost
  <2>2. k \in last + 1 .. n + 1 /\ k \notin Seqs(more) /\ n + 1 \in Seqs(more) /\ n + 1 > k
    BY <1>1, <1>2, <2>1
  <2>3. Lost(last, n + 1, Seqs(more), rest, left)
    BY <2>2 DEF Lost
  <2> QED
    BY <2>3 DEF NamesTracked, last, more
<1>4. CASE NamesKept(N, b, n, own, todo, out)
  <2>1. PICK k \in last .. n :
          /\ last + 1 .. k \subseteq Seqs(own) /\ k = n
          /\ \E asked \in Seq(Request) :
              Unpacked(todo, out, asked) /\ Carries(own, asked, N[k], b.shadow, b.count)
    BY <1>4 DEF NamesKept, last
  <2>2. PICK asked \in Seq(Request) :
          Unpacked(todo, out, asked) /\ Carries(own, asked, N[n], b.shadow, b.count)
    BY <2>1
  <2>3. asked # << >> /\ Head(asked) = r /\ Unpacked(rest, left, Tail(asked))
    <3>1. CASE todo = << >>
      <4>1. rest = << >> /\ out # << >> /\ left = Tail(out) /\ r = Head(out)
        BY <3>1
      <4>2. PICK w \in Seq(Request) :
              <<<< >>, r, w>> \in Unpacks /\ Leads(Seq(Request), Unpacks, w, left, asked)
        BY <2>2, <3>1, <4>1, LeadsFirst DEF Unpacked
      <4>3. w = << >> \o <<r>>
        BY <4>2, RequestKinds DEF Unpacks, Bodies
      <4>4. w # << >> /\ Head(w) = r /\ Tail(w) = << >>
        BY <4>3
      <4>5. left \in Seq(Sent) /\ Unpacked(w, left, asked)
        <5>1. left \in Seq(Sent)
          BY <4>1, HeadTailProperties
        <5> QED
          BY <4>2, <5>1 DEF Unpacked
      <4>6. asked # << >> /\ Head(asked) = Head(w) /\ Unpacked(Tail(w), left, Tail(asked))
        BY <4>4, <4>5, UnpackedHead
      <4> QED
        BY <4>1, <4>4, <4>6
    <3>2. CASE todo # << >>
      <4>1. asked # << >> /\ Head(asked) = Head(todo) /\ Unpacked(Tail(todo), out, Tail(asked))
        BY <2>2, <3>2, UnpackedHead
      <4> QED
        BY <3>2, <4>1
    <3> QED
      BY <3>1, <3>2
  <2>4. Tail(asked) \in Seq(Request)
    BY <2>3, HeadTailProperties
  <2>5. Carries(more, Tail(asked), U[n + 1], b.shadow, b.count)
    <3> DEFINE s == N[n]
               shadow == b.shadow
               count == b.count
    <3>1. s \in Seq(RealID) /\ shadow \in Seq(OpID) /\ count \in Nat
      BY NamingsTypes
    <3>2. Carries(own, asked, s, shadow, count) /\ U[n + 1] = Renamed(s, op)
      BY <2>2
    <3> HIDE DEF s, shadow, count
    <3>3. Carries(own \cup {op}, Tail(asked), Renamed(s, op), shadow, count)
      BY <2>3, <3>1, <3>2, CarriesServed
    <3> QED
      BY <3>2, <3>3 DEF more, shadow, count
  <2>6. n + 1 \in last .. n + 1 /\ last + 1 .. n + 1 \subseteq Seqs(more)
    BY <1>1, <1>2, <2>1
  <2>7. NamesKept(U, b, n + 1, more, rest, left)
    BY <1>2, <2>3, <2>4, <2>5, <2>6 DEF NamesKept, last
  <2> QED
    BY <2>7 DEF NamesTracked, more
<1> QED
  BY <1>3, <1>4 DEF NamesTracked, last

\* The tab is told the names of number c.lastSeq, and sends the edits that make its
\* text of what they stand at.
LEMMA NamesAnew ==
    ASSUME NEW N, NEW c, NEW n \in Nat, c.lastSeq \in Nat, c.lastSeq <= n, NEW out,
           NEW asked \in Seq(Request), Unpacked(<< >>, out, asked),
           Carries({}, asked, N[c.lastSeq], c.shadow, c.count)
    PROVE  NamesTracked(N, c, n, {}, << >>, out)
<1> DEFINE last == c.lastSeq
<1>1. last \in Nat /\ last <= n /\ Carries({}, asked, N[last], c.shadow, c.count)
  OBVIOUS
<1> HIDE DEF last
<1>2. CASE last = n \/ out = << >>
  <2>1. last \in last .. n /\ last + 1 .. last \subseteq Seqs({})
    BY <1>1
  <2>2. NamesKept(N, c, n, {}, << >>, out)
    BY <1>1, <1>2, <2>1 DEF NamesKept, last
  <2> QED
    BY <2>2 DEF NamesTracked
<1>3. CASE last # n /\ out # << >>
  <2>1. last + 1 \in last + 1 .. n /\ last + 1 \notin Seqs({})
    BY <1>1, <1>3 DEF Seqs
  <2>2. Lost(last, n, Seqs({}), << >>, out)
    BY <1>3, <2>1 DEF Lost
  <2> QED
    BY <2>2 DEF NamesTracked, last
<1> QED
  BY <1>2, <1>3

\* A tab that is shown somebody else's operation changes its shadow as the room changed
\* its names.
LEMMA ShownNames ==
    ASSUME NEW b, Aligned(b), NEW op \in Op, NEW me, op.userID # me, NEW s \in Seq(RealID),
           Bears(b.shadow, b.count, s), op.type = "insert" => op.newID \in RealID
    PROVE  Bears(ShowOp(b, op, me).shadow, ShowOp(b, op, me).count, Renamed(s, op))
<1>1. b \in Tab
  BY DEF Aligned
<1>2. ShowOp(b, op, me) = RemoteOp(b, op)
  BY DEF ShowOp
<1>3. RemoteOp(b, op).count = b.count /\ RemoteOp(b, op).shadow = Renamed(b.shadow, op)
  BY <1>1 DEF RemoteOp, Renamed, Tab
<1>4. b.shadow \in Seq(OpID) /\ b.count \in Nat
  BY <1>1 DEF Tab
<1> DEFINE shadow == b.shadow
           count == b.count
<1>5. shadow \in Seq(OpID) /\ count \in Nat /\ Bears(shadow, count, s)
  BY <1>4
<1> HIDE DEF shadow, count
<1>6. Bears(Renamed(shadow, op), count, Renamed(s, op))
  BY <1>5, BearsOther
<1> QED
  BY <1>2, <1>3, <1>6 DEF shadow, count

\* What an operation leaves of a tab that does not wait for a restore.
LEMMA ReceivedNames ==
    ASSUME NEW b, Aligned(b), NEW m \in Message, IsOp(m), m.seq > b.lastSeq, ~b.restoring, NEW me
    PROVE  LET r == Received(b, m, me)
               a == Numbered(b, m)
           IN  /\ r.shadow = ShowOp(a, m, me).shadow /\ r.count = ShowOp(a, m, me).count
               /\ Aligned(a) /\ a.shadow = b.shadow /\ a.count = b.count /\ a.pending = b.pending
<1> DEFINE n == Numbered(b, m)
           x == ShowOp(n, m, me)
<1>1. b \in Tab /\ b.lastSeq \in Nat /\ m.seq \in Nat /\ m \in Op
  BY MessageTypes DEF Aligned, Tab
<1>2. Aligned(n) /\ n.shadow = b.shadow /\ n.count = b.count /\ n.pending = b.pending
  <2>1. Aligned(n)
    BY NumberedAligned
  <2> QED
    BY <1>1, <2>1 DEF Numbered, Tab
<1>3. Received(b, m, me) = Synced(x)
  <2>1. ~Duplicate(b, m)
    BY <1>1 DEF Duplicate
  <2> HIDE DEF x
  <2>2. Received(b, m, me) = IF Duplicate(b, m) THEN b ELSE IF b.restoring THEN n ELSE Synced(x)
    <3>1. IsOp(m) /\ m.type \notin {"full_sync", "replay_sync", "signal"}
      BY MessageTypes
    <3> QED
      BY <3>1 DEF Received, n, x, Numbered
  <2> QED
    BY <2>1, <2>2
<1> HIDE DEF n
<1>4. Aligned(x)
  BY <1>1, <1>2, ShowOpAligned
<1> HIDE DEF x
<1>5. Synced(x).shadow = x.shadow /\ Synced(x).count = x.count
  BY <1>4 DEF Synced, Aligned, Tab
<1> QED
  BY <1>2, <1>3, <1>5 DEF x, n

\* And a message that is not about the document.
LEMMA SignalledNames ==
    ASSUME NEW b, Aligned(b), NEW m \in Message, m.type = "signal", NEW me
    PROVE  LET r == Received(b, m, me)
           IN  r.shadow = b.shadow /\ r.count = b.count /\ r.lastSeq = b.lastSeq
<1>1. b \in Tab
  BY DEF Aligned
<1>2. Received(b, m, me) = [b EXCEPT !.lastSeq = Max({@, m.seq})]
  BY DEF Received, IsOp
<1>3. Received(b, m, me).lastSeq = b.lastSeq
  BY ReceivedSignal
<1> QED
  BY <1>1, <1>2, <1>3 DEF Tab

\* ops are made by others, and N goes on with them behind number from.
NamesGoOn(N, from, ops, me) ==
    \A i \in DOMAIN ops : ops[i].seq = from + i /\ MakesNames(N, ops[i]) /\ ops[i].userID # me

\* The operations of a replay take the names of a number to those of a later one.
LEMMA ReplayedNames ==
    ASSUME NEW N \in Namings, NEW b, Aligned(b), NEW ops \in Seq(Op), NEW me, NEW from \in Nat,
           Bears(b.shadow, b.count, N[from]), NamesGoOn(N, from, ops, me)
    PROVE  LET r == Replayed(b, ops, me)
           IN  Bears(r.shadow, r.count, N[from + Len(ops)])
<1>0. PICK after : Through(after, b, ops, me)
  BY ReplayedIs
<1>1. /\ Replayed(b, ops, me) = after[Len(ops)] /\ after[0] = b
      /\ \A k \in 0 .. Len(ops) - 1 : after[k + 1] = ShowOp(after[k], ops[k + 1], me)
  BY <1>0 DEF Through
<1> DEFINE S == {k \in 0 .. Len(ops) :
                    Aligned(after[k]) /\ Bears(after[k].shadow, after[k].count, N[from + k])}
<1>3. 0 \in S
  <2>1. from + 0 = from
    OBVIOUS
  <2> QED
    BY <1>1, <2>1
<1>4. ASSUME NEW k \in 0 .. Len(ops) - 1, k \in S PROVE k + 1 \in S
  <2>1. after[k + 1] = ShowOp(after[k], ops[k + 1], me)
    BY <1>1
  <2> DEFINE x == after[k]
             op == ops[k + 1]
             s == N[from + k]
             y == after[k + 1]
             v == N[from + (k + 1)]
  <2>2. k + 1 \in DOMAIN ops
    OBVIOUS
  <2>3. op \in Op /\ op.seq = from + (k + 1) /\ MakesNames(N, op) /\ op.userID # me
    BY <2>2 DEF NamesGoOn
  <2>4. Aligned(x) /\ Bears(x.shadow, x.count, s)
    BY <1>4
  <2>5. y = ShowOp(x, op, me)
    BY <2>1
  <2>6. s \in Seq(RealID)
    BY NamingsTypes
  <2>7. v = Renamed(s, op) /\ (op.type = "insert" => op.newID \in RealID)
    <3>1. from + (k + 1) - 1 = from + k
      OBVIOUS
    <3> QED
      BY <2>3, <3>1 DEF MakesNames
  <2>8. k + 1 \in 0 .. Len(ops)
    OBVIOUS
  <2> HIDE DEF x, op, s, y, v
  <2>9. Aligned(y)
    BY <2>3, <2>4, <2>5, ShowOpAligned
  <2>10. Bears(y.shadow, y.count, v)
    BY <2>3, <2>4, <2>5, <2>6, <2>7, ShownNames
  <2> QED
    BY <2>8, <2>9, <2>10 DEF y, v
<1>5. 0 .. Len(ops) \subseteq S
  <2> DEFINE M == Len(ops)
  <2>1. M \in Nat
    OBVIOUS
  <2>2. \A k \in 0 .. M - 1 : k \in S => k + 1 \in S
    BY <1>4
  <2> HIDE DEF S, M
  <2>3. 0 .. M \subseteq S
    BY <1>3, <2>1, <2>2, UpTo
  <2> QED
    BY <2>3 DEF M
<1>6. Len(ops) \in 0 .. Len(ops)
  OBVIOUS
<1> QED
  BY <1>1, <1>5, <1>6

\* A full text comes with the names of its characters, and what the tab sends makes
\* of them the names that its merged text bears.
LEMMA NamesFull ==
    ASSUME NEW b, Aligned(b), NEW m, Matched(m), m.type = "full_sync", ~AsksRestore(b, m), NEW me,
           m.nodeIDs \in Seq(RealID)
    PROVE  LET r == Received(b, m, me)
           IN  \E asked \in Seq(Request) :
                 /\ Unpacked(<< >>, FullSyncReply(b, m), asked)
                 /\ Carries({}, asked, m.nodeIDs, r.shadow, r.count)
<1> DEFINE n == Numbered(b, m)
           r == Received(b, m, me)
           v == Merged(b, m)
           y == Rebuilt(n, m)
           x == Edited(y, v)
           d == diffToOps(y, v)
           ids == m.nodeIDs
<1>1. b \in Tab /\ m \in Message /\ m \in FullSync /\ ~IsOp(m)
  BY MessageTypes DEF Aligned, Matched
<1>2. /\ Aligned(n) /\ n.lastSeq = Max({b.lastSeq, m.seq})
      /\ AsksRestore(n, m) = AsksRestore(b, m) /\ Merged(n, m) = v
  BY <1>1, NumberedAligned
<1>3. r = Synced(x)
  <2>1. r = FullSynced(n, m)
    BY <1>1 DEF Received, Numbered
  <2> QED
    BY <1>2, <2>1 DEF FullSynced
<1>4. v \in Seq(Chars)
  BY RebuiltAligned
<1>5. /\ y.value = m.content /\ y.shadow = ids /\ y.count = b.count
      /\ Rebuilt(b, m).value = m.content /\ Rebuilt(b, m).shadow = ids /\ Rebuilt(b, m).count = b.count
  BY <1>1, <1>2 DEF Rebuilt, Numbered, Tab
<1>6. d = diffToOps(Rebuilt(b, m), v)
  BY <1>5 DEF diffToOps
<1>7. Aligned(y) /\ b.count \in Nat
  BY <1>1, <1>2, RebuiltAligned DEF Tab
<1>8. FullSyncReply(b, m) = IF v = m.content THEN << >> ELSE <<[type |-> "batch_sync", ops |-> d]>>
  BY <1>6 DEF FullSyncReply
<1> HIDE DEF n, v, y
<1>9. d \in Seq(Request)
  BY <1>4, <1>7, DiffIsRequests
<1>10. Aligned(x)
  BY <1>4, <1>7, EditedAligned
<1>11. Unpacked(<< >>, FullSyncReply(b, m), d)
  <2>1. CASE v = m.content
    <3>1. d = << >>
      BY <1>5, <1>7, <2>1, SameDiff
    <3>2. << >> \in Seq(Request)
      OBVIOUS
    <3> QED
      BY <1>8, <2>1, <3>1, <3>2, UnpackedNone
  <2>2. CASE v # m.content
    <3> HIDE DEF d
    <3> DEFINE msg == [type |-> "batch_sync", ops |-> d]
    <3>1. msg \in Sent /\ msg.type = "batch_sync" /\ msg.ops = d
      BY <1>9 DEF Sent
    <3> HIDE DEF msg
    <3>2. Bodies(msg) = d
      BY <3>1 DEF Bodies
    <3>3. << >> \in Seq(Request) /\ d = << >> \o d
      BY <1>9
    <3>4. <<<< >>, msg, d>> \in Unpacks
      BY <1>9, <3>1, <3>2, <3>3 DEF Unpacks
    <3>5. Leads(Seq(Request), Unpacks, << >>, <<msg>>, d)
      BY <1>9, <3>3, <3>4, LeadsOne
    <3> QED
      BY <1>8, <2>2, <3>5 DEF Unpacked, msg
  <2> QED
    BY <2>1, <2>2
<1>12. Carries({}, d, ids, x.shadow, x.count)
  <2>1. ids \in Seq(OpID) /\ \A i \in DOMAIN ids : ids[i].clock > 0 /\ ids[i].clock \in Int
    <3> HIDE DEF ids
    <3>1. ids \in Seq(RealID)
      BY DEF ids
    <3>2. RealID \subseteq OpID /\ \A id \in RealID : id.clock > 0 /\ id.clock \in Int
      BY DEF RealID, OpID
    <3> HIDE DEF ids
    <3> QED
      BY <3>1, <3>2
  <2> DEFINE count == b.count
  <2>2. Bears(ids, count, ids)
    <3>1. count \in Nat
      BY <1>7
    <3> HIDE DEF count, ids
    <3>2. \A i \in DOMAIN ids : ids[i].clock >= -count
      BY <2>1, <3>1
    <3> QED
      BY <3>2 DEF Bears
  <2> DEFINE none == << >>
  <2>3. Carries({}, none, ids, y.shadow, y.count)
    <3> HIDE DEF ids
    <3>1. Carries({}, << >>, ids, ids, count)
      BY <2>1, <2>2, CarriesNone
    <3> QED
      BY <1>5, <3>1 DEF ids
  <2>4. none \in Seq(Request) /\ none \o d = d
    BY <1>9
  <2> HIDE DEF none, ids
  <2>5. Carries({}, none \o diffToOps(y, v), ids, Edited(y, v).shadow, Edited(y, v).count)
    BY <1>4, <1>7, <2>3, <2>4, EditedCarries
  <2> QED
    BY <2>4, <2>5
<1>13. r.shadow = x.shadow /\ r.count = x.count
  BY <1>3, <1>10 DEF Synced, Aligned, Tab
<1> HIDE DEF d, x, r
<1> QED
  BY <1>9, <1>11, <1>12, <1>13 DEF r

\* A replay leaves the names that its operations make.
LEMMA ReplayShadow ==
    ASSUME NEW b, Aligned(b), NEW m \in Message, m.type = "replay_sync", NEW me
    PROVE  LET r == Received(b, m, me)
               n == Numbered(b, m)
           IN  /\ r.shadow = Replayed(n, m.ops, me).shadow /\ r.count = Replayed(n, m.ops, me).count
               /\ Aligned(n) /\ n.shadow = b.shadow /\ n.count = b.count
<1> DEFINE n == Numbered(b, m)
           x == Replayed(n, m.ops, me)
           y == [x EXCEPT !.away = FALSE]
<1>1. m.ops \in Seq(Op) /\ ~IsOp(m) /\ b \in Tab
  BY MessageTypes DEF ReplaySync, Aligned
<1>2. Aligned(n) /\ n.shadow = b.shadow /\ n.count = b.count
  <2>1. n.shadow = b.shadow /\ n.count = b.count
    BY <1>1 DEF Numbered, Tab
  <2> QED
    BY <2>1, NumberedAligned
<1>3. Received(b, m, me) = Synced(y)
  BY <1>1 DEF Received, Numbered
<1> HIDE DEF n
<1>4. Aligned(x)
  BY <1>1, <1>2, ReplayedAligned
<1> HIDE DEF x
<1>5. Synced(y).shadow = x.shadow /\ Synced(y).count = x.count
  BY <1>4 DEF Synced, Aligned, Tab
<1> HIDE DEF y
<1> QED
  BY <1>2, <1>3, <1>5 DEF x, n

-----------------------------------------------------------------------------
(***************************************************************************)
(* How a tab's shadow follows the room: SettledSameNames while things are  *)
(* on their way.                                                           *)
(***************************************************************************)

\* Every visible character has an identifier that a room gave it.
LEMMA RealNames ==
    ASSUME NEW C, NEW d \in Seq(Node(C)), NEW k, Fresh(d, k)
    PROVE  GetVisibleNodeIDs(d) \in Seq(RealID)
<1>1. DocLen(d) \in Nat
  BY VisibleFinite
<1>2. ASSUME NEW p \in 1 .. DocLen(d) PROVE d[VisibleAt(d, p - 1)].ID \in RealID
  <2> DEFINE i == VisibleAt(d, p - 1)
  <2>1. i \in Visible(d)
    BY <1>1, <1>2, VisibleAtPosition
  <2> HIDE DEF i
  <2>2. i \in DOMAIN d /\ d[i] \in Node(C)
    BY <2>1, VisibleFinite, ElementOfSeq DEF Visible
  <2>3. d[i].ID \in OpID /\ d[i].ID.clock \in 1 .. k
    BY <2>2 DEF Node, Fresh
  <2>4. d[i].ID.clock > 0
    BY <2>3
  <2> QED
    BY <2>3, <2>4 DEF RealID, i
<1>3. GetVisibleNodeIDs(d) \in [1 .. DocLen(d) -> RealID]
  BY <1>2 DEF GetVisibleNodeIDs
<1> QED
  BY <1>1, <1>3

\* The identifiers of the document's characters.
Ids == GetVisibleNodeIDs(doc)

\* Something that t did is not acknowledged.
Pending(t) ==
    \/ OwnOps(t) # {} \/ Todo(t) # << >>
    \/ \E i \in DOMAIN up[t] : up[t][i].type \in {"insert", "delete", "batch_sync"}

\* A tab is told the names of a number.
NamesAt(N, q, S, n, ids) ==
    \E g \in DOMAIN q :
        q[g].type = "full_sync" /\ N[q[g].seq] = q[g].nodeIDs /\ NamesRecord(N, S, q[g].seq, n, ids)

\* The operations of a replay make the names of their numbers.
NamesReplayed(N, n, ops) == \A i \in DOMAIN ops : ops[i].seq \in 1 .. n /\ MakesNames(N, ops[i])

\* A tab that is connected and has been told everything so far is tracked; another one
\* bears the names of its number, unless it did something that is on its way.
NamesShown(t, N) ==
    IF t \in clients /\ ~Has(send[t], "replay_sync")
    THEN NamesTracked(N, tab[t], DocumentNumber, OwnOps(t), Todo(t), up[t])
    ELSE /\ Pending(t) \/ Bears(tab[t].shadow, tab[t].count, N[tab[t].lastSeq])
         /\ Has(send[t], "replay_sync") => NamesReplayed(N, DocumentNumber, send[t][1].ops)

\* Tab t is at one of the places that Follows lists, with the names of that place.  It is at
\* none before it first connects.
NamesFollow(t, N) ==
    IF Has(send[t], "full_sync")
    THEN NamesAt(N, send[t], Past(t), DocumentNumber, Ids)
    ELSE t \in clients \/ tab[t].lastSeq > 0 =>
            /\ live /\ NamesRecord(N, Past(t), tab[t].lastSeq, DocumentNumber, Ids)
            /\ NamesShown(t, N)

\* A tab to which nothing happened that might part it from the room follows some
\* history of its names.
NamesFollowed == \A t \in Clients : strayed[t] = {} => \E N \in Namings : NamesFollow(t, N)

-----------------------------------------------------------------------------

\* The document's characters have real identifiers.
LEMMA IdsReal == ASSUME RoomKnown PROVE Ids \in Seq(RealID)
<1>1. doc \in Seq(Node(Chars)) /\ FreshIDs
  BY DEF RoomKnown, EditorInv, RoomInv, TypeOK
<1> QED
  BY <1>1, RealNames, FreshIDsIsFresh DEF Ids

\* So have those of the next state.
LEMMA IdsRealNext == ASSUME RoomKnown' PROVE Ids' \in Seq(RealID)
<1>1. doc' \in Seq(Node(Chars)) /\ FreshIDs'
  BY DEF RoomKnown, EditorInv, RoomInv, TypeOK
<1> QED
  BY <1>1, RealNames, FreshIDsIsFreshNext DEF Ids

\* What is pending is outstanding.
LEMMA PendingOut == ASSUME NEW t, Pending(t) PROVE Outstanding(t)
<1>1. CASE OwnOps(t) # {}
  BY <1>1 DEF OwnOps, Ops, Outstanding
<1>2. CASE Todo(t) # << >>
  BY <1>2 DEF Todo, Outstanding, Unlocked
<1>3. CASE \E i \in DOMAIN up[t] : up[t][i].type \in {"insert", "delete", "batch_sync"}
  BY <1>3 DEF Outstanding
<1> QED
  BY <1>1, <1>2, <1>3 DEF Pending

\* The numbers of those are those that the tab may be told of, and that the document
\* has reached.
LEMMA OwnKnown ==
    ASSUME RoomKnown, NEW t \in Clients
    PROVE  /\ Own(t) = Seqs(OwnOps(t)) /\ UpToNumber(OwnOps(t), DocumentNumber)
           /\ OwnOps(t) \subseteq Past(t)
<1>1. Own(t) = Seqs(OwnOps(t))
  BY DEF Own, Seqs, OwnOps
<1>2. OwnOps(t) \subseteq Past(t)
  BY DEF OwnOps, Past
<1> QED
  BY <1>1, <1>2, PastKnown DEF UpToNumber

\* The document goes on, and its names with it.
LEMMA NamesMoves ==
    ASSUME RoomKnown, NEW t \in Clients, NEW N \in Namings,
           \/ doc' = doc /\ SameRoom /\ Ops(send'[t]) \subseteq Ops(send[t])
           \/ \E op : Grows(op) /\ Adds(send[t], send'[t], op)
    PROVE  \E U \in Namings :
             /\ Agree(N, U, DocumentNumber)
             /\ DocumentNumber' \in {DocumentNumber, DocumentNumber + 1}
             /\ \A since \in Nat :
                  NamesRecord(N, Past(t), since, DocumentNumber, Ids)
                  => NamesRecord(U, Past(t)', since, DocumentNumber', Ids')
<1> DEFINE n == DocumentNumber
<1>1. /\ \A op \in Past(t) : op \in Op /\ op.seq \in Nat /\ op.seq <= n
      /\ n \in Nat
  BY PastKnown
<1>2. CASE doc' = doc /\ SameRoom /\ Ops(send'[t]) \subseteq Ops(send[t])
  <2>1. Past(t)' \subseteq Past(t) /\ DocumentNumber' = n /\ Ids' = Ids
    BY <1>2, PastStays DEF SameRoom, Ids
  <2>2. Agree(N, N, n)
    BY DEF Agree
  <2> QED
    BY <2>1, <2>2 DEF NamesRecord
<1>3. ASSUME NEW op, Grows(op), Adds(send[t], send'[t], op)
      PROVE  \E U \in Namings :
               /\ Agree(N, U, DocumentNumber)
               /\ DocumentNumber' \in {DocumentNumber, DocumentNumber + 1}
               /\ \A since \in Nat :
                    NamesRecord(N, Past(t), since, DocumentNumber, Ids)
                    => NamesRecord(U, Past(t)', since, DocumentNumber', Ids')
  <2>1. Past(t)' \subseteq Past(t) \cup {op}
    BY <1>3, PastGrows
  <2>2. /\ op.seq = n + 1 /\ DocumentNumber' = n + 1 /\ Ids' = Renamed(Ids, op)
    BY <1>3 DEF Grows, Publish, Fits, DocumentNumber, Ids
  <2>3. op.type = "insert" => op.newID \in RealID
    BY <1>3 DEF Grows, Fits, RealID
  <2>4. Ids' \in Seq(RealID)
    <3>1. op.position \in Nat
      BY <1>3 DEF Grows, Op, InsertOp, DeleteOp
    <3> DEFINE s == Ids
    <3> HIDE DEF s
    <3>2. s \in Seq(RealID) /\ Ids' = Renamed(s, op)
      BY <2>2, IdsReal DEF s
    <3>3. CASE op.type = "insert"
      <4>1. PutAt(s, op.position, op.newID) \in Seq(RealID)
        BY <2>3, <3>1, <3>2, <3>3, PutAnywhere
      <4> QED
        BY <3>2, <3>3, <4>1 DEF Renamed
    <3>4. CASE op.type # "insert"
      <4>1. CutAt(s, op.position) \in Seq(RealID)
        BY <3>1, <3>2, <3>4, CutAnywhere
      <4> QED
        BY <3>2, <3>4, <4>1 DEF Renamed
    <3> QED
      BY <3>3, <3>4
  <2> DEFINE ids == Ids'
             U == [k \in Nat |-> IF k = n + 1 THEN ids ELSE N[k]]
  <2> HIDE DEF n, ids
  <2>5. U \in Namings
    <3>1. \A k \in Nat : (IF k = n + 1 THEN ids ELSE N[k]) \in Seq(RealID)
      BY <2>4 DEF Namings, ids
    <3> QED
      BY <3>1 DEF Namings
  <2>6. Agree(N, U, n) /\ U[n + 1] = ids /\ \A k \in 0 .. n : U[k] = N[k]
    BY <1>1 DEF Agree
  <2> HIDE DEF U
  <2>7. ASSUME NEW since \in Nat, NamesRecord(N, Past(t), since, n, Ids)
        PROVE  NamesRecord(U, Past(t)', since, n + 1, ids)
    <3>1. N[n] = Ids /\ since <= n
      BY <2>7 DEF NamesRecord
    <3>2. ASSUME NEW o \in Past(t)', o.seq > since PROVE MakesNames(U, o)
      <4>1. CASE o \in Past(t)
        <5>1. MakesNames(N, o)
          BY <2>7, <3>2, <4>1 DEF NamesRecord
        <5>2. o.seq \in 0 .. n /\ o.seq - 1 \in 0 .. n
          BY <1>1, <3>2, <4>1
        <5> QED
          BY <2>6, <5>1, <5>2 DEF MakesNames
      <4>2. CASE o = op
        <5>1. o.seq = n + 1 /\ o.seq - 1 = n /\ n \in 0 .. n
          BY <1>1, <2>2, <4>2 DEF n
        <5> QED
          BY <2>2, <2>3, <2>6, <3>1, <4>2, <5>1 DEF MakesNames, ids
      <4> QED
        BY <2>1, <4>1, <4>2
    <3> QED
      BY <1>1, <2>6, <3>1, <3>2 DEF NamesRecord
  <2>8. DocumentNumber' = n + 1 /\ DocumentNumber = n
    BY <2>2 DEF n
  <2> QED
    BY <2>5, <2>6, <2>7, <2>8 DEF ids
<1> QED
  BY <1>2, <1>3

\* A tab follows the names as the room goes on, when its channel gets m and what it did
\* stays on its way.
LEMMA NamesFollowMoves ==
    ASSUME RoomKnown, Orderly, NEW t \in Clients, NEW N \in Namings, NamesFollow(t, N),
           NEW U \in Namings, tab'[t].lastSeq = tab[t].lastSeq, t \in clients' <=> t \in clients,
           live => live',
           NEW m, m.type \notin {"full_sync", "replay_sync"}, Adds(send[t], send'[t], m),
           Agree(N, U, DocumentNumber), DocumentNumber' \in {DocumentNumber, DocumentNumber + 1},
           \A since \in Nat :
             NamesRecord(N, Past(t), since, DocumentNumber, Ids)
             => NamesRecord(U, Past(t)', since, DocumentNumber', Ids'),
           (/\ t \in clients /\ NamesRecord(N, Past(t), tab[t].lastSeq, DocumentNumber, Ids)
            /\ NamesTracked(N, tab[t], DocumentNumber, OwnOps(t), Todo(t), up[t]))
             => NamesTracked(U, tab'[t], DocumentNumber', OwnOps(t)', Todo(t)', up'[t]),
           (/\ t \notin clients \/ Has(send[t], "replay_sync")
            /\ Pending(t) \/ Bears(tab[t].shadow, tab[t].count, N[tab[t].lastSeq]))
             => Pending(t)' \/ Bears(tab'[t].shadow, tab'[t].count, N[tab[t].lastSeq])
    PROVE  NamesFollow(t, U)'
<1> DEFINE q == send[t]
           last == tab[t].lastSeq
           n == DocumentNumber
<1>1. /\ n \in Nat /\ last \in Nat /\ last <= n
      /\ q \in Seq(Message)
  BY Typed, PastKnown
<1>2. KeepsAll(q, send'[t])
  BY AddsKeepsAll
<1>3. /\ Has(send'[t], "full_sync") <=> Has(q, "full_sync")
      /\ Has(send'[t], "replay_sync") <=> Has(q, "replay_sync")
  BY AddsHas
<1>4. CASE Has(q, "full_sync")
  <2>1. PICK g \in DOMAIN q :
          q[g].type = "full_sync" /\ N[q[g].seq] = q[g].nodeIDs
          /\ NamesRecord(N, Past(t), q[g].seq, n, Ids)
    BY <1>4 DEF NamesFollow, NamesAt
  <2>2. q[g].seq \in Nat /\ g \in DOMAIN send'[t] /\ send'[t][g] = q[g]
    BY <1>1, <1>2, MessageSeq DEF KeepsAll
  <2>3. q[g].seq \in 0 .. n
    BY <1>1, <2>1, <2>2 DEF NamesRecord
  <2>4. U[q[g].seq] = q[g].nodeIDs
    BY <2>1, <2>3 DEF Agree
  <2>5. NamesRecord(U, Past(t)', q[g].seq, DocumentNumber', Ids')
    BY <2>1, <2>2
  <2>6. NamesAt(U, send'[t], Past(t)', DocumentNumber', Ids')
    BY <2>1, <2>2, <2>4, <2>5 DEF NamesAt
  <2> QED
    BY <1>3, <1>4, <2>6 DEF NamesFollow
<1>5. CASE ~Has(q, "full_sync") /\ ~(t \in clients \/ last > 0)
  BY <1>3, <1>5 DEF NamesFollow
<1>6. CASE ~Has(q, "full_sync") /\ (t \in clients \/ last > 0)
  <2>1. live /\ NamesRecord(N, Past(t), last, n, Ids) /\ NamesShown(t, N)
    BY <1>6 DEF NamesFollow
  <2>2. NamesRecord(U, Past(t)', last, DocumentNumber', Ids')
    BY <1>1, <2>1
  <2>3. U[last] = N[last]
    BY <1>1 DEF Agree
  <2>4. NamesShown(t, U)'
    <3>1. CASE t \in clients /\ ~Has(q, "replay_sync")
      BY <1>3, <2>1, <3>1 DEF NamesShown
    <3>2. CASE t \notin clients \/ Has(q, "replay_sync")
      <4>1. /\ Pending(t) \/ Bears(tab[t].shadow, tab[t].count, N[last])
            /\ Has(q, "replay_sync") => NamesReplayed(N, n, q[1].ops)
        BY <2>1, <3>2 DEF NamesShown
      <4>2. Pending(t)' \/ Bears(tab'[t].shadow, tab'[t].count, U[last])
        BY <2>3, <3>2, <4>1
      <4>3. Has(q, "replay_sync") => NamesReplayed(U, DocumentNumber', send'[t][1].ops)
        <5> SUFFICES ASSUME Has(q, "replay_sync")
                     PROVE  NamesReplayed(U, DocumentNumber', send'[t][1].ops)
          OBVIOUS
        <5>1. 1 \in DOMAIN q
          <6>1. InOrder(tab[t], strayed[t], q, up[t], t \in clients)
            BY DEF Orderly
          <6> QED
            BY <6>1 DEF Has, InOrder
        <5>2. send'[t][1] = q[1]
          BY <1>2, <5>1 DEF KeepsAll
        <5> DEFINE ops == q[1].ops
                   next == DocumentNumber'
        <5>3. NamesReplayed(N, n, ops) /\ next \in {n, n + 1} /\ Agree(N, U, n) /\ n \in Nat
          BY <1>1, <4>1
        <5> HIDE DEF ops, next, n
        <5>4. ASSUME NEW i \in DOMAIN ops PROVE ops[i].seq \in 1 .. next /\ MakesNames(U, ops[i])
          <6>1. ops[i].seq \in 1 .. n /\ MakesNames(N, ops[i])
            BY <5>3 DEF NamesReplayed
          <6>2. ops[i].seq \in 0 .. n /\ ops[i].seq - 1 \in 0 .. n /\ ops[i].seq \in 1 .. next
            BY <5>3, <6>1
          <6>3. U[ops[i].seq] = N[ops[i].seq] /\ U[ops[i].seq - 1] = N[ops[i].seq - 1]
            BY <5>3, <6>2 DEF Agree
          <6> QED
            BY <6>1, <6>2, <6>3 DEF MakesNames
        <5> QED
          BY <5>2, <5>4 DEF NamesReplayed, ops, next
      <4> QED
        BY <1>3, <3>2, <4>2, <4>3 DEF NamesShown
    <3> QED
      BY <3>1, <3>2
  <2> QED
    BY <1>3, <1>6, <2>1, <2>2, <2>4 DEF NamesFollow
<1> QED
  BY <1>4, <1>5, <1>6

\* A step that leaves the room and the channel of t.
LEMMA NamesFollowStays ==
    ASSUME RoomKnown, Orderly, NEW t \in Clients, NEW N \in Namings, NamesFollow(t, N),
           tab'[t].lastSeq = tab[t].lastSeq, t \in clients' <=> t \in clients,
           live => live', doc' = doc, SameRoom, Adds(send[t], send'[t], Signal),
           (/\ t \in clients
            /\ NamesTracked(N, tab[t], DocumentNumber, OwnOps(t), Todo(t), up[t]))
             => NamesTracked(N, tab'[t], DocumentNumber', OwnOps(t)', Todo(t)', up'[t]),
           (/\ t \notin clients \/ Has(send[t], "replay_sync")
            /\ Pending(t) \/ Bears(tab[t].shadow, tab[t].count, N[tab[t].lastSeq]))
             => Pending(t)' \/ Bears(tab'[t].shadow, tab'[t].count, N[tab[t].lastSeq])
    PROVE  NamesFollow(t, N)'
<1>1. ~IsOp(Signal) /\ Signal.type \notin {"full_sync", "replay_sync"}
  BY DEF Signal, IsOp
<1>2. Past(t)' \subseteq Past(t)
  BY <1>1, OpsAdded, PastStays
<1>3. DocumentNumber' = DocumentNumber /\ Ids' = Ids
  BY DEF SameRoom, Ids
<1>4. \A since \in Nat :
         NamesRecord(N, Past(t), since, DocumentNumber, Ids)
         => NamesRecord(N, Past(t)', since, DocumentNumber', Ids')
  BY <1>2, <1>3 DEF NamesRecord
<1>5. Agree(N, N, DocumentNumber)
  BY DEF Agree
<1> QED
  BY <1>1, <1>3, <1>4, <1>5, NamesFollowMoves

\* What is added to the channel of t is no operation of its own.
LEMMA SameOwnOps ==
    ASSUME NEW t, NEW m, Adds(send[t], send'[t], m), user'[t] = user[t],
           IsOp(m) => m.userID # user[t]
    PROVE  OwnOps(t)' = OwnOps(t)
<1>1. Ops(send[t]) \subseteq Ops(send'[t])
      /\ Ops(send'[t]) \subseteq Ops(send[t]) \cup (IF IsOp(m) THEN {m} ELSE {})
  BY OpsAdded
<1> QED
  BY <1>1 DEF OwnOps

\* What is left after the first is another sequence.
LEMMA TailOther == ASSUME NEW S, NEW q \in Seq(S), q # << >> PROVE Tail(q) # q
<1> DEFINE rest == Tail(q)
<1>1. Len(rest) = Len(q) - 1 /\ Len(q) \in Nat
  BY HeadTailProperties
<1> HIDE DEF rest
<1>2. rest # q
  BY <1>1
<1> QED
  BY <1>2 DEF rest

\* A room that is left alone by whoever is not t keeps its document, or publishes an
\* operation.
LEMMA DocStays ==
    ASSUME Working, RoomKnown, [EditorNext]_allVars, NEW t \in Clients, Elsewhere(t), live,
           strayed'[t] = {}
    PROVE  /\ live'
           /\ \/ doc' = doc /\ SameRoom /\ Adds(send[t], send'[t], Signal)
              \/ \E op : /\ Grows(op) /\ (t \in clients => op.userID # user[t])
                         /\ Adds(send[t], send'[t], op)
<1>1. RoomInv /\ EditorTypeOK /\ StrayedOK /\ UpOK
  BY Typed
<1>2. GoneCauses \subseteq strayed'[t] => live'
  BY DEF GoneCauses
<1>3. live' /\ (doc' = doc \/ \E op : Grows(op))
  <2>1. ASSUME NEW u \in Clients, Open(u) \/ Type(u) \/ Show(u) \/ ServeBatch(u)
        PROVE  UNCHANGED <<live, doc>>
    BY <2>1 DEF Open, Type, Show, Pump, ServeBatch, StartBatch, vars, roomVars
  <2>2. ASSUME NEW u \in Clients, Disconnect(u) PROVE UNCHANGED <<live, doc>>
    <3>1. GoneCauses \subseteq strayed'[t]
      BY <1>1, <2>2 DEF Disconnect, LostCauses, StrayedOK
    <3>2. CASE Leave(u)
      <4>1. NoRoom \/ UNCHANGED <<live, doc, seqNum, opLog>>
        BY <3>2, LeaveSame
      <4> QED
        BY <1>2, <3>1, <4>1 DEF NoRoom
    <3>3. CASE UNCHANGED vars
      BY <3>3 DEF vars
    <3> QED
      BY <2>2, <3>2, <3>3 DEF Disconnect
  <2>3. ASSUME NEW u \in Clients, ServeJoin(u) PROVE UNCHANGED <<live, doc>>
    BY <2>3 DEF ServeJoin, Join, OpenRoom
  <2>4. ASSUME NEW u \in Clients, NEW type \in {"insert", "delete"}, ServeOp(u, type)
        PROVE  UNCHANGED <<live, doc>> \/ (live' /\ \E op : Grows(op))
    <3> DEFINE r == Head(up[u])
    <3>1. r \in Request /\ Free(u) /\ (HandleOp(u, r) \/ UNCHANGED vars)
      BY <2>4, OpSelf
    <3> HIDE DEF r
    <3>2. CASE HandleOp(u, r)
      <4>1. applyOp(u, r) /\ u \in clients /\ UNCHANGED <<live, clients, user>>
        BY <3>2 DEF HandleOp, Free
      <4> QED
        BY <3>1, <4>1, ServedGrows
    <3>3. CASE UNCHANGED vars
      BY <3>3 DEF vars
    <3> QED
      BY <3>1, <3>2, <3>3
  <2>5. ASSUME NEW u \in Clients, ServeRestore(u) PROVE UNCHANGED <<live, doc>>
    <3>1. Takes(u, "restore") /\ UNCHANGED live /\ Free(u)
      BY <2>5 DEF ServeRestore, HandleRestore
    <3>2. CASE u = t
      <4>1. up[t] # << >> /\ up'[t] = Tail(up[t]) /\ up[t] \in Seq(Sent) /\ up'[t] = up[t]
        BY <1>1, <3>1, <3>2, TakesSelf DEF Elsewhere, UpOK
      <4> QED
        BY <4>1, TailOther
    <3>3. CASE u # t
      <4>1. strayed'[t] = strayed[t] \cup {x \in {"untold"} : doc' # doc}
        BY <2>5, <3>3 DEF ServeRestore
      <4> QED
        BY <3>1, <4>1
    <3> QED
      BY <3>2, <3>3
  <2>6. CASE ServeBatchOp
    <3> DEFINE r == Head(task.todo)
    <3>1. BatchStep /\ task # NoTask /\ UNCHANGED <<live, clients, user>>
      BY <2>6 DEF ServeBatchOp, BatchStep, Unlocked
    <3>2. task.who \in clients /\ r \in Request
      BY <1>1, <3>1, TaskTypes DEF RoomKnown, UsersKnown, RoomInv
    <3>3. applyOp(task.who, r) \/ doc' = doc
      BY <3>1 DEF BatchStep
    <3> HIDE DEF r
    <3> QED
      BY <3>1, <3>2, <3>3, ServedGrows
  <2>7. CASE ServerCrash
    <3>1. GoneCauses \subseteq strayed'[t]
      BY <1>1, <2>7 DEF ServerCrash, LostCauses
    <3> QED
      BY <1>2, <2>7, <3>1 DEF ServerCrash, Crash, NoRoom
  <2>8. CASE UNCHANGED allVars
    BY <2>8 DEF allVars, vars
  <2> QED
    BY <2>1, <2>2, <2>3, <2>4, <2>5, <2>6, <2>7, <2>8 DEF EditorNext
<1>4. strayed'[t] \subseteq Excused
  OBVIOUS
<1>5. CASE \E op : /\ Grows(op) /\ (t \in clients => op.userID # user[t])
                   /\ Adds(send[t], send'[t], op)
  BY <1>3, <1>5
<1>6. CASE SameRoom /\ Adds(send[t], send'[t], Signal)
  <2>1. ~\E op : Grows(op)
    <3> SUFFICES ASSUME NEW op, Grows(op) PROVE FALSE
      OBVIOUS
    <3>1. seqNum \in Nat
      BY <1>1 DEF RoomInv, TypeOK
    <3>2. DocumentNumber' = seqNum + 1 /\ DocumentNumber = seqNum
      BY DEF Grows, Publish, DocumentNumber
    <3>3. DocumentNumber' = DocumentNumber
      BY <1>6 DEF SameRoom
    <3> DEFINE k == seqNum
               n == DocumentNumber
               next == DocumentNumber'
    <3>4. next = k + 1 /\ n = k /\ next = n /\ k \in Nat
      BY <3>1, <3>2, <3>3
    <3> HIDE DEF k, n, next
    <3> QED
      BY <3>4
  <2> QED
    BY <1>3, <1>6, <2>1
<1> QED
  BY <1>4, <1>5, <1>6 DEF Elsewhere

-----------------------------------------------------------------------------
(***************************************************************************)
(* The steps that keep a tab's shadow on its way.                          *)
(***************************************************************************)

\* What is pending for a tab stays so when only its channel is added to.
LEMMA PendingStays ==
    ASSUME NEW t, NEW m, Adds(send[t], send'[t], m), user'[t] = user[t], Todo(t)' = Todo(t),
           up'[t] = up[t], Pending(t)
    PROVE  Pending(t)'
<1>1. Ops(send[t]) \subseteq Ops(send'[t])
  BY OpsAdded
<1>2. OwnOps(t) # {} => OwnOps(t)' # {}
  BY <1>1 DEF OwnOps
<1> QED
  BY <1>2 DEF Pending

\* A tab that was never connected bears no names yet, and none are sent to it.
LEMMA NamesNotYet ==
    ASSUME RoomKnown, NEW t \in Clients, NEW N, t \notin clients', tab'[t].lastSeq = 0,
           ~Has(send'[t], "full_sync")
    PROVE  NamesFollow(t, N)'
<1>1. ~(tab'[t].lastSeq > 0)
  OBVIOUS
<1> QED
  BY <1>1 DEF NamesFollow

\* A tab is tracked while the document goes on without it.
LEMMA NamesOn ==
    ASSUME RoomKnown, NEW t \in Clients, NEW N, NEW U, Agree(N, U, DocumentNumber),
           DocumentNumber' \in {DocumentNumber, DocumentNumber + 1},
           tab'[t] = tab[t], OwnOps(t)' = OwnOps(t), Todo(t)' = Todo(t), up'[t] = up[t],
           NamesTracked(N, tab[t], DocumentNumber, OwnOps(t), Todo(t), up[t])
    PROVE  NamesTracked(U, tab'[t], DocumentNumber', OwnOps(t)', Todo(t)', up'[t])
<1> DEFINE n == DocumentNumber
           b == tab[t]
           own == OwnOps(t)
           todo == Todo(t)
           out == up[t]
<1>1. PICK m \in {DocumentNumber, DocumentNumber + 1} : m = DocumentNumber'
  OBVIOUS
<1>2. Elapses(N, U, b, own, n, m)
  BY PastKnown, OwnKnown DEF Elapses
<1>3. NamesTracked(N, b, n, own, todo, out)
  OBVIOUS
<1> HIDE DEF n, b, own, todo, out
<1>4. NamesTracked(U, b, m, own, todo, out)
  BY <1>2, <1>3, NamesOthers
<1> QED
  BY <1>1, <1>4 DEF b, own, todo, out

\* Through the steps that are not about it.
LEMMA ElsewhereNames ==
    ASSUME Working, RoomKnown, Orderly, [EditorNext]_allVars, NEW t \in Clients, Elsewhere(t),
           strayed'[t] = {}, NEW N \in Namings, NamesFollow(t, N)
    PROVE  \E U \in Namings : NamesFollow(t, U)'
<1>1. /\ tab'[t] = tab[t] /\ up'[t] = up[t] /\ user'[t] = user[t] /\ Todo(t)' = Todo(t)
      /\ t \in clients' <=> t \in clients
  BY DEF Elsewhere
<1>2. tab[t].lastSeq \in Nat
  BY PastKnown
<1>3. CASE ~(t \in clients \/ tab[t].lastSeq > 0)
  <2>1. send[t] = << >>
    BY <1>3, OutsideRoom
  <2>2. ~Has(send[t], "full_sync")
    BY <2>1 DEF Has
  <2>3. \E m : m.type # "full_sync" /\ Adds(send[t], send'[t], m)
    <3>1. Signal.type # "full_sync"
      BY DEF Signal
    <3>2. \A op : Grows(op) => op.type # "full_sync"
      BY OpKinds DEF Grows, InsertOp, DeleteOp
    <3> QED
      BY <3>1, <3>2 DEF Elsewhere
  <2>4. ~Has(send'[t], "full_sync")
    BY <2>2, <2>3, AddsHas
  <2>5. tab'[t].lastSeq = 0 /\ t \notin clients'
    BY <1>1, <1>2, <1>3
  <2> QED
    BY <2>4, <2>5, NamesNotYet
<1>4. CASE t \in clients \/ tab[t].lastSeq > 0
  <2>1. live
    <3>1. t \in clients => live
      BY DEF RoomKnown, EditorInv, RoomInv, Occupied
    <3>2. Has(send[t], "full_sync") => t \in clients
      BY OutsideRoom DEF Has
    <3> QED
      BY <1>4, <3>1, <3>2 DEF NamesFollow
  <2>2. /\ live'
        /\ \/ doc' = doc /\ SameRoom /\ Adds(send[t], send'[t], Signal)
           \/ \E op : /\ Grows(op) /\ (t \in clients => op.userID # user[t])
                      /\ Adds(send[t], send'[t], op)
    BY <2>1, DocStays
  <2>3. CASE doc' = doc /\ SameRoom /\ Adds(send[t], send'[t], Signal)
    <3>1. OwnOps(t)' = OwnOps(t)
      BY <1>1, <2>3, SameOwnOps, SignalProperties
    <3>2. DocumentNumber' = DocumentNumber
      BY <2>3 DEF SameRoom
    <3>3. Pending(t) => Pending(t)'
      BY <1>1, <2>3, PendingStays
    <3>4. NamesFollow(t, N)'
      BY <1>1, <2>2, <2>3, <3>1, <3>2, <3>3, NamesFollowStays
    <3> QED
      BY <3>4
  <2>4. ASSUME NEW op, Grows(op), t \in clients => op.userID # user[t], Adds(send[t], send'[t], op)
        PROVE  \E U \in Namings : NamesFollow(t, U)'
    <3>1. PICK U \in Namings :
            /\ Agree(N, U, DocumentNumber)
            /\ DocumentNumber' \in {DocumentNumber, DocumentNumber + 1}
            /\ \A since \in Nat :
                 NamesRecord(N, Past(t), since, DocumentNumber, Ids)
                 => NamesRecord(U, Past(t)', since, DocumentNumber', Ids')
      BY <2>4, NamesMoves
    <3>2. op.type \notin {"full_sync", "replay_sync"}
      BY <2>4, OpKinds DEF Grows, InsertOp, DeleteOp
    <3>3. ASSUME t \in clients, NamesTracked(N, tab[t], DocumentNumber, OwnOps(t), Todo(t), up[t])
          PROVE  NamesTracked(U, tab'[t], DocumentNumber', OwnOps(t)', Todo(t)', up'[t])
      <4>1. OwnOps(t)' = OwnOps(t)
        BY <1>1, <2>4, <3>3, SameOwnOps
      <4> QED
        BY <1>1, <3>1, <3>3, <4>1, NamesOn
    <3>4. Pending(t) => Pending(t)'
      BY <1>1, <2>4, PendingStays
    <3>5. NamesFollow(t, U)'
      BY <1>1, <2>2, <2>4, <3>1, <3>2, <3>3, <3>4, NamesFollowMoves
    <3> QED
      BY <3>5
  <2> QED
    BY <2>2, <2>3, <2>4
<1> QED
  BY <1>3, <1>4

\* A tab that opens its connection.
LEMMA OpenNames ==
    ASSUME RoomKnown, Orderly, NEW t \in Clients, Open(t), NEW N \in Namings, NamesFollow(t, N)
    PROVE  NamesFollow(t, N)'
<1>1. UNCHANGED <<vars, tab>> /\ t \notin clients /\ up[t] = << >>
  BY OpenSelf
<1>2. SameRoom /\ Adds(send[t], send'[t], Signal)
  BY <1>1, RoomStays, SameQueue DEF vars, RoomKnown, EditorInv
<1>3. Pending(t) => Pending(t)'
  <2>1. OwnOps(t)' = OwnOps(t) /\ Todo(t)' = Todo(t)
    BY <1>1 DEF vars, OwnOps, Todo
  <2> QED
    BY <1>1, <2>1 DEF Pending
<1>4. /\ tab'[t] = tab[t]
      /\ t \in clients' <=> t \in clients
      /\ live' = live /\ doc' = doc
  BY <1>1 DEF vars
<1> QED
  BY <1>1, <1>2, <1>3, <1>4, NamesFollowStays

\* What is typed is on its way, unless the tab is not connected: then it is held
\* against it.
LEMMA TypeNames ==
    ASSUME RoomKnown, Orderly, NEW t \in Clients, Type(t), strayed'[t] = {},
           NEW N \in Namings, NamesFollow(t, N)
    PROVE  NamesFollow(t, N)'
<1>1. UNCHANGED vars /\ Connected(t)
  BY TypeSelf
<1>2. SameRoom /\ Adds(send[t], send'[t], Signal)
  BY <1>1, RoomStays, SameQueue DEF vars, RoomKnown, EditorInv
<1>3. PICK new \in Seq(Chars) :
        /\ tab'[t] = Edited(tab[t], new)
        /\ diffToOps(tab[t], new) \in Seq(Request) /\ diffToOps(tab[t], new) \in Seq(Sent)
        /\ up'[t] = up[t] \o diffToOps(tab[t], new)
        /\ SameSession(tab[t], tab'[t])
  BY <1>1, TypeSelf
<1> DEFINE more == diffToOps(tab[t], new)
           c == tab'[t]
           b == tab[t]
           out == up[t]
<1>4. OwnOps(t)' = OwnOps(t) /\ Todo(t)' = Todo(t) /\ DocumentNumber' = DocumentNumber
  BY <1>1 DEF vars, OwnOps, Todo, DocumentNumber
<1>5. /\ Aligned(b) /\ out \in Seq(Sent) /\ more \in Seq(Request) /\ more \in Seq(Sent)
      /\ c.lastSeq = b.lastSeq /\ c.shadow = Edited(b, new).shadow /\ c.count = Edited(b, new).count
      /\ up'[t] = out \o more /\ b.shadow \in Seq(OpID) /\ b.count \in Nat
  BY <1>3, Typed DEF SameSession, Aligned, Tab
<1>6. /\ DocumentNumber \in Nat /\ b.lastSeq \in Nat /\ b.lastSeq <= DocumentNumber
      /\ UpToNumber(OwnOps(t), DocumentNumber)
  BY PastKnown, OwnKnown
<1>7. Todo(t) \in Seq(Request)
  BY Typed, TaskTypes DEF Todo, RoomInv
<1>8. ASSUME t \in clients, NamesTracked(N, tab[t], DocumentNumber, OwnOps(t), Todo(t), up[t])
      PROVE  NamesTracked(N, tab'[t], DocumentNumber', OwnOps(t)', Todo(t)', up'[t])
  <2> DEFINE n == DocumentNumber
             own == OwnOps(t)
             todo == Todo(t)
             d == diffToOps(b, new)
  <2>1. NamesTracked(N, b, n, own, todo, out) /\ d = more
    BY <1>8
  <2>2. n \in Nat /\ b.lastSeq \in Nat /\ b.lastSeq <= n /\ UpToNumber(own, n) /\ todo \in Seq(Request)
    BY <1>6, <1>7
  <2> HIDE DEF n, own, todo, c, b, out
  <2>3. NamesTracked(N, c, n, own, todo, out \o diffToOps(b, new))
    BY <1>5, <2>1, <2>2, NamesTyped
  <2> QED
    BY <1>4, <1>5, <2>1, <2>3 DEF n, own, todo, c
<1>9. ASSUME Pending(t) \/ Bears(b.shadow, b.count, N[b.lastSeq])
      PROVE  Pending(t)' \/ Bears(c.shadow, c.count, N[b.lastSeq])
  <2>1. CASE OwnOps(t) # {} \/ Todo(t) # << >>
    BY <1>4, <2>1 DEF Pending
  <2>2. CASE \E i \in DOMAIN up[t] : up[t][i].type \in {"insert", "delete", "batch_sync"}
    <3>1. PICK i \in DOMAIN out : out[i].type \in {"insert", "delete", "batch_sync"}
      BY <2>2
    <3> HIDE DEF out, more
    <3>2. i \in DOMAIN (out \o more) /\ (out \o more)[i] = out[i]
      BY <1>5, ConcatPlaces
    <3> QED
      BY <1>5, <3>1, <3>2 DEF Pending
  <2>3. CASE more # << >>
    <3> HIDE DEF out, more
    <3>1. 1 \in DOMAIN more /\ more[1] \in Request
      BY <1>5, <2>3
    <3>2. more[1].type \in {"insert", "delete"}
      BY <3>1, RequestKinds
    <3>3. Len(out) + 1 \in DOMAIN (out \o more) /\ (out \o more)[Len(out) + 1] = more[1]
      BY <1>5, <3>1, ConcatPlaces
    <3> QED
      BY <1>5, <3>2, <3>3 DEF Pending
  <2>4. CASE more = << >> /\ Bears(b.shadow, b.count, N[b.lastSeq])
    <3> DEFINE s == N[b.lastSeq]
               none == << >>
               e == Edited(b, new)
               d == diffToOps(b, new)
    <3>1. s \in Seq(OpID)
      BY <1>6, NamingsTypes
    <3>2. Carries({}, none, s, b.shadow, b.count)
      BY <2>4, <3>1, CarriesNone
    <3>3. none \in Seq(Request) /\ Aligned(b)
      BY <1>5
    <3>4. d = << >> /\ none \o d = << >>
      BY <2>4
    <3>5. Bears(b.shadow, b.count, s)
      BY <2>4
    <3> HIDE DEF s, none, b, c, more
    <3>6. Carries({}, none \o diffToOps(b, new), s, Edited(b, new).shadow, Edited(b, new).count)
      BY <3>2, <3>3, EditedCarries
    <3>7. Carries({}, << >>, s, c.shadow, c.count)
      BY <1>5, <3>4, <3>6
    <3>8. Bears(c.shadow, c.count, s)
      BY <3>1, <3>7, CarriesNone
    <3> QED
      BY <3>8 DEF s
  <2> QED
    BY <1>9, <2>1, <2>2, <2>3, <2>4 DEF Pending
<1>10. /\ tab'[t].lastSeq = tab[t].lastSeq
       /\ t \in clients' <=> t \in clients
       /\ live' = live /\ doc' = doc
  BY <1>1, <1>5 DEF vars
<1>11. (/\ t \in clients
        /\ NamesTracked(N, tab[t], DocumentNumber, OwnOps(t), Todo(t), up[t]))
         => NamesTracked(N, tab'[t], DocumentNumber', OwnOps(t)', Todo(t)', up'[t])
  BY <1>8
<1>12. (/\ t \notin clients \/ Has(send[t], "replay_sync")
        /\ Pending(t) \/ Bears(tab[t].shadow, tab[t].count, N[tab[t].lastSeq]))
         => Pending(t)' \/ Bears(tab'[t].shadow, tab'[t].count, N[tab[t].lastSeq])
  BY <1>9
<1> HIDE DEF more, c, b, out
<1> QED
  BY <1>2, <1>10, <1>11, <1>12, NamesFollowStays

\* The operations of a batch are on their way before and after the room takes it.
LEMMA BatchNames ==
    ASSUME RoomKnown, Orderly, NEW t \in Clients, ServeBatch(t), NEW N \in Namings, NamesFollow(t, N)
    PROVE  NamesFollow(t, N)'
<1> DEFINE r == Head(up[t])
<1>1. /\ Takes(t, "batch_sync") /\ Free(t) /\ r.ops # << >> /\ Todo(t)' = r.ops
      /\ UNCHANGED <<live, doc, seqNum, opLog, db, clients, user, send, strayed>>
  BY BatchSelf
<1>2. /\ r.type = "batch_sync" /\ up[t] # << >> /\ up'[t] = Tail(up[t]) /\ tab'[t] = tab[t]
      /\ t \in clients /\ Todo(t) = << >>
  BY <1>1, TakesSelf
<1>3. SameRoom /\ Adds(send[t], send'[t], Signal)
  BY <1>1, RoomStays, SameQueue DEF RoomKnown, EditorInv
<1>4. ASSUME NamesTracked(N, tab[t], DocumentNumber, OwnOps(t), Todo(t), up[t])
      PROVE  NamesTracked(N, tab'[t], DocumentNumber', OwnOps(t)', Todo(t)', up'[t])
  <2>1. OwnOps(t)' = OwnOps(t) /\ DocumentNumber' = DocumentNumber
    BY <1>1 DEF OwnOps, DocumentNumber
  <2>2. up[t] \in Seq(Sent)
    BY Typed
  <2>3. NamesTracked(N, tab[t], DocumentNumber, OwnOps(t), r.ops, Tail(up[t]))
    BY <1>1, <1>2, <1>4, <2>2, NamesBatch
  <2> QED
    BY <1>1, <1>2, <2>1, <2>3
<1>5. Pending(t)'
  BY <1>1 DEF Pending
<1> QED
  BY <1>1, <1>2, <1>3, <1>4, <1>5, NamesFollowStays

\* An operation that was on its way becomes one that the tab will be told of.
LEMMA ServedNames ==
    ASSUME RoomKnown, Orderly, NEW t \in clients, NEW N \in Namings, NamesFollow(t, N),
           NEW r \in Request, applyOp(t, r) \/ seqNum' = seqNum,
           UNCHANGED <<live, clients, user>>, tab'[t] = tab[t],
           strayed'[t] = strayed[t] \cup ServeCauses(t, r), strayed'[t] = {},
           \/ /\ Todo(t) = << >> /\ Todo(t)' = << >> /\ up[t] # << >>
              /\ up'[t] = Tail(up[t]) /\ r = Head(up[t])
           \/ /\ Todo(t) # << >> /\ Todo(t)' = Tail(Todo(t)) /\ up'[t] = up[t] /\ r = Head(Todo(t))
    PROVE  \E U \in Namings : NamesFollow(t, U)'
<1>1. t \in Clients /\ up[t] \in Seq(Sent) /\ RoomInv /\ Aligned(tab[t])
  BY Typed
<1>2. /\ seqNum' # seqNum /\ opLog'[Len(opLog')].position = r.Position
      /\ Len(send[t]) # SendBuf
  BY <1>1, ServedRight
<1>3. PICK op : /\ Grows(op) /\ Adds(send[t], send'[t], op) /\ op \in Ops(send'[t])
                /\ op.userID = user[t] /\ op.position = r.Position /\ Echoes(op, t, r)
  BY <1>2, ServedEcho
<1>4. PICK U \in Namings :
        /\ Agree(N, U, DocumentNumber)
        /\ DocumentNumber' \in {DocumentNumber, DocumentNumber + 1}
        /\ \A since \in Nat :
             NamesRecord(N, Past(t), since, DocumentNumber, Ids)
             => NamesRecord(U, Past(t)', since, DocumentNumber', Ids')
  BY <1>1, <1>3, NamesMoves
<1>5. op.type \notin {"full_sync", "replay_sync"}
  BY <1>3, OpKinds DEF Grows, InsertOp, DeleteOp
<1>6. /\ DocumentNumber' = DocumentNumber + 1 /\ op.seq = DocumentNumber + 1
      /\ Ids' = Renamed(Ids, op)
  BY <1>3 DEF Grows, Publish, Fits, DocumentNumber, Ids
<1>7. OwnOps(t)' = OwnOps(t) \cup {op}
  <2>1. /\ Ops(send[t]) \subseteq Ops(send'[t])
        /\ Ops(send'[t]) \subseteq Ops(send[t]) \cup {op}
    BY <1>3, OpsAdded
  <2>2. user'[t] = user[t]
    OBVIOUS
  <2> QED
    BY <1>3, <2>1, <2>2 DEF OwnOps
<1>8. Pending(t)'
  BY <1>7 DEF Pending
<1>9. Todo(t) \in Seq(Request)
  BY <1>1, TaskTypes DEF Todo, RoomInv
<1>10. Serves(op, r)
  BY <1>3 DEF Serves, Echoes, Grows, Fits, RealID
<1>11. ASSUME NamesRecord(N, Past(t), tab[t].lastSeq, DocumentNumber, Ids),
              NamesTracked(N, tab[t], DocumentNumber, OwnOps(t), Todo(t), up[t])
       PROVE  NamesTracked(U, tab'[t], DocumentNumber', OwnOps(t)', Todo(t)', up'[t])
  <2> DEFINE n == DocumentNumber
             b == tab[t]
             own == OwnOps(t)
             todo == Todo(t)
             out == up[t]
             rest == Todo(t)'
             left == up'[t]
  <2>1. /\ n \in Nat /\ b.lastSeq \in Nat /\ b.lastSeq <= n /\ UpToNumber(own, n)
        /\ b.shadow \in Seq(OpID) /\ b.count \in Nat
    BY <1>1, PastKnown, OwnKnown DEF Aligned, Tab
  <2>2. U[n + 1] = Renamed(N[n], op) /\ op.seq = n + 1
    <3>1. N[n] = Ids /\ U[n + 1] = Ids'
      BY <1>4, <1>6, <1>11, <2>1 DEF NamesRecord
    <3> QED
      BY <1>6, <3>1
  <2>3. /\ todo \in Seq(Request) /\ out \in Seq(Sent) /\ Agree(N, U, n)
        /\ NamesTracked(N, b, n, own, todo, out)
    BY <1>1, <1>4, <1>9, <1>11
  <2>4. \/ /\ todo = << >> /\ rest = << >> /\ out # << >> /\ left = Tail(out) /\ r = Head(out)
        \/ /\ todo # << >> /\ rest = Tail(todo) /\ left = out /\ r = Head(todo)
    OBVIOUS
  <2> HIDE DEF n, b, own, todo, out, rest, left
  <2>5. NamesTracked(U, b, n + 1, own \cup {op}, rest, left)
    BY <1>10, <2>1, <2>2, <2>3, <2>4, NamesServed
  <2> QED
    BY <1>6, <1>7, <2>5 DEF n, b, own, rest, left
<1>12. live' = live
       /\ (t \in clients' <=> t \in clients)
  OBVIOUS
<1>13. NamesFollow(t, U)'
  BY <1>1, <1>3, <1>4, <1>5, <1>8, <1>11, <1>12, NamesFollowMoves
<1> QED
  BY <1>13

\* One that the tab sent alone.
LEMMA OpNames ==
    ASSUME RoomKnown, Orderly, NEW t \in Clients, NEW type \in {"insert", "delete"}, ServeOp(t, type),
           strayed'[t] = {}, NEW N \in Namings, NamesFollow(t, N)
    PROVE  \E U \in Namings : NamesFollow(t, U)'
<1> DEFINE r == Head(up[t])
<1>1. /\ Takes(t, type) /\ Free(t) /\ r \in Request
      /\ strayed'[t] = strayed[t] \cup ServeCauses(t, r)
      /\ HandleOp(t, r) \/ UNCHANGED vars
  BY OpSelf
<1>2. /\ up[t] # << >> /\ up'[t] = Tail(up[t]) /\ tab'[t] = tab[t]
      /\ t \in clients /\ Todo(t) = << >>
  BY <1>1, TakesSelf
<1> HIDE DEF r
<1>3. /\ UNCHANGED <<live, clients, user, task>>
      /\ applyOp(t, r) \/ seqNum' = seqNum
  BY <1>1 DEF HandleOp, vars
<1>4. Todo(t)' = << >>
  BY <1>2, <1>3 DEF Todo
<1> QED
  BY <1>1, <1>2, <1>3, <1>4, ServedNames DEF r

\* One of a batch.
LEMMA BatchOpNames ==
    ASSUME RoomKnown, Orderly, NEW t \in Clients, ServeBatchOp, task.who = t,
           strayed'[t] = {}, NEW N \in Namings, NamesFollow(t, N)
    PROVE  \E U \in Namings : NamesFollow(t, U)'
<1> DEFINE r == Head(task.todo)
<1>1. /\ t \in clients /\ r \in Request
      /\ Todo(t) = task.todo /\ task.todo # << >> /\ Todo(t)' = Tail(task.todo)
      /\ strayed'[t] = strayed[t] \cup ServeCauses(t, r)
      /\ UNCHANGED <<tab, up, live, clients, user>>
      /\ applyOp(t, r) \/ seqNum' = seqNum
  BY BatchOpSelf
<1> HIDE DEF r
<1> QED
  BY <1>1, ServedNames DEF r

-----------------------------------------------------------------------------
(***************************************************************************)
(* The names of a tab when its connection begins and ends.                 *)
(***************************************************************************)

\* A tab that is told the whole text is told its names.
LEMMA FullNames ==
    ASSUME RoomKnown', NEW t \in Clients, NEW g, g \in DOMAIN send'[t],
           send'[t][g].type = "full_sync", send'[t][g].seq = DocumentNumber',
           send'[t][g].nodeIDs = Ids',
           \A op \in Past(t)' : op.seq \in Nat /\ op.seq <= DocumentNumber'
    PROVE  \E U \in Namings : NamesFollow(t, U)'
<1>1. DocumentNumber' \in Nat
  BY DEF RoomKnown, EditorInv, RoomInv, TypeOK, DocumentNumber
<1>2. PICK ids \in Seq(RealID) : ids = Ids'
  BY IdsRealNext
<1> DEFINE U == [k \in Nat |-> ids]
<1>3. U \in Namings /\ \A k \in Nat : U[k] = ids
  BY DEF Namings
<1> HIDE DEF U
<1>4. NamesRecord(U, Past(t)', DocumentNumber', DocumentNumber', Ids')
  BY <1>1, <1>2, <1>3 DEF NamesRecord
<1>5. Has(send'[t], "full_sync")
  BY DEF Has
<1>6. NamesAt(U, send'[t], Past(t)', DocumentNumber', Ids')
  BY <1>1, <1>2, <1>3, <1>4 DEF NamesAt
<1>7. NamesFollow(t, U)'
  BY <1>5, <1>6 DEF NamesFollow
<1> QED
  BY <1>3, <1>7

\* A restore that is answered gives the tab the names of what it restored.
LEMMA RestoreNames ==
    ASSUME RoomKnown, RoomKnown', Orderly, NEW t \in Clients, ServeRestore(t), strayed'[t] = {}
    PROVE  \E U \in Namings : NamesFollow(t, U)'
<1> DEFINE q == send[t]
           m == buildFullSync
           g == Len(q) + 1
<1>1. /\ Takes(t, "restore") /\ Free(t)
      /\ UNCHANGED <<live, seqNum, opLog, db, clients, user, userSeq, task>> /\ live
      /\ Len(q) < SendBuf /\ send'[t] = Append(q, m)
      /\ Sendable(m) /\ m.type = "full_sync"
  BY RestoreSelf DEF RoomKnown, EditorInv
<1>2. q \in Seq(Message)
  BY Typed
<1>3. m.seq = seqNum /\ m.nodeIDs = Ids'
  BY <1>1 DEF buildFullSync, Ids
<1>4. DocumentNumber' = DocumentNumber /\ m.seq = DocumentNumber'
  BY <1>1, <1>3 DEF DocumentNumber
<1>5. m \in Message /\ ~IsOp(m)
  BY <1>1, MessageTypes DEF Sendable, Matched
<1> HIDE DEF m
<1>6. /\ g \in DOMAIN send'[t] /\ send'[t][g] = m
      /\ Adds(q, send'[t], m)
  <2>1. Adds(q, send'[t], m)
    <3> HIDE DEF q
    <3>1. safeSend(q, m) = Append(q, m)
      BY <1>1 DEF safeSend
    <3>2. Adds(q, safeSend(q, m), m)
      BY <1>2, <1>5, SafeSendAdds
    <3> QED
      BY <1>1, <3>1, <3>2
  <2> HIDE DEF q
  <2>2. /\ Len(Append(q, m)) = g /\ Append(q, m)[g] = m /\ g \in Nat
        /\ Append(q, m) \in Seq(Message)
    BY <1>2, <1>5, AppendProperties
  <2> QED
    BY <1>1, <2>1, <2>2
<1>7. \A op \in Past(t)' : op.seq \in Nat /\ op.seq <= DocumentNumber'
  <2>1. Ops(send'[t]) \subseteq Ops(q)
    BY <1>5, <1>6, OpsAdded
  <2>2. Past(t)' \subseteq Past(t)
    BY <1>1, <2>1 DEF Past
  <2> QED
    BY <1>4, <2>2, PastKnown
<1> HIDE DEF g
<1> QED
  BY <1>1, <1>3, <1>4, <1>6, <1>7, FullNames

\* A greeting brings the names of the document, or the operations that take the tab's
\* names to them.
LEMMA JoinNames ==
    ASSUME Working, RoomKnown, RoomKnown', Orderly, NEW t \in Clients, ServeJoin(t), strayed'[t] = {},
           strayed[t] = {} => \E N \in Namings : NamesFollow(t, N)
    PROVE  \E U \in Namings : NamesFollow(t, U)'
<1> DEFINE r == Head(up[t])
           g == Greeting(r.lastSeq, r.hasOfflineEdits)
           last == tab[t].lastSeq
<1>1. /\ r \in Sent /\ r.type = "join" /\ up[t] # << >> /\ r.lastSeq \in Nat
      /\ up'[t] = Tail(up[t])
      /\ t \notin clients /\ t \in clients' /\ tab'[t] = tab[t]
      /\ OpenRoom /\ UNCHANGED <<task, db>> /\ live'
      /\ Adds(<<g>>, send'[t], Signal) /\ Sendable(g)
      /\ g.type \in {"full_sync", "replay_sync"}
      /\ strayed'[t] = IF g.type = "full_sync" THEN {} ELSE strayed[t]
  BY JoinSelf DEF RoomKnown, EditorInv
<1>2. up[t] \in Seq(Sent) /\ up[t][1] = r /\ 1 \in DOMAIN up[t]
  <2>1. up[t] \in Seq(Sent)
    BY Typed
  <2> QED
    BY <1>1, <2>1
<1>3. r.lastSeq = last
  <2>1. InOrder(tab[t], strayed[t], send[t], up[t], t \in clients)
    BY DEF Orderly
  <2> HIDE DEF r
  <2> QED
    BY <1>1, <1>2, <2>1 DEF InOrder
<1>4. SameRoom
  BY <1>1, OpenSame
<1>5. /\ DocumentNumber' = seqNum' /\ DocumentNumber' = DocumentNumber
  BY <1>1, <1>4 DEF DocumentNumber, SameRoom
<1> HIDE DEF r
<1>6. /\ g.type = "full_sync" => g = buildFullSync
      /\ g.type = "replay_sync" =>
           /\ last > 0 /\ last <= seqNum'
           /\ g = [type |-> "replay_sync", seq |-> seqNum', ops |-> Missed(opLog', last)]
  BY <1>3 DEF Greeting, buildFullSync
<1> HIDE DEF g
<1>7. 1 \in DOMAIN send'[t] /\ send'[t][1] = g /\ \A j \in DOMAIN send'[t] : j = 1 \/ send'[t][j] = Signal
  <2>1. DOMAIN <<g>> = {1} /\ <<g>>[1] = g
    OBVIOUS
  <2> QED
    BY <1>1, <2>1 DEF Adds
<1>8. ~IsOp(g) /\ ~IsOp(Signal) /\ Signal.type = "signal"
  BY <1>1 DEF IsOp, Signal
<1>9. Ops(send'[t]) = {}
  BY <1>7, <1>8 DEF Ops
<1>10. Past(t)' \subseteq Past(t)
  BY <1>4, <1>9, PastStays
<1>11. CASE g.type = "full_sync"
  <2>1. g.seq = DocumentNumber' /\ g.nodeIDs = Ids'
    BY <1>5, <1>6, <1>11 DEF buildFullSync, Ids
  <2>2. \A op \in Past(t)' : op.seq \in Nat /\ op.seq <= DocumentNumber'
    BY <1>5, <1>10, PastKnown
  <2> QED
    BY <1>7, <1>11, <2>1, <2>2, FullNames
<1>12. CASE g.type = "replay_sync"
  <2>1. PICK N \in Namings : NamesFollow(t, N)
    BY <1>1, <1>12
  <2>2. /\ live /\ NamesRecord(N, Past(t), last, DocumentNumber, Ids)
        /\ Pending(t) \/ Bears(tab[t].shadow, tab[t].count, N[last])
    <3>1. send[t] = << >>
      BY <1>1, OutsideRoom
    <3>2. ~Has(send[t], "full_sync") /\ ~Has(send[t], "replay_sync")
      BY <3>1 DEF Has
    <3> QED
      BY <1>1, <1>6, <1>12, <2>1, <3>2 DEF NamesFollow, NamesShown
  <2>3. NamesRecord(N, Past(t)', last, DocumentNumber', Ids')
    <3>1. doc' = doc
      BY <1>1, <2>2 DEF OpenRoom
    <3>2. Ids' = Ids
      BY <3>1 DEF Ids
    <3> QED
      BY <1>5, <1>10, <2>2, <3>2 DEF NamesRecord
  <2>4. Has(send'[t], "replay_sync") /\ ~Has(send'[t], "full_sync")
    BY <1>7, <1>8, <1>12 DEF Has
  <2>5. Pending(t) => Pending(t)'
    <3> SUFFICES ASSUME Pending(t) PROVE Pending(t)'
      OBVIOUS
    <3>1. send[t] = << >> /\ Todo(t) = << >>
      BY <1>1, OutsideRoom
    <3>2. OwnOps(t) = {}
      BY <3>1 DEF OwnOps, Ops
    <3>3. PICK i \in DOMAIN up[t] : up[t][i].type \in {"insert", "delete", "batch_sync"}
      BY <3>1, <3>2 DEF Pending
    <3> DEFINE out == up[t]
               left == Tail(up[t])
    <3>4. i # 1
      BY <1>1, <1>2, <3>3
    <3>5. /\ left \in Seq(Sent) /\ Len(left) = Len(out) - 1 /\ Len(out) \in Nat
          /\ DOMAIN out = 1 .. Len(out) /\ DOMAIN left = 1 .. Len(left)
          /\ \A k \in 1 .. Len(left) : left[k] = out[k + 1]
      BY <1>1, <1>2, HeadTailProperties
    <3>6. i \in DOMAIN out /\ out[i].type \in {"insert", "delete", "batch_sync"} /\ up'[t] = left
      BY <1>1, <3>3
    <3> HIDE DEF out, left
    <3>7. i - 1 \in 1 .. Len(left) /\ i - 1 + 1 = i
      BY <3>4, <3>5, <3>6
    <3>8. i - 1 \in DOMAIN left /\ left[i - 1] = out[i]
      BY <3>5, <3>7
    <3> QED
      BY <3>6, <3>8 DEF Pending
  <2> DEFINE ops == Missed(opLog', last)
  <2>6. /\ opLog' \in Seq(Op) /\ seqNum' \in Nat /\ last \in Nat /\ last <= seqNum'
        /\ \A i \in DOMAIN opLog' : opLog'[i].seq = seqNum' - Len(opLog') + i
    <3>1. TypeOK' /\ LogContiguous'
      BY DEF RoomKnown, EditorInv, RoomInv
    <3>2. last \in Nat
      BY PastKnown
    <3> HIDE DEF last
    <3> QED
      BY <1>6, <1>12, <3>1, <3>2 DEF TypeOK, LogContiguous
  <2>7. \A i \in DOMAIN ops : ops[i].seq > last /\ ops[i] \in Range(opLog')
    <3> HIDE DEF last
    <3> QED
      BY <2>6, MissedProperties
  <2>8. g.ops = ops
    BY <1>6, <1>12
  <2> HIDE DEF ops, last
  <2>9. ASSUME NEW i \in DOMAIN ops PROVE ops[i].seq \in 1 .. DocumentNumber' /\ MakesNames(N, ops[i])
    <3>1. ops[i] \in Range(opLog') /\ ops[i].seq > last
      BY <2>7
    <3>2. ops[i] \in Op /\ IsOp(ops[i])
      BY <2>6, <3>1, OpKinds DEF Range, IsOp
    <3>3. ops[i] \in Past(t)'
      BY <3>1, <3>2 DEF Past, Ops, Range
    <3>4. MakesNames(N, ops[i])
      BY <2>3, <3>1, <3>3 DEF NamesRecord
    <3>5. ops[i].seq \in Nat /\ ops[i].seq <= DocumentNumber
      BY <1>10, <3>3, PastKnown
    <3> QED
      BY <1>5, <2>6, <3>1, <3>4, <3>5
  <2>10. NamesReplayed(N, DocumentNumber', send'[t][1].ops)
    BY <1>7, <2>8, <2>9 DEF NamesReplayed
  <2>11. Pending(t)' \/ Bears(tab'[t].shadow, tab'[t].count, N[tab'[t].lastSeq])
    BY <1>1, <2>2, <2>5 DEF last
  <2>12. NamesShown(t, N)'
    BY <2>4, <2>10, <2>11 DEF NamesShown
  <2>13. NamesFollow(t, N)'
    BY <1>1, <2>3, <2>4, <2>12 DEF NamesFollow, last
  <2> QED
    BY <2>13
<1> QED
  BY <1>1, <1>11, <1>12
\* A connection ends with the tab at the names of its number.
LEMMA EndNames ==
    ASSUME Working, RoomKnown, Orderly, NEW t \in Clients, EndSelf(t), strayed'[t] = {},
           NEW N \in Namings, NamesFollow(t, N)
    PROVE  NamesFollow(t, N)'
<1> DEFINE b == tab[t]
           c == tab'[t]
           last == tab[t].lastSeq
<1>1. /\ send'[t] = << >> /\ t \notin clients' /\ strayed[t] = {}
      /\ tab'[t] \in {b, Closed(b)} /\ GoneCauses = {} /\ LostCauses(t) = {}
      /\ NoRoom \/ UNCHANGED <<live, doc, seqNum, opLog>>
      /\ UNCHANGED db
  BY DEF EndSelf
<1>2. /\ last \in Nat /\ b \in Tab
  BY Typed, PastKnown
<1>3. c.lastSeq = last /\ c.shadow = b.shadow /\ c.count = b.count
  BY <1>1, <1>2 DEF Closed, Tab
<1>4. ~Has(send'[t], "full_sync") /\ ~Has(send'[t], "replay_sync")
  BY <1>1 DEF Has
<1>5. ~Has(send[t], "full_sync") /\ ~Outstanding(t)
  BY <1>1 DEF LostCauses, Has
<1>6. ~Pending(t)
  BY <1>5, PendingOut
<1>7. CASE ~(t \in clients \/ last > 0)
  <2>1. c.lastSeq = 0
    BY <1>2, <1>3, <1>7
  <2> QED
    BY <1>1, <1>4, <2>1, NamesNotYet
<1>8. CASE t \in clients \/ last > 0
  <2>1. /\ live /\ NamesRecord(N, Past(t), last, DocumentNumber, Ids)
        /\ NamesShown(t, N)
    BY <1>5, <1>8 DEF NamesFollow
  <2>2. live' /\ UNCHANGED <<live, doc, seqNum, opLog>>
    BY <1>1, <2>1 DEF GoneCauses, NoRoom
  <2>3. Bears(b.shadow, b.count, N[last])
    <3>1. CASE t \in clients /\ ~Has(send[t], "replay_sync")
      <4>1. OwnOps(t) = {} /\ Todo(t) = << >>
        BY <1>6 DEF Pending
      <4>2. up[t] = << >>
        BY <1>1, <1>5, <3>1, NotBusy
      <4>3. NamesTracked(N, b, DocumentNumber, {}, << >>, << >>)
        BY <2>1, <3>1, <4>1, <4>2 DEF NamesShown
      <4>4. DocumentNumber \in Nat
        BY PastKnown
      <4> HIDE DEF b
      <4> QED
        BY <1>2, <4>3, <4>4, NamesQuiet DEF last, b
    <3>2. CASE ~(t \in clients /\ ~Has(send[t], "replay_sync"))
      BY <1>6, <2>1, <3>2 DEF NamesShown
    <3> QED
      BY <3>1, <3>2
  <2>4. SameRoom
    BY <1>1, <2>2, RoomStays
  <2>5. Past(t)' \subseteq Past(t)
    <3>1. Ops(send'[t]) = {}
      BY <1>1 DEF Ops
    <3> QED
      BY <2>4, <3>1, PastStays
  <2>6. Ids' = Ids /\ DocumentNumber' = DocumentNumber
    BY <2>2, <2>4 DEF Ids, SameRoom
  <2>7. NamesRecord(N, Past(t)', last, DocumentNumber', Ids')
    BY <2>1, <2>5, <2>6 DEF NamesRecord
  <2>8. Bears(c.shadow, c.count, N[c.lastSeq])
    BY <1>3, <2>3
  <2>9. NamesShown(t, N)'
    BY <1>1, <1>4, <2>8 DEF NamesShown
  <2> QED
    BY <1>3, <1>4, <2>2, <2>7, <2>9 DEF NamesFollow
<1> QED
  BY <1>7, <1>8

-----------------------------------------------------------------------------
(***************************************************************************)
(* The names of a tab that is shown a message.                             *)
(***************************************************************************)

\* The document's names, and what is left of the tab's own operations.
LEMMA ShowKeepsNames ==
    ASSUME RoomKnown, NEW t \in Clients, Show(t)
    PROVE  /\ Ids' = Ids /\ live' /\ t \in clients'
           /\ OwnOps(t)' \subseteq OwnOps(t)
           /\ OwnOps(t) \subseteq OwnOps(t)' \cup {Head(send[t])}
           /\ ~(IsOp(Head(send[t])) /\ Head(send[t]).userID = user[t]) => OwnOps(t)' = OwnOps(t)
           /\ IsOp(Head(send[t])) /\ Head(send[t]).userID = user[t] => Head(send[t]) \in OwnOps(t)
<1> DEFINE q == send[t]
           m == Head(send[t])
<1>1. /\ q # << >> /\ q \in Seq(Message) /\ send'[t] = Tail(q) /\ user'[t] = user[t]
      /\ live /\ t \in clients
      /\ UNCHANGED <<live, doc, clients>>
  BY ShowSelf, Typed
<1>2. /\ Ops(Tail(q)) \subseteq Ops(q) /\ Ops(q) \subseteq Ops(Tail(q)) \cup {m}
      /\ IsOp(m) => m \in Ops(q)
      /\ ~IsOp(m) => Ops(q) \subseteq Ops(Tail(q))
  BY <1>1, OpsTail
<1> HIDE DEF q, m
<1>3. /\ OwnOps(t) = {o \in Ops(q) : o.userID = user[t]}
      /\ OwnOps(t)' = {o \in Ops(Tail(q)) : o.userID = user[t]}
  BY <1>1 DEF OwnOps, q
<1>4. Ids' = Ids /\ live' /\ t \in clients'
  BY <1>1 DEF Ids
<1>5. OwnOps(t)' \subseteq OwnOps(t) /\ OwnOps(t) \subseteq OwnOps(t)' \cup {m}
  BY <1>2, <1>3
<1>6. ~(IsOp(m) /\ m.userID = user[t]) => OwnOps(t)' = OwnOps(t)
  BY <1>2, <1>3
<1>7. IsOp(m) /\ m.userID = user[t] => m \in OwnOps(t)
  BY <1>2, <1>3
<1> QED
  BY <1>4, <1>5, <1>6, <1>7 DEF m

\* The tab is tracked from where it is.
LEMMA NamesFrom ==
    ASSUME NEW t, NEW N, ~Has(send'[t], "full_sync"), ~Has(send'[t], "replay_sync"), t \in clients',
           live', NamesRecord(N, Past(t)', tab'[t].lastSeq, DocumentNumber', Ids'),
           NamesTracked(N, tab'[t], DocumentNumber', OwnOps(t)', Todo(t)', up'[t])
    PROVE  NamesFollow(t, N)'
BY DEF NamesFollow, NamesShown

\* A full_sync waits behind what is shown.
LEMMA ShowBeforeNames ==
    ASSUME RoomKnown, NEW t \in Clients, Show(t), NEW N \in Namings, NamesFollow(t, N),
           Has(send[t], "full_sync"), Head(send[t]).type # "full_sync"
    PROVE  NamesFollow(t, N)'
<1> DEFINE q == send[t]
           r == send'[t]
           m == Head(send[t])
           n == DocumentNumber
<1>1. /\ q # << >> /\ q \in Seq(Message) /\ r = Tail(q) /\ m = q[1] /\ 1 \in DOMAIN q
  BY ShowSelf, Typed
<1>2. DocumentNumber' = n /\ Ids' = Ids /\ Past(t)' \subseteq Past(t)
  BY ShowKeeps, ShowKeepsNames
<1>3. PICK g \in DOMAIN q :
        /\ q[g].type = "full_sync" /\ N[q[g].seq] = q[g].nodeIDs
        /\ NamesRecord(N, Past(t), q[g].seq, n, Ids)
  BY DEF NamesFollow, NamesAt
<1>4. /\ r \in Seq(Message) /\ Len(r) = Len(q) - 1 /\ Len(q) \in Nat
      /\ \A i \in 1 .. Len(r) : r[i] = q[i + 1]
  <2> HIDE DEF q, r
  <2> QED
    BY <1>1, HeadTailProperties
<1> HIDE DEF q, r, m, n
<1>5. g # 1
  BY <1>1, <1>3 DEF m, q
<1>6. g \in 1 .. Len(q)
  BY <1>1, <1>3
<1>7. g - 1 \in DOMAIN r /\ r[g - 1] = q[g]
  BY <1>4, <1>5, <1>6
<1>8. NamesRecord(N, Past(t)', r[g - 1].seq, n, Ids)
  BY <1>2, <1>3, <1>7 DEF NamesRecord
<1>9. NamesAt(N, r, Past(t)', n, Ids)
  BY <1>3, <1>7, <1>8 DEF NamesAt
<1>10. Has(r, "full_sync")
  BY <1>3, <1>7 DEF Has
<1> QED
  BY <1>2, <1>9, <1>10 DEF NamesFollow, r, n

\* The tab is shown a full text, and bears its names and those of its own edits.
LEMMA ShowFullNames ==
    ASSUME RoomKnown, Orderly, NEW t \in Clients, Show(t), strayed'[t] = {},
           NEW T \in Texts, Follows(t, T), NEW N \in Namings, NamesFollow(t, N),
           Head(send[t]).type = "full_sync"
    PROVE  NamesFollow(t, N)'
<1> DEFINE q == send[t]
           m == Head(send[t])
           n == DocumentNumber
           b == tab[t]
           c == tab'[t]
           more == FullSyncReply(tab[t], Head(send[t]))
           me == user[t]
<1>1. /\ q # << >> /\ q \in Seq(Message) /\ send'[t] = Tail(q) /\ m = q[1] /\ 1 \in DOMAIN q
      /\ Matched(m) /\ c = Received(b, m, me) /\ Aligned(b) /\ t \in clients
      /\ up'[t] = up[t] \o more /\ strayed'[t] = strayed[t] \cup ShowCauses(t, m)
      /\ UNCHANGED <<clients, user, task>>
  BY ShowSelf, Typed
<1>2. ~Outstanding(t) /\ ~AsksRestore(b, m) /\ strayed[t] \subseteq Excused
  BY <1>1, ShownRight
<1>3. OwnOps(t) = {} /\ Todo(t) = << >> /\ up[t] = << >>
  BY <1>1, <1>2, NotBusy, PendingOut DEF Pending
<1>4. /\ DocumentNumber' = n /\ Ids' = Ids /\ Past(t)' \subseteq Past(t)
      /\ OwnOps(t)' \subseteq OwnOps(t) /\ live'
      /\ t \in clients'
  BY ShowKeeps, ShowKeepsNames
<1>5. /\ \A j \in DOMAIN q : q[j].type = "replay_sync" => j = 1
      /\ Only(q, "full_sync")
  BY DEF Orderly, InOrder
<1>6. ~Has(Tail(q), "replay_sync") /\ ~Has(Tail(q), "full_sync")
  BY <1>1, <1>5, TailSyncs
<1>7. PICK g \in DOMAIN q :
        /\ q[g].type = "full_sync" /\ N[q[g].seq] = q[g].nodeIDs
        /\ NamesRecord(N, Past(t), q[g].seq, n, Ids)
  BY <1>1 DEF NamesFollow, NamesAt, Has
<1>8. PICK h \in DOMAIN q : q[h].type = "full_sync" /\ b.lastSeq <= q[h].seq
  <2>1. Has(q, "full_sync")
    BY <1>1 DEF Has
  <2>2. FullAt(T, q, b.lastSeq, Past(t), n, DocumentText)
    BY <2>1 DEF Follows
  <2> HIDE DEF q, b, n
  <2> QED
    BY <2>2 DEF FullAt
<1>9. q[g] = m /\ q[h] = m
  BY <1>1, <1>5, <1>7, <1>8 DEF Only
<1>10. b.lastSeq \in Nat /\ m.seq \in Nat /\ n \in Nat
  BY <1>1, PastKnown, MessageTypes DEF Matched
<1>11. m.nodeIDs \in Seq(RealID)
  <2>1. N[m.seq] \in Seq(RealID)
    BY <1>10, NamingsTypes
  <2> QED
    BY <1>7, <1>9, <2>1
<1>12. c.lastSeq = Max({b.lastSeq, m.seq}) /\ more \in Seq(Sent)
  <2>1. /\ Aligned(b) /\ Matched(m) /\ m.type = "full_sync" /\ ~AsksRestore(b, m)
        /\ c = Received(b, m, me) /\ more = FullSyncReply(b, m)
    BY <1>1, <1>2
  <2> HIDE DEF b, m, c, more, me
  <2> QED
    BY <2>1, ReceivedFull
<1>13. PICK asked \in Seq(Request) :
         /\ Unpacked(<< >>, more, asked)
         /\ Carries({}, asked, m.nodeIDs, c.shadow, c.count)
  <2>1. /\ Aligned(b) /\ Matched(m) /\ m.type = "full_sync" /\ ~AsksRestore(b, m)
        /\ c = Received(b, m, me) /\ more = FullSyncReply(b, m) /\ m.nodeIDs \in Seq(RealID)
    BY <1>1, <1>2, <1>11
  <2> HIDE DEF b, m, c, more, me
  <2> QED
    BY <2>1, NamesFull
<1> HIDE DEF q, m, n, b, c, more, me
<1>14. c.lastSeq = m.seq /\ m.seq <= n
  <2>1. Max({b.lastSeq, m.seq}) = m.seq
    BY <1>8, <1>9, <1>10, MaxOfTwo
  <2> QED
    BY <1>7, <1>9, <1>12, <2>1 DEF NamesRecord
<1>15. NamesRecord(N, Past(t)', c.lastSeq, n, Ids)
  BY <1>4, <1>7, <1>9, <1>14 DEF NamesRecord
<1>16. NamesTracked(N, c, n, {}, << >>, more)
  <2>1. Carries({}, asked, N[c.lastSeq], c.shadow, c.count)
    BY <1>7, <1>9, <1>13, <1>14
  <2>2. n \in Nat /\ c.lastSeq \in Nat /\ c.lastSeq <= n
    BY <1>10, <1>14
  <2> QED
    BY <1>13, <2>1, <2>2, NamesAnew
<1>17. OwnOps(t)' = {} /\ Todo(t)' = << >> /\ up'[t] = more
  BY <1>1, <1>3, <1>4, <1>12 DEF Todo
<1>18. NamesRecord(N, Past(t)', c.lastSeq, DocumentNumber', Ids')
  BY <1>4, <1>15
<1>19. NamesTracked(N, c, DocumentNumber', OwnOps(t)', Todo(t)', up'[t])
  BY <1>4, <1>16, <1>17
<1> QED
  BY <1>1, <1>4, <1>6, <1>18, <1>19, NamesFrom DEF c

\* The tab is shown the replay that its names wait for.
LEMMA ShowReplayNames ==
    ASSUME RoomKnown, Orderly, NEW t \in Clients, Show(t), strayed'[t] = {},
           NEW T \in Texts, Follows(t, T), NEW N \in Namings, NamesFollow(t, N),
           ~Has(send[t], "full_sync"), Has(send[t], "replay_sync")
    PROVE  NamesFollow(t, N)'
<1> DEFINE q == send[t]
           m == Head(send[t])
           n == DocumentNumber
           b == tab[t]
           c == tab'[t]
           me == user[t]
<1>1. /\ send'[t] = Tail(q) /\ m = q[1] /\ Matched(m) /\ c = Received(b, m, me) /\ Aligned(b)
      /\ t \in clients /\ UNCHANGED <<clients, user, task>>
      /\ (m.type # "full_sync" => up'[t] = up[t])
  BY ShowSelf, Typed
<1>2. strayed'[t] \subseteq Excused
  OBVIOUS
<1>3. \A i \in DOMAIN m.ops : m.ops[i].seq = b.lastSeq + i /\ m.ops[i].userID # me
  BY <1>2, ReplayNumbers
<1>4. /\ m.type = "replay_sync" /\ ~Outstanding(t) /\ Todo(t) = << >> /\ up[t] = << >>
      /\ ~Has(Tail(q), "replay_sync") /\ ~Has(Tail(q), "full_sync")
      /\ m.seq <= n /\ m.seq = b.lastSeq + Len(m.ops)
      /\ m.seq \in Nat /\ m.ops \in Seq(Op)
  BY <1>2, ReplayNumbers
<1>5. OwnOps(t) = {} /\ ~Pending(t)
  BY <1>4, PendingOut DEF Pending
<1>6. /\ NamesRecord(N, Past(t), b.lastSeq, n, Ids)
      /\ Bears(b.shadow, b.count, N[b.lastSeq]) /\ NamesReplayed(N, n, m.ops)
  BY <1>1, <1>5 DEF NamesFollow, NamesShown
<1>7. /\ DocumentNumber' = n /\ Ids' = Ids /\ Past(t)' \subseteq Past(t)
      /\ OwnOps(t)' \subseteq OwnOps(t) /\ live'
      /\ t \in clients'
  BY ShowKeeps, ShowKeepsNames
<1>8. b.lastSeq \in Nat /\ n \in Nat /\ m \in Message
  BY <1>1, PastKnown DEF Matched
<1>9. c.lastSeq = Max({b.lastSeq, m.seq})
  <2>1. Aligned(b) /\ m \in Message /\ m.type = "replay_sync" /\ c = Received(b, m, me)
    BY <1>1, <1>4, <1>8
  <2> HIDE DEF b, m, c, me
  <2> QED
    BY <2>1, ReceivedReplay
<1> DEFINE a == Numbered(b, m)
<1>10. /\ c.shadow = Replayed(a, m.ops, me).shadow /\ c.count = Replayed(a, m.ops, me).count
       /\ Aligned(a) /\ a.shadow = b.shadow /\ a.count = b.count
  <2>1. Aligned(b) /\ m \in Message /\ m.type = "replay_sync" /\ c = Received(b, m, me)
    BY <1>1, <1>4, <1>8
  <2> HIDE DEF b, m, c, me
  <2> QED
    BY <2>1, ReplayShadow DEF a
<1> HIDE DEF q, m, n, b, c, me, a
<1>11. c.lastSeq = m.seq /\ b.lastSeq <= m.seq
  <2>1. Len(m.ops) \in Nat
    BY <1>4
  <2>2. b.lastSeq <= m.seq
    BY <1>4, <1>8, <2>1
  <2> QED
    BY <1>4, <1>8, <1>9, <2>2, MaxOfTwo
<1>12. NamesGoOn(N, b.lastSeq, m.ops, me)
  BY <1>3, <1>6 DEF NamesGoOn, NamesReplayed
<1>13. Bears(c.shadow, c.count, N[c.lastSeq])
  <2> DEFINE from == b.lastSeq
             ops == m.ops
             z == Replayed(a, m.ops, me)
  <2>1. Bears(a.shadow, a.count, N[from]) /\ from \in Nat /\ ops \in Seq(Op)
        /\ NamesGoOn(N, from, ops, me)
    BY <1>4, <1>6, <1>8, <1>10, <1>12
  <2>2. z = Replayed(a, ops, me) /\ c.shadow = z.shadow /\ c.count = z.count
        /\ c.lastSeq = from + Len(ops)
    BY <1>4, <1>10, <1>11
  <2> HIDE DEF from, ops, z
  <2>3. Bears(z.shadow, z.count, N[from + Len(ops)])
    BY <1>10, <2>1, <2>2, ReplayedNames
  <2> QED
    BY <2>2, <2>3
<1>14. NamesTracked(N, c, n, {}, << >>, << >>)
  BY <1>4, <1>8, <1>11, <1>13, QuietNames
<1>15. OwnOps(t)' = {} /\ Todo(t)' = << >> /\ up'[t] = << >>
  BY <1>1, <1>4, <1>5, <1>7 DEF Todo
<1>16. NamesRecord(N, Past(t)', c.lastSeq, DocumentNumber', Ids')
  <2>1. \A op \in Past(t) : op.seq \in Nat
    BY PastKnown
  <2>2. \A op \in Past(t)' : op.seq > m.seq => MakesNames(N, op)
    BY <1>4, <1>6, <1>7, <1>8, <1>11, <2>1 DEF NamesRecord
  <2> QED
    BY <1>4, <1>6, <1>7, <1>11, <2>2 DEF NamesRecord
<1>17. NamesTracked(N, c, DocumentNumber', OwnOps(t)', Todo(t)', up'[t])
  BY <1>7, <1>14, <1>15
<1> QED
  BY <1>1, <1>4, <1>7, <1>16, <1>17, NamesFrom DEF c, q

\* The tab is told of an operation, its own or another's, or of none.
LEMMA ShowNextNames ==
    ASSUME RoomKnown, Orderly, NEW t \in Clients, Show(t), strayed'[t] = {},
           NEW T \in Texts, Follows(t, T), NEW N \in Namings, NamesFollow(t, N),
           ~Has(send[t], "full_sync"), ~Has(send[t], "replay_sync")
    PROVE  NamesFollow(t, N)'
<1> DEFINE q == send[t]
           m == Head(send[t])
           n == DocumentNumber
           b == tab[t]
           c == tab'[t]
           me == user[t]
           own == OwnOps(t)
           todo == Todo(t)
           out == up[t]
<1>1. /\ q # << >> /\ q \in Seq(Message) /\ send'[t] = Tail(q) /\ m = q[1] /\ 1 \in DOMAIN q
      /\ Matched(m) /\ c = Received(b, m, me) /\ Aligned(b) /\ t \in clients
      /\ strayed'[t] = strayed[t] \cup ShowCauses(t, m)
      /\ UNCHANGED <<clients, user, task>>
      /\ (m.type # "full_sync" => up'[t] = up[t])
  BY ShowSelf, Typed
<1>2. /\ ~b.restoring /\ NamesRecord(N, Past(t), b.lastSeq, n, Ids)
      /\ NamesTracked(N, b, n, own, todo, out)
  BY <1>1 DEF Follows, NamesFollow, NamesShown
<1>3. m.type \notin {"full_sync", "replay_sync"}
  BY <1>1 DEF Has
<1>4. ~Has(Tail(q), "full_sync") /\ ~Has(Tail(q), "replay_sync")
  <2>1. \A i \in DOMAIN Tail(q) : i + 1 \in DOMAIN q /\ Tail(q)[i] = q[i + 1]
    <3> HIDE DEF q
    <3>1. /\ Tail(q) \in Seq(Message) /\ Len(Tail(q)) = Len(q) - 1 /\ Len(q) \in Nat
          /\ \A i \in 1 .. Len(Tail(q)) : Tail(q)[i] = q[i + 1]
      BY <1>1, HeadTailProperties
    <3> QED
      BY <1>1, <3>1
  <2> QED
    BY <2>1 DEF Has
<1>5. /\ DocumentNumber' = n /\ Ids' = Ids /\ Past(t)' \subseteq Past(t)
      /\ OwnOps(t)' \subseteq own /\ own \subseteq OwnOps(t)' \cup {m}
      /\ ~(IsOp(m) /\ m.userID = me) => OwnOps(t)' = own
      /\ IsOp(m) => m \in Past(t)
      /\ IsOp(m) /\ m.userID = me => m \in own
      /\ live' /\ t \in clients'
  BY ShowKeeps, ShowKeepsNames
<1>6. Todo(t)' = todo /\ up'[t] = out
  BY <1>1, <1>3 DEF Todo
<1>7. /\ (IsOp(m) /\ m.userID # me => ~Outstanding(t)) /\ ~Skips(b, m) /\ strayed[t] \subseteq Excused
  BY <1>1, <1>2, ShownRight
<1>8. m.type = "insert" /\ m.userID = me => Named(b, m) # {} \/ Waiting(b) = {}
  BY <1>1 DEF ShowCauses, Causes
<1>9. /\ b.lastSeq \in Nat /\ m.seq \in Nat /\ n \in Nat /\ m \in Message
      /\ b.lastSeq <= n /\ UpToNumber(own, n)
  BY <1>1, PastKnown, OwnKnown, MessageTypes DEF Matched
<1>10. IsOp(m) => m.seq > b.lastSeq
  BY <1>1 DEF RoomKnown, NumbersAhead
<1>11. IsOp(m) /\ m.userID # me => own = {} /\ todo = << >> /\ out = << >>
  BY <1>1, <1>7, NotBusy, PendingOut DEF Pending
<1> HIDE DEF q, m, n, b, c, me, own, todo, out
<1>12. CASE ~IsOp(m)
  <2>1. m.type = "signal"
    BY <1>3, <1>9, <1>12, MessageTypes
  <2>2. c.shadow = b.shadow /\ c.count = b.count /\ c.lastSeq = b.lastSeq
    BY <1>1, <1>9, <2>1, SignalledNames
  <2>3. NamesTracked(N, c, n, own, todo, out)
    BY <1>2, <2>2 DEF NamesTracked, NamesKept
  <2>4. NamesRecord(N, Past(t)', c.lastSeq, DocumentNumber', Ids')
    BY <1>2, <1>5, <2>2 DEF NamesRecord
  <2>5. NamesTracked(N, c, DocumentNumber', OwnOps(t)', Todo(t)', up'[t])
    BY <1>5, <1>6, <1>12, <2>3
  <2> QED
    BY <1>1, <1>4, <1>5, <2>4, <2>5, NamesFrom DEF c
<1>13. CASE IsOp(m)
  <2>1. m.seq = b.lastSeq + 1
    <3>1. Brought(m) = <<m>>
      BY <1>3, <1>13 DEF Brought
    <3>2. Len(<<m>>) = 1
      OBVIOUS
    <3> QED
      BY <1>3, <1>7, <1>10, <1>13, <3>1, <3>2 DEF Skips
  <2> DEFINE a == Numbered(b, m)
  <2>2. /\ c.shadow = ShowOp(a, m, me).shadow /\ c.count = ShowOp(a, m, me).count
        /\ Aligned(a) /\ a.shadow = b.shadow /\ a.count = b.count /\ a.pending = b.pending
    BY <1>1, <1>2, <1>9, <1>10, <1>13, ReceivedNames
  <2>3. c.lastSeq = m.seq
    BY <1>1, <1>2, <1>9, <1>10, <1>13, ReceivedOp
  <2>4. m.seq <= n /\ m \in Op
    BY <1>5, <1>13, PastKnown DEF n
  <2> HIDE DEF a
  <2>5. NamesRecord(N, Past(t)', c.lastSeq, DocumentNumber', Ids')
    <3>1. \A op \in Past(t) : op.seq \in Nat
      BY PastKnown
    <3>2. \A op \in Past(t)' : op.seq > m.seq => MakesNames(N, op)
      BY <1>2, <1>5, <1>9, <2>1, <3>1 DEF NamesRecord
    <3> QED
      BY <1>2, <1>5, <2>3, <2>4, <3>2 DEF NamesRecord
  <2>6. NamesTracked(N, c, DocumentNumber', OwnOps(t)', Todo(t)', up'[t])
    <3>1. CASE m.userID = me
      <4> DEFINE rest == OwnOps(t)'
      <4>1. rest \subseteq own /\ own \subseteq rest \cup {m} /\ m \in own
        BY <1>5, <1>13, <3>1
      <4>2. c.lastSeq = b.lastSeq + 1
        BY <2>1, <2>3
      <4>3. m.type = "insert" => Named(a, m) # {} \/ Waiting(a) = {}
        BY <1>8, <2>2, <3>1 DEF Named, Waiting
      <4>4. /\ c.shadow = ShowOp(a, m, m.userID).shadow
            /\ c.count = ShowOp(a, m, m.userID).count
        BY <2>2, <3>1
      <4> HIDE DEF rest
      <4>5. NamesTracked(N, c, n, rest, todo, out)
        BY <1>2, <1>9, <2>1, <2>2, <2>4, <4>1, <4>2, <4>3, <4>4, NamesTold
      <4> QED
        BY <1>5, <1>6, <4>5 DEF rest
    <3>2. CASE m.userID # me
      <4>1. own = {} /\ todo = << >> /\ out = << >>
        BY <1>11, <1>13, <3>2
      <4> DEFINE s == N[b.lastSeq]
                 z == ShowOp(a, m, me)
      <4>2. Bears(b.shadow, b.count, s)
        BY <1>2, <1>9, <4>1, NamesQuiet
      <4>3. MakesNames(N, m) /\ m.seq - 1 = b.lastSeq
        BY <1>2, <1>5, <1>9, <1>10, <1>13, <2>1 DEF NamesRecord
      <4>4. N[m.seq] = Renamed(s, m) /\ (m.type = "insert" => m.newID \in RealID)
        BY <4>3 DEF MakesNames
      <4>5. s \in Seq(RealID)
        BY <1>9, NamingsTypes
      <4>6. Bears(a.shadow, a.count, s) /\ c.shadow = z.shadow /\ c.count = z.count
        BY <2>2, <4>2
      <4> HIDE DEF s, z
      <4>7. Bears(z.shadow, z.count, Renamed(s, m))
        BY <2>2, <2>4, <3>2, <4>4, <4>5, <4>6, ShownNames DEF z
      <4>8. Bears(c.shadow, c.count, N[c.lastSeq])
        BY <2>3, <4>4, <4>6, <4>7
      <4>9. c.lastSeq \in Nat /\ c.lastSeq <= n
        BY <1>9, <2>3, <2>4
      <4>10. NamesTracked(N, c, n, {}, << >>, << >>)
        BY <1>9, <4>8, <4>9, QuietNames
      <4>11. OwnOps(t)' = {}
        BY <1>5, <3>2, <4>1
      <4> QED
        BY <1>5, <1>6, <4>1, <4>10, <4>11
    <3> QED
      BY <3>1, <3>2
  <2> QED
    BY <1>1, <1>4, <1>5, <2>5, <2>6, NamesFrom DEF c
<1> QED
  BY <1>12, <1>13

\* A tab follows the names through whatever it is shown.
LEMMA ShowNames ==
    ASSUME RoomKnown, Orderly, NEW t \in Clients, Show(t), strayed'[t] = {},
           NEW T \in Texts, Follows(t, T), NEW N \in Namings, NamesFollow(t, N)
    PROVE  NamesFollow(t, N)'
<1>1. CASE Head(send[t]).type = "full_sync"
  BY <1>1, ShowFullNames
<1>2. CASE Has(send[t], "full_sync") /\ Head(send[t]).type # "full_sync"
  BY <1>2, ShowBeforeNames
<1>3. CASE ~Has(send[t], "full_sync")
  BY <1>3, ShowReplayNames, ShowNextNames
<1> QED
  BY <1>1, <1>2, <1>3

-----------------------------------------------------------------------------
(***************************************************************************)
(* The names converge.                                                     *)
(***************************************************************************)

\* Every tab to which nothing happened follows the names through every step.
LEMMA NamesFollowedStep ==
    ASSUME Working, RoomKnown, RoomKnown', Orderly, Followed, NamesFollowed, [EditorNext]_allVars
    PROVE  NamesFollowed'
<1> SUFFICES ASSUME NEW t \in Clients, strayed'[t] = {}
             PROVE  \E U \in Namings : NamesFollow(t, U)'
  BY DEF NamesFollowed
<1>1. EditorInv'
  BY DEF RoomKnown
<1>2. strayed[t] = {} => \E N \in Namings : NamesFollow(t, N)
  BY DEF NamesFollowed
<1>3. CASE ServeJoin(t)
  BY <1>2, <1>3, JoinNames
<1>4. CASE ServeRestore(t)
  BY <1>4, RestoreNames
<1>5. ASSUME \/ Elsewhere(t) \/ EndSelf(t) \/ Open(t) \/ Type(t) \/ Show(t)
             \/ \E type \in {"insert", "delete"} : ServeOp(t, type)
             \/ ServeBatch(t) \/ (ServeBatchOp /\ task.who = t)
      PROVE  \E U \in Namings : NamesFollow(t, U)'
  <2>1. strayed[t] \subseteq strayed'[t]
    BY <1>5, StrayedGrows
  <2>2. PICK N \in Namings : NamesFollow(t, N)
    BY <1>2, <2>1
  <2>3. CASE Elsewhere(t)
    BY <2>2, <2>3, ElsewhereNames
  <2>4. CASE EndSelf(t)
    BY <2>2, <2>4, EndNames
  <2>5. CASE Open(t) \/ Type(t)
    BY <2>2, <2>5, OpenNames, TypeNames
  <2>6. CASE Show(t)
    <3>1. PICK T \in Texts : Follows(t, T)
      BY <2>1 DEF Followed
    <3> QED
      BY <2>2, <2>6, <3>1, ShowNames
  <2>7. CASE \E type \in {"insert", "delete"} : ServeOp(t, type)
    BY <2>2, <2>7, OpNames
  <2>8. CASE ServeBatch(t)
    BY <2>2, <2>8, BatchNames
  <2>9. CASE ServeBatchOp /\ task.who = t
    BY <2>2, <2>9, BatchOpNames
  <2> QED
    BY <1>5, <2>3, <2>4, <2>5, <2>6, <2>7, <2>8, <2>9
<1> QED
  BY <1>1, <1>3, <1>4, <1>5, StepOf

\* What is known of every tab, and the names that its shadow follows.
NamesInv == TabsInv /\ NamesFollowed

\* No tab was connected before the first step.
LEMMA NamesInvInit == ASSUME EditorInit PROVE NamesInv
<1>1. TabsInv
  BY TabsInvInit
<1>2. NamesFollowed
  <2> SUFFICES ASSUME NEW t \in Clients PROVE \E N \in Namings : NamesFollow(t, N)
    BY DEF NamesFollowed
  <2> DEFINE N == [k \in Nat |-> << >>]
  <2>1. N \in Namings
    BY DEF Namings
  <2>2. send[t] = << >> /\ t \notin clients /\ tab[t].lastSeq = 0
    BY DEF EditorInit, InitWith, NewTab
  <2>3. ~Has(send[t], "full_sync")
    BY <2>2 DEF Has
  <2>4. ~(tab[t].lastSeq > 0)
    BY <2>2
  <2>5. NamesFollow(t, N)
    BY <2>2, <2>3, <2>4 DEF NamesFollow
  <2> QED
    BY <2>1, <2>5
<1> QED
  BY <1>1, <1>2 DEF NamesInv

\* Every step keeps both.
LEMMA NamesInvStep ==
    ASSUME Working, NamesInv, [EditorNext]_allVars
    PROVE  NamesInv'
<1>1. TabsInv /\ NamesFollowed
  BY DEF NamesInv
<1>2. TabsInv'
  BY <1>1, TabsInvStep
<1>3. RoomKnown /\ Orderly /\ Followed /\ RoomKnown'
  BY <1>1, <1>2 DEF TabsInv
<1>4. NamesFollowed'
  BY <1>1, <1>3, NamesFollowedStep
<1> QED
  BY <1>2, <1>4 DEF NamesInv

\* A tab that has all that is on its way, and the room's number, bears the names of
\* the document.
LEMMA NamesInvSettled == ASSUME NamesInv PROVE SettledSameNames
<1> SUFFICES ASSUME NEW t \in Clients, Settled(t), strayed[t] = {},
                    NEW i \in DOMAIN tab[t].shadow, tab[t].shadow[i].clock >= 0
             PROVE  tab[t].shadow[i] = GetVisibleNodeIDs(doc)[i]
  BY DEF SettledSameNames
<1>1. RoomKnown /\ NamesFollowed
  BY DEF NamesInv, TabsInv
<1>2. PICK N \in Namings : NamesFollow(t, N)
  BY <1>1 DEF NamesFollowed
<1>3. /\ t \in clients /\ up[t] = << >> /\ Unlocked /\ tab[t].lastSeq = seqNum
      /\ ~Has(send[t], "full_sync") /\ ~Has(send[t], "replay_sync")
      /\ \A j \in DOMAIN send[t] : ~IsOp(send[t][j])
  BY DEF Settled, Has, IsOp
<1>4. OwnOps(t) = {} /\ Todo(t) = << >>
  BY <1>3 DEF OwnOps, Ops, Todo, Unlocked, NoTask
<1>5. live
  BY <1>1, <1>3 DEF RoomKnown, EditorInv, RoomInv, Occupied
<1>6. DocumentNumber = seqNum
  BY <1>5 DEF DocumentNumber
<1>7. /\ NamesRecord(N, Past(t), tab[t].lastSeq, DocumentNumber, Ids)
      /\ NamesTracked(N, tab[t], DocumentNumber, {}, << >>, << >>)
  BY <1>2, <1>3, <1>4 DEF NamesFollow, NamesShown
<1>8. DocumentNumber \in Nat /\ tab[t].lastSeq \in Nat
  BY <1>1, PastKnown
<1>9. Bears(tab[t].shadow, tab[t].count, N[tab[t].lastSeq])
  BY <1>7, <1>8, NamesQuiet
<1>10. N[DocumentNumber] = Ids
  BY <1>7 DEF NamesRecord
<1> QED
  BY <1>3, <1>6, <1>9, <1>10 DEF Bears, Ids

\* As long as the database works, a tab that has the room's number, and for which
\* nothing is on its way, knows every character by the identifier that the room gave
\* it, or by one that no room knows, unless one of the things happened to it that the
\* model lists: the shadow document of app.js stays aligned with the room's through
\* typing, batches, acknowledgements, the operations of others, replays and full texts.
THEOREM SettledAlwaysSameNames ==
    ASSUME Working
    PROVE  EditorSpec => []SettledSameNames
<1>1. EditorInit => NamesInv
  BY NamesInvInit
<1>2. NamesInv /\ [EditorNext]_allVars => NamesInv'
  BY NamesInvStep
<1>3. NamesInv => SettledSameNames
  BY NamesInvSettled
<1> QED
  BY <1>1, <1>2, <1>3, PTL DEF EditorSpec
=============================================================================
