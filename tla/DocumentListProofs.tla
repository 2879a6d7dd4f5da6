------------------------- MODULE DocumentListProofs -------------------------
(***************************************************************************)
(* The linked list of document.go keeps its pointers in order, whatever    *)
(* operations reach it in whatever order, at any number of sites; it does  *)
(* to its nodes what the operators of Document do to a sequence; and sites *)
(* that received the same operations hold the same list.                   *)
(***************************************************************************)
EXTENDS DocumentList, DocumentProofs

-----------------------------------------------------------------------------
(***************************************************************************)
(* One list.                                                               *)
(***************************************************************************)

\* The nodes of a Map.
Nodes(list) == DOMAIN list \subseteq OpID /\ \A id \in DOMAIN list : list[id] \in ListNode

\* after is list with node n linked in behind c.
LinkedIn(after, list, c, n) ==
    LET next == list[c].Next
    IN  /\ DOMAIN after = DOMAIN list \cup {n}
        /\ after[n] = [IsDeleted |-> FALSE, Next |-> next, Prev |-> c]
        /\ \A id \in DOMAIN list :
            /\ after[id] \in ListNode
            /\ after[id].Next = IF id = c THEN n ELSE list[id].Next
            /\ after[id].Prev = IF id = next THEN n ELSE list[id].Prev
            /\ after[id].IsDeleted = list[id].IsDeleted

LEMMA LinkedInAgrees ==
    ASSUME NEW list, NEW end, Nodes(list), Agree(list, end),
           NEW c \in DOMAIN list, NEW n \in OpID, n \notin DOMAIN list, n # Nil,
           NEW after, LinkedIn(after, list, c, n)
    PROVE  Nodes(after) /\ Agree(after, IF list[c].Next = Nil THEN n ELSE end)
<1> DEFINE next == list[c].Next
           last == IF next = Nil THEN n ELSE end
<1>1. /\ DOMAIN after = DOMAIN list \cup {n}
      /\ after[n] = [IsDeleted |-> FALSE, Next |-> next, Prev |-> c]
      /\ after[n].Next = next /\ after[n].Prev = c
      /\ \A id \in DOMAIN list :
            /\ after[id] \in ListNode
            /\ after[id].Next = IF id = c THEN n ELSE list[id].Next
            /\ after[id].Prev = IF id = next THEN n ELSE list[id].Prev
  BY DEF LinkedIn
<1>2. /\ RootID \in DOMAIN list /\ end \in DOMAIN list /\ Nil \notin DOMAIN list
      /\ \A id \in DOMAIN list :
            /\ IF id = end THEN list[id].Next = Nil
               ELSE list[id].Next \in DOMAIN list /\ list[list[id].Next].Prev = id
            /\ IF id = RootID THEN list[id].Prev = Nil
               ELSE list[id].Prev \in DOMAIN list /\ list[list[id].Prev].Next = id
  BY DEF Agree
<1>3. next \in OpID /\ c \in OpID
  BY DEF Nodes, ListNode
<1>4. Nodes(after)
  <2>1. after[n] \in ListNode
    BY <1>1, <1>3 DEF ListNode
  <2> QED BY <1>1, <2>1 DEF Nodes
\* The end of the list is c exactly if nothing follows it.
<1>5. next = Nil <=> c = end
  BY <1>2
<1>6. next # Nil => next \in DOMAIN list /\ next # RootID /\ list[next].Prev = c
  <2> SUFFICES ASSUME next # Nil PROVE next \in DOMAIN list /\ next # RootID /\ list[next].Prev = c
    OBVIOUS
  <2>1. next \in DOMAIN list /\ list[next].Prev = c
    BY <1>2, <1>5
  <2> QED BY <1>2, <2>1
<1> HIDE DEF next
<1>7. RootID \in DOMAIN after /\ last \in DOMAIN after /\ Nil \notin DOMAIN after
  BY <1>1, <1>2
\* What follows a node knows it.
<1>8. ASSUME NEW id \in DOMAIN after
      PROVE  IF id = last THEN after[id].Next = Nil
             ELSE after[id].Next \in DOMAIN after /\ after[after[id].Next].Prev = id
  <2>1. CASE id = n
    BY <1>1, <1>5, <1>6, <1>2, <2>1
  <2>2. CASE id = c
    BY <1>1, <1>2, <1>5, <2>2
  <2>3. CASE id \in DOMAIN list /\ id # c
    <3>1. id # n /\ after[id].Next = list[id].Next
      BY <1>1, <2>3
    <3>2. CASE id = end
      BY <1>2, <1>5, <2>3, <3>1, <3>2
    <3>3. CASE id # end
      <4>1. list[id].Next \in DOMAIN list /\ list[list[id].Next].Prev = id
        BY <1>2, <2>3, <3>3
      <4>2. list[id].Next # next
        BY <1>2, <1>6, <2>3, <4>1
      <4>3. id # last
        BY <3>1, <3>3
      <4> QED BY <1>1, <3>1, <4>1, <4>2, <4>3
    <3> QED BY <3>2, <3>3
  <2> QED BY <1>1, <2>1, <2>2, <2>3
\* And so does what is before it.
<1>9. ASSUME NEW id \in DOMAIN after
      PROVE  IF id = RootID THEN after[id].Prev = Nil
             ELSE after[id].Prev \in DOMAIN after /\ after[after[id].Prev].Next = id
  <2>1. CASE id = n
    BY <1>1, <1>2, <2>1
  <2>2. CASE id \in DOMAIN list /\ id = next
    BY <1>1, <1>2, <1>6, <2>2
  <2>3. CASE id \in DOMAIN list /\ id # next
    <3>1. after[id].Prev = list[id].Prev
      BY <1>1, <2>3
    <3>2. CASE id = RootID
      BY <1>2, <2>3, <3>1, <3>2
    <3>3. CASE id # RootID
      <4>1. list[id].Prev \in DOMAIN list /\ list[list[id].Prev].Next = id
        BY <1>2, <2>3, <3>3
      <4>2. list[id].Prev # c
        BY <2>3, <4>1 DEF next
      <4> QED BY <1>1, <3>1, <3>3, <4>1, <4>2
    <3> QED BY <3>2, <3>3
  <2> QED BY <1>1, <2>1, <2>2, <2>3
<1> QED BY <1>4, <1>7, <1>8, <1>9 DEF Agree, next

\* The splice links a node in.
LEMMA SpliceLinksIn ==
    ASSUME NEW list, Nodes(list), NEW c \in DOMAIN list, NEW n \in OpID, n \notin DOMAIN list,
           list[c].Next \in DOMAIN list \cup {Nil}
    PROVE  LET next == list[c].Next
               new == [IsDeleted |-> FALSE, Next |-> next, Prev |-> c]
               relinked == [list EXCEPT ![c].Next = n]
           IN  /\ next \in DOMAIN list
                    => LinkedIn(Registered(Backlinked(relinked, next, n), n, new), list, c, n)
               /\ next \notin DOMAIN list
                    => LinkedIn(Registered(relinked, n, new), list, c, n)
<1> DEFINE next == list[c].Next
           new == [IsDeleted |-> FALSE, Next |-> next, Prev |-> c]
           relinked == [list EXCEPT ![c].Next = n]
           both == [relinked EXCEPT ![next].Prev = n]
<1>1. \A id \in DOMAIN list : list[id] \in ListNode
  BY DEF Nodes
<1>2. /\ DOMAIN relinked = DOMAIN list
      /\ \A id \in DOMAIN list :
            /\ relinked[id] \in ListNode
            /\ relinked[id].Next = IF id = c THEN n ELSE list[id].Next
            /\ relinked[id].Prev = list[id].Prev
            /\ relinked[id].IsDeleted = list[id].IsDeleted
  BY <1>1 DEF ListNode
<1>3. ASSUME next \in DOMAIN list
      PROVE  LinkedIn(Registered(both, n, new), list, c, n)
  <2> HIDE DEF relinked, next
  <2>1. /\ DOMAIN both = DOMAIN list
        /\ \A id \in DOMAIN list :
              /\ both[id] \in ListNode
              /\ both[id].Next = relinked[id].Next
              /\ both[id].Prev = IF id = next THEN n ELSE relinked[id].Prev
              /\ both[id].IsDeleted = relinked[id].IsDeleted
    BY <1>2, <1>3 DEF ListNode
  <2> HIDE DEF both
  <2> QED BY <1>2, <2>1 DEF LinkedIn, Registered, next
<1>4. ASSUME next \notin DOMAIN list
      PROVE  LinkedIn(Registered(relinked, n, new), list, c, n)
  <2> HIDE DEF relinked
  <2> QED BY <1>2, <1>4 DEF LinkedIn, Registered
<1> QED BY <1>3, <1>4 DEF Backlinked

-----------------------------------------------------------------------------
(***************************************************************************)
(* The list from its root on.                                              *)
(***************************************************************************)

\* The Next pointers lead from the root through the nodes of q, which are those of the
\* list, to end, and the Prev pointers back.
Order(q, list, end) ==
    /\ q \in Seq(OpID) /\ Len(q) \in Nat \ {0}
    /\ q[1] = RootID /\ q[Len(q)] = end
    /\ \A i \in 1 .. Len(q) : q[i] \in DOMAIN list
    /\ \A id \in DOMAIN list : \E i \in 1 .. Len(q) : q[i] = id
    /\ \A i, j \in 1 .. Len(q) : q[i] = q[j] => i = j
    /\ Nil \notin DOMAIN list
    /\ IsFiniteSet(DOMAIN list) /\ Cardinality(DOMAIN list) = Len(q)
    /\ \A i \in 1 .. Len(q) :
        /\ list[q[i]].Next = IF i = Len(q) THEN Nil ELSE q[i + 1]
        /\ list[q[i]].Prev = IF i = 1 THEN Nil ELSE q[i - 1]

\* q with n behind its place c.
Behind(q, c, n) ==
    [i \in 1 .. Len(q) + 1 |-> IF i <= c THEN q[i] ELSE IF i = c + 1 THEN n ELSE q[i - 1]]

LEMMA BehindType ==
    ASSUME NEW q \in Seq(OpID), NEW c \in 1 .. Len(q), NEW n \in OpID
    PROVE  /\ Behind(q, c, n) \in Seq(OpID) /\ Len(Behind(q, c, n)) = Len(q) + 1
           /\ \A i \in 1 .. c : Behind(q, c, n)[i] = q[i]
           /\ Behind(q, c, n)[c + 1] = n
           /\ \A i \in c + 1 .. Len(q) : Behind(q, c, n)[i + 1] = q[i]
<1>1. Behind(q, c, n) \in [1 .. Len(q) + 1 -> OpID]
  BY DEF Behind
<1>2. Behind(q, c, n) \in Seq(OpID) /\ Len(Behind(q, c, n)) = Len(q) + 1
  BY <1>1
<1>3. \A i \in c + 1 .. Len(q) : i + 1 \in 1 .. Len(q) + 1 /\ ~(i + 1 <= c) /\ i + 1 # c + 1
                                  /\ (i + 1) - 1 = i
  OBVIOUS
<1> QED BY <1>2, <1>3 DEF Behind

\* The splice puts the new node into the order behind the cursor.
LEMMA OrderGrows ==
    ASSUME NEW list, NEW end, NEW q, Order(q, list, end),
           NEW c \in 1 .. Len(q), NEW n \in OpID, n \notin DOMAIN list, n # Nil,
           NEW after, LinkedIn(after, list, q[c], n)
    PROVE  Order(Behind(q, c, n), after, IF list[q[c]].Next = Nil THEN n ELSE end)
<1> DEFINE r == Behind(q, c, n)
           next == list[q[c]].Next
           k == Len(q)
<1>1. /\ q \in Seq(OpID) /\ k \in Nat \ {0} /\ q[1] = RootID /\ q[k] = end
      /\ \A i \in 1 .. k : q[i] \in DOMAIN list
      /\ \A id \in DOMAIN list : \E i \in 1 .. k : q[i] = id
      /\ \A i, j \in 1 .. k : q[i] = q[j] => i = j
      /\ Nil \notin DOMAIN list
      /\ IsFiniteSet(DOMAIN list) /\ Cardinality(DOMAIN list) = k
  BY DEF Order
<1>0. \A i, j \in 1 .. k : i # j => q[i] # q[j]
  BY <1>1
<1>2. \A i \in 1 .. k : /\ list[q[i]].Next = IF i = k THEN Nil ELSE q[i + 1]
                        /\ list[q[i]].Prev = IF i = 1 THEN Nil ELSE q[i - 1]
  BY DEF Order
<1>3. /\ DOMAIN after = DOMAIN list \cup {n}
      /\ after[n].Next = next /\ after[n].Prev = q[c]
      /\ \A id \in DOMAIN list :
            /\ after[id].Next = IF id = q[c] THEN n ELSE list[id].Next
            /\ after[id].Prev = IF id = next THEN n ELSE list[id].Prev
  BY DEF LinkedIn
<1>4. next = IF c = k THEN Nil ELSE q[c + 1]
  BY <1>2
<1>5. /\ r \in Seq(OpID) /\ Len(r) = k + 1
      /\ \A i \in 1 .. c : r[i] = q[i]
      /\ r[c + 1] = n
      /\ \A i \in c + 1 .. k : r[i + 1] = q[i]
  <2>1. q \in Seq(OpID)
    BY <1>1
  <2> HIDE DEF r
  <2> QED BY <2>1, BehindType DEF r
<1> HIDE DEF r, next, k
<1>6. c \in 1 .. k /\ c \in Nat
  BY <1>1 DEF k
\* A place of r is one of q up to c, the new one, or one of q after c.
<1>7. ASSUME NEW i \in 1 .. k + 1
      PROVE  \/ i \in 1 .. c /\ i \in 1 .. k /\ r[i] = q[i]
             \/ i = c + 1 /\ r[i] = n
             \/ i - 1 \in c + 1 .. k /\ i - 1 \in 1 .. k /\ r[i] = q[i - 1]
  <2>1. CASE i <= c
    <3>1. i \in 1 .. c /\ i \in 1 .. k
      BY <1>1, <1>6, <2>1
    <3> QED BY <1>5, <3>1
  <2>2. CASE i = c + 1
    BY <1>5, <2>2
  <2>3. CASE i > c + 1
    <3>1. i - 1 \in c + 1 .. k /\ (i - 1) + 1 = i /\ i - 1 \in 1 .. k
      BY <1>1, <1>6, <2>3
    <3>2. r[(i - 1) + 1] = q[i - 1]
      BY <1>5, <3>1
    <3> QED BY <3>1, <3>2
  <2> QED BY <1>1, <1>6, <2>1, <2>2, <2>3
<1>8. r[1] = RootID /\ r[k + 1] = IF next = Nil THEN n ELSE end
  <2>1. r[1] = RootID
    <3>1. 1 \in 1 .. c
      BY <1>6
    <3>2. r[1] = q[1]
      BY <1>5, <3>1
    <3> QED BY <1>1, <3>2
  <2>2. CASE c = k
    BY <1>4, <1>5, <2>1, <2>2
  <2>3. CASE c < k
    <3>1. c + 1 \in 1 .. k /\ k \in c + 1 .. k
      BY <1>1, <1>6, <2>3
    <3>2. next \in DOMAIN list /\ r[k + 1] = q[k]
      BY <1>1, <1>4, <1>5, <2>3, <3>1
    <3> QED BY <1>1, <2>1, <3>2
  <2> QED BY <1>1, <1>6, <2>1, <2>2, <2>3
<1>9. /\ \A i \in 1 .. k + 1 : r[i] \in DOMAIN after
      /\ Nil \notin DOMAIN after
  <2>1. ASSUME NEW i \in 1 .. k + 1 PROVE r[i] \in DOMAIN after
    <3>1. r[i] = n \/ \E m \in 1 .. k : r[i] = q[m]
      BY <1>7
    <3>2. \A m \in 1 .. k : q[m] \in DOMAIN list
      BY <1>1
    <3> QED BY <1>3, <3>1, <3>2
  <2>2. Nil \notin DOMAIN after
    BY <1>1, <1>3
  <2> QED BY <2>1, <2>2
<1>10. ASSUME NEW id \in DOMAIN after PROVE \E i \in 1 .. k + 1 : r[i] = id
  <2>1. CASE id = n
    BY <1>1, <1>5, <1>6, <2>1
  <2>2. CASE id # n
    <3>1. PICK i \in 1 .. k : q[i] = id
      BY <1>1, <1>3, <2>2
    <3>2. CASE i <= c
      BY SMTT(30), <1>1, <1>5, <1>6, <3>1, <3>2
    <3>3. CASE i > c
      <4>1. i \in c + 1 .. k /\ i + 1 \in 1 .. k + 1
        BY <1>1, <1>6, <3>3
      <4> QED BY <1>5, <3>1, <4>1
    <3> QED BY <1>1, <1>6, <3>2, <3>3
  <2> QED BY <2>1, <2>2
<1>11. ASSUME NEW i \in 1 .. k + 1, NEW j \in 1 .. k + 1, r[i] = r[j]
       PROVE  i = j
  <2>1. \A m \in 1 .. k : q[m] # n
    BY <1>1
  <2>2. r[i] = n => i = c + 1 /\ j = c + 1
    BY <1>7, <1>11, <2>1
  <2>3. ASSUME NEW p \in 1 .. k + 1, r[p] # n
        PROVE  \E m \in 1 .. k : r[p] = q[m] /\ p = IF m <= c THEN m ELSE m + 1
    <3>1. CASE p \in 1 .. c /\ p \in 1 .. k /\ r[p] = q[p]
      BY <3>1
    <3>2. CASE p - 1 \in c + 1 .. k /\ p - 1 \in 1 .. k /\ r[p] = q[p - 1]
      <4>1. ~(p - 1 <= c) /\ p = (p - 1) + 1
        BY <1>6, <3>2
      <4> QED BY <3>2, <4>1
    <3> QED BY <1>7, <2>3, <3>1, <3>2
  <2>4. CASE r[i] = n
    BY <1>11, <2>2, <2>4
  <2>5. CASE r[i] # n
    <3>1. PICK m \in 1 .. k : r[i] = q[m] /\ i = IF m <= c THEN m ELSE m + 1
      BY <2>3, <2>5
    <3>2. PICK l \in 1 .. k : r[j] = q[l] /\ j = IF l <= c THEN l ELSE l + 1
      BY <1>11, <2>3, <2>5
    <3>3. m = l
      BY <1>0, <1>11, <3>1, <3>2
    <3> QED BY <3>1, <3>2, <3>3
  <2> QED BY <2>4, <2>5
<1>12. IsFiniteSet(DOMAIN after) /\ Cardinality(DOMAIN after) = k + 1
  <2>1. Cardinality(DOMAIN list \cup {n}) = k + 1 /\ IsFiniteSet(DOMAIN list \cup {n})
    BY <1>1, FS_AddElement
  <2> QED BY <1>3, <2>1
<1>13. ASSUME NEW i \in 1 .. k + 1
       PROVE  /\ after[r[i]].Next = IF i = k + 1 THEN Nil ELSE r[i + 1]
              /\ after[r[i]].Prev = IF i = 1 THEN Nil ELSE r[i - 1]
  <2>1. CASE i \in 1 .. c /\ i \in 1 .. k /\ r[i] = q[i]
    <3>1. q[i] \in DOMAIN list /\ q[i] # next /\ i # k + 1
      BY SMTT(30), <1>1, <1>4, <1>6, <2>1
    <3>2. after[r[i]].Prev = IF i = 1 THEN Nil ELSE r[i - 1]
      <4>1. i # 1 => i - 1 \in 1 .. c
        BY <2>1
      <4> QED BY <1>2, <1>3, <1>5, <2>1, <3>1, <4>1
    <3>3. after[r[i]].Next = r[i + 1]
      <4>1. CASE i = c
        BY <1>3, <1>5, <2>1, <3>1, <4>1
      <4>2. CASE i < c
        <5>1. i + 1 \in 1 .. c /\ i # k
          BY <1>1, <1>6, <2>1, <4>2
        <5>2. q[i] # q[c]
          BY <1>0, <1>6, <2>1, <4>2
        <5> QED BY <1>2, <1>3, <1>5, <2>1, <3>1, <5>1, <5>2
      <4> QED BY <1>6, <2>1, <4>1, <4>2
    <3> QED BY <3>1, <3>2, <3>3
  <2>2. CASE i = c + 1 /\ r[i] = n
    <3>1. after[r[i]].Prev = r[i - 1] /\ i # 1
      BY <1>3, <1>5, <1>6, <2>2
    <3>2. CASE c = k
      BY <1>3, <1>4, <2>2, <3>1, <3>2
    <3>3. CASE c < k
      <4>1. c + 1 \in c + 1 .. k /\ i + 1 = (c + 1) + 1 /\ i # k + 1
        BY SMTT(30), <1>1, <1>6, <2>2, <3>3
      <4>2. r[i + 1] = q[c + 1]
        BY <1>5, <4>1
      <4> QED BY <1>3, <1>4, <2>2, <3>1, <3>3, <4>1, <4>2
    <3> QED BY <1>1, <1>6, <3>2, <3>3
  <2>3. CASE i - 1 \in c + 1 .. k /\ i - 1 \in 1 .. k /\ r[i] = q[i - 1]
    <3> DEFINE m == i - 1
    <3>1. m \in c + 1 .. k /\ m \in 1 .. k /\ r[i] = q[m] /\ i = m + 1 /\ i # 1
          /\ m - 1 \in 1 .. k /\ m # 1
      <4>1. k \in Nat /\ c >= 1 /\ c \in Nat /\ i \in Int
        BY <1>1, <1>6
      <4> QED BY <2>3, <4>1
    <3> HIDE DEF m
    <3>2. q[m] \in DOMAIN list /\ q[m] # q[c]
      BY <1>1, <1>6, <3>1
    <3>3. after[r[i]].Next = IF m = k THEN Nil ELSE q[m + 1]
      BY <1>2, <1>3, <3>1, <3>2
    <3>4. m # k => r[i + 1] = q[m + 1]
      <4>1. m # k => m + 1 \in c + 1 .. k /\ (m + 1) + 1 = i + 1
        BY <1>1, <3>1
      <4> QED BY <1>5, <4>1
    <3>5. CASE m = c + 1
      <4>1. q[m] = next
        BY <1>1, <1>4, <1>6, <3>1, <3>5
      <4>2. after[r[i]].Prev = n
        BY <1>3, <3>1, <3>2, <4>1
      <4>3. i - 1 = c + 1 /\ i # 1 /\ (i = k + 1 <=> m = k)
        BY <1>1, <3>1, <3>5
      <4> QED BY <1>5, <3>3, <3>4, <4>2, <4>3
    <3>6. CASE m > c + 1
      <4>1. q[m] # next
        <5>1. c # k => c + 1 \in 1 .. k /\ c + 1 # m
          BY <1>1, <1>6, <3>6
        <5> QED BY <1>0, <1>1, <1>4, <3>1, <3>2, <5>1
      <4>2. after[r[i]].Prev = q[m - 1]
        BY <1>2, <1>3, <3>1, <3>2, <4>1
      <4>3. m - 1 \in c + 1 .. k /\ (m - 1) + 1 = i - 1
        BY <1>6, <3>1, <3>6
      <4>4. r[i - 1] = q[m - 1]
        BY <1>5, <4>3
      <4>5. i # 1 /\ (i = k + 1 <=> m = k)
        BY <1>1, <3>1
      <4> QED BY <3>3, <3>4, <4>2, <4>4, <4>5
    <3> QED BY <1>6, <3>1, <3>5, <3>6
  <2> QED BY <1>7, <2>1, <2>2, <2>3
<1>14. Len(r) \in Nat \ {0}
  BY <1>1, <1>5
<1> QED BY <1>5, <1>8, <1>9, <1>10, <1>11, <1>12, <1>13, <1>14 DEF Order, r, next

\* Walk is the order without the root: an induction over its places.
LEMMA WalkIsOrder ==
    ASSUME NEW list, NEW end, NEW q, Order(q, list, end)
    PROVE  Walk(list) = [i \in 1 .. Len(q) - 1 |-> q[i + 1]]
<1> DEFINE n == Cardinality(DOMAIN list) - 1
           Step(g) == [i \in 0 .. n |->
                         IF i = 0 THEN RootID
                         ELSE IF g[i - 1] = Nil THEN Nil ELSE list[g[i - 1]].Next]
           path == CHOOSE g : g = Step(g)
           f == [i \in 0 .. n |-> q[i + 1]]
<1>1. n = Len(q) - 1 /\ n \in Nat /\ q[1] = RootID
  BY DEF Order
<1>2. \A i \in 1 .. n : q[i] # Nil /\ list[q[i]].Next = q[i + 1]
  BY <1>1 DEF Order
<1>3. f = Step(f)
  <2>1. ASSUME NEW i \in 0 .. n PROVE f[i] = Step(f)[i]
    <3>1. CASE i = 0
      BY <1>1, <3>1
    <3>2. CASE i # 0
      <4>1. i \in 1 .. n /\ i - 1 \in 0 .. n /\ (i - 1) + 1 = i
        BY <1>1, <3>2
      <4>2. f[i - 1] = q[i]
        BY <4>1
      <4> QED BY <1>2, <3>2, <4>1, <4>2
    <3> QED BY <3>1, <3>2
  <2> QED BY <2>1
<1>4. path = Step(path)
  <2> HIDE DEF Step, f
  <2> QED BY <1>3
<1>5. Walk(list) = [i \in 1 .. n |-> path[i]]
  BY DEF Walk
<1> DEFINE Right == {i \in 0 .. n : path[i] = q[i + 1]}
<1>6. 0 \in Right
  <2> HIDE DEF path
  <2> QED BY <1>1, <1>4
<1>7. ASSUME NEW i \in 0 .. n - 1, i \in Right PROVE i + 1 \in Right
  <2> HIDE DEF path
  <2>1. i + 1 \in 1 .. n /\ i + 1 \in 0 .. n /\ i + 1 # 0 /\ (i + 1) - 1 = i
    BY <1>1
  <2>2. path[i + 1] = IF path[i] = Nil THEN Nil ELSE list[path[i]].Next
    BY <1>4, <2>1
  <2>3. path[i] = q[i + 1]
    BY <1>7
  <2>4. q[i + 1] # Nil /\ list[q[i + 1]].Next = q[(i + 1) + 1]
    BY <1>2, <2>1
  <2> QED BY <2>1, <2>2, <2>3, <2>4
<1>8. 0 .. n \subseteq Right
  <2> HIDE DEF Right, n
  <2> QED BY <1>1, <1>6, <1>7, UpTo
<1>9. \A i \in 1 .. n : path[i] = q[i + 1]
  BY <1>1, <1>8
<1> HIDE DEF path, n
<1> QED BY <1>1, <1>5, <1>9

-----------------------------------------------------------------------------
(***************************************************************************)
(* What the loop of Insert makes of the order: there is at most one order  *)
(* that a set of insertions can have.                                      *)
(***************************************************************************)

LEMMA PriorityIsTotal ==
    ASSUME NEW a \in OpID, NEW b \in OpID
    PROVE  /\ a # b => isHigherPriority(a, b) \/ isHigherPriority(b, a)
           /\ ~(isHigherPriority(a, b) /\ isHigherPriority(b, a))
BY DEF isHigherPriority, OpID

LEMMA PriorityIsTransitive ==
    ASSUME NEW a \in OpID, NEW b \in OpID, NEW c \in OpID,
           isHigherPriority(a, b), isHigherPriority(b, c)
    PROVE  isHigherPriority(a, c)
BY DEF isHigherPriority, OpID

\* The nodes of q from behind place a to place c are the ones that a node id
\* would walk over.
WalkedOver(q, a, c, id) == \A i \in a + 1 .. c : isHigherPriority(q[i], id)

\* Every inserted node stands behind its anchor, with nothing between that it
\* would not have walked over.
Placed(q, ops) ==
    \A op \in ops : \A j \in 1 .. Len(q) : q[j] = op.id =>
        \E a \in 1 .. j - 1 : q[a] = op.anchorID /\ WalkedOver(q, a, j - 1, op.id)

\* Nodes come from insertions, each with a clock above its anchor's.
Inserted(q, ops) ==
    /\ \A op \in ops : op.anchorID.clock < op.id.clock
    /\ \A i \in 1 .. Len(q) : q[i].clock \in Nat
    /\ \A i \in 2 .. Len(q) : \E op \in ops : op.id = q[i]

Before(q, x, y) == \E i, j \in 1 .. Len(q) : i < j /\ q[i] = x /\ q[j] = y

OneEach(q) == \A i, j \in 1 .. Len(q) : q[i] = q[j] => i = j

\* Two nodes that are the other way round in another order, the first of them of higher
\* priority: then so are its anchor and the second.
LEMMA EarlierCrossing ==
    ASSUME NEW ops, NEW q \in Seq(OpID), NEW r \in Seq(OpID),
           OneEach(q), OneEach(r), Placed(q, ops), Placed(r, ops), Inserted(q, ops),
           q[1] = RootID, r[1] = RootID, Len(r) \in Nat \ {0}, Len(q) \in Nat \ {0},
           NEW x \in OpID, NEW y \in OpID, Before(q, x, y), Before(r, y, x),
           isHigherPriority(x, y)
    PROVE  \E z \in OpID : Before(q, z, y) /\ Before(r, y, z) /\ z.clock < x.clock
<1>1. PICK i \in 1 .. Len(q), j \in 1 .. Len(q) : i < j /\ q[i] = x /\ q[j] = y
  BY DEF Before
<1>2. PICK k \in 1 .. Len(r), l \in 1 .. Len(r) : k < l /\ r[k] = y /\ r[l] = x
  BY DEF Before
<1>3. i # 1
  <2>1. x # RootID
    BY <1>2 DEF OneEach
  <2> QED BY <1>1, <2>1
<1>4. PICK op \in ops : op.id = x
  BY <1>1, <1>3 DEF Inserted
<1>5. PICK a \in 1 .. i - 1 : q[a] = op.anchorID
  BY <1>1, <1>4 DEF Placed
<1>6. PICK b \in 1 .. l - 1 : r[b] = op.anchorID /\ WalkedOver(r, b, l - 1, x)
  BY <1>2, <1>4 DEF Placed
<1>7. ~(k \in b + 1 .. l - 1)
  <2>1. ~isHigherPriority(r[k], x)
    BY <1>2, PriorityIsTotal
  <2> QED BY <1>6, <2>1 DEF WalkedOver
<1>8. k # b
  <2>1. a \in 1 .. Len(q) /\ a # j
    BY <1>1, <1>5
  <2> QED BY <1>1, <1>2, <1>5, <1>6, <2>1 DEF OneEach
<1>9. k < b /\ b \in 1 .. Len(r)
  BY <1>2, <1>6, <1>7, <1>8
<1>10. a \in 1 .. Len(q) /\ a < j /\ op.anchorID \in OpID
  BY <1>1, <1>5
<1>11. Before(q, op.anchorID, y)
  BY <1>1, <1>5, <1>10 DEF Before
<1>12. Before(r, y, op.anchorID)
  BY <1>2, <1>6, <1>9 DEF Before
<1> QED BY <1>4, <1>10, <1>11, <1>12 DEF Inserted

\* No two nodes are the other way round: of all that are, take those with the least
\* sum of clocks.
LEMMA NoCrossing ==
    ASSUME NEW ops, NEW q \in Seq(OpID), NEW r \in Seq(OpID),
           OneEach(q), OneEach(r), Placed(q, ops), Placed(r, ops),
           Inserted(q, ops), Inserted(r, ops),
           q[1] = RootID, r[1] = RootID, Len(r) \in Nat \ {0}, Len(q) \in Nat \ {0},
           NEW x \in OpID, NEW y \in OpID
    PROVE  ~(Before(q, x, y) /\ Before(r, y, x))
<1> DEFINE Crossing(v, w) == Before(q, v, w) /\ Before(r, w, v)
           Sums == {n \in Nat : \E v, w \in OpID : Crossing(v, w) /\ n = v.clock + w.clock}
<1>1. ASSUME NEW v \in OpID, NEW w \in OpID, Crossing(v, w)
      PROVE  v.clock \in Nat /\ w.clock \in Nat /\ v # w
  BY <1>1 DEF Before, Inserted, OneEach
<1>2. ASSUME NEW v \in OpID, NEW w \in OpID, Crossing(v, w)
      PROVE  \E v2, w2 \in OpID :
                Crossing(v2, w2) /\ v2.clock + w2.clock < v.clock + w.clock
  <2>1. CASE isHigherPriority(v, w)
    <3>1. PICK z \in OpID : Before(q, z, w) /\ Before(r, w, z) /\ z.clock < v.clock
      BY <1>2, <2>1, EarlierCrossing
    <3>2. Crossing(z, w)
      BY <3>1
    <3> HIDE DEF Crossing
    <3>3. z.clock \in Nat /\ w.clock \in Nat /\ v.clock \in Nat
      BY <1>1, <1>2, <3>2
    <3> QED BY <3>1, <3>2, <3>3
  <2>2. CASE isHigherPriority(w, v)
    <3>1. PICK z \in OpID : Before(r, z, v) /\ Before(q, v, z) /\ z.clock < w.clock
      BY <1>2, <2>2, EarlierCrossing
    <3>2. Crossing(v, z)
      BY <3>1
    <3> HIDE DEF Crossing
    <3>3. z.clock \in Nat /\ w.clock \in Nat /\ v.clock \in Nat
      BY <1>1, <1>2, <3>2
    <3> QED BY <3>1, <3>2, <3>3
  <2> QED BY <1>1, <1>2, <2>1, <2>2, PriorityIsTotal
<1> HIDE DEF Crossing
<1>3. Sums = {}
  <2> SUFFICES ASSUME Sums # {} PROVE FALSE
    OBVIOUS
  <2>1. Sums \subseteq Nat
    OBVIOUS
  <2>2. PICK n \in Sums : \A m \in Sums : n <= m
    <3> HIDE DEF Sums
    <3> QED BY <2>1, LeastOf
  <2>3. PICK v \in OpID, w \in OpID : Crossing(v, w) /\ n = v.clock + w.clock
    BY <2>2
  <2>4. PICK v2 \in OpID, w2 \in OpID :
            Crossing(v2, w2) /\ v2.clock + w2.clock < v.clock + w.clock
    BY <1>2, <2>3
  <2>5. v2.clock + w2.clock \in Sums /\ n \in Nat
    BY SMTT(30), <1>1, <2>4
  <2>6. v2.clock + w2.clock < n /\ v2.clock + w2.clock \in Nat
    BY <2>3, <2>4, <2>5
  <2> QED BY <2>2, <2>5, <2>6
<1>4. Crossing(x, y) => x.clock + y.clock \in Sums
  BY <1>1
<1> QED BY <1>3, <1>4 DEF Crossing

\* So the order of a set of nodes follows from the insertions.
LEMMA OneOrder ==
    ASSUME NEW ops, NEW q \in Seq(OpID), NEW r \in Seq(OpID),
           OneEach(q), OneEach(r), Placed(q, ops), Placed(r, ops),
           Inserted(q, ops), Inserted(r, ops),
           q[1] = RootID, r[1] = RootID,
           Len(q) = Len(r), Len(q) \in Nat \ {0},
           \A i \in 1 .. Len(q) : \E j \in 1 .. Len(q) : r[j] = q[i],
           \A i \in 1 .. Len(q) : \E j \in 1 .. Len(q) : q[j] = r[i]
    PROVE  q = r
<1> DEFINE Differ == {i \in 1 .. Len(q) : q[i] # r[i]}
<1>1. Differ = {}
  <2> SUFFICES ASSUME Differ # {} PROVE FALSE
    OBVIOUS
  <2>1. Differ \subseteq Nat
    OBVIOUS
  <2>2. PICK i \in Differ : \A k \in Differ : i <= k
    <3> HIDE DEF Differ
    <3> QED BY <2>1, LeastOf
  <2>3. i \in 1 .. Len(q) /\ q[i] # r[i] /\ \A k \in 1 .. i - 1 : q[k] = r[k]
    BY <2>2
  <2>4. PICK j \in 1 .. Len(q) : r[j] = q[i]
    BY <2>3
  <2>5. PICK k \in 1 .. Len(q) : q[k] = r[i]
    BY <2>3
  <2>6. i < j /\ i < k
    <3>1. ASSUME j < i PROVE FALSE
      <4>1. q[j] = q[i] /\ i # j
        BY <2>3, <2>4, <3>1
      <4> QED BY <2>3, <2>4, <4>1 DEF OneEach
    <3>2. ASSUME k < i PROVE FALSE
      <4>1. r[k] = r[i] /\ i # k
        BY <2>3, <2>5, <3>2
      <4> QED BY <2>3, <2>5, <4>1 DEF OneEach
    <3>3. j # i /\ k # i
      BY <2>3, <2>4, <2>5
    <3> QED BY <2>3, <2>4, <2>5, <3>1, <3>2, <3>3
  <2>7. Before(q, q[i], r[i])
    BY <2>3, <2>5, <2>6 DEF Before
  <2>8. Before(r, r[i], q[i])
    BY <2>3, <2>4, <2>6 DEF Before
  <2>9. q[i] \in OpID /\ r[i] \in OpID
    BY <2>3
  <2> QED BY <2>7, <2>8, <2>9, NoCrossing
<1>2. \A i \in 1 .. Len(q) : q[i] = r[i]
  BY <1>1
<1> QED BY <1>2, SeqEqual

LEMMA OrderIsWalk ==
    ASSUME NEW list, NEW end, NEW q, Order(q, list, end)
    PROVE  <<RootID>> \o Walk(list) = q
<1> DEFINE w == [i \in 1 .. Len(q) - 1 |-> q[i + 1]]
<1>1. q \in Seq(OpID) /\ Len(q) \in Nat \ {0} /\ q[1] = RootID
  BY DEF Order
<1>2. w \in [1 .. Len(q) - 1 -> OpID]
  BY <1>1
<1>3. w \in Seq(OpID) /\ Len(w) = Len(q) - 1
  BY <1>1, <1>2
<1>4. <<RootID>> \in Seq(OpID) /\ Len(<<RootID>>) = 1 /\ <<RootID>>[1] = RootID
  BY DEF RootID, OpID, RootSite
<1>5. \A i \in 1 .. Len(q) - 1 : w[i] = q[i + 1]
  OBVIOUS
<1>6. Walk(list) = w
  BY WalkIsOrder
<1> HIDE DEF w
<1>7. /\ <<RootID>> \o w \in Seq(OpID) /\ Len(<<RootID>> \o w) = Len(q)
      /\ \A i \in 1 .. Len(q) : (<<RootID>> \o w)[i] = IF i <= 1 THEN <<RootID>>[i] ELSE w[i - 1]
  BY <1>1, <1>3, <1>4, ConcatProperties
<1>8. \A i \in 1 .. Len(q) : (<<RootID>> \o w)[i] = q[i]
  <2> TAKE i \in 1 .. Len(q)
  <2>1. CASE i = 1
    BY <1>1, <1>4, <1>7, <2>1
  <2>2. CASE i # 1
    <3>1. i - 1 \in 1 .. Len(q) - 1 /\ (i - 1) + 1 = i
      BY <1>1, <2>2
    <3> QED BY <1>5, <1>7, <2>2, <3>1
  <2> QED BY <2>1, <2>2
<1> QED BY <1>1, <1>6, <1>7, <1>8, SeqEqual

\* The splice leaves every node behind its anchor: those that come to stand behind the
\* new one would have walked over it.
LEMMA PlacedGrows ==
    ASSUME NEW ops, NEW q \in Seq(OpID), OneEach(q), Placed(q, ops),
           NEW op \in ops, op.id \in OpID, \A o \in ops : o.id = op.id => o = op,
           \A i \in 1 .. Len(q) : q[i] # op.id,
           NEW c \in 1 .. Len(q), NEW a \in 1 .. c,
           q[a] = op.anchorID, WalkedOver(q, a, c, op.id),
           c < Len(q) => ~isHigherPriority(q[c + 1], op.id)
    PROVE  Placed(Behind(q, c, op.id), ops)
<1> DEFINE r == Behind(q, c, op.id)
           n == op.id
<1>1. /\ Len(r) = Len(q) + 1 /\ Len(q) \in Nat
      /\ \A i \in 1 .. c : r[i] = q[i]
      /\ r[c + 1] = n
      /\ \A i \in c + 1 .. Len(q) : r[i + 1] = q[i]
  <2> HIDE DEF r
  <2>1. n \in OpID
    OBVIOUS
  <2> HIDE DEF n
  <2>2. /\ Len(Behind(q, c, n)) = Len(q) + 1
        /\ \A i \in 1 .. c : Behind(q, c, n)[i] = q[i]
        /\ Behind(q, c, n)[c + 1] = n
        /\ \A i \in c + 1 .. Len(q) : Behind(q, c, n)[i + 1] = q[i]
    BY SMTT(30), <2>1, BehindType
  <2>3. r = Behind(q, c, n)
    BY DEF r, n
  <2>4. Len(q) \in Nat
    OBVIOUS
  <2> QED BY <2>2, <2>3, <2>4
<1> HIDE DEF r, n
<1>2. n \in OpID /\ c \in Nat /\ a \in 1 .. c
  BY DEF n
<1> SUFFICES ASSUME NEW o \in ops, NEW j \in 1 .. Len(r), r[j] = o.id
             PROVE  \E b \in 1 .. j - 1 : r[b] = o.anchorID /\ WalkedOver(r, b, j - 1, o.id)
  BY DEF Placed, r, n
<1>3. CASE j <= c
  <2>1. j \in 1 .. c /\ j \in 1 .. Len(q) /\ q[j] = o.id
    BY <1>1, <1>2, <1>3
  <2>2. PICK b \in 1 .. j - 1 : q[b] = o.anchorID /\ WalkedOver(q, b, j - 1, o.id)
    BY <2>1 DEF Placed
  <2>3. b \in 1 .. c /\ \A i \in b + 1 .. j - 1 : i \in 1 .. c
    BY <2>1, <2>2
  <2> QED BY <1>1, <2>2, <2>3 DEF WalkedOver
<1>4. CASE j = c + 1
  <2>1. o = op
    BY <1>1, <1>4 DEF n
  <2>2. \A i \in a + 1 .. c : i \in 1 .. c
    BY <1>2
  <2>3. a \in 1 .. j - 1 /\ j - 1 = c
    BY <1>2, <1>4
  <2> QED BY <1>1, <2>1, <2>2, <2>3 DEF WalkedOver
<1>5. CASE j > c + 1
  <2> DEFINE m == j - 1
  <2>1. m \in c + 1 .. Len(q) /\ m \in 1 .. Len(q) /\ j = m + 1 /\ m > c /\ m - 1 >= c
    BY <1>1, <1>2, <1>5
  <2> HIDE DEF m
  <2>2. q[m] = o.id /\ q[m] \in OpID
    BY <1>1, <2>1
  <2>3. PICK b \in 1 .. m - 1 : q[b] = o.anchorID /\ WalkedOver(q, b, m - 1, o.id)
    BY <2>1, <2>2 DEF Placed
  <2>4. CASE b > c
    <3>1. b \in c + 1 .. Len(q) /\ b + 1 \in 1 .. j - 1 /\ r[b + 1] = q[b]
      BY <1>1, <1>2, <2>1, <2>3, <2>4
    <3>2. ASSUME NEW i \in (b + 1) + 1 .. j - 1 PROVE isHigherPriority(r[i], o.id)
      <4>1. i - 1 \in b + 1 .. m - 1 /\ i - 1 \in c + 1 .. Len(q) /\ (i - 1) + 1 = i
        BY <1>2, <2>1, <2>3, <2>4, <3>2
      <4>2. r[i] = q[i - 1]
        BY <1>1, <4>1
      <4> QED BY <2>3, <4>1, <4>2 DEF WalkedOver
    <3> QED BY <2>3, <3>1, <3>2 DEF WalkedOver
  <2>5. CASE b <= c
    <3>1. isHigherPriority(n, o.id)
      <4>1. q[c + 1] \in OpID /\ c + 1 \in 1 .. Len(q) /\ c < Len(q)
        BY <1>2, <2>1
      <4>2. isHigherPriority(n, q[c + 1])
        BY <1>2, <4>1, PriorityIsTotal DEF n
      <4>3. CASE m = c + 1
        BY <2>2, <4>2, <4>3
      <4>4. CASE m > c + 1
        <5>1. c + 1 \in b + 1 .. m - 1
          BY <1>2, <2>1, <2>3, <2>5, <4>4
        <5>2. isHigherPriority(q[c + 1], o.id)
          BY <2>3, <5>1 DEF WalkedOver
        <5> QED BY <1>2, <2>2, <4>1, <4>2, <5>2, PriorityIsTransitive
      <4> QED BY <1>2, <2>1, <4>3, <4>4
    <3>2. b \in 1 .. j - 1 /\ r[b] = q[b]
      <4>1. b \in 1 .. j - 1 /\ b \in 1 .. c
        BY <1>2, <2>1, <2>3, <2>5
      <4> QED BY <1>1, <4>1
    <3>3. ASSUME NEW i \in b + 1 .. j - 1 PROVE isHigherPriority(r[i], o.id)
      <4>1. CASE i <= c
        <5>1. i \in b + 1 .. m - 1 /\ i \in 1 .. c
          BY <1>2, <2>1, <2>3, <3>3, <4>1
        <5> QED BY <1>1, <2>3, <5>1 DEF WalkedOver
      <4>2. CASE i = c + 1
        BY <1>1, <3>1, <4>2
      <4>3. CASE i > c + 1
        <5>1. i - 1 \in b + 1 .. m - 1 /\ i - 1 \in c + 1 .. Len(q) /\ (i - 1) + 1 = i
          BY <1>2, <2>1, <2>3, <2>5, <3>3, <4>3
        <5>2. r[i] = q[i - 1]
          BY <1>1, <5>1
        <5> QED BY <2>3, <5>1, <5>2 DEF WalkedOver
      <4> QED BY <1>2, <2>3, <3>3, <4>1, <4>2, <4>3
    <3> QED BY <2>3, <3>2, <3>3 DEF WalkedOver
  <2> QED BY <1>2, <2>3, <2>4, <2>5
<1> QED BY <1>1, <1>2, <1>3, <1>4, <1>5

-----------------------------------------------------------------------------
(***************************************************************************)
(* All sites.                                                              *)
(***************************************************************************)

\* No node that travels has the identifier of a nil pointer.
Issuing == \A op \in issued : op.type = "insert" => op.id # Nil

\* A site works on an insertion that was issued.
Inserting ==
    \A s \in Sites : call[s] # NoCall => call[s].op \in issued /\ call[s].op.type = "insert"

ListInv == ListTypeOK /\ LinksAgree /\ Issuing /\ Inserting

LEMMA ListStart == ListInit => ListInv
<1> SUFFICES ASSUME ListInit PROVE ListInv
  OBVIOUS
<1>1. RootID \in OpID /\ Nil \in OpID /\ RootID # Nil
  BY DEF RootID, Nil, OpID, RootSite
<1>2. ASSUME NEW s \in Sites
      PROVE  nodes[s] = [id \in {RootID} |-> [IsDeleted |-> TRUE, Next |-> Nil, Prev |-> Nil]]
             /\ tail[s] = RootID /\ call[s] = NoCall
  BY DEF ListInit
<1>3. [IsDeleted |-> TRUE, Next |-> Nil, Prev |-> Nil] \in ListNode
  BY <1>1 DEF ListNode
<1>4. ListTypeOK
  BY <1>1, <1>2, <1>3 DEF ListInit, ListTypeOK
<1>5. LinksAgree
  BY <1>1, <1>2 DEF LinksAgree, Agree
<1> QED BY <1>2, <1>4, <1>5 DEF ListInv, Issuing, Inserting, ListInit

\* What the steps of Insert do before the splice, and what a deletion does, leaves
\* the pointers alone.
LEMMA BeginKeeps ==
    ASSUME ListInv, NEW s \in Sites, NEW op \in ListOp, BeginInsert(s, op),
           issued' = issued \cup {op}, op.id # Nil
    PROVE  ListInv'
<1>1. op.type = "insert" /\ op.id \in OpID /\ op.anchorID \in OpID
  BY DEF BeginInsert, ListOp
<1>2. UNCHANGED <<nodes, tail>> /\ applied' = [applied EXCEPT ![s] = @ \cup {op}]
  BY DEF BeginInsert
<1>3. /\ call' = [call EXCEPT ![s] = [cursor |-> op.anchorID, op |-> op]]
      /\ op.anchorID \in DOMAIN nodes[s] /\ op.id \notin DOMAIN nodes[s]
      \/ UNCHANGED call
  BY DEF BeginInsert, Refused, findNode
<1>4. call' \in [Sites -> {NoCall} \cup [cursor : OpID, op : ListOp]]
  BY <1>1, <1>3 DEF ListInv, ListTypeOK
<1>5. ASSUME NEW t \in Sites, call'[t] # NoCall
      PROVE  /\ call'[t].cursor \in DOMAIN nodes[t] /\ call'[t].op.id \notin DOMAIN nodes[t]
             /\ call'[t].op \in issued' /\ call'[t].op.type = "insert"
  <2>1. CASE call'[t] = call[t]
    BY <1>5, <2>1 DEF ListInv, ListTypeOK, Inserting
  <2>2. CASE call'[t] # call[t]
    <3>1. t = s /\ call'[t] = [cursor |-> op.anchorID, op |-> op]
      BY <1>3, <2>2 DEF ListInv, ListTypeOK
    <3> QED BY <1>1, <1>3, <2>2, <3>1
  <2> QED BY <2>1, <2>2
<1>6. issued' \subseteq ListOp /\ applied' \in [Sites -> SUBSET issued']
  BY <1>2 DEF ListInv, ListTypeOK
<1>7. ListTypeOK'
  BY <1>2, <1>4, <1>5, <1>6 DEF ListInv, ListTypeOK
<1>8. LinksAgree'
  BY <1>2 DEF ListInv, LinksAgree
<1>9. Issuing' /\ Inserting'
  BY <1>5 DEF ListInv, Issuing, Inserting
<1> QED BY <1>7, <1>8, <1>9 DEF ListInv

LEMMA DeleteKeeps ==
    ASSUME ListInv, NEW s \in Sites, NEW op \in ListOp, DeleteNode(s, op),
           issued' = issued \cup {op}
    PROVE  ListInv'
<1>1. /\ op.type = "delete" /\ UNCHANGED <<tail, call>>
      /\ applied' = [applied EXCEPT ![s] = @ \cup {op}]
  BY DEF DeleteNode
<1>2. DOMAIN nodes = Sites /\ \A t \in Sites : Nodes(nodes[t])
  BY DEF ListInv, ListTypeOK, Nodes
\* Only IsDeleted can differ.
<1>3. /\ DOMAIN nodes' = Sites
      /\ \A t \in Sites :
            /\ DOMAIN nodes'[t] = DOMAIN nodes[t]
            /\ \A id \in DOMAIN nodes[t] :
                  /\ nodes'[t][id] \in ListNode
                  /\ nodes'[t][id].Next = nodes[t][id].Next
                  /\ nodes'[t][id].Prev = nodes[t][id].Prev
  <2>1. CASE nodes' = nodes
    BY <1>2, <2>1 DEF Nodes
  <2>2. CASE op.id \in DOMAIN nodes[s] /\ nodes' = [nodes EXCEPT ![s][op.id].IsDeleted = TRUE]
    <3>1. /\ DOMAIN nodes' = Sites
          /\ nodes'[s] = [nodes[s] EXCEPT ![op.id].IsDeleted = TRUE]
          /\ \A t \in Sites \ {s} : nodes'[t] = nodes[t]
      BY <1>2, <2>2
    <3>2. \A id \in DOMAIN nodes[s] :
            /\ nodes'[s][id] \in ListNode
            /\ nodes'[s][id].Next = nodes[s][id].Next
            /\ nodes'[s][id].Prev = nodes[s][id].Prev
      <4> TAKE id \in DOMAIN nodes[s]
      <4>1. nodes[s][id] \in ListNode
        BY <1>2 DEF Nodes
      <4>2. CASE id = op.id
        <5>1. nodes'[s][id] = [nodes[s][id] EXCEPT !.IsDeleted = TRUE]
          BY <3>1, <4>2
        <5> QED BY <4>1, <5>1 DEF ListNode
      <4>3. CASE id # op.id
        <5>1. nodes'[s][id] = nodes[s][id]
          BY <3>1, <4>3
        <5> QED BY <4>1, <5>1
      <4> QED BY <4>2, <4>3
    <3> QED BY <1>2, <3>1, <3>2 DEF Nodes
  <2> QED BY <2>1, <2>2 DEF DeleteNode, findNode
<1>4. ListTypeOK'
  BY <1>1, <1>3 DEF ListInv, ListTypeOK
<1>5. LinksAgree'
  <2> SUFFICES ASSUME NEW t \in Sites PROVE Agree(nodes'[t], tail[t])
    BY <1>1 DEF LinksAgree
  <2>1. Agree(nodes[t], tail[t])
    BY DEF ListInv, LinksAgree
  <2> QED BY <1>3, <2>1 DEF Agree
<1>6. Issuing' /\ Inserting'
  BY <1>1 DEF ListInv, Issuing, Inserting
<1> QED BY <1>4, <1>5, <1>6 DEF ListInv

LEMMA AdvanceKeeps ==
    ASSUME ListInv, NEW s \in Sites, Advance(s)
    PROVE  ListInv'
<1>1. call[s] # NoCall /\ UNCHANGED <<nodes, tail, issued, applied>>
      /\ call' = [call EXCEPT ![s].cursor = nodes[s][@].Next]
      /\ nodes[s][call[s].cursor].Next # Nil
  BY DEF Advance, Passes
<1>2. /\ call[s] \in [cursor : OpID, op : ListOp] /\ call[s].cursor \in DOMAIN nodes[s]
      /\ Agree(nodes[s], tail[s]) /\ DOMAIN nodes[s] \subseteq OpID
  BY <1>1 DEF ListInv, ListTypeOK, LinksAgree
<1>3. nodes[s][call[s].cursor].Next \in DOMAIN nodes[s]
  BY <1>1, <1>2 DEF Agree
<1>4. /\ call' \in [Sites -> {NoCall} \cup [cursor : OpID, op : ListOp]]
      /\ call'[s].cursor \in DOMAIN nodes[s] /\ call'[s].op = call[s].op
      /\ \A t \in Sites \ {s} : call'[t] = call[t]
  BY <1>1, <1>2, <1>3 DEF ListInv, ListTypeOK
<1>5. ListTypeOK'
  BY <1>1, <1>4 DEF ListInv, ListTypeOK
<1>6. LinksAgree' /\ Issuing' /\ Inserting'
  BY <1>1, <1>4 DEF ListInv, LinksAgree, Issuing, Inserting
<1> QED BY <1>5, <1>6 DEF ListInv

\* What the splice does, seen from outside.
Splices(s, after) ==
    LET list == nodes[s]
        c == call[s].cursor
        n == call[s].op.id
    IN  /\ c \in DOMAIN list /\ n \in OpID /\ n \notin DOMAIN list /\ n # Nil
        /\ call[s].op \in issued /\ call[s].op.type = "insert"
        /\ LinkedIn(after, list, c, n)
        /\ nodes' = [nodes EXCEPT ![s] = after]
        /\ tail' = [tail EXCEPT ![s] = IF list[c].Next = Nil THEN n ELSE @]
        /\ call[s] # NoCall /\ call' = [call EXCEPT ![s] = NoCall]
        /\ UNCHANGED <<issued, applied>>

LEMMA SpliceDoes ==
    ASSUME ListInv, NEW s \in Sites, Splice(s)
    PROVE  \E after : Splices(s, after)
<1> DEFINE list == nodes[s]
           c == call[s].cursor
           n == call[s].op.id
           next == list[c].Next
<1>1. /\ call[s] # NoCall /\ call' = [call EXCEPT ![s] = NoCall]
      /\ UNCHANGED <<issued, applied>>
  BY DEF Splice
<1>2. /\ Nodes(list) /\ Agree(list, tail[s]) /\ DOMAIN nodes = Sites /\ tail \in [Sites -> OpID]
      /\ c \in DOMAIN list /\ n \in OpID /\ n \notin DOMAIN list /\ n # Nil
      /\ call[s].op \in issued /\ call[s].op.type = "insert"
  <2>1. call[s].op \in issued /\ call[s].op.type = "insert" /\ call[s].op \in ListOp
    BY <1>1 DEF ListInv, ListTypeOK, Inserting
  <2>2. n \in OpID /\ n # Nil
    BY <2>1 DEF ListInv, Issuing, ListOp
  <2> QED BY <1>1, <2>1, <2>2 DEF ListInv, ListTypeOK, LinksAgree, Nodes
<1>3. next \in DOMAIN list \cup {Nil} /\ Nil \notin DOMAIN list
  BY <1>2 DEF Agree
<1>4. PICK after : /\ LinkedIn(after, list, c, n) /\ nodes' = [nodes EXCEPT ![s] = after]
                   /\ tail' = [tail EXCEPT ![s] = IF next = Nil THEN n ELSE @]
  <2> DEFINE new == [IsDeleted |-> FALSE, Next |-> next, Prev |-> c]
             relinked == [list EXCEPT ![c].Next = n]
  <2>1. CASE next # Nil
    <3>1. LinkedIn(Registered(Backlinked(relinked, next, n), n, new), list, c, n)
      BY <1>2, <1>3, <2>1, SpliceLinksIn
    <3>2. nodes' = [nodes EXCEPT ![s] = Registered(Backlinked(relinked, next, n), n, new)]
          /\ UNCHANGED tail
      BY <2>1 DEF Splice
    <3>3. tail' = [tail EXCEPT ![s] = IF next = Nil THEN n ELSE @]
      BY <1>2, <2>1, <3>2
    <3> QED BY <3>1, <3>2, <3>3
  <2>2. CASE next = Nil
    <3>1. LinkedIn(Registered(relinked, n, new), list, c, n)
      BY <1>2, <1>3, <2>2, SpliceLinksIn
    <3>2. nodes' = [nodes EXCEPT ![s] = Registered(relinked, n, new)]
          /\ tail' = [tail EXCEPT ![s] = n]
      BY <2>2 DEF Splice
    <3>3. tail' = [tail EXCEPT ![s] = IF next = Nil THEN n ELSE @]
      BY <2>2, <3>2
    <3> QED BY <3>1, <3>2, <3>3
  <2> QED BY <2>1, <2>2
<1> QED BY <1>1, <1>2, <1>4 DEF Splices

LEMMA SpliceKeeps ==
    ASSUME ListInv, NEW s \in Sites, Splice(s)
    PROVE  ListInv'
<1> DEFINE list == nodes[s]
           c == call[s].cursor
           n == call[s].op.id
           next == list[c].Next
<1>1. PICK after : Splices(s, after)
  BY SpliceDoes
<1>2. /\ Nodes(list) /\ Agree(list, tail[s]) /\ DOMAIN nodes = Sites /\ tail \in [Sites -> OpID]
      /\ c \in DOMAIN list /\ n \in OpID /\ n \notin DOMAIN list /\ n # Nil
      /\ call[s] # NoCall /\ call' = [call EXCEPT ![s] = NoCall]
      /\ UNCHANGED <<issued, applied>>
  BY <1>1 DEF Splices, ListInv, ListTypeOK, LinksAgree, Nodes
<1>4. /\ LinkedIn(after, list, c, n) /\ nodes' = [nodes EXCEPT ![s] = after]
      /\ tail' = [tail EXCEPT ![s] = IF next = Nil THEN n ELSE @]
  BY <1>1 DEF Splices
<1>5. Nodes(after) /\ Agree(after, IF next = Nil THEN n ELSE tail[s])
  BY <1>2, <1>4, LinkedInAgrees
<1> HIDE DEF next, c, n, list
<1>6. /\ DOMAIN nodes' = Sites /\ nodes'[s] = after /\ tail' \in [Sites -> OpID]
      /\ tail'[s] = IF next = Nil THEN n ELSE tail[s]
      /\ call' \in [Sites -> {NoCall} \cup [cursor : OpID, op : ListOp]] /\ call'[s] = NoCall
      /\ \A t \in Sites \ {s} : nodes'[t] = nodes[t] /\ tail'[t] = tail[t] /\ call'[t] = call[t]
  BY <1>2, <1>4 DEF ListInv, ListTypeOK
<1>7. ListTypeOK'
  <2>1. \A t \in Sites : Nodes(nodes'[t])
    BY <1>5, <1>6 DEF ListInv, ListTypeOK, Nodes
  <2>2. \A t \in Sites : call'[t] # NoCall =>
          call'[t].cursor \in DOMAIN nodes'[t] /\ call'[t].op.id \notin DOMAIN nodes'[t]
    BY <1>6 DEF ListInv, ListTypeOK
  <2> QED BY <1>2, <1>6, <2>1, <2>2 DEF ListInv, ListTypeOK, Nodes
<1>8. LinksAgree'
  BY <1>5, <1>6 DEF ListInv, LinksAgree
<1>9. Issuing' /\ Inserting'
  BY <1>2, <1>6 DEF ListInv, Issuing, Inserting
<1> QED BY <1>7, <1>8, <1>9 DEF ListInv

LEMMA ListStep == ListInv /\ [ListNext]_listVars => ListInv'
<1> SUFFICES ASSUME ListInv, [ListNext]_listVars PROVE ListInv'
  OBVIOUS
<1>1. ASSUME NEW s \in Sites, IssueInsert(s) PROVE ListInv'
  <2>1. PICK anchorID \in DOMAIN nodes[s], n \in 1 .. MaxOps :
            LET op == [type |-> "insert", anchorID |-> anchorID, id |-> [clock |-> n, site |-> s]]
            IN  BeginInsert(s, op) /\ issued' = issued \cup {op}
    BY <1>1 DEF IssueInsert
  <2> DEFINE id == [clock |-> n, site |-> s]
             op == [type |-> "insert", anchorID |-> anchorID, id |-> id]
  <2>2. id \in OpID /\ id # Nil /\ anchorID \in OpID
    BY ListAssumption DEF ListInv, ListTypeOK, OpID, Nil
  <2> HIDE DEF id
  <2>3. op \in ListOp /\ op.id # Nil
    BY <2>2 DEF ListOp
  <2>4. BeginInsert(s, op) /\ issued' = issued \cup {op}
    BY <2>1 DEF id
  <2> HIDE DEF op
  <2> QED BY <2>3, <2>4, BeginKeeps
<1>2. ASSUME NEW s \in Sites, IssueDelete(s) PROVE ListInv'
  <2>1. PICK id \in DOMAIN nodes[s] :
            LET op == [type |-> "delete", id |-> id]
            IN  DeleteNode(s, op) /\ issued' = issued \cup {op}
    BY <1>2 DEF IssueDelete
  <2>2. [type |-> "delete", id |-> id] \in ListOp
    BY DEF ListInv, ListTypeOK, ListOp
  <2> QED BY <2>1, <2>2, DeleteKeeps
<1>3. ASSUME NEW s \in Sites, Deliver(s) PROVE ListInv'
  <2>1. PICK op \in issued : BeginInsert(s, op) \/ DeleteNode(s, op)
    BY <1>3 DEF Deliver
  <2>2. op \in ListOp /\ issued' = issued \cup {op}
    BY <1>3 DEF Deliver, ListInv, ListTypeOK
  <2>3. CASE BeginInsert(s, op)
    <3>1. op.id # Nil
      BY <2>3 DEF BeginInsert, ListInv, Issuing
    <3> QED BY <2>2, <2>3, <3>1, BeginKeeps
  <2>4. CASE DeleteNode(s, op)
    BY <2>2, <2>4, DeleteKeeps
  <2> QED BY <2>1, <2>3, <2>4
<1>4. CASE UNCHANGED listVars
  BY <1>4 DEF listVars, ListInv, ListTypeOK, LinksAgree, Issuing, Inserting
<1> QED BY <1>1, <1>2, <1>3, <1>4, AdvanceKeeps, SpliceKeeps DEF ListNext, Issue

THEOREM ListInvCorrect == ListSpec => []ListInv
BY ListStart, ListStep, PTL DEF ListSpec

\* An Insert that walks the list stands at a node of it, on its way to a place for a
\* node the list has not: the loop of document.go never runs off the list.
THEOREM ListTypeCorrect == ListSpec => []ListTypeOK
<1>1. ListInv => ListTypeOK
  BY DEF ListInv
<1> QED BY <1>1, ListInvCorrect, PTL

\* Next, Prev, Map and Tail agree at every node, for any sites, operations and
\* orders in which they come.
THEOREM LinksAlwaysAgree == ListSpec => []LinksAgree
<1>1. ListInv => LinksAgree
  BY DEF ListInv
<1> QED BY <1>1, ListInvCorrect, PTL

-----------------------------------------------------------------------------
(***************************************************************************)
(* The order at all sites.                                                 *)
(***************************************************************************)

Insertions == {op \in issued : op.type = "insert"}

\* An insertion is in the list of a site, or about to be.
Has(s, op) == op.id \in DOMAIN nodes[s] \/ (call[s] # NoCall /\ call[s].op = op)

\* No identifier is issued twice: a site has what it issued, and numbers above it.
IssuedOnce ==
    /\ \A op \in Insertions :
        /\ op.id.site \in Sites /\ Has(op.id.site, op)
        /\ op.anchorID.clock \in Nat /\ op.anchorID.clock < op.id.clock
    /\ \A o, op \in Insertions : o.id = op.id => o = op

\* The nodes of a site and the operations that reached it tell of each other.
NodesAreApplied ==
    \A s \in Sites :
        /\ \A id \in DOMAIN nodes[s] \ {RootID} : \E op \in Insertions : op.id = id
        /\ \A op \in Insertions : op \in applied[s] <=> Has(s, op)
        /\ \A op \in applied[s] : op.type = "delete" => op.id \in DOMAIN nodes[s]
        /\ \A id \in DOMAIN nodes[s] :
              nodes[s][id].IsDeleted <=>
                 \/ id = RootID
                 \/ \E op \in applied[s] : op.type = "delete" /\ op.id = id

\* The loop of Insert has walked over the nodes from the anchor to the cursor.
Standing(q, w) ==
    \E c \in 1 .. Len(q) : \E a \in 1 .. c :
        q[c] = w.cursor /\ q[a] = w.op.anchorID /\ WalkedOver(q, a, c, w.op.id)

InOrder(s) ==
    \E q : /\ Order(q, nodes[s], tail[s])
           /\ Placed(q, Insertions)
           /\ call[s] # NoCall => Standing(q, call[s])

OrderInv ==
    ListInv /\ IssuedOnce /\ NodesAreApplied /\ \A s \in Sites : InOrder(s)

LEMMA OrderStart == ListInit => OrderInv
<1> SUFFICES ASSUME ListInit PROVE OrderInv
  OBVIOUS
<1>1. issued = {} /\ Insertions = {}
  BY DEF ListInit, Insertions
<1>2. ListInv /\ IssuedOnce
  BY <1>1, ListStart DEF IssuedOnce
<1>3. ASSUME NEW s \in Sites
      PROVE  nodes[s] = [id \in {RootID} |-> [IsDeleted |-> TRUE, Next |-> Nil, Prev |-> Nil]]
             /\ tail[s] = RootID /\ call[s] = NoCall /\ applied[s] = {}
  BY <1>2 DEF ListInit
<1>4. NodesAreApplied
  BY <1>1, <1>3 DEF NodesAreApplied
<1>5. ASSUME NEW s \in Sites PROVE InOrder(s)
  <2> DEFINE q == <<RootID>>
  <2>1. q \in Seq(OpID) /\ Len(q) = 1 /\ q[1] = RootID
    BY DEF RootID, OpID, RootSite
  <2>2. IsFiniteSet({RootID}) /\ Cardinality({RootID}) = 1
    BY FS_Singleton
  <2>3. DOMAIN nodes[s] = {RootID} /\ RootID # Nil
    BY <1>3 DEF RootID, Nil
  <2> HIDE DEF q
  <2>4. Order(q, nodes[s], tail[s])
    BY <1>3, <2>1, <2>2, <2>3 DEF Order
  <2>5. Placed(q, Insertions)
    BY <1>1 DEF Placed
  <2> QED BY <1>3, <2>4, <2>5 DEF InOrder
<1> QED BY <1>2, <1>4, <1>5 DEF OrderInv

\* What the invariant says of one site.
LEMMA OneSite ==
    ASSUME OrderInv, NEW s \in Sites
    PROVE  /\ Nodes(nodes[s]) /\ RootID \in DOMAIN nodes[s] /\ Nil \notin DOMAIN nodes[s]
           /\ \A id \in DOMAIN nodes[s] : id.clock \in Nat
           /\ \A id \in DOMAIN nodes[s] \ {RootID} : \E op \in Insertions : op.id = id
           /\ applied[s] \subseteq issued
           /\ call[s] # NoCall =>
                /\ call[s].op \in Insertions
                /\ call[s].cursor \in DOMAIN nodes[s] /\ call[s].op.id \notin DOMAIN nodes[s]
<1>1. Nodes(nodes[s]) /\ Agree(nodes[s], tail[s])
  BY DEF OrderInv, ListInv, ListTypeOK, LinksAgree, Nodes
<1>2. \A id \in DOMAIN nodes[s] \ {RootID} : \E op \in Insertions : op.id = id
  BY DEF OrderInv, NodesAreApplied
<1>3. ASSUME NEW id \in DOMAIN nodes[s] PROVE id.clock \in Nat
  <2>1. CASE id = RootID
    BY <2>1 DEF RootID
  <2>2. CASE id # RootID
    <3>1. PICK op \in Insertions : op.id = id
      BY <1>2, <2>2
    <3>2. op.anchorID.clock \in Nat /\ op.anchorID.clock < id.clock /\ id \in OpID
      BY <1>1, <3>1 DEF OrderInv, IssuedOnce, Nodes
    <3> QED BY <3>2 DEF OpID
  <2> QED BY <2>1, <2>2
<1> QED BY <1>1, <1>2, <1>3
        DEF OrderInv, ListInv, ListTypeOK, Inserting, Insertions, Agree

LEMMA BeginKeepsOrder ==
    ASSUME OrderInv, NEW s \in Sites, NEW op \in ListOp, BeginInsert(s, op),
           issued' = issued \cup {op}, op.id # Nil, op.anchorID \in DOMAIN nodes[s],
           op \in issued
           \/ (op.id.site = s /\ \A id \in DOMAIN nodes[s] : id.clock < op.id.clock)
    PROVE  OrderInv'
<1>1. /\ op.type = "insert" /\ op.id \in OpID /\ op.anchorID \in OpID
      /\ call[s] = NoCall /\ UNCHANGED <<nodes, tail>>
  BY DEF BeginInsert, ListOp
<1>2. /\ \A t \in Sites : applied'[t] = IF t = s THEN applied[t] \cup {op} ELSE applied[t]
      /\ \A t \in Sites \ {s} : call'[t] = call[t]
      /\ IF op.id \in DOMAIN nodes[s] THEN call'[s] = NoCall
         ELSE call'[s] = [cursor |-> op.anchorID, op |-> op]
  BY <1>1 DEF BeginInsert, Refused, findNode, OrderInv, ListInv, ListTypeOK
<1>3. ListInv'
  BY BeginKeeps DEF OrderInv
<1>4. Insertions' = Insertions \cup {op}
  BY <1>1 DEF Insertions
\* A new insertion has an identifier that no site knows.
<1>5. ASSUME op \notin issued
      PROVE  /\ \A o \in Insertions : o.id # op.id
             /\ \A t \in Sites : op.id \notin DOMAIN nodes[t]
             /\ \A t \in Sites : call[t] # NoCall => call[t].op # op
  <2>1. op.id.site = s /\ \A id \in DOMAIN nodes[s] : id.clock < op.id.clock
    BY <1>5
  <2>2. op.id \notin DOMAIN nodes[s] /\ op.id # RootID
    <3>1. op.id.clock \in Int
      BY <1>1 DEF OpID
    <3> QED BY <2>1, <3>1, OneSite
  <2>3. ASSUME NEW o \in Insertions, o.id = op.id PROVE FALSE
    BY <1>1, <2>1, <2>2, <2>3 DEF OrderInv, IssuedOnce, Has
  <2>4. \A t \in Sites : op.id \notin DOMAIN nodes[t]
    BY <2>2, <2>3, OneSite
  <2>5. \A t \in Sites : call[t] # NoCall => call[t].op # op
    BY <1>5, OneSite DEF Insertions
  <2> QED BY <2>3, <2>4, <2>5
<1>6. ASSUME NEW t \in Sites, NEW o \in Insertions'
      PROVE  Has(t, o)' <=> (Has(t, o) \/ (t = s /\ o = op))
  <2>1. CASE t # s
    BY <1>1, <1>2, <2>1 DEF Has
  <2>2. CASE t = s
    BY <1>1, <1>2, <2>2 DEF Has, NoCall
  <2> QED BY <2>1, <2>2
<1>7. IssuedOnce'
  <2>1. op.anchorID.clock \in Nat /\ op.id.clock \in Int
    BY <1>1, OneSite DEF OpID
  <2>2. ASSUME NEW o \in Insertions'
        PROVE  /\ o.id.site \in Sites /\ Has(o.id.site, o)'
               /\ o.anchorID.clock \in Nat /\ o.anchorID.clock < o.id.clock
    <3>1. CASE o \in Insertions
      BY <1>6, <3>1 DEF OrderInv, IssuedOnce
    <3>2. CASE o \notin Insertions
      <4>1. o = op /\ op \notin issued
        BY <1>1, <1>4, <3>2 DEF Insertions
      <4> QED BY <1>6, <2>1, <4>1
    <3> QED BY <3>1, <3>2
  <2>3. ASSUME NEW o \in Insertions', NEW o2 \in Insertions', o.id = o2.id
        PROVE  o = o2
    <3>1. CASE op \in issued
      <4>1. Insertions' = Insertions
        BY <1>1, <1>4, <3>1 DEF Insertions
      <4> QED BY <2>3, <4>1 DEF OrderInv, IssuedOnce
    <3>2. CASE op \notin issued
      BY <1>4, <1>5, <2>3, <3>2 DEF OrderInv, IssuedOnce
    <3> QED BY <3>1, <3>2
  <2> QED BY <2>2, <2>3 DEF IssuedOnce
<1>8. NodesAreApplied'
  <2> SUFFICES ASSUME NEW t \in Sites
      PROVE  /\ \A id \in DOMAIN nodes[t] \ {RootID} : \E o \in Insertions' : o.id = id
             /\ \A o \in Insertions' : o \in applied'[t] <=> Has(t, o)'
             /\ \A o \in applied'[t] : o.type = "delete" => o.id \in DOMAIN nodes[t]
             /\ \A id \in DOMAIN nodes[t] :
                   nodes[t][id].IsDeleted <=>
                      \/ id = RootID
                      \/ \E o \in applied'[t] : o.type = "delete" /\ o.id = id
    BY <1>1 DEF NodesAreApplied
  <2>1. \A id \in DOMAIN nodes[t] \ {RootID} : \E o \in Insertions' : o.id = id
    BY <1>4, OneSite
  <2>2. \A o \in Insertions : o \in applied[t] <=> Has(t, o)
    BY DEF OrderInv, NodesAreApplied
  <2>3. ASSUME NEW o \in Insertions' PROVE o \in applied'[t] <=> Has(t, o)'
    <3>1. CASE o \in Insertions
      BY ZenonT(40), <1>2, <1>6, <2>2, <3>1
    <3>2. CASE o \notin Insertions
      <4>1. o = op /\ op \notin issued
        BY <1>1, <1>4, <3>2 DEF Insertions
      <4>2. op \notin applied[t] /\ ~Has(t, op)
        BY <1>5, <4>1, OneSite DEF Has
      <4> QED BY <1>2, <1>6, <4>1, <4>2
    <3> QED BY <3>1, <3>2
  <2>4. \A o \in applied'[t] : o.type = "delete" => o \in applied[t]
    BY <1>1, <1>2
  <2>5. \A o \in applied[t] : o \in applied'[t]
    BY <1>2
  <2>6. \A o \in applied'[t] : o.type = "delete" => o.id \in DOMAIN nodes[t]
    BY <2>4 DEF OrderInv, NodesAreApplied
  <2>7. \A id \in DOMAIN nodes[t] :
            nodes[t][id].IsDeleted <=>
               \/ id = RootID
               \/ \E o \in applied'[t] : o.type = "delete" /\ o.id = id
    BY <2>4, <2>5 DEF OrderInv, NodesAreApplied
  <2> QED BY <2>1, <2>3, <2>6, <2>7
<1>9. ASSUME NEW t \in Sites PROVE InOrder(t)'
  <2>1. PICK q : /\ Order(q, nodes[t], tail[t]) /\ Placed(q, Insertions)
                 /\ call[t] # NoCall => Standing(q, call[t])
    <3>1. InOrder(t)
      BY DEF OrderInv
    <3> QED BY <3>1 DEF InOrder
  <2>2. Placed(q, Insertions')
    <3>1. CASE op \in issued
      <4>1. Insertions' = Insertions
        BY <1>1, <1>4, <3>1 DEF Insertions
      <4> QED BY <2>1, <4>1
    <3>2. CASE op \notin issued
      <4>1. \A i \in 1 .. Len(q) : q[i] # op.id
        BY <1>5, <2>1, <3>2 DEF Order
      <4> QED BY <1>4, <2>1, <4>1 DEF Placed
    <3> QED BY <3>1, <3>2
  <2>3. call'[t] # NoCall => Standing(q, call'[t])
    <3>1. CASE t # s
      BY <1>2, <2>1, <3>1
    <3>2. CASE t = s
      <4> SUFFICES ASSUME call'[s] = [cursor |-> op.anchorID, op |-> op]
                   PROVE  Standing(q, call'[s])
        BY <1>2, <3>2
      <4>1. PICK c \in 1 .. Len(q) : q[c] = op.anchorID
        BY <2>1, <3>2 DEF Order
      <4>2. c \in 1 .. c /\ WalkedOver(q, c, c, op.id)
        BY DEF WalkedOver
      <4>3. call'[s].cursor = op.anchorID /\ call'[s].op = op
        OBVIOUS
      <4> QED BY <4>1, <4>2, <4>3 DEF Standing
    <3> QED BY <3>1, <3>2
  <2>4. Order(q, nodes'[t], tail'[t])
    BY <1>1, <2>1
  <2> QED BY <2>2, <2>3, <2>4 DEF InOrder
<1> QED BY <1>3, <1>7, <1>8, <1>9 DEF OrderInv

\* A deletion marks one node of one site.
Marked(t, s, target) ==
    /\ DOMAIN nodes'[t] = DOMAIN nodes[t]
    /\ \A id \in DOMAIN nodes[t] :
        /\ nodes'[t][id].Next = nodes[t][id].Next
        /\ nodes'[t][id].Prev = nodes[t][id].Prev
        /\ nodes'[t][id].IsDeleted <=> nodes[t][id].IsDeleted \/ (t = s /\ id = target)

LEMMA DeleteMarks ==
    ASSUME OrderInv, NEW s \in Sites, NEW op, DeleteNode(s, op), op.id \in DOMAIN nodes[s]
    PROVE  \A t \in Sites : Marked(t, s, op.id)
<1>1. /\ nodes'[s] = [nodes[s] EXCEPT ![op.id].IsDeleted = TRUE]
      /\ \A t \in Sites \ {s} : nodes'[t] = nodes[t]
  BY DEF DeleteNode, findNode, OrderInv, ListInv, ListTypeOK
<1>2. ASSUME NEW t \in Sites
      PROVE  /\ DOMAIN nodes'[t] = DOMAIN nodes[t]
             /\ \A id \in DOMAIN nodes[t] :
                  /\ nodes'[t][id].Next = nodes[t][id].Next
                  /\ nodes'[t][id].Prev = nodes[t][id].Prev
                  /\ nodes'[t][id].IsDeleted <=>
                        nodes[t][id].IsDeleted \/ (t = s /\ id = op.id)
  <2>1. CASE t # s
    BY <1>1, <2>1
  <2>2. CASE t = s
    <3>1. DOMAIN nodes'[s] = DOMAIN nodes[s]
      BY <1>1
    <3>2. ASSUME NEW id \in DOMAIN nodes[s]
          PROVE  /\ nodes'[s][id].Next = nodes[s][id].Next
                 /\ nodes'[s][id].Prev = nodes[s][id].Prev
                 /\ nodes'[s][id].IsDeleted <=> nodes[s][id].IsDeleted \/ id = op.id
      <4>1. nodes[s][id] \in ListNode
        BY OneSite DEF Nodes
      <4>2. CASE id = op.id
        <5>1. nodes'[s][id] = [nodes[s][id] EXCEPT !.IsDeleted = TRUE]
          BY <1>1, <4>2
        <5> QED BY <4>1, <4>2, <5>1 DEF ListNode
      <4>3. CASE id # op.id
        BY <1>1, <4>3
      <4> QED BY <4>2, <4>3
    <3> QED BY <2>2, <3>1, <3>2
  <2> QED BY <2>1, <2>2
<1> QED BY <1>2 DEF Marked

LEMMA DeleteKeepsOrder ==
    ASSUME OrderInv, NEW s \in Sites, NEW op \in ListOp, DeleteNode(s, op),
           issued' = issued \cup {op}, op.id \in DOMAIN nodes[s]
    PROVE  OrderInv'
<1>1. op.type = "delete" /\ op.type # "insert" /\ UNCHANGED <<tail, call>>
  BY DEF DeleteNode
<1>2. \A t \in Sites : applied'[t] = IF t = s THEN applied[t] \cup {op} ELSE applied[t]
  BY DEF DeleteNode, OrderInv, ListInv, ListTypeOK
<1>3. ListInv'
  BY DeleteKeeps DEF OrderInv
<1>4. Insertions' = Insertions
  BY <1>1 DEF Insertions
<1>6. \A t \in Sites : Marked(t, s, op.id)
  BY DeleteMarks
<1>7. \A t \in Sites, o \in Insertions : Has(t, o)' <=> Has(t, o)
  BY <1>1, <1>6 DEF Has, Marked
<1>8. IssuedOnce'
  BY <1>4, <1>7 DEF OrderInv, IssuedOnce
<1>9. NodesAreApplied'
  <2> SUFFICES ASSUME NEW t \in Sites
      PROVE  /\ \A id \in DOMAIN nodes'[t] \ {RootID} : \E o \in Insertions' : o.id = id
             /\ \A o \in Insertions' : o \in applied'[t] <=> Has(t, o)'
             /\ \A o \in applied'[t] : o.type = "delete" => o.id \in DOMAIN nodes'[t]
             /\ \A id \in DOMAIN nodes'[t] :
                   nodes'[t][id].IsDeleted <=>
                      \/ id = RootID
                      \/ \E o \in applied'[t] : o.type = "delete" /\ o.id = id
    BY DEF NodesAreApplied
  <2>1. /\ \A id \in DOMAIN nodes[t] \ {RootID} : \E o \in Insertions : o.id = id
        /\ \A o \in Insertions : o \in applied[t] <=> Has(t, o)
        /\ \A o \in applied[t] : o.type = "delete" => o.id \in DOMAIN nodes[t]
        /\ \A id \in DOMAIN nodes[t] :
              nodes[t][id].IsDeleted <=>
                 \/ id = RootID
                 \/ \E o \in applied[t] : o.type = "delete" /\ o.id = id
    BY DEF OrderInv, NodesAreApplied
  <2>2. \A o \in Insertions : o \in applied'[t] <=> o \in applied[t]
    BY <1>1, <1>2 DEF Insertions
  <2>3. \A id : (\E o \in applied'[t] : o.type = "delete" /\ o.id = id)
                  <=> \/ \E o \in applied[t] : o.type = "delete" /\ o.id = id
                      \/ t = s /\ id = op.id
    BY <1>1, <1>2
  <2>4. \A o \in applied'[t] : o.type = "delete" => o.id \in DOMAIN nodes'[t]
    BY ZenonT(40), <1>2, <1>6, <2>1 DEF Marked
  <2>5. \A id \in DOMAIN nodes'[t] :
            nodes'[t][id].IsDeleted <=>
               \/ id = RootID
               \/ \E o \in applied'[t] : o.type = "delete" /\ o.id = id
    <3> TAKE id \in DOMAIN nodes'[t]
    <3>1. id \in DOMAIN nodes[t]
          /\ (nodes'[t][id].IsDeleted <=> nodes[t][id].IsDeleted \/ (t = s /\ id = op.id))
      BY <1>6 DEF Marked
    <3>2. nodes[t][id].IsDeleted <=>
             \/ id = RootID
             \/ \E o \in applied[t] : o.type = "delete" /\ o.id = id
      BY <2>1, <3>1
    <3> QED BY <2>3, <3>1, <3>2
  <2> QED BY <1>4, <1>6, <1>7, <2>1, <2>2, <2>4, <2>5 DEF Marked
<1>10. ASSUME NEW t \in Sites PROVE InOrder(t)'
  <2>1. PICK q : /\ Order(q, nodes[t], tail[t]) /\ Placed(q, Insertions)
                 /\ call[t] # NoCall => Standing(q, call[t])
    <3>1. InOrder(t)
      BY DEF OrderInv
    <3> QED BY <3>1 DEF InOrder
  <2>2. Order(q, nodes'[t], tail'[t])
    <3>1. tail'[t] = tail[t] /\ DOMAIN nodes'[t] = DOMAIN nodes[t]
      BY <1>1, <1>6 DEF Marked
    <3>2. \A i \in 1 .. Len(q) :
            /\ nodes'[t][q[i]].Next = nodes[t][q[i]].Next
            /\ nodes'[t][q[i]].Prev = nodes[t][q[i]].Prev
      BY <1>6, <2>1 DEF Order, Marked
    <3> QED BY <2>1, <3>1, <3>2 DEF Order
  <2> QED BY <1>1, <1>4, <2>1, <2>2 DEF InOrder
<1> QED BY <1>3, <1>8, <1>9, <1>10 DEF OrderInv

\* The loop does not end the call.
LEMMA AdvanceGoesOn ==
    ASSUME OrderInv, NEW s \in Sites, Advance(s)
    PROVE  call'[s] # NoCall
<1>1. call[s] # NoCall /\ nodes[s][call[s].cursor].Next # Nil
      /\ call' = [call EXCEPT ![s].cursor = nodes[s][@].Next]
  BY DEF Advance, Passes
<1>2. call[s] \in [cursor : OpID, op : ListOp] /\ call \in [Sites -> {NoCall} \cup [cursor : OpID, op : ListOp]]
  BY <1>1 DEF OrderInv, ListInv, ListTypeOK
<1>3. call'[s].cursor # Nil
  BY <1>1, <1>2
<1> QED BY <1>3 DEF NoCall

LEMMA AdvanceKeepsOrder ==
    ASSUME OrderInv, NEW s \in Sites, Advance(s)
    PROVE  OrderInv'
<1>1. call[s] # NoCall /\ UNCHANGED <<nodes, tail, issued, applied>>
      /\ call' = [call EXCEPT ![s].cursor = nodes[s][@].Next]
      /\ nodes[s][call[s].cursor].Next # Nil
      /\ isHigherPriority(nodes[s][call[s].cursor].Next, call[s].op.id)
  BY DEF Advance, Passes
<1>2. call[s] \in [cursor : OpID, op : ListOp] /\ call \in [Sites -> {NoCall} \cup [cursor : OpID, op : ListOp]]
  BY <1>1 DEF OrderInv, ListInv, ListTypeOK
<1>3. /\ call'[s].cursor = nodes[s][call[s].cursor].Next /\ call'[s].op = call[s].op
      /\ \A t \in Sites \ {s} : call'[t] = call[t]
  BY <1>1, <1>2
<1>4. ListInv'
  BY AdvanceKeeps DEF OrderInv
<1>5. call'[s] # NoCall
  BY AdvanceGoesOn
<1>6. Insertions' = Insertions /\ \A t \in Sites : \A o : Has(t, o)' <=> Has(t, o)
  BY <1>1, <1>3, <1>5 DEF Insertions, Has
<1>7. IssuedOnce' /\ NodesAreApplied'
  BY <1>1, <1>6 DEF OrderInv, IssuedOnce, NodesAreApplied
<1>8. ASSUME NEW t \in Sites PROVE InOrder(t)'
  <2>1. PICK q : /\ Order(q, nodes[t], tail[t]) /\ Placed(q, Insertions)
                 /\ call[t] # NoCall => Standing(q, call[t])
    <3>1. InOrder(t)
      BY DEF OrderInv
    <3> QED BY <3>1 DEF InOrder
  <2>2. call'[t] # NoCall => Standing(q, call'[t])
    <3>1. CASE t # s
      BY <1>3, <2>1, <3>1
    <3>2. CASE t = s
      <4>1. PICK c \in 1 .. Len(q) : \E a \in 1 .. c :
                q[c] = call[s].cursor /\ q[a] = call[s].op.anchorID
                /\ WalkedOver(q, a, c, call[s].op.id)
        BY <1>1, <2>1, <3>2 DEF Standing
      <4>2. PICK a \in 1 .. c :
                q[c] = call[s].cursor /\ q[a] = call[s].op.anchorID
                /\ WalkedOver(q, a, c, call[s].op.id)
        BY <4>1
      <4>3. c + 1 \in 1 .. Len(q) /\ nodes[s][q[c]].Next = q[c + 1] /\ a \in 1 .. c + 1
        BY <1>1, <2>1, <3>2, <4>2 DEF Order
      <4>4. WalkedOver(q, a, c + 1, call[s].op.id)
        <5>1. \A i \in a + 1 .. c + 1 : i \in a + 1 .. c \/ i = c + 1
          BY <4>2, <4>3
        <5> QED BY <1>1, <4>2, <4>3, <5>1 DEF WalkedOver
      <4> QED BY <1>3, <3>2, <4>2, <4>3, <4>4 DEF Standing
    <3> QED BY <3>1, <3>2
  <2> QED BY <1>1, <1>6, <2>1, <2>2 DEF InOrder
<1> QED BY <1>4, <1>7, <1>8 DEF OrderInv

\* The order of the list before the splice, and the place it is done at.
At(q, s, a, c) ==
    /\ Order(q, nodes[s], tail[s]) /\ Placed(q, Insertions)
    /\ c \in 1 .. Len(q) /\ a \in 1 .. c
    /\ q[c] = call[s].cursor /\ q[a] = call[s].op.anchorID
    /\ WalkedOver(q, a, c, call[s].op.id)
    /\ c < Len(q) => ~isHigherPriority(q[c + 1], call[s].op.id)

LEMMA SplicesAt ==
    ASSUME OrderInv, NEW s \in Sites, Splice(s)
    PROVE  \E q, a, c : At(q, s, a, c)
<1>1. call[s] # NoCall /\ ~Passes(s)
  BY DEF Splice
<1>2. PICK q : /\ Order(q, nodes[s], tail[s]) /\ Placed(q, Insertions)
               /\ Standing(q, call[s])
  <2>1. InOrder(s)
    BY DEF OrderInv
  <2> QED BY <1>1, <2>1 DEF InOrder
<1>3. PICK c \in 1 .. Len(q) : \E a \in 1 .. c :
          q[c] = call[s].cursor /\ q[a] = call[s].op.anchorID
          /\ WalkedOver(q, a, c, call[s].op.id)
  BY <1>2 DEF Standing
<1>4. PICK a \in 1 .. c :
          q[c] = call[s].cursor /\ q[a] = call[s].op.anchorID
          /\ WalkedOver(q, a, c, call[s].op.id)
  BY <1>3
<1>5. ASSUME c < Len(q) PROVE ~isHigherPriority(q[c + 1], call[s].op.id)
  <2>1. c + 1 \in 1 .. Len(q)
    BY <1>2, <1>5 DEF Order
  <2>2. nodes[s][q[c]].Next = q[c + 1] /\ q[c + 1] # Nil
    BY <1>2, <1>5, <2>1 DEF Order
  <2> QED BY <1>1, <1>4, <2>2 DEF Passes
<1> QED BY <1>2, <1>4, <1>5 DEF At

LEMMA SpliceKeepsOrder ==
    ASSUME OrderInv, NEW s \in Sites, Splice(s)
    PROVE  OrderInv'
<1>1. PICK after : Splices(s, after)
  BY SpliceDoes DEF OrderInv
<1> DEFINE list == nodes[s]
           op == call[s].op
           n == op.id
<1>2. /\ n \in OpID /\ n \notin DOMAIN list /\ n # Nil
      /\ op \in Insertions
      /\ LinkedIn(after, list, call[s].cursor, n)
      /\ call[s] # NoCall
      /\ UNCHANGED <<issued, applied>>
  BY <1>1 DEF Splices, Insertions
<1>3. /\ nodes'[s] = after /\ call'[s] = NoCall
      /\ tail'[s] = IF list[call[s].cursor].Next = Nil THEN n ELSE tail[s]
      /\ \A t \in Sites \ {s} : nodes'[t] = nodes[t] /\ tail'[t] = tail[t] /\ call'[t] = call[t]
  BY <1>1 DEF Splices, OrderInv, ListInv, ListTypeOK
<1>4. ListInv'
  BY SpliceKeeps DEF OrderInv
<1>5. Insertions' = Insertions
  BY <1>2 DEF Insertions
<1>6. \A o \in Insertions : o.id = n => o = op
  BY <1>2 DEF OrderInv, IssuedOnce
<1>7. /\ DOMAIN after = DOMAIN list \cup {n} /\ after[n].IsDeleted = FALSE
      /\ \A id \in DOMAIN list : after[id].IsDeleted = list[id].IsDeleted
  BY <1>2 DEF LinkedIn
<1> HIDE DEF op, n
<1>8. ASSUME NEW t \in Sites, NEW o \in Insertions PROVE Has(t, o)' <=> Has(t, o)
  <2>1. CASE t # s
    BY <1>3, <2>1 DEF Has
  <2>2. CASE t = s
    BY <1>2, <1>3, <1>6, <1>7, <2>2 DEF Has, op, n
  <2> QED BY <2>1, <2>2
<1>9. IssuedOnce'
  BY <1>5, <1>8 DEF OrderInv, IssuedOnce
<1>10. NodesAreApplied'
  <2> SUFFICES ASSUME NEW t \in Sites
      PROVE  /\ \A id \in DOMAIN nodes'[t] \ {RootID} : \E o \in Insertions' : o.id = id
             /\ \A o \in Insertions' : o \in applied'[t] <=> Has(t, o)'
             /\ \A o \in applied'[t] : o.type = "delete" => o.id \in DOMAIN nodes'[t]
             /\ \A id \in DOMAIN nodes'[t] :
                   nodes'[t][id].IsDeleted <=>
                      \/ id = RootID
                      \/ \E o \in applied'[t] : o.type = "delete" /\ o.id = id
    BY DEF NodesAreApplied
  <2>1. /\ \A id \in DOMAIN nodes[t] \ {RootID} : \E o \in Insertions : o.id = id
        /\ \A o \in Insertions : o \in applied[t] <=> Has(t, o)
        /\ \A o \in applied[t] : o.type = "delete" => o.id \in DOMAIN nodes[t]
        /\ \A id \in DOMAIN nodes[t] :
              nodes[t][id].IsDeleted <=>
                 \/ id = RootID
                 \/ \E o \in applied[t] : o.type = "delete" /\ o.id = id
    BY DEF OrderInv, NodesAreApplied
  <2>2. CASE t # s
    BY <1>2, <1>3, <1>5, <1>8, <2>1, <2>2
  <2>3. CASE t = s
    <3>1. applied'[t] = applied[t] /\ nodes'[t] = after /\ DOMAIN nodes'[t] = DOMAIN nodes[t] \cup {n}
      BY <1>2, <1>3, <1>7, <2>3
    <3>2. \A id \in DOMAIN nodes'[t] \ {RootID} : \E o \in Insertions' : o.id = id
      BY <1>2, <1>5, <2>1, <3>1 DEF n
    <3>3. n # RootID /\ ~\E o \in applied[t] : o.type = "delete" /\ o.id = n
      <4>1. RootID \in DOMAIN nodes[s]
        BY OneSite
      <4> QED BY <1>2, <2>1, <2>3, <4>1
    <3>4. ASSUME NEW id \in DOMAIN nodes'[t]
          PROVE  nodes'[t][id].IsDeleted <=>
                    \/ id = RootID
                    \/ \E o \in applied[t] : o.type = "delete" /\ o.id = id
      <4>1. CASE id = n
        BY <1>7, <3>1, <3>3, <4>1
      <4>2. CASE id # n
        <5>1. id \in DOMAIN nodes[t] /\ nodes'[t][id].IsDeleted = nodes[t][id].IsDeleted
          BY <1>7, <2>3, <3>1, <4>2
        <5> QED BY <2>1, <5>1
      <4> QED BY <4>1, <4>2
    <3> QED BY <1>5, <1>8, <2>1, <3>1, <3>2, <3>4
  <2> QED BY <2>2, <2>3
<1>11. ASSUME NEW t \in Sites PROVE InOrder(t)'
  <2>1. CASE t # s
    <3>1. PICK q : /\ Order(q, nodes[t], tail[t]) /\ Placed(q, Insertions)
                   /\ call[t] # NoCall => Standing(q, call[t])
      <4>1. InOrder(t)
        BY DEF OrderInv
      <4> QED BY <4>1 DEF InOrder
    <3> QED BY <1>3, <1>5, <2>1, <3>1 DEF InOrder
  <2>2. CASE t = s
    <3>1. PICK q, a, c : At(q, s, a, c)
      BY SplicesAt
    <3>2. /\ Order(q, list, tail[s]) /\ Placed(q, Insertions) /\ q \in Seq(OpID) /\ OneEach(q)
          /\ c \in 1 .. Len(q) /\ a \in 1 .. c /\ q[c] = call[s].cursor
          /\ q[a] = op.anchorID /\ WalkedOver(q, a, c, n)
          /\ c < Len(q) => ~isHigherPriority(q[c + 1], n)
          /\ \A i \in 1 .. Len(q) : q[i] # n
      BY <1>2, <3>1 DEF At, Order, OneEach, op, n
    <3>3. Order(Behind(q, c, n), nodes'[s], tail'[s])
      <4>1. LinkedIn(after, list, q[c], n)
        BY <1>2, <3>2
      <4>2. Order(Behind(q, c, n), after, IF list[q[c]].Next = Nil THEN n ELSE tail[s])
        <5> HIDE DEF list
        <5> QED BY <1>2, <3>2, <4>1, OrderGrows
      <4> QED BY <1>3, <3>2, <4>2
    <3>4. Placed(Behind(q, c, n), Insertions)
      <4>1. op.id = n
        BY DEF n
      <4> QED BY <1>2, <1>6, <3>2, <4>1, PlacedGrows
    <3> QED BY <1>3, <1>5, <2>2, <3>3, <3>4 DEF InOrder
  <2> QED BY <2>1, <2>2
<1> QED BY <1>4, <1>9, <1>10, <1>11 DEF OrderInv

LEMMA OrderStep == OrderInv /\ [ListNext]_listVars => OrderInv'
<1> SUFFICES ASSUME OrderInv, [ListNext]_listVars PROVE OrderInv'
  OBVIOUS
<1>1. ASSUME NEW s \in Sites, IssueInsert(s) PROVE OrderInv'
  <2>1. PICK anchorID \in DOMAIN nodes[s], n \in 1 .. MaxOps :
            LET op == [type |-> "insert", anchorID |-> anchorID, id |-> [clock |-> n, site |-> s]]
            IN  IsNextClock(s, n) /\ BeginInsert(s, op) /\ issued' = issued \cup {op}
    BY <1>1 DEF IssueInsert
  <2> DEFINE id == [clock |-> n, site |-> s]
             op == [type |-> "insert", anchorID |-> anchorID, id |-> id]
  <2>2. id \in OpID /\ id # Nil /\ anchorID \in OpID /\ id.clock = n /\ id.site = s
    BY ListAssumption, OneSite DEF Nodes, OpID, Nil
  <2>3. BeginInsert(s, op) /\ issued' = issued \cup {op} /\ IsNextClock(s, n)
    BY <2>1
  <2> HIDE DEF id
  <2>4. op \in ListOp /\ op.id = id /\ op.anchorID = anchorID
    BY <2>2 DEF ListOp
  <2> HIDE DEF op
  <2>5. op.id.site = s /\ \A m \in DOMAIN nodes[s] : m.clock < op.id.clock
    BY <2>2, <2>3, <2>4 DEF IsNextClock
  <2>6. op.id # Nil /\ op.anchorID \in DOMAIN nodes[s]
    BY <2>2, <2>4
  <2> QED BY <2>3, <2>4, <2>5, <2>6, BeginKeepsOrder
<1>2. ASSUME NEW s \in Sites, IssueDelete(s) PROVE OrderInv'
  <2>1. PICK id \in DOMAIN nodes[s] :
            LET op == [type |-> "delete", id |-> id]
            IN  DeleteNode(s, op) /\ issued' = issued \cup {op}
    BY <1>2 DEF IssueDelete
  <2> DEFINE op == [type |-> "delete", id |-> id]
  <2>2. op \in ListOp /\ op.id \in DOMAIN nodes[s]
    BY OneSite DEF Nodes, ListOp
  <2>3. DeleteNode(s, op) /\ issued' = issued \cup {op}
    BY <2>1
  <2> HIDE DEF op
  <2> QED BY <2>2, <2>3, DeleteKeepsOrder
<1>3. ASSUME NEW s \in Sites, Deliver(s) PROVE OrderInv'
  <2>1. PICK op \in issued : findNode(s, Named(op)) /\ (BeginInsert(s, op) \/ DeleteNode(s, op))
    BY <1>3 DEF Deliver
  <2>2. op \in ListOp /\ issued' = issued \cup {op}
    BY <1>3 DEF Deliver, OrderInv, ListInv, ListTypeOK
  <2>3. CASE BeginInsert(s, op)
    <3>1. op.id # Nil /\ op.anchorID \in DOMAIN nodes[s]
      BY <2>1, <2>3 DEF BeginInsert, OrderInv, ListInv, Issuing, Named, findNode
    <3> QED BY <2>2, <2>3, <3>1, BeginKeepsOrder
  <2>4. CASE DeleteNode(s, op)
    <3>1. op.id \in DOMAIN nodes[s]
      BY <2>1, <2>4 DEF DeleteNode, Named, findNode
    <3> QED BY <2>2, <2>4, <3>1, DeleteKeepsOrder
  <2> QED BY <2>1, <2>3, <2>4
<1>4. CASE UNCHANGED listVars
  <2>1. ListInv'
    BY <1>4, ListStep DEF OrderInv
  <2>2. Insertions' = Insertions /\ \A s \in Sites : \A o : Has(s, o)' <=> Has(s, o)
    BY <1>4 DEF listVars, Insertions, Has
  <2>3. UNCHANGED <<nodes, tail, call, issued, applied>>
    BY <1>4 DEF listVars
  <2>4. IssuedOnce' /\ NodesAreApplied'
    BY <2>2, <2>3 DEF OrderInv, IssuedOnce, NodesAreApplied
  <2>5. \A s \in Sites : InOrder(s)'
    BY <2>2, <2>3 DEF OrderInv, InOrder
  <2> QED BY <2>1, <2>4, <2>5 DEF OrderInv
<1> QED BY <1>1, <1>2, <1>3, <1>4, AdvanceKeepsOrder, SpliceKeepsOrder DEF ListNext, Issue

\* The order of every list is the one its insertions give it.
THEOREM OrderInvCorrect == ListSpec => []OrderInv
BY OrderStart, OrderStep, PTL DEF ListSpec

\* The Next pointers lead from the root through every node of the Map to Tail, and
\* the Prev pointers lead back: what every loop of document.go that walks the list
\* relies on to end and to miss no node.
THEOREM LinksAlwaysConsistent == ListSpec => []LinksConsistent
<1>1. OrderInv => LinksConsistent
  <2> SUFFICES ASSUME OrderInv, NEW s \in Sites
      PROVE  LET order == <<RootID>> \o Walk(nodes[s])
             IN  /\ {order[i] : i \in DOMAIN order} = DOMAIN nodes[s]
                 /\ tail[s] = order[Len(order)]
                 /\ nodes[s][tail[s]].Next = Nil
                 /\ nodes[s][RootID].Prev = Nil
                 /\ \A i \in 2 .. Len(order) : nodes[s][order[i]].Prev = order[i - 1]
    BY DEF LinksConsistent
  <2> DEFINE order == <<RootID>> \o Walk(nodes[s])
  <2>1. InOrder(s)
    BY DEF OrderInv
  <2>2. PICK q : Order(q, nodes[s], tail[s])
    BY <2>1 DEF InOrder
  <2>3. order = q
    BY <2>2, OrderIsWalk
  <2>4. DOMAIN q = 1 .. Len(q) /\ Len(q) \in Nat \ {0}
    BY <2>2 DEF Order
  <2>5. {q[i] : i \in DOMAIN q} = DOMAIN nodes[s]
    <3>1. /\ \A i \in 1 .. Len(q) : q[i] \in DOMAIN nodes[s]
          /\ \A id \in DOMAIN nodes[s] : \E i \in 1 .. Len(q) : q[i] = id
      BY <2>2 DEF Order
    <3> QED BY <2>4, <3>1
  <2>6. /\ q[1] = RootID /\ tail[s] = q[Len(q)]
        /\ \A i \in 1 .. Len(q) : /\ nodes[s][q[i]].Next = IF i = Len(q) THEN Nil ELSE q[i + 1]
                                  /\ nodes[s][q[i]].Prev = IF i = 1 THEN Nil ELSE q[i - 1]
    BY <2>2 DEF Order
  <2>7. nodes[s][tail[s]].Next = Nil /\ nodes[s][RootID].Prev = Nil
    BY <2>4, <2>6
  <2>8. \A i \in 2 .. Len(q) : nodes[s][q[i]].Prev = q[i - 1]
    <3>1. \A i \in 2 .. Len(q) : i \in 1 .. Len(q) /\ i # 1
      BY <2>4
    <3> QED BY <2>6, <3>1
  <2> HIDE DEF order
  <2>9. /\ {order[i] : i \in DOMAIN order} = DOMAIN nodes[s] /\ tail[s] = order[Len(order)]
        /\ \A i \in 2 .. Len(order) : nodes[s][order[i]].Prev = order[i - 1]
    BY <2>3, <2>5, <2>6, <2>8
  <2> QED BY <2>7, <2>9 DEF order
<1> QED BY <1>1, OrderInvCorrect, PTL

\* Every site's document, read off its list.
LEMMA DocumentOf ==
    ASSUME NEW list, NEW end, NEW q, Order(q, list, end)
    PROVE  AsDocument(list) =
              [i \in 1 .. Len(q) - 1 |->
                  [ID |-> q[i + 1], Char |-> q[i + 1], IsDeleted |-> list[q[i + 1]].IsDeleted]]
<1>1. Walk(list) = [i \in 1 .. Len(q) - 1 |-> q[i + 1]]
  BY WalkIsOrder
<1> QED BY <1>1 DEF AsDocument

LEMMA OrdersAreInserted ==
    ASSUME OrderInv, NEW s \in Sites, NEW q, Order(q, nodes[s], tail[s])
    PROVE  /\ q \in Seq(OpID) /\ Len(q) \in Nat \ {0} /\ q[1] = RootID
           /\ OneEach(q) /\ Inserted(q, Insertions)
<1>1. /\ q \in Seq(OpID) /\ Len(q) \in Nat \ {0} /\ q[1] = RootID /\ OneEach(q)
      /\ \A i \in 1 .. Len(q) : q[i] \in DOMAIN nodes[s]
  BY DEF Order, OneEach
<1>2. ASSUME NEW i \in 2 .. Len(q) PROVE \E op \in Insertions : op.id = q[i]
  <2>1. q[i] # RootID /\ i \in 1 .. Len(q)
    BY <1>1 DEF OneEach
  <2> QED BY <1>1, <2>1, OneSite
<1>3. \A i \in 1 .. Len(q) : q[i].clock \in Nat
  BY <1>1, OneSite
<1>4. \A op \in Insertions : op.anchorID.clock < op.id.clock
  BY DEF OrderInv, IssuedOnce
<1> QED BY <1>1, <1>2, <1>3, <1>4 DEF Inserted

\* Two sites that received the same operations, in whatever order and however often,
\* hold the same text: the promise of document.go, for any number of sites and
\* operations.
THEOREM AlwaysConverged == ListSpec => []Converged
<1>1. OrderInv => Converged
  <2> SUFFICES ASSUME OrderInv, NEW s \in Sites, NEW t \in Sites,
                      applied[s] = applied[t], call[s] = NoCall, call[t] = NoCall
               PROVE  AsDocument(nodes[s]) = AsDocument(nodes[t])
    BY DEF Converged
  <2>1. ASSUME NEW v \in Sites, NEW w \in Sites, applied[v] = applied[w],
               call[v] = NoCall, call[w] = NoCall
        PROVE  DOMAIN nodes[v] \subseteq DOMAIN nodes[w]
    <3> SUFFICES ASSUME NEW id \in DOMAIN nodes[v] PROVE id \in DOMAIN nodes[w]
      OBVIOUS
    <3>1. CASE id = RootID
      BY <3>1, OneSite
    <3>2. CASE id # RootID
      <4>1. PICK op \in Insertions : op.id = id
        BY <3>2, OneSite
      <4>2. op \in applied[v]
        BY <4>1 DEF OrderInv, NodesAreApplied, Has
      <4>3. Has(w, op)
        BY <2>1, <4>1, <4>2 DEF OrderInv, NodesAreApplied
      <4> QED BY <2>1, <4>1, <4>3 DEF Has
    <3> QED BY <3>1, <3>2
  <2>2. DOMAIN nodes[s] = DOMAIN nodes[t]
    BY <2>1
  <2>3. \A id \in DOMAIN nodes[s] : nodes[s][id].IsDeleted = nodes[t][id].IsDeleted
    <3> TAKE id \in DOMAIN nodes[s]
    <3>1. nodes[s][id].IsDeleted <=> nodes[t][id].IsDeleted
      BY <2>2 DEF OrderInv, NodesAreApplied
    <3>2. nodes[s][id] \in ListNode /\ nodes[t][id] \in ListNode
      BY <2>2, OneSite DEF Nodes
    <3>3. nodes[s][id].IsDeleted \in BOOLEAN /\ nodes[t][id].IsDeleted \in BOOLEAN
      BY <3>2 DEF ListNode
    <3> QED BY <3>1, <3>3
  <2>4. PICK q : Order(q, nodes[s], tail[s]) /\ Placed(q, Insertions)
    <3>1. InOrder(s)
      BY DEF OrderInv
    <3> QED BY <3>1 DEF InOrder
  <2>5. PICK r : Order(r, nodes[t], tail[t]) /\ Placed(r, Insertions)
    <3>1. InOrder(t)
      BY DEF OrderInv
    <3> QED BY <3>1 DEF InOrder
  <2>6. /\ q \in Seq(OpID) /\ Len(q) \in Nat \ {0} /\ q[1] = RootID
        /\ OneEach(q) /\ Inserted(q, Insertions)
    BY <2>4, OrdersAreInserted
  <2>7. /\ r \in Seq(OpID) /\ Len(r) \in Nat \ {0} /\ r[1] = RootID
        /\ OneEach(r) /\ Inserted(r, Insertions)
    BY <2>5, OrdersAreInserted
  <2>8. /\ Len(q) = Len(r)
        /\ \A i \in 1 .. Len(q) : \E j \in 1 .. Len(q) : r[j] = q[i]
        /\ \A i \in 1 .. Len(q) : \E j \in 1 .. Len(q) : q[j] = r[i]
    BY SMTT(30), <2>2, <2>4, <2>5 DEF Order
  <2>9. q = r
    BY <2>4, <2>5, <2>6, <2>7, <2>8, OneOrder
  <2>10. \A i \in 1 .. Len(q) - 1 : nodes[s][q[i + 1]].IsDeleted = nodes[t][q[i + 1]].IsDeleted
    <3>1. \A i \in 1 .. Len(q) - 1 : i + 1 \in 1 .. Len(q)
      BY <2>6
    <3> QED BY <2>3, <2>4, <3>1 DEF Order
  <2> QED BY SMTT(30), <2>4, <2>5, <2>9, <2>10, DocumentOf
<1> QED BY <1>1, OrderInvCorrect, PTL

-----------------------------------------------------------------------------
(***************************************************************************)
(* The list implements the operations of Document.                         *)
(***************************************************************************)

\* Where the nodes of a document are.
LEMMA PlacesOf ==
    ASSUME NEW list, NEW end, NEW q, Order(q, list, end), Nodes(list)
    PROVE  /\ AsDocument(list) \in Seq(Node(OpID)) /\ Len(AsDocument(list)) = Len(q) - 1
           /\ \A i \in 1 .. Len(q) - 1 : AsDocument(list)[i].ID = q[i + 1]
           /\ \A id : Known(AsDocument(list), id) <=> id \in DOMAIN list
           /\ \A i \in 1 .. Len(q) : IndexOf(AsDocument(list), q[i]) = i - 1
<1> DEFINE doc == AsDocument(list)
           n == Len(q) - 1
<1>1. /\ q \in Seq(OpID) /\ n \in Nat /\ Len(q) = n + 1 /\ q[1] = RootID
      /\ \A i \in 1 .. n + 1 : q[i] \in DOMAIN list
      /\ \A id \in DOMAIN list : \E i \in 1 .. n + 1 : q[i] = id
      /\ \A i, j \in 1 .. n + 1 : q[i] = q[j] => i = j
  BY DEF Order
<1>2. doc = [i \in 1 .. n |->
                [ID |-> q[i + 1], Char |-> q[i + 1], IsDeleted |-> list[q[i + 1]].IsDeleted]]
  BY DocumentOf
<1> HIDE DEF doc, n
<1>3. \A i \in 1 .. n : i + 1 \in 1 .. n + 1 /\ i + 1 # 1 /\ (i + 1) - 1 = i
  BY <1>1
<1>4. \A i \in 1 .. n : doc[i].ID = q[i + 1]
  BY <1>2
<1>5. doc \in Seq(Node(OpID)) /\ Len(doc) = n
  <2>1. ASSUME NEW i \in 1 .. n
        PROVE  [ID |-> q[i + 1], Char |-> q[i + 1], IsDeleted |-> list[q[i + 1]].IsDeleted]
                  \in Node(OpID)
    <3>1. q[i + 1] \in DOMAIN list
      BY <1>1, <1>3
    <3>2. q[i + 1] \in OpID /\ list[q[i + 1]].IsDeleted \in BOOLEAN
      BY <3>1 DEF Nodes, ListNode
    <3> QED BY <3>2 DEF Node
  <2>2. doc \in [1 .. n -> Node(OpID)]
    BY <1>2, <2>1
  <2> QED BY <1>1, <2>2
<1>6. DOMAIN doc = 1 .. n
  BY <1>2
<1>7. ASSUME NEW id PROVE Known(doc, id) <=> id \in DOMAIN list
  <2>1. ASSUME id \in IDs(doc) PROVE id \in DOMAIN list
    BY <1>1, <1>3, <1>4, <1>6, <2>1 DEF IDs
  <2>2. ASSUME id \in DOMAIN list, id # RootID PROVE id \in IDs(doc)
    <3>1. PICK i \in 1 .. n + 1 : q[i] = id
      BY <1>1, <2>2
    <3>2. i - 1 \in 1 .. n /\ (i - 1) + 1 = i
      BY <1>1, <2>2, <3>1
    <3>3. doc[i - 1].ID = id
      BY <1>4, <3>1, <3>2
    <3> QED BY <1>6, <3>2, <3>3 DEF IDs
  <2>3. RootID \in DOMAIN list
    BY <1>1
  <2> QED BY <2>1, <2>2, <2>3 DEF Known
<1>8. ASSUME NEW i \in 1 .. n + 1 PROVE IndexOf(doc, q[i]) = i - 1
  <2>1. CASE i = 1
    BY <1>1, <2>1 DEF IndexOf
  <2>2. CASE i # 1
    <3>1. i - 1 \in 1 .. n /\ (i - 1) + 1 = i /\ q[i] # RootID
      BY <1>1, <1>8, <2>2
    <3>2. doc[i - 1].ID = q[i]
      BY <1>4, <3>1
    <3>3. \A k \in 1 .. n : doc[k].ID = q[i] => k = i - 1
      BY <1>1, <1>3, <1>4
    <3> QED BY <1>6, <3>1, <3>2, <3>3 DEF IndexOf
  <2> QED BY <2>1, <2>2
<1> QED BY <1>1, <1>4, <1>5, <1>7, <1>8 DEF doc, n

\* The cursor of the loop ends where Document's Insert counts it to be.
LEMMA CursorIsCounted ==
    ASSUME OrderInv, NEW s \in Sites, NEW q, NEW a, NEW c, At(q, s, a, c)
    PROVE  Cursor(AsDocument(nodes[s]), call[s].op.anchorID, call[s].op.id) = c - 1
<1> DEFINE doc == AsDocument(nodes[s])
           n == call[s].op.id
<1>1. /\ Order(q, nodes[s], tail[s])
      /\ c \in 1 .. Len(q) /\ a \in 1 .. c /\ q[a] = call[s].op.anchorID
      /\ WalkedOver(q, a, c, n)
      /\ c < Len(q) => ~isHigherPriority(q[c + 1], n)
      /\ Len(q) \in Nat
  BY DEF At, Order
<1>2. /\ doc \in Seq(Node(OpID)) /\ Len(doc) = Len(q) - 1
      /\ \A i \in 1 .. Len(q) - 1 : doc[i].ID = q[i + 1]
      /\ \A i \in 1 .. Len(q) : IndexOf(doc, q[i]) = i - 1
  BY <1>1, PlacesOf, OneSite
<1> HIDE DEF doc, n
<1>3. a \in Nat /\ a >= 1 /\ c \in Nat /\ a <= c /\ c <= Len(q)
  BY <1>1
<1>4. Skipped(doc, a - 1, n) = a .. c - 1
  <2>1. ASSUME NEW j \in a .. c - 1, NEW k \in a .. j PROVE isHigherPriority(doc[k].ID, n)
    <3>1. k \in 1 .. Len(q) - 1 /\ k + 1 \in a + 1 .. c
      BY <1>1, <1>3
    <3> QED BY <1>1, <1>2, <3>1 DEF WalkedOver
  <2>2. ASSUME NEW j \in a .. Len(q) - 1, ~(j <= c - 1)
        PROVE  c \in a .. j /\ ~isHigherPriority(doc[c].ID, n)
    <3>1. c \in 1 .. Len(q) - 1 /\ c \in a .. j /\ c < Len(q)
      BY <1>1, <1>3, <2>2
    <3> QED BY <1>1, <1>2, <3>1
  <2>3. (a - 1) + 1 = a /\ a .. c - 1 \subseteq a .. Len(q) - 1
    BY <1>1, <1>3
  <2>4. Skipped(doc, a - 1, n) =
            {j \in a .. Len(q) - 1 : \A k \in a .. j : isHigherPriority(doc[k].ID, n)}
    BY <1>2, <2>3 DEF Skipped
  <2>5. ASSUME NEW j \in a .. Len(q) - 1, \A k \in a .. j : isHigherPriority(doc[k].ID, n)
        PROVE  j \in a .. c - 1
    BY <1>1, <1>3, <2>2, <2>5
  <2> QED BY <2>1, <2>3, <2>4, <2>5
<1>5. Cardinality(a .. c - 1) = c - a
  <2>1. a \in Int /\ c - 1 \in Int
    BY <1>3
  <2>2. Cardinality(a .. c - 1) = IF a > c - 1 THEN 0 ELSE (c - 1) - a + 1
    BY <2>1, FS_Interval
  <2> QED BY <1>3, <2>2
<1>6. IndexOf(doc, call[s].op.anchorID) = a - 1
  <2>1. a \in 1 .. Len(q)
    BY <1>1, <1>3
  <2> QED BY <1>1, <1>2, <2>1
<1> QED BY <1>3, <1>4, <1>5, <1>6 DEF Cursor, doc, n

LEMMA SpliceInserts ==
    ASSUME OrderInv, NEW s \in Sites, Splice(s)
    PROVE  LET op == call[s].op
           IN  AsDocument(nodes'[s]) = Insert(AsDocument(nodes[s]), op.id, op.anchorID, op.id)
<1> DEFINE doc == AsDocument(nodes[s])
           op == call[s].op
           n == op.id
           new == [ID |-> n, Char |-> n, IsDeleted |-> FALSE]
<1>1. PICK after : Splices(s, after)
  BY SpliceDoes DEF OrderInv
<1>2. PICK q, a, c : At(q, s, a, c)
  BY SplicesAt
<1>3. /\ Order(q, nodes[s], tail[s]) /\ c \in 1 .. Len(q) /\ a \in 1 .. c /\ q \in Seq(OpID)
      /\ q[c] = call[s].cursor /\ q[a] = op.anchorID
  BY <1>2 DEF At, Order
<1>4. /\ n \in OpID /\ n \notin DOMAIN nodes[s] /\ n # Nil
      /\ LinkedIn(after, nodes[s], q[c], n) /\ nodes'[s] = after
  BY <1>1, <1>3 DEF Splices, OrderInv, ListInv, ListTypeOK
<1>5. /\ doc \in Seq(Node(OpID)) /\ Len(doc) = Len(q) - 1
      /\ \A id : Known(doc, id) <=> id \in DOMAIN nodes[s]
      /\ \A i \in 1 .. Len(q) - 1 :
            doc[i] = [ID |-> q[i + 1], Char |-> q[i + 1], IsDeleted |-> nodes[s][q[i + 1]].IsDeleted]
  <2>1. doc = [i \in 1 .. Len(q) - 1 |->
                 [ID |-> q[i + 1], Char |-> q[i + 1], IsDeleted |-> nodes[s][q[i + 1]].IsDeleted]]
    <3>1. Order(q, nodes[s], tail[s])
      BY <1>3
    <3> QED BY <3>1, DocumentOf
  <2>2. /\ doc \in Seq(Node(OpID)) /\ Len(doc) = Len(q) - 1
        /\ \A id : Known(doc, id) <=> id \in DOMAIN nodes[s]
    BY <1>3, PlacesOf, OneSite
  <2> HIDE DEF doc
  <2> QED BY <2>1, <2>2
<1>6. Cursor(doc, op.anchorID, n) = c - 1
  BY <1>2, CursorIsCounted
<1>7. ~Known(doc, n) /\ Known(doc, op.anchorID)
  <2>1. op.anchorID \in DOMAIN nodes[s]
    BY <1>3 DEF Order
  <2> HIDE DEF doc, n
  <2> QED BY <1>4, <1>5, <2>1
<1>8. Insert(doc, n, op.anchorID, n) = SpliceAfter(doc, c - 1, new)
  <2> HIDE DEF doc, n
  <2> QED BY <1>6, <1>7 DEF Insert
<1>9. new \in Node(OpID) /\ c - 1 \in 0 .. Len(doc)
  BY <1>3, <1>4, <1>5 DEF Node
<1>10. SpliceAfter(doc, c - 1, new) \in Seq(Node(OpID)) /\ Spliced(SpliceAfter(doc, c - 1, new), doc, c - 1, new)
  <2> HIDE DEF doc, new
  <2> QED BY <1>5, <1>9, SpliceAfterProperties
<1> DEFINE r == Behind(q, c, n)
           into == SpliceAfter(doc, c - 1, new)
<1>11. \E end : Order(r, after, end)
  <2> HIDE DEF n, r
  <2> QED BY <1>3, <1>4, OrderGrows DEF r
<1>12. /\ Len(r) = Len(q) + 1 /\ Len(q) \in Nat
       /\ \A i \in 1 .. c : r[i] = q[i]
       /\ r[c + 1] = n
       /\ \A i \in c + 1 .. Len(q) : r[i + 1] = q[i]
  <2> HIDE DEF n, r
  <2> QED BY <1>3, <1>4, BehindType DEF r
<1>13. AsDocument(after) =
          [i \in 1 .. Len(q) |->
              [ID |-> r[i + 1], Char |-> r[i + 1], IsDeleted |-> after[r[i + 1]].IsDeleted]]
  <2> HIDE DEF r
  <2>1. Len(r) - 1 = Len(q)
    BY <1>12
  <2> QED BY <1>11, <2>1, DocumentOf
<1>14. /\ after[n].IsDeleted = FALSE
       /\ \A id \in DOMAIN nodes[s] : after[id].IsDeleted = nodes[s][id].IsDeleted
  BY <1>4 DEF LinkedIn
<1>15. /\ Len(into) = Len(q) /\ into \in Seq(Node(OpID))
       /\ \A i \in 1 .. Len(q) :
             into[i] = IF i <= c - 1 THEN doc[i] ELSE IF i = c THEN new ELSE doc[i - 1]
  <2>1. Len(doc) + 1 = Len(q) /\ (c - 1) + 1 = c
    BY <1>3, <1>5, <1>12
  <2> HIDE DEF doc, n, new, r
  <2> QED BY <1>10, <2>1 DEF Spliced
<1> HIDE DEF doc, n, new, r, into
<1>16. ASSUME NEW i \in 1 .. Len(q)
       PROVE  into[i] = [ID |-> r[i + 1], Char |-> r[i + 1], IsDeleted |-> after[r[i + 1]].IsDeleted]
  <2>1. CASE i <= c - 1
    <3>1. i \in 1 .. Len(q) - 1 /\ i + 1 \in 1 .. c /\ i + 1 \in 1 .. Len(q)
      BY <1>3, <1>12, <2>1
    <3>2. r[i + 1] = q[i + 1] /\ q[i + 1] \in DOMAIN nodes[s]
      BY <1>3, <1>12, <3>1 DEF Order
    <3> QED BY <1>5, <1>14, <1>15, <2>1, <3>1, <3>2
  <2>2. CASE i = c
    <3>1. ~(i <= c - 1)
      BY <1>3, <2>2
    <3>2. into[i] = new /\ r[i + 1] = n
      BY <1>12, <1>15, <2>2, <3>1
    <3> QED BY <1>14, <3>2 DEF new
  <2>3. CASE i > c
    <3>1. i - 1 \in 1 .. Len(q) - 1 /\ (i - 1) + 1 = i /\ i \in c + 1 .. Len(q)
          /\ ~(i <= c - 1) /\ i # c
      BY <1>3, <1>12, <2>3
    <3>2. r[i + 1] = q[i] /\ q[i] \in DOMAIN nodes[s]
      BY <1>3, <1>12, <3>1 DEF Order
    <3>3. into[i] = doc[i - 1]
      BY <1>15, <3>1
    <3>4. doc[i - 1] = [ID |-> q[i], Char |-> q[i], IsDeleted |-> nodes[s][q[i]].IsDeleted]
      BY <1>5, <3>1
    <3>5. after[q[i]].IsDeleted = nodes[s][q[i]].IsDeleted
      BY <1>14, <3>2
    <3> QED BY <3>2, <3>3, <3>4, <3>5
  <2> QED BY <1>3, <2>1, <2>2, <2>3
<1>17. into = [i \in 1 .. Len(q) |-> into[i]]
  BY <1>12, <1>15
<1>18. into = AsDocument(after)
  BY <1>13, <1>16, <1>17
<1> QED BY <1>4, <1>8, <1>18 DEF into, new, n, doc

LEMMA DeleteDeletes ==
    ASSUME OrderInv, NEW s \in Sites, NEW op \in ListOp, DeleteNode(s, op),
           op.id \in DOMAIN nodes[s], OrderInv'
    PROVE  AsDocument(nodes'[s]) = Delete(AsDocument(nodes[s]), op.id)
<1>1. PICK q : Order(q, nodes[s], tail[s])
  <2>1. InOrder(s)
    BY DEF OrderInv
  <2> QED BY <2>1 DEF InOrder
<1>2. Marked(s, s, op.id)
  BY DeleteMarks
<1>3. Order(q, nodes'[s], tail[s])
  <2>1. \A i \in 1 .. Len(q) : /\ nodes'[s][q[i]].Next = nodes[s][q[i]].Next
                               /\ nodes'[s][q[i]].Prev = nodes[s][q[i]].Prev
    BY <1>1, <1>2 DEF Order, Marked
  <2>2. DOMAIN nodes'[s] = DOMAIN nodes[s]
    BY <1>2 DEF Marked
  <2> QED BY <1>1, <2>1, <2>2 DEF Order
<1>4. /\ Nodes(nodes[s]) /\ Nodes(nodes'[s]) /\ Len(q) \in Nat
      /\ \A i \in 1 .. Len(q) - 1 : i + 1 \in 1 .. Len(q) /\ q[i + 1] \in DOMAIN nodes[s]
  <2>1. Len(q) \in Nat /\ \A i \in 1 .. Len(q) - 1 : i + 1 \in 1 .. Len(q)
    BY <1>1 DEF Order
  <2>2. Nodes(nodes[s]) /\ Nodes(nodes'[s])
    BY OneSite DEF OrderInv, ListInv, ListTypeOK, Nodes
  <2> QED BY <1>1, <2>1, <2>2 DEF Order
<1>5. AsDocument(nodes[s]) =
          [i \in 1 .. Len(q) - 1 |->
              [ID |-> q[i + 1], Char |-> q[i + 1], IsDeleted |-> nodes[s][q[i + 1]].IsDeleted]]
  BY <1>1, DocumentOf
<1>6. AsDocument(nodes'[s]) =
          [i \in 1 .. Len(q) - 1 |->
              [ID |-> q[i + 1], Char |-> q[i + 1], IsDeleted |-> nodes'[s][q[i + 1]].IsDeleted]]
  BY <1>3, DocumentOf
<1>7. ASSUME NEW i \in 1 .. Len(q) - 1
      PROVE  nodes'[s][q[i + 1]].IsDeleted =
                IF q[i + 1] = op.id THEN TRUE ELSE nodes[s][q[i + 1]].IsDeleted
  <2>1. /\ nodes'[s][q[i + 1]].IsDeleted \in BOOLEAN /\ nodes[s][q[i + 1]].IsDeleted \in BOOLEAN
    BY <1>2, <1>4 DEF Nodes, Marked, ListNode
  <2>2. nodes'[s][q[i + 1]].IsDeleted <=> nodes[s][q[i + 1]].IsDeleted \/ q[i + 1] = op.id
    BY <1>2, <1>4 DEF Marked
  <2> QED BY <2>1, <2>2
<1>8. Delete(AsDocument(nodes[s]), op.id) =
          [i \in 1 .. Len(q) - 1 |->
              [ID |-> q[i + 1], Char |-> q[i + 1],
               IsDeleted |-> IF q[i + 1] = op.id THEN TRUE ELSE nodes[s][q[i + 1]].IsDeleted]]
  <2> DEFINE doc == AsDocument(nodes[s])
  <2>1. DOMAIN doc = 1 .. Len(q) - 1
    BY <1>5
  <2>2. ASSUME NEW i \in 1 .. Len(q) - 1
        PROVE  (IF doc[i].ID = op.id THEN [doc[i] EXCEPT !.IsDeleted = TRUE] ELSE doc[i])
                  = [ID |-> q[i + 1], Char |-> q[i + 1],
                     IsDeleted |-> IF q[i + 1] = op.id THEN TRUE ELSE nodes[s][q[i + 1]].IsDeleted]
    <3>1. doc[i] = [ID |-> q[i + 1], Char |-> q[i + 1], IsDeleted |-> nodes[s][q[i + 1]].IsDeleted]
      BY <1>5
    <3>2. doc[i].ID = q[i + 1] /\ doc[i].Char = q[i + 1]
      BY <3>1
    <3>3. doc[i] \in Node(OpID)
      <4>1. q[i + 1] \in OpID /\ nodes[s][q[i + 1]].IsDeleted \in BOOLEAN
        BY <1>4 DEF Nodes, ListNode
      <4> HIDE DEF doc
      <4> QED BY <3>1, <4>1 DEF Node
    <3> HIDE DEF doc
    <3>4. CASE q[i + 1] = op.id
      <4>1. [doc[i] EXCEPT !.IsDeleted = TRUE]
               = [ID |-> doc[i].ID, Char |-> doc[i].Char, IsDeleted |-> TRUE]
        BY <3>3, MarkedNode
      <4> QED BY <3>2, <3>4, <4>1
    <3>5. CASE q[i + 1] # op.id
      BY <3>1, <3>2, <3>5
    <3> QED BY <3>4, <3>5
  <2> HIDE DEF doc
  <2> QED BY <2>1, <2>2 DEF Delete, doc
<1> QED BY <1>6, <1>7, <1>8

\* A call ends with the splice.
LEMMA CallEnds ==
    ASSUME OrderInv, [ListNext]_listVars, NEW s \in Sites, call[s] # NoCall, call'[s] = NoCall
    PROVE  Splice(s)
<1>1. call \in [Sites -> {NoCall} \cup [cursor : OpID, op : ListOp]]
  BY DEF OrderInv, ListInv, ListTypeOK
<1>2. ASSUME NEW t \in Sites, NEW op, BeginInsert(t, op) \/ DeleteNode(t, op) PROVE FALSE
  <2>1. CASE BeginInsert(t, op)
    <3>1. t # s /\ call'[s] = call[s]
      BY <1>1, <2>1 DEF BeginInsert
    <3> QED BY <3>1
  <2>2. CASE DeleteNode(t, op)
    BY <2>2 DEF DeleteNode
  <2> QED BY <1>2, <2>1, <2>2
<1>3. ASSUME NEW t \in Sites, Issue(t) \/ Deliver(t) PROVE FALSE
  BY <1>2, <1>3 DEF Issue, IssueInsert, IssueDelete, Deliver
<1>4. ASSUME NEW t \in Sites, Advance(t) PROVE FALSE
  <2>1. CASE t = s
    BY <1>4, <2>1, AdvanceGoesOn
  <2>2. CASE t # s
    BY <1>1, <1>4, <2>2 DEF Advance
  <2> QED BY <2>1, <2>2
<1>5. ASSUME NEW t \in Sites, Splice(t) PROVE t = s
  BY <1>1, <1>5 DEF Splice
<1>6. ~UNCHANGED listVars
  BY DEF listVars
<1> QED BY <1>3, <1>4, <1>5, <1>6 DEF ListNext

\* A deletion reaches a site that has the node.
LEMMA DeletionReaches ==
    ASSUME OrderInv, [ListNext]_listVars, NEW s \in Sites,
           NEW op \in applied'[s] \ applied[s], op.type = "delete"
    PROVE  op \in ListOp /\ DeleteNode(s, op) /\ op.id \in DOMAIN nodes[s]
<1>1. applied \in [Sites -> SUBSET issued] /\ issued \subseteq ListOp
  BY DEF OrderInv, ListInv, ListTypeOK
<1>2. ASSUME NEW t \in Sites, NEW o, BeginInsert(t, o) \/ DeleteNode(t, o)
      PROVE  t = s /\ o = op /\ DeleteNode(s, op)
  <2>1. applied' = [applied EXCEPT ![t] = @ \cup {o}]
    BY <1>2 DEF BeginInsert, DeleteNode
  <2>2. t = s /\ o = op
    BY <1>1, <2>1
  <2>3. ~BeginInsert(t, o)
    BY <2>2 DEF BeginInsert
  <2> QED BY <1>2, <2>2, <2>3
<1>3. ASSUME NEW t \in Sites, IssueInsert(t) \/ IssueDelete(t)
      PROVE  op \in ListOp /\ DeleteNode(s, op) /\ op.id \in DOMAIN nodes[s]
  <2>1. CASE IssueInsert(t)
    <3>1. PICK o : BeginInsert(t, o)
      BY <2>1 DEF IssueInsert
    <3>2. o = op /\ o.type = "insert"
      BY <1>2, <3>1 DEF BeginInsert
    <3> QED BY <3>2
  <2>2. CASE IssueDelete(t)
    <3>1. PICK id \in DOMAIN nodes[t] : DeleteNode(t, [type |-> "delete", id |-> id])
      BY <2>2 DEF IssueDelete
    <3>2. t = s /\ [type |-> "delete", id |-> id] = op /\ DeleteNode(s, op)
      BY <1>2, <3>1
    <3>3. op.id = id /\ id \in OpID /\ id \in DOMAIN nodes[s]
      BY <3>1, <3>2, OneSite DEF Nodes
    <3> QED BY <3>2, <3>3 DEF ListOp
  <2> QED BY <1>3, <2>1, <2>2
<1>4. ASSUME NEW t \in Sites, Deliver(t)
      PROVE  op \in ListOp /\ DeleteNode(s, op) /\ op.id \in DOMAIN nodes[s]
  <2>1. PICK o \in issued : findNode(t, Named(o)) /\ (BeginInsert(t, o) \/ DeleteNode(t, o))
    BY <1>4 DEF Deliver
  <2>2. t = s /\ o = op /\ DeleteNode(s, op)
    BY <1>2, <2>1
  <2> QED BY <1>1, <2>1, <2>2 DEF findNode, Named
<1>5. ASSUME NEW t \in Sites, Advance(t) \/ Splice(t) PROVE FALSE
  BY <1>5 DEF Advance, Splice
<1>6. ~UNCHANGED listVars
  BY DEF listVars
<1> QED BY <1>3, <1>4, <1>5, <1>6 DEF ListNext, Issue

\* The pointer surgery of Insert and the walk to its place do to the text what the
\* operators of Document do to a sequence, and so does Delete.
THEOREM ListImplementsDocument == ListSpec => ImplementsDocument
<1> DEFINE Steps ==
      \A s \in Sites :
        LET before == AsDocument(nodes[s])
            after == AsDocument(nodes'[s])
        IN  /\ call[s] # NoCall /\ call'[s] = NoCall =>
                 LET op == call[s].op
                 IN  after = Insert(before, op.id, op.anchorID, op.id)
            /\ \A op \in applied'[s] \ applied[s] :
                 op.type = "delete" => after = Delete(before, op.id)
<1>1. OrderInv /\ OrderInv' /\ [ListNext]_listVars => [Steps]_listVars
  <2> SUFFICES ASSUME OrderInv, OrderInv', [ListNext]_listVars, NEW s \in Sites
               PROVE  LET before == AsDocument(nodes[s])
                          after == AsDocument(nodes'[s])
                      IN  /\ call[s] # NoCall /\ call'[s] = NoCall =>
                               LET op == call[s].op
                               IN  after = Insert(before, op.id, op.anchorID, op.id)
                          /\ \A op \in applied'[s] \ applied[s] :
                               op.type = "delete" => after = Delete(before, op.id)
    OBVIOUS
  <2>1. ASSUME call[s] # NoCall, call'[s] = NoCall
        PROVE  AsDocument(nodes'[s]) =
                  Insert(AsDocument(nodes[s]), call[s].op.id, call[s].op.anchorID, call[s].op.id)
    BY <2>1, CallEnds, SpliceInserts
  <2>2. ASSUME NEW op \in applied'[s] \ applied[s], op.type = "delete"
        PROVE  AsDocument(nodes'[s]) = Delete(AsDocument(nodes[s]), op.id)
    BY <2>2, DeletionReaches, DeleteDeletes
  <2> QED BY <2>1, <2>2
<1> HIDE DEF Steps
<1>2. ListSpec => [][Steps]_listVars
  BY <1>1, OrderInvCorrect, PTL DEF ListSpec
<1> QED BY <1>2 DEF ImplementsDocument, Steps
=============================================================================
