---------------------------- MODULE DocumentList ----------------------------
(***************************************************************************)
(* internal/crdt/document.go as it is built: a doubly linked list of nodes *)
(* found by their OpID, one list at each of several sites that exchange    *)
(* their operations in whatever order, as document_test.go has them.       *)
(*                                                                         *)
(* A method holds Document.Mu throughout, but the loop of Insert is taken  *)
(* step by step.  A node's character is its OpID: convergence is about     *)
(* which nodes are where.                                                  *)
(***************************************************************************)
EXTENDS Integers, Sequences, FiniteSets, Document

CONSTANTS
    Sites,      \* the ranks of the sites, each with a document of its own
    MaxOps,     \* bound: operations issued
    MaxDeletes  \* bound: how many of them are deletions

ASSUME ListAssumption ==
    /\ Sites \subseteq Nat \ {RootSite}
    /\ MaxOps \in Nat /\ MaxDeletes \in Nat

\* A nil pointer.
Nil == [clock |-> -1, site |-> RootSite]

NoCall == [cursor |-> Nil]

VARIABLES
    nodes,      \* Document.Map, with the fields of the nodes, at every site
    tail,       \* Document.Tail, at every site
    call,       \* the Insert that holds Document.Mu at a site, if any
    issued,     \* the operations issued by all sites
    applied     \* the operations that reached a site

listVars == <<nodes, tail, call, issued, applied>>

ListNode == [IsDeleted : BOOLEAN, Next : OpID, Prev : OpID]

ListOp == [type : {"insert"}, id : OpID, anchorID : OpID]
            \cup [type : {"delete"}, id : OpID]

ListTypeOK ==
    /\ DOMAIN nodes = Sites
    /\ \A s \in Sites :
        /\ DOMAIN nodes[s] \subseteq OpID
        /\ \A id \in DOMAIN nodes[s] : nodes[s][id] \in ListNode
    /\ tail \in [Sites -> OpID]
    /\ call \in [Sites -> {NoCall} \cup [cursor : OpID, op : ListOp]]
    /\ \A s \in Sites : call[s] # NoCall =>
          call[s].cursor \in DOMAIN nodes[s] /\ call[s].op.id \notin DOMAIN nodes[s]
    /\ issued \subseteq ListOp
    /\ applied \in [Sites -> SUBSET issued]

\* NewDocument.
ListInit ==
    /\ nodes = [s \in Sites |->
            [id \in {RootID} |-> [IsDeleted |-> TRUE, Next |-> Nil, Prev |-> Nil]]]
    /\ tail = [s \in Sites |-> RootID]
    /\ call = [s \in Sites |-> NoCall]
    /\ issued = {}
    /\ applied = [s \in Sites |-> {}]

-----------------------------------------------------------------------------

findNode(s, id) == id \in DOMAIN nodes[s]

\* Bug variant: an insertion that was applied is applied again.
RefusedOrphan(s, op) == ~findNode(s, op.anchorID)

Refused(s, op) == findNode(s, op.id) \/ ~findNode(s, op.anchorID)

\* Insert up to its loop.  Its two early returns leave the list as it is.
BeginInsert(s, op) ==
    /\ call[s] = NoCall
    /\ op.type = "insert"
    /\ applied' = [applied EXCEPT ![s] = @ \cup {op}]
    /\ IF Refused(s, op)
       THEN UNCHANGED call
       ELSE call' = [call EXCEPT ![s] = [cursor |-> op.anchorID, op |-> op]]
    /\ UNCHANGED <<nodes, tail>>

\* Bug variant: only clocks are compared.
PassesByClock(s) == nodes[s][call[s].cursor].Next.clock > call[s].op.id.clock

\* The condition of the loop.
Passes(s) ==
    LET next == nodes[s][call[s].cursor].Next
    IN  next # Nil /\ isHigherPriority(next, call[s].op.id)

Advance(s) ==
    /\ call[s] # NoCall
    /\ Passes(s)
    /\ call' = [call EXCEPT ![s].cursor = nodes[s][@].Next]
    /\ UNCHANGED <<nodes, tail, issued, applied>>

\* Bug variant: the next node keeps its Prev.
OneWay(list, next, newID) == list

Backlinked(list, next, newID) == [list EXCEPT ![next].Prev = newID]

\* registerNode: the Map with a new node.
Registered(list, newID, newNode) ==
    [id \in DOMAIN list \cup {newID} |-> IF id = newID THEN newNode ELSE list[id]]

\* The splice behind the cursor.
Splice(s) ==
    /\ call[s] # NoCall
    /\ ~Passes(s)
    /\ LET cursor == call[s].cursor
           newID == call[s].op.id
           next == nodes[s][cursor].Next
           newNode == [IsDeleted |-> FALSE, Next |-> next, Prev |-> cursor]
           relinked == [nodes[s] EXCEPT ![cursor].Next = newID]
       IN  IF next # Nil
           THEN /\ nodes' = [nodes EXCEPT ![s] =
                        Registered(Backlinked(relinked, next, newID), newID, newNode)]
                /\ UNCHANGED tail
           ELSE /\ nodes' = [nodes EXCEPT ![s] = Registered(relinked, newID, newNode)]
                /\ tail' = [tail EXCEPT ![s] = newID]
    /\ call' = [call EXCEPT ![s] = NoCall]
    /\ UNCHANGED <<issued, applied>>

DeleteNode(s, op) ==
    /\ call[s] = NoCall
    /\ op.type = "delete"
    /\ applied' = [applied EXCEPT ![s] = @ \cup {op}]
    /\ nodes' = IF findNode(s, op.id)
                THEN [nodes EXCEPT ![s][op.id].IsDeleted = TRUE]
                ELSE nodes
    /\ UNCHANGED <<tail, call>>

-----------------------------------------------------------------------------
(***************************************************************************)
(* The sites.  A site numbers what it issues above all it has, as applyOp  *)
(* and Lamport's clocks do, and an operation travels behind the one that   *)
(* made the node it names.  It may come twice.                             *)
(***************************************************************************)

IsNextClock(s, n) ==
    /\ \A id \in DOMAIN nodes[s] : id.clock < n
    /\ \E id \in DOMAIN nodes[s] : id.clock = n - 1

IssueInsert(s) ==
    \E anchorID \in DOMAIN nodes[s], n \in 1 .. MaxOps :
        LET op == [type |-> "insert", anchorID |-> anchorID, id |-> [clock |-> n, site |-> s]]
        IN  IsNextClock(s, n) /\ BeginInsert(s, op) /\ issued' = issued \cup {op}

Deletions == {op \in issued : op.type = "delete"}

IssueDelete(s) ==
    /\ Cardinality(Deletions) < MaxDeletes
    /\ \E id \in DOMAIN nodes[s] :
        /\ ~nodes[s][id].IsDeleted
        /\ LET op == [type |-> "delete", id |-> id]
           IN  DeleteNode(s, op) /\ issued' = issued \cup {op}

Issue(s) == Cardinality(issued) < MaxOps /\ (IssueInsert(s) \/ IssueDelete(s))

Named(op) == IF op.type = "insert" THEN op.anchorID ELSE op.id

Deliver(s) ==
    /\ \E op \in issued :
        /\ findNode(s, Named(op))
        /\ BeginInsert(s, op) \/ DeleteNode(s, op)
    /\ UNCHANGED issued

ListNext ==
    \E s \in Sites : Issue(s) \/ Deliver(s) \/ Advance(s) \/ Splice(s)

ListSpec == ListInit /\ [][ListNext]_listVars

-----------------------------------------------------------------------------
(***************************************************************************)
(* The list as a Document.                                                 *)
(***************************************************************************)

\* The nodes of a list behind its root, in the order of their Next pointers.
Walk(list) ==
    LET n == Cardinality(DOMAIN list) - 1
        path[i \in 0 .. n] ==
            IF i = 0 THEN RootID
            ELSE IF path[i - 1] = Nil THEN Nil ELSE list[path[i - 1]].Next
    IN  [i \in 1 .. n |-> path[i]]

AsDocument(list) ==
    LET order == Walk(list)
    IN  [i \in DOMAIN order |->
            [ID |-> order[i], Char |-> order[i], IsDeleted |-> list[order[i]].IsDeleted]]

\* The Next pointers lead from the root through every node to Tail, and the
\* Prev pointers lead back.
LinksConsistent ==
    \A s \in Sites :
        LET list == nodes[s]
            order == <<RootID>> \o Walk(list)
        IN  /\ {order[i] : i \in DOMAIN order} = DOMAIN list
            /\ tail[s] = order[Len(order)]
            /\ list[tail[s]].Next = Nil
            /\ list[RootID].Prev = Nil
            /\ \A i \in 2 .. Len(order) : list[order[i]].Prev = order[i - 1]

\* Seen from every node alone: its neighbours know it, and only the root has nothing
\* before it and only Tail nothing behind it.
Agree(list, end) ==
    /\ RootID \in DOMAIN list /\ end \in DOMAIN list /\ Nil \notin DOMAIN list
    /\ \A id \in DOMAIN list :
        /\ IF id = end THEN list[id].Next = Nil
           ELSE list[id].Next \in DOMAIN list /\ list[list[id].Next].Prev = id
        /\ IF id = RootID THEN list[id].Prev = Nil
           ELSE list[id].Prev \in DOMAIN list /\ list[list[id].Prev].Next = id

LinksAgree == \A s \in Sites : Agree(nodes[s], tail[s])

\* What a finished call did to the list is what Insert and Delete of Document
\* do to its sequence of nodes.
ImplementsDocument ==
    [][\A s \in Sites :
        LET before == AsDocument(nodes[s])
            after == AsDocument(nodes'[s])
        IN  /\ call[s] # NoCall /\ call'[s] = NoCall =>
                 LET op == call[s].op
                 IN  after = Insert(before, op.id, op.anchorID, op.id)
            /\ \A op \in applied'[s] \ applied[s] :
                 op.type = "delete" => after = Delete(before, op.id)]_listVars

\* Sites that got the same operations, in whatever order, have the same nodes
\* in the same order and the same ones deleted.
Converged ==
    \A s, t \in Sites :
        applied[s] = applied[t] /\ call[s] = NoCall /\ call[t] = NoCall
            => AsDocument(nodes[s]) = AsDocument(nodes[t])
=============================================================================
