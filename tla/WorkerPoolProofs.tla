-------------------------- MODULE WorkerPoolProofs --------------------------
(***************************************************************************)
(* Proofs about WorkerPool, for any handlers, workers, rooms and channel   *)
(* capacity, and however many operations are on their way.                 *)
(***************************************************************************)
EXTENDS WorkerPool, FiniteSetTheorems, SequenceTheorems, TLAPS

\* Nobody holds a lock or a job at the start.
LEMMA PoolTypeInit == ASSUME PoolInit PROVE PoolTypeOK
<1>1. /\ jobs \in Seq(Rooms) /\ Len(jobs) <= JobBuf /\ closed \in BOOLEAN
      /\ main \in {"serving", "stopping", "stopped"} /\ backlog \in Int
  <2>1. << >> \in Seq(Rooms) /\ Len(<< >>) = 0
    OBVIOUS
  <2>2. 0 <= JobBuf
    BY PoolAssumption
  <2>3. closed \in BOOLEAN /\ main = "serving" /\ backlog = 0 /\ jobs = << >>
    BY DEF PoolInit
  <2> QED BY <2>1, <2>2, <2>3
<1>2. \A h \in Handlers : hpc[h] = "reading" /\ lock[RoomOf[h]] # h
  BY PoolAssumption DEF PoolInit
<1>3. \A w \in Workers : wpc[w] # "reporting" /\ job[w] = NoJob
  BY DEF PoolInit
<1>4. /\ hpc \in [Handlers -> {"reading", "locked", "panicked"}]
      /\ todo \in [Handlers -> Nat]
      /\ lock \in [Rooms -> Handlers \cup {NoOne}]
      /\ wpc \in [Workers -> {"receiving", "reporting", "done"}]
      /\ job \in [Workers -> Rooms \cup {NoJob}]
  BY DEF PoolInit
<1> QED BY <1>1, <1>2, <1>3, <1>4 DEF PoolTypeOK

\* Every step keeps the types, and who holds what.
LEMMA PoolTypeNext ==
    ASSUME PoolTypeOK, [PoolNext]_poolVars
    PROVE  PoolTypeOK'
<1> USE PoolAssumption DEF PoolTypeOK
<1>1. ASSUME NEW h \in Handlers, Lock(h) PROVE PoolTypeOK'
  BY <1>1 DEF Lock
<1>2. ASSUME NEW h \in Handlers, Submit(h) PROVE PoolTypeOK'
  <2>1. Append(jobs, RoomOf[h]) \in Seq(Rooms) /\ Len(Append(jobs, RoomOf[h])) <= JobBuf
    BY <1>2 DEF Submit, HasSpace
  <2> QED BY <1>2, <2>1 DEF Submit
<1>3. ASSUME NEW h \in Handlers, SubmitPanics(h) PROVE PoolTypeOK'
  BY <1>3 DEF SubmitPanics
<1>4. ASSUME NEW h \in Handlers, Unlock(h) PROVE PoolTypeOK'
  BY <1>4 DEF Unlock
<1>5. ASSUME NEW w \in Workers, Take(w) PROVE PoolTypeOK'
  <2>1. Head(jobs) \in Rooms /\ Tail(jobs) \in Seq(Rooms) /\ Len(Tail(jobs)) <= JobBuf
    BY <1>5, HeadTailProperties DEF Take
  <2> QED BY <1>5, <2>1 DEF Take, Received
<1>6. ASSUME NEW w \in Workers, Report(w) PROVE PoolTypeOK'
  BY SMTT(30), <1>6 DEF Report
<1>7. ASSUME NEW w \in Workers, Finish(w) PROVE PoolTypeOK'
  BY <1>7 DEF Finish
<1>8. CASE Close \/ Wait
  BY ZenonT(40), <1>8 DEF Close, Wait
<1>9. CASE UNCHANGED poolVars
  BY <1>9 DEF poolVars
<1> QED BY <1>1, <1>2, <1>3, <1>4, <1>5, <1>6, <1>7, <1>8, <1>9
        DEF PoolNext, HandlerStep, WorkerStep

\* Types, and who holds what: a handler that is not reading holds the mutex of
\* its own room and nobody else does, and a worker has a job only to report it.
THEOREM PoolTypeCorrect == PoolSpec => []PoolTypeOK
BY PoolTypeInit, PoolTypeNext, PTL DEF PoolSpec

-----------------------------------------------------------------------------

\* A worker ends only when jobs is closed and drained, which it then stays, and
\* Stop returns only when every worker has ended.
Ending ==
    /\ \A w \in Workers : wpc[w] = "done" => closed /\ jobs = << >>
    /\ main = "stopped" => \A w \in Workers : wpc[w] = "done"

\* No worker has ended at the start.
LEMMA EndingInit == ASSUME PoolInit PROVE Ending
BY DEF PoolInit, Ending

\* Once jobs is closed nothing is put into it.
LEMMA EndingNext ==
    ASSUME PoolTypeOK, Ending, [PoolNext]_poolVars
    PROVE  Ending'
<1> USE DEF PoolTypeOK, Ending
<1>1. ASSUME NEW h \in Handlers, Lock(h) PROVE Ending'
  BY <1>1 DEF Lock
<1>2. ASSUME NEW h \in Handlers, HandlerStep(h) PROVE Ending'
  BY <1>2 DEF HandlerStep, Submit, SubmitPanics, Unlock
<1>3. ASSUME NEW w \in Workers, Take(w) PROVE Ending'
  <2>1. \A v \in Workers : wpc'[v] # "done" /\ wpc[v] # "done"
    BY <1>3 DEF Take
  <2> QED BY <1>3, <2>1 DEF Take
<1>4. ASSUME NEW w \in Workers, Report(w) PROVE Ending'
  BY <1>4 DEF Report
<1>5. ASSUME NEW w \in Workers, Finish(w) PROVE Ending'
  BY <1>5 DEF Finish, Drained
<1>6. CASE Close \/ Wait
  BY <1>6 DEF Close, Wait, AllDone
<1>7. CASE UNCHANGED poolVars
  BY <1>7 DEF poolVars
<1> QED BY <1>1, <1>2, <1>3, <1>4, <1>5, <1>6, <1>7 DEF PoolNext, WorkerStep

\* There is a worker, so jobs is empty when all have ended.
LEMMA EndingDrains == ASSUME Ending PROVE StopDrains
<1>1. PICK w \in Workers : TRUE
  BY PoolAssumption
<1> QED BY <1>1 DEF Ending, StopDrains

\* When Stop has returned, nothing is left in jobs and no worker is reporting:
\* every job that Submit put into the channel was reported to its room.
THEOREM StopHasDrained == PoolSpec => []StopDrains
BY PoolTypeCorrect, EndingInit, EndingNext, EndingDrains, PTL DEF PoolSpec

-----------------------------------------------------------------------------
(***************************************************************************)
(* A jam takes more operations than the channel and the workers can hold.  *)
(***************************************************************************)

\* The operations that a handler has still to submit, numbered.
Pending == {p \in Handlers \X Nat : p[2] \in 1 .. todo[p[1]]}

Reporting == {w \in Workers : wpc[w] = "reporting"}

\* Every operation that was received and not reported is with a handler, in the
\* channel or with a worker.
Accounted ==
    /\ IsFiniteSet(Pending)
    /\ Cardinality(Pending) + Len(jobs) + Cardinality(Reporting) = backlog
    /\ backlog <= MaxBacklog
    /\ \A h \in Handlers : hpc[h] = "reading" => todo[h] = 0

LEMMA AccountedInit == ASSUME PoolInit PROVE Accounted
<1>1. Pending = {} /\ Reporting = {}
  BY DEF PoolInit, Pending, Reporting
<1>2. IsFiniteSet({}) /\ Cardinality({}) = 0 /\ Len(<< >>) = 0
  BY FS_EmptySet
<1> QED BY <1>1, <1>2, PoolAssumption DEF PoolInit, Accounted

\* n operations of one handler are n.
LEMMA MessageCardinality ==
    ASSUME NEW h, NEW n \in Nat
    PROVE  IsFiniteSet({h} \X (1 .. n)) /\ Cardinality({h} \X (1 .. n)) = n
<1> DEFINE f == [i \in 1 .. n |-> <<h, i>>]
<1>1. f \in Bijection(1 .. n, {h} \X (1 .. n))
  <2>1. f \in [1 .. n -> {h} \X (1 .. n)]
    OBVIOUS
  <2>2. \A i, j \in 1 .. n : f[i] = f[j] => i = j
    OBVIOUS
  <2>3. \A p \in {h} \X (1 .. n) : \E i \in 1 .. n : f[i] = p
    OBVIOUS
  <2> HIDE DEF f
  <2>4. f \in Injection(1 .. n, {h} \X (1 .. n))
    BY <2>1, <2>2 DEF Injection, IsInjective
  <2>5. f \in Surjection(1 .. n, {h} \X (1 .. n))
    BY <2>1, <2>3 DEF Surjection
  <2> QED BY <2>4, <2>5 DEF Bijection
<1>2. ExistsBijection(1 .. n, {h} \X (1 .. n))
  BY <1>1 DEF ExistsBijection
<1>3. IsFiniteSet(1 .. n) /\ Cardinality(1 .. n) = n
  BY FS_Interval
<1> QED BY <1>2, <1>3, FS_Bijection

LEMMA AccountedNext ==
    ASSUME PoolTypeOK, Accounted, IsFiniteSet(Workers), [PoolNext]_poolVars
    PROVE  Accounted'
<1>0. /\ IsFiniteSet(Pending) /\ Cardinality(Pending) \in Nat
      /\ IsFiniteSet(Reporting) /\ Cardinality(Reporting) \in Nat
      /\ jobs \in Seq(Rooms) /\ Len(jobs) \in Nat
      /\ backlog \in Int /\ MaxBacklog \in Nat
      /\ todo \in [Handlers -> Nat]
  <2>1. Reporting \subseteq Workers
    BY DEF Reporting
  <2>2. IsFiniteSet(Reporting)
    BY <2>1, FS_Subset
  <2> QED BY <2>2, FS_CardinalityType, PoolAssumption DEF Accounted, PoolTypeOK
<1>1. ASSUME NEW h \in Handlers, Lock(h) PROVE Accounted'
  <2>1. PICK n \in Sizes : /\ backlog + n <= MaxBacklog /\ backlog' = backlog + n
                           /\ todo' = [todo EXCEPT ![h] = n]
    BY <1>1 DEF Lock
  <2>2. /\ hpc[h] = "reading" /\ hpc' = [hpc EXCEPT ![h] = "locked"]
        /\ UNCHANGED <<jobs, wpc>> /\ n \in Nat
    BY <1>1, PoolAssumption DEF Lock
  <2>3. todo[h] = 0
    BY <2>2 DEF Accounted
  <2> DEFINE M == {h} \X (1 .. n)
  <2>4. Pending' = Pending \cup M /\ Pending \cap M = {}
    BY <1>0, <2>1, <2>2, <2>3 DEF Pending
  <2>5. IsFiniteSet(M) /\ Cardinality(M) = n
    BY <2>2, MessageCardinality
  <2> HIDE DEF M
  <2>6. IsFiniteSet(Pending') /\ Cardinality(Pending') = Cardinality(Pending) + n
    <3>1. /\ IsFiniteSet(Pending \cup M)
          /\ Cardinality(Pending \cup M)
               = Cardinality(Pending) + Cardinality(M) - Cardinality(Pending \cap M)
      BY <1>0, <2>5, FS_Union
    <3>2. Cardinality(Pending \cap M) = 0
      BY <2>4, FS_EmptySet
    <3> QED BY <1>0, <2>2, <2>4, <2>5, <3>1, <3>2
  <2>7. Reporting' = Reporting /\ jobs' = jobs
    BY <2>2 DEF Reporting
  <2>8. \A g \in Handlers : hpc'[g] = "reading" => todo'[g] = 0
    BY <1>0, <2>1, <2>2 DEF Accounted, PoolTypeOK
  <2>9. Cardinality(Pending) + Len(jobs) + Cardinality(Reporting) = backlog
    BY DEF Accounted
  <2>10. Cardinality(Pending') + Len(jobs') + Cardinality(Reporting') = backlog'
    <3>1. Cardinality(Reporting') = Cardinality(Reporting) /\ Len(jobs') = Len(jobs)
      BY <2>7
    <3>2. /\ Cardinality(Pending) \in Nat /\ Cardinality(Reporting) \in Nat
          /\ Len(jobs) \in Nat /\ n \in Nat /\ backlog' = backlog + n
          /\ Cardinality(Pending') = Cardinality(Pending) + n
      BY <1>0, <2>1, <2>2, <2>6
    <3> QED BY <2>9, <3>1, <3>2
  <2>11. backlog' <= MaxBacklog
    BY <2>1
  <2> QED BY <2>6, <2>8, <2>10, <2>11 DEF Accounted
<1>2. ASSUME NEW h \in Handlers, Submit(h) PROVE Accounted'
  <2>1. /\ todo[h] > 0 /\ todo' = [todo EXCEPT ![h] = @ - 1] /\ hpc[h] = "locked"
        /\ jobs' = Append(jobs, RoomOf[h]) /\ UNCHANGED <<hpc, wpc, backlog>>
    BY <1>2 DEF Submit
  <2> DEFINE p == <<h, todo[h]>>
  <2>2. Pending' = Pending \ {p} /\ p \in Pending
    BY <1>0, <2>1 DEF Pending
  <2> HIDE DEF p
  <2>3. IsFiniteSet(Pending') /\ Cardinality(Pending') = Cardinality(Pending) - 1
    BY <1>0, <2>2, FS_RemoveElement
  <2>4. Len(jobs') = Len(jobs) + 1 /\ Reporting' = Reporting
    BY <1>0, <2>1 DEF Reporting
  <2>5. \A g \in Handlers : hpc'[g] = "reading" => todo'[g] = 0
    BY <1>0, <2>1 DEF Accounted
  <2> QED BY <1>0, <2>1, <2>3, <2>4, <2>5 DEF Accounted
<1>3. ASSUME NEW h \in Handlers, SubmitPanics(h) \/ Unlock(h) PROVE Accounted'
  <2>1. /\ UNCHANGED <<todo, jobs, wpc, backlog>>
        /\ \A g \in Handlers : hpc'[g] = "reading" => hpc[g] = "reading" \/ todo[g] = 0
    BY <1>3 DEF SubmitPanics, Unlock, PoolTypeOK
  <2>2. Pending' = Pending /\ Reporting' = Reporting
    BY <2>1 DEF Pending, Reporting
  <2> QED BY <2>1, <2>2 DEF Accounted
<1>4. ASSUME NEW w \in Workers, Take(w) PROVE Accounted'
  <2>1. /\ jobs # << >> /\ jobs' = Tail(jobs) /\ wpc[w] = "receiving"
        /\ wpc' = [wpc EXCEPT ![w] = "reporting"] /\ UNCHANGED <<hpc, todo, backlog>>
    BY <1>4 DEF Take, Received
  <2>2. Len(jobs') = Len(jobs) - 1
    BY <1>0, <2>1, HeadTailProperties
  <2>3. Reporting' = Reporting \cup {w} /\ w \notin Reporting
    BY <2>1 DEF Reporting, PoolTypeOK
  <2>4. Cardinality(Reporting') = Cardinality(Reporting) + 1
    BY <1>0, <2>3, FS_AddElement
  <2>5. Pending' = Pending
    BY <2>1 DEF Pending
  <2> QED BY <1>0, <2>1, <2>2, <2>4, <2>5 DEF Accounted
<1>5. ASSUME NEW w \in Workers, Report(w) PROVE Accounted'
  <2>1. /\ backlog' = backlog - 1 /\ wpc[w] = "reporting"
        /\ wpc' = [wpc EXCEPT ![w] = "receiving"] /\ UNCHANGED <<hpc, todo, jobs>>
    BY <1>5 DEF Report
  <2>2. Reporting' = Reporting \ {w} /\ w \in Reporting
    BY <2>1 DEF Reporting, PoolTypeOK
  <2>3. Cardinality(Reporting') = Cardinality(Reporting) - 1
    BY <1>0, <2>2, FS_RemoveElement
  <2>4. Pending' = Pending
    BY <2>1 DEF Pending
  <2> QED BY <1>0, <2>1, <2>3, <2>4 DEF Accounted
<1>6. ASSUME NEW w \in Workers, Finish(w) PROVE Accounted'
  <2>1. /\ wpc[w] = "receiving" /\ wpc' = [wpc EXCEPT ![w] = "done"]
        /\ UNCHANGED <<hpc, todo, jobs, backlog>>
    BY <1>6 DEF Finish
  <2>2. Pending' = Pending /\ Reporting' = Reporting
    BY <2>1 DEF Pending, Reporting, PoolTypeOK
  <2> QED BY <2>1, <2>2 DEF Accounted
<1>7. CASE Close \/ Wait \/ UNCHANGED poolVars
  <2>1. UNCHANGED <<hpc, todo, jobs, wpc, backlog>>
    BY <1>7 DEF Close, Wait, poolVars
  <2>2. Pending' = Pending /\ Reporting' = Reporting
    BY <2>1 DEF Pending, Reporting
  <2> QED BY <2>1, <2>2 DEF Accounted
<1> QED BY <1>1, <1>2, <1>3, <1>4, <1>5, <1>6, <1>7 DEF PoolNext, HandlerStep, WorkerStep

\* In a jam the channel is full, every worker has a job, and the handler that waits
\* has another one.
LEMMA JamsAreLarge ==
    ASSUME PoolTypeOK, Accounted, IsFiniteSet(Workers),
           MaxBacklog <= JobBuf + Cardinality(Workers)
    PROVE  NeverJammed
<1> SUFFICES ASSUME NEW h \in Handlers, Waits(h),
                    \A w \in Workers : wpc[w] = "reporting"
             PROVE  FALSE
  BY DEF NeverJammed
<1>1. Len(jobs) = JobBuf /\ todo[h] > 0 /\ todo[h] \in Nat /\ JobBuf \in Nat /\ MaxBacklog \in Nat
  BY PoolAssumption DEF Waits, PoolTypeOK
<1>2. Reporting = Workers /\ Cardinality(Workers) \in Nat
  BY FS_CardinalityType DEF Reporting
<1>3. <<h, 1>> \in Pending
  BY <1>1 DEF Pending
<1>4. Cardinality(Pending) \in Nat /\ Cardinality(Pending) # 0
  BY <1>3, FS_CardinalityType, FS_EmptySet DEF Accounted
<1>5. Cardinality(Pending) + JobBuf + Cardinality(Workers) <= MaxBacklog
  BY <1>1, <1>2 DEF Accounted, PoolTypeOK
<1> QED BY <1>1, <1>2, <1>4, <1>5

\* As long as no more operations are under way than the channel and the workers hold,
\* Submit is the asynchronous call it is meant to be: no handler waits in it, its room
\* locked, for workers that wait for such a room.  One operation more, and Pool_jam
\* has the jam.
THEOREM PoolNeverJams ==
    ASSUME IsFiniteSet(Workers), MaxBacklog <= JobBuf + Cardinality(Workers)
    PROVE  PoolSpec => []NeverJammed
<1>1. PoolInit => Accounted
  BY AccountedInit
<1>2. PoolTypeOK /\ Accounted /\ [PoolNext]_poolVars => Accounted'
  BY AccountedNext
<1>3. PoolTypeOK /\ Accounted => NeverJammed
  BY JamsAreLarge
<1> QED BY <1>1, <1>2, <1>3, PoolTypeCorrect, PTL DEF PoolSpec
=============================================================================
