----------------------------- MODULE WorkerPool -----------------------------
(***************************************************************************)
(* The analytics pool of internal/analytics/worker.go between the handlers *)
(* that feed it and the rooms it reports to.  cmd/server/main.go makes     *)
(* Submit a part of saving, so a handler calls it under its room's lock;   *)
(* a worker takes the same lock in BroadcastToRoom.                        *)
(*                                                                         *)
(* A handler is the readPump of a connection, here with one message of     *)
(* some operations at a time, batch_sync or a single operation.            *)
(***************************************************************************)
EXTENDS Integers, Sequences

CONSTANTS
    Handlers,   \* readPump goroutines
    Workers,    \* worker goroutines
    Rooms,
    RoomOf,     \* the room of a handler
    NoOne,      \* no handler
    NoJob,      \* no room
    JobBuf,     \* bufferSize, the capacity of the jobs channel
    Sizes,      \* the numbers of operations a message may carry
    MaxBacklog, \* bound: operations received and not yet reported
    Stoppable   \* whether main may get to Stop

ASSUME PoolAssumption ==
    /\ RoomOf \in [Handlers -> Rooms]
    /\ NoOne \notin Handlers /\ NoJob \notin Rooms
    /\ Workers # {}
    /\ JobBuf \in Nat \ {0}
    /\ Sizes \subseteq Nat \ {0}
    /\ MaxBacklog \in Nat
    /\ Stoppable \in BOOLEAN

VARIABLES
    hpc,        \* where a handler is
    todo,       \* operations it has left in its message
    lock,       \* Room.mu: the handler that holds it, or NoOne
    jobs,       \* WorkerPool.jobs; a Job is its room
    closed,     \* jobs was closed
    wpc,        \* where a worker is
    job,        \* the job it works on
    main,       \* where main is
    backlog     \* history: operations received and not yet reported

poolVars == <<hpc, todo, lock, jobs, closed, wpc, job, main, backlog>>

PoolTypeOK ==
    /\ hpc \in [Handlers -> {"reading", "locked", "panicked"}]
    /\ todo \in [Handlers -> Nat]
    /\ lock \in [Rooms -> Handlers \cup {NoOne}]
    /\ jobs \in Seq(Rooms) /\ Len(jobs) <= JobBuf
    /\ closed \in BOOLEAN
    /\ wpc \in [Workers -> {"receiving", "reporting", "done"}]
    /\ job \in [Workers -> Rooms \cup {NoJob}]
    /\ \A h \in Handlers : hpc[h] # "reading" <=> lock[RoomOf[h]] = h
    /\ \A w \in Workers : wpc[w] = "reporting" <=> job[w] # NoJob
    /\ main \in {"serving", "stopping", "stopped"}
    /\ backlog \in Int

PoolInit ==
    /\ hpc = [h \in Handlers |-> "reading"]
    /\ todo = [h \in Handlers |-> 0]
    /\ lock = [r \in Rooms |-> NoOne]
    /\ jobs = << >>
    /\ closed = FALSE
    /\ wpc = [w \in Workers |-> "receiving"]
    /\ job = [w \in Workers |-> NoJob]
    /\ main = "serving"
    /\ backlog = 0

-----------------------------------------------------------------------------
(***************************************************************************)
(* A handler.                                                              *)
(***************************************************************************)

\* readPump: a message came and room.mu is free.
Lock(h) ==
    /\ hpc[h] = "reading"
    /\ lock[RoomOf[h]] = NoOne
    /\ main # "stopped"
    /\ \E n \in Sizes :
        /\ backlog + n <= MaxBacklog
        /\ backlog' = backlog + n
        /\ todo' = [todo EXCEPT ![h] = n]
    /\ hpc' = [hpc EXCEPT ![h] = "locked"]
    /\ lock' = [lock EXCEPT ![RoomOf[h]] = h]
    /\ UNCHANGED <<jobs, closed, wpc, job, main>>

\* Bug variant: the channel takes one job too many.
HasSpaceMore == Len(jobs) <= JobBuf

HasSpace == Len(jobs) < JobBuf

\* Submit, in the saveDocument of main: waits as long as jobs is full.
Submit(h) ==
    /\ hpc[h] = "locked" /\ todo[h] > 0
    /\ ~closed
    /\ HasSpace
    /\ jobs' = Append(jobs, RoomOf[h])
    /\ todo' = [todo EXCEPT ![h] = @ - 1]
    /\ UNCHANGED <<hpc, lock, closed, wpc, job, main, backlog>>

\* Submit on the closed channel panics, also when it was waiting.  readPump
\* recovers, and waits for the room.mu that it holds itself.
SubmitPanics(h) ==
    /\ hpc[h] = "locked" /\ todo[h] > 0
    /\ closed
    /\ hpc' = [hpc EXCEPT ![h] = "panicked"]
    /\ UNCHANGED <<todo, lock, jobs, closed, wpc, job, main, backlog>>

Unlock(h) ==
    /\ hpc[h] = "locked" /\ todo[h] = 0
    /\ hpc' = [hpc EXCEPT ![h] = "reading"]
    /\ lock' = [lock EXCEPT ![RoomOf[h]] = NoOne]
    /\ UNCHANGED <<todo, jobs, closed, wpc, job, main, backlog>>

-----------------------------------------------------------------------------
(***************************************************************************)
(* A worker: range over jobs, and BroadcastToRoom.                         *)
(***************************************************************************)

\* Bug variant: the job stays in the channel.
Peeked == jobs

Received == Tail(jobs)

Take(w) ==
    /\ wpc[w] = "receiving"
    /\ jobs # << >>
    /\ job' = [job EXCEPT ![w] = Head(jobs)]
    /\ jobs' = Received
    /\ wpc' = [wpc EXCEPT ![w] = "reporting"]
    /\ UNCHANGED <<hpc, todo, lock, closed, main, backlog>>

\* Under room.mu, and safeSend never waits: one step.
Report(w) ==
    /\ wpc[w] = "reporting"
    /\ lock[job[w]] = NoOne
    /\ job' = [job EXCEPT ![w] = NoJob]
    /\ wpc' = [wpc EXCEPT ![w] = "receiving"]
    /\ backlog' = backlog - 1
    /\ UNCHANGED <<hpc, todo, lock, jobs, closed, main>>

\* Bug variant: a worker ends when it finds nothing to do.
Idle == jobs = << >>

Drained == closed /\ jobs = << >>

Finish(w) ==
    /\ wpc[w] = "receiving"
    /\ Drained
    /\ wpc' = [wpc EXCEPT ![w] = "done"]
    /\ UNCHANGED <<hpc, todo, lock, jobs, closed, job, main, backlog>>

-----------------------------------------------------------------------------
(***************************************************************************)
(* Stop, deferred in main.  Shutdown closed the connections before, but    *)
(* nothing waited for their handlers.                                      *)
(***************************************************************************)

\* Bug variant: the workers are waited for, and jobs is left open.
CloseForgotten ==
    /\ Stoppable
    /\ main = "serving"
    /\ main' = "stopping"
    /\ UNCHANGED <<hpc, todo, lock, jobs, closed, wpc, job, backlog>>

Close ==
    /\ Stoppable
    /\ main = "serving"
    /\ main' = "stopping"
    /\ closed' = TRUE
    /\ UNCHANGED <<hpc, todo, lock, jobs, wpc, job, backlog>>

\* Bug variant: nobody is waited for.
NobodyLeft == TRUE

AllDone == \A w \in Workers : wpc[w] = "done"

Wait ==
    /\ main = "stopping"
    /\ AllDone
    /\ main' = "stopped"
    /\ UNCHANGED <<hpc, todo, lock, jobs, closed, wpc, job, backlog>>

-----------------------------------------------------------------------------

HandlerStep(h) == Submit(h) \/ SubmitPanics(h) \/ Unlock(h)
WorkerStep(w) == Take(w) \/ Report(w) \/ Finish(w)

PoolNext ==
    \/ \E h \in Handlers : Lock(h) \/ HandlerStep(h)
    \/ \E w \in Workers : WorkerStep(w)
    \/ Close
    \/ Wait

PoolSpec == PoolInit /\ [][PoolNext]_poolVars

\* Goroutines that can go on do.  Receiving, reporting and finishing of a
\* worker exclude each other, and so do the steps of a handler.  A worker that
\* waits for a room that handlers keep locking gets it (Go's mutexes do not
\* starve a waiter), and so does a handler that waits for room in jobs.
PoolFairSpec ==
    /\ PoolSpec
    /\ \A h \in Handlers : SF_poolVars(HandlerStep(h))
    /\ \A w \in Workers : SF_poolVars(WorkerStep(w))
    /\ WF_poolVars(Wait)

-----------------------------------------------------------------------------

\* Submit waits, with the room of h locked.
Waits(h) ==
    /\ hpc[h] = "locked" /\ todo[h] > 0
    /\ ~closed
    /\ Len(jobs) = JobBuf

\* Submitting is asynchronous: a handler that waits in it does not wait for
\* workers that all wait for a handler that waits in it.
NeverJammed ==
    \A h \in Handlers : Waits(h) =>
        \E w \in Workers :
            wpc[w] = "reporting" => lock[job[w]] = NoOne \/ ~Waits(lock[job[w]])

\* A handler that locked its room unlocks it, as long as the pool is open.
RoomsUnlock ==
    \A h \in Handlers : hpc[h] = "locked" ~> hpc[h] = "reading" \/ closed

\* When Stop returns, every job that was submitted has been reported.
StopDrains ==
    main = "stopped" => jobs = << >> /\ \A w \in Workers : wpc[w] # "reporting"

\* Stop returns, unless a worker has a job of a room that stays locked because its
\* handler submitted after close(jobs): nothing else can hold Stop up for good.
StopReturns ==
    main = "stopping" ~>
        \/ main = "stopped"
        \/ \E w \in Workers, h \in Handlers :
            wpc[w] = "reporting" /\ lock[job[w]] = h /\ hpc[h] = "panicked"
=============================================================================
