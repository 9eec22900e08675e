----------------------------- MODULE HttpServer -----------------------------
(***************************************************************************)
(* One HTTP server process: the accept loop of Server::run with its        *)
(* connection slots (common/http_server.hpp) and the WorkerPool that runs  *)
(* every accepted connection and every submitted task                      *)
(* (common/thread_pool.hpp).  Backend and gateway run the same code.       *)
(*                                                                         *)
(* A job is a connection or a task submitted from inside a handler; a      *)
(* worker runs one job at a time, to its end.  What a handler does between *)
(* its start and its reply is left to the module that composes servers.    *)
(***************************************************************************)
EXTENDS Naturals, Sequences, FiniteSets

CONSTANTS
    Conns,            \* connections clients can make
    Tasks,            \* tasks handlers submit to the pool
    MaxConnections,   \* HTTP_MAX_CONCURRENT_CONNECTIONS
    WorkerThreads,    \* HTTP_WORKER_THREADS
    MinWorkers        \* the least pool WorkerPool::init starts (4 in the code)

VARIABLES
    stage,    \* where each job is
    tasks,    \* WorkerPool::tasks_
    active,   \* Server::active_connections_
    phase     \* "running"; "closing": run() has returned; "stopped": stop_ is set

vars == <<stage, tasks, active, phase>>

Jobs == Conns \cup Tasks

\* backlog: the kernel has the connection, accept() has not; replied: the response
\* is written, the socket not yet closed; refused: closed unserved.
Stages == {"none", "backlog", "queued", "running", "replied", "closed", "refused"}
Gone == {"none", "closed", "refused"}
Phases == {"running", "closing", "stopped"}

\* Connections that hold a slot, and jobs that occupy a worker.
Accepted == {c \in Conns : stage[c] \in {"queued", "running", "replied"}}
Busy == {j \in Jobs : stage[j] \in {"running", "replied"}}

TypeOK ==
    /\ stage \in [Jobs -> Stages]
    /\ tasks \in Seq(Jobs)
    /\ active \in Nat
    /\ phase \in Phases

Init ==
    /\ stage = [j \in Jobs |-> "none"]
    /\ tasks = <<>>
    /\ active = 0
    /\ phase = "running"

To(j, st) == stage' = [stage EXCEPT ![j] = st]

----------------------------------------------------------------------------

\* WorkerPool::init.
WorkerCount == IF WorkerThreads < MinWorkers THEN MinWorkers ELSE WorkerThreads

\* WorkerPool::submit: a pool that is stopping drops the task.
Submit(j) ==
    IF phase = "stopped"
      THEN To(j, "refused") /\ UNCHANGED tasks
      ELSE To(j, "queued") /\ tasks' = Append(tasks, j)

\* A client connects; without a listening socket it is refused at once.
Connect(c) ==
    /\ stage[c] \in Gone
    /\ To(c, IF phase = "running" THEN "backlog" ELSE "refused")
    /\ UNCHANGED <<tasks, active, phase>>

\* One turn of the accept loop: tryAcquireConnectionSlot, then submit or close.
Accept(c) ==
    /\ stage[c] = "backlog" /\ phase = "running"
    /\ IF active + 1 > MaxConnections
         THEN To(c, "refused") /\ UNCHANGED <<tasks, active>>
         ELSE Submit(c) /\ active' = active + 1
    /\ UNCHANGED phase

\* Mutant of TakeTask: the task stays in the queue.
TakeTaskWithoutPop ==
    /\ tasks # <<>>
    /\ Cardinality(Busy) < WorkerCount
    /\ To(Head(tasks), "running")
    /\ UNCHANGED <<tasks, active, phase>>

\* workerLoop: an idle thread pops the oldest task.
TakeTask ==
    /\ tasks # <<>>
    /\ Cardinality(Busy) < WorkerCount
    /\ To(Head(tasks), "running")
    /\ tasks' = Tail(tasks)
    /\ UNCHANGED <<active, phase>>

\* A handler submits a task of its own.
SubmitTask(t) == stage[t] \in Gone /\ Submit(t) /\ UNCHANGED <<active, phase>>

\* The handler writes its response.
Reply(c) ==
    /\ stage[c] = "running"
    /\ To(c, "replied")
    /\ UNCHANGED <<tasks, active, phase>>

\* close(client_fd) and releaseConnectionSlot after the handler.
Close(c) ==
    /\ stage[c] = "replied"
    /\ To(c, "closed")
    /\ active' = active - 1
    /\ UNCHANGED <<tasks, phase>>

\* Mutants of Drop: a failed handler releases the slot twice; or never.
DropReleasesTwice(c) ==
    /\ stage[c] = "running"
    /\ To(c, "closed")
    /\ active' = active - 2
    /\ UNCHANGED <<tasks, phase>>

DropKeepsSlot(c) ==
    /\ stage[c] = "running"
    /\ To(c, "closed")
    /\ UNCHANGED <<tasks, active, phase>>

\* The request cannot be read (the peer is gone, the read timed out) or the handler
\* throws: no response, the socket is closed and the slot released all the same.
Drop(c) ==
    /\ stage[c] = "running"
    /\ To(c, "closed")
    /\ active' = active - 1
    /\ UNCHANGED <<tasks, phase>>

\* A task that is not a connection returns.
Finish(t) ==
    /\ stage[t] = "running"
    /\ To(t, "closed")
    /\ UNCHANGED <<tasks, active, phase>>

\* SIGINT or SIGTERM: the accept loop ends and the listening socket is closed.
StopAccepting ==
    /\ phase = "running"
    /\ phase' = "closing"
    /\ stage' = [j \in Jobs |-> IF stage[j] = "backlog" THEN "refused" ELSE stage[j]]
    /\ UNCHANGED <<tasks, active>>

\* ~WorkerPool sets stop_; the workers still run what is queued.
StopPool ==
    /\ phase = "closing"
    /\ phase' = "stopped"
    /\ UNCHANGED <<stage, tasks, active>>

\* Mutant of Restart: workers end as soon as stop_ is set and leave the queue behind.
RestartDroppingQueue ==
    /\ phase = "stopped"
    /\ Busy = {}
    /\ phase' = "running"
    /\ active' = 0
    /\ tasks' = <<>>
    /\ UNCHANGED stage

\* Every worker has been joined, the process ends; it is started again.
Restart ==
    /\ phase = "stopped"
    /\ tasks = <<>> /\ Busy = {}
    /\ phase' = "running"
    /\ active' = 0
    /\ UNCHANGED <<stage, tasks>>

----------------------------------------------------------------------------

\* active_connections_ counts exactly the connections that have not been closed and
\* stays within the limit, through refusals, failing handlers and a shutdown: a slot
\* is neither leaked nor released twice.
SlotsExact ==
    /\ active = Cardinality(Accepted)
    /\ active <= MaxConnections

\* The queue holds exactly the queued jobs, each once, and never more jobs run than
\* there are workers.
QueueExact ==
    /\ \A j \in Jobs : stage[j] = "queued" <=> \E i \in 1..Len(tasks) : tasks[i] = j
    /\ \A i, k \in 1..Len(tasks) : tasks[i] = tasks[k] => i = k
    /\ Cardinality(Busy) <= WorkerCount

\* An accepted connection or submitted task is served and closed, also when the
\* process is told to stop in between: ~WorkerPool waits for the queue to empty.
QueuedIsServed == \A j \in Jobs : stage[j] = "queued" ~> stage[j] = "closed"
=============================================================================
