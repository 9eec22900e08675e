-------------------------- MODULE HttpServerProofs --------------------------
(***************************************************************************)
(* What each operation of one HTTP server does to its counter, its queue   *)
(* and its workers, for any number of connections, tasks and threads.      *)
(* GatewayBackendProofs uses these lemmas for both servers.                *)
(***************************************************************************)
EXTENDS HttpServer, CountingLemmas, TLAPS

ServerConstants ==
    /\ IsFiniteSet(Conns) /\ IsFiniteSet(Tasks) /\ Conns \cap Tasks = {}
    /\ MaxConnections \in Nat \ {0} /\ WorkerThreads \in Nat \ {0} /\ MinWorkers \in Nat \ {0}

\* Counter, queue and workers are exact: the inductive invariant of a server.
ServerInv == TypeOK /\ SlotsExact /\ QueueExact

\* The stages in which a job is neither counted nor queued nor run.
Outside == Gone \cup {"backlog"}

\* Slots and workers can be counted.
LEMMA ServerSets ==
    ASSUME ServerConstants
    PROVE  /\ IsFiniteSet(Accepted) /\ IsFiniteSet(Busy)
           /\ Cardinality(Accepted) \in Nat /\ Cardinality(Busy) \in Nat
           /\ WorkerCount \in Nat \ {0}
<1>1. IsFiniteSet(Jobs)
  BY FS_Union DEF Jobs, ServerConstants
<1>2. Accepted \in SUBSET Conns /\ Busy \in SUBSET Jobs
  BY DEF Accepted, Busy
<1>3. WorkerCount \in Nat \ {0}
  BY DEF WorkerCount, ServerConstants
<1>. QED  BY <1>1, <1>2, <1>3, CountSubset DEF ServerConstants

\* The parts of the invariant, for a step that leaves the counted sets as they are.
LEMMA SameSets ==
    ASSUME ServerInv, Accepted' = Accepted, Busy' = Busy, UNCHANGED active
    PROVE  SlotsExact' /\ (Cardinality(Busy) <= WorkerCount)'
<1>1. Cardinality(Accepted') = Cardinality(Accepted) /\ Cardinality(Busy') = Cardinality(Busy)
  BY Zenon
<1>. QED  BY <1>1 DEF ServerInv, SlotsExact, QueueExact, WorkerCount

\* Jobs that come, are refused or are forgotten outside the server change nothing.
LEMMA MoveOutside ==
    ASSUME ServerInv, stage' \in [Jobs -> Stages], UNCHANGED <<tasks, active>>, phase' \in Phases,
           \A j \in Jobs : stage'[j] = stage[j] \/ (stage[j] \in Outside /\ stage'[j] \in Outside)
    PROVE  ServerInv'
<1>1. \A j \in Jobs : (stage'[j] \in {"running", "replied"} <=> stage[j] \in {"running", "replied"})
                      /\ (stage'[j] = "queued" <=> stage[j] = "queued")
  BY DEF Outside, Gone
<1>2. Busy' = Busy
  BY <1>1 DEF Busy
<1>3. Accepted' = Accepted
  BY <1>1 DEF Accepted, Jobs
<1>4. SlotsExact' /\ (Cardinality(Busy) <= WorkerCount)'
  BY <1>2, <1>3, SameSets
<1>. QED  BY <1>1, <1>4 DEF ServerInv, TypeOK, QueueExact

\* WorkerPool::submit: the job is in the queue once, behind the others.
LEMMA QueueAppend ==
    ASSUME ServerInv, NEW j \in Jobs, stage[j] \in Outside,
           stage' = [stage EXCEPT ![j] = "queued"], tasks' = Append(tasks, j)
    PROVE  /\ stage' \in [Jobs -> Stages] /\ tasks' \in Seq(Jobs) /\ Busy' = Busy
           /\ \A x \in Jobs : stage'[x] = "queued" <=> \E i \in 1..Len(tasks') : tasks'[i] = x
           /\ \A i, k \in 1..Len(tasks') : tasks'[i] = tasks'[k] => i = k
<1>t. /\ stage \in [Jobs -> Stages] /\ tasks \in Seq(Jobs)
      /\ \A x \in Jobs : stage[x] = "queued" <=> \E i \in 1..Len(tasks) : tasks[i] = x
      /\ \A i, k \in 1..Len(tasks) : tasks[i] = tasks[k] => i = k
  BY DEF ServerInv, TypeOK, QueueExact
<1>1. \A x \in Jobs : stage'[x] = IF x = j THEN "queued" ELSE stage[x]
  BY <1>t
<1>2. stage' \in [Jobs -> Stages] /\ tasks' \in Seq(Jobs)
  BY <1>t DEF Stages
<1>3. stage[j] \notin {"queued", "running", "replied"}
  BY DEF Outside, Gone
<1>4. Busy' = Busy
  BY <1>1, <1>3 DEF Busy
<1>5. /\ Len(tasks') = Len(tasks) + 1 /\ Len(tasks) \in Nat /\ tasks'[Len(tasks) + 1] = j
      /\ \A i \in 1..Len(tasks) : tasks'[i] = tasks[i] /\ tasks[i] # j
  BY <1>t, <1>3
<1>6. ASSUME NEW x \in Jobs
      PROVE  stage'[x] = "queued" <=> \E i \in 1..Len(tasks') : tasks'[i] = x
  <2>1. CASE x = j
    BY <1>1, <1>5, <2>1
  <2>2. CASE x # j
    <3>1. stage[x] = "queued" <=> \E i \in 1..Len(tasks) : tasks[i] = x
      BY <1>t
    <3>. QED  BY <1>1, <1>5, <2>2, <3>1
  <2>. QED  BY <2>1, <2>2
<1>7. \A i, k \in 1..Len(tasks') : tasks'[i] = tasks'[k] => i = k
  BY <1>t, <1>5
<1>. QED  BY <1>2, <1>4, <1>6, <1>7

\* The accept loop takes or refuses a connection.
LEMMA AcceptStep ==
    ASSUME ServerConstants, ServerInv, NEW c \in Conns, Accept(c)
    PROVE  ServerInv'
<1>t. /\ stage \in [Jobs -> Stages] /\ c \in Jobs /\ active \in Nat /\ phase \in Phases
      /\ stage[c] \in Outside /\ stage[c] = "backlog" /\ phase' = phase
  BY DEF ServerInv, TypeOK, Jobs, Accept, Outside
<1>1. CASE active + 1 > MaxConnections
  <2>1. stage' = [stage EXCEPT ![c] = "refused"] /\ UNCHANGED <<tasks, active>>
    BY <1>1 DEF Accept, To
  <2>2. stage' \in [Jobs -> Stages]
    BY <1>t, <2>1 DEF Stages
  <2>3. \A j \in Jobs : stage'[j] = stage[j] \/ (stage[j] \in Outside /\ stage'[j] \in Outside)
    BY <1>t, <2>1 DEF Outside, Gone
  <2>. QED  BY <1>t, <2>1, <2>2, <2>3, MoveOutside
<1>2. CASE ~(active + 1 > MaxConnections)
  <2>1. /\ stage' = [stage EXCEPT ![c] = "queued"] /\ tasks' = Append(tasks, c)
        /\ active' = active + 1
    BY <1>t, <1>2 DEF Accept, Submit, To
  <2>2. /\ stage' \in [Jobs -> Stages] /\ tasks' \in Seq(Jobs) /\ Busy' = Busy
        /\ \A x \in Jobs : stage'[x] = "queued" <=> \E i \in 1..Len(tasks') : tasks'[i] = x
        /\ \A i, k \in 1..Len(tasks') : tasks'[i] = tasks'[k] => i = k
    BY <1>t, <2>1, QueueAppend
  <2>3. Accepted' = Accepted \cup {c} /\ c \notin Accepted
    BY <1>t, <2>1 DEF Accepted, Jobs
  <2>4. Cardinality(Accepted') = Cardinality(Accepted) + 1 /\ Cardinality(Busy') = Cardinality(Busy)
    BY <2>2, <2>3, ServerSets, CountAdd, Zenon
  <2>5. active' = Cardinality(Accepted') /\ active' <= MaxConnections
    BY <1>t, <1>2, <2>1, <2>4 DEF ServerInv, SlotsExact, ServerConstants
  <2>6. (Cardinality(Busy) <= WorkerCount)'
    BY <2>4 DEF ServerInv, QueueExact, WorkerCount
  <2>. QED  BY <1>t, <2>1, <2>2, <2>5, <2>6 DEF ServerInv, TypeOK, SlotsExact, QueueExact
<1>. QED  BY <1>1, <1>2

\* A handler submits a task that is not a connection.
LEMMA SubmitTaskStep ==
    ASSUME ServerConstants, ServerInv, NEW t \in Tasks, SubmitTask(t)
    PROVE  ServerInv'
<1>t. /\ stage \in [Jobs -> Stages] /\ t \in Jobs /\ t \notin Conns /\ active \in Nat
      /\ phase \in Phases /\ stage[t] \in Outside /\ UNCHANGED <<active, phase>>
  BY DEF ServerInv, TypeOK, Jobs, SubmitTask, Outside, ServerConstants
<1>1. CASE phase = "stopped"
  <2>1. stage' = [stage EXCEPT ![t] = "refused"] /\ UNCHANGED <<tasks, active>>
    BY <1>t, <1>1 DEF SubmitTask, Submit, To
  <2>2. stage' \in [Jobs -> Stages]
    BY <1>t, <2>1 DEF Stages
  <2>3. \A j \in Jobs : stage'[j] = stage[j] \/ (stage[j] \in Outside /\ stage'[j] \in Outside)
    BY <1>t, <2>1 DEF Outside, Gone
  <2>. QED  BY <1>t, <2>1, <2>2, <2>3, MoveOutside
<1>2. CASE phase # "stopped"
  <2>1. stage' = [stage EXCEPT ![t] = "queued"] /\ tasks' = Append(tasks, t)
    BY <1>2 DEF SubmitTask, Submit, To
  <2>2. /\ stage' \in [Jobs -> Stages] /\ tasks' \in Seq(Jobs) /\ Busy' = Busy
        /\ \A x \in Jobs : stage'[x] = "queued" <=> \E i \in 1..Len(tasks') : tasks'[i] = x
        /\ \A i, k \in 1..Len(tasks') : tasks'[i] = tasks'[k] => i = k
    BY <1>t, <2>1, QueueAppend
  <2>3. Accepted' = Accepted
    BY <1>t, <2>1 DEF Accepted, Jobs
  <2>4. SlotsExact' /\ (Cardinality(Busy) <= WorkerCount)'
    BY <1>t, <2>2, <2>3, SameSets
  <2>. QED  BY <1>t, <2>2, <2>4 DEF ServerInv, TypeOK, QueueExact
<1>. QED  BY <1>1, <1>2

\* An idle worker takes the oldest job, which leaves the queue.
LEMMA TakeTaskStep ==
    ASSUME ServerConstants, ServerInv, TakeTask
    PROVE  ServerInv'
<1>t. /\ stage \in [Jobs -> Stages] /\ tasks \in Seq(Jobs) /\ tasks # <<>>
      /\ \A x \in Jobs : stage[x] = "queued" <=> \E i \in 1..Len(tasks) : tasks[i] = x
      /\ \A i, k \in 1..Len(tasks) : tasks[i] = tasks[k] => i = k
      /\ UNCHANGED <<active, phase>> /\ Cardinality(Busy) < WorkerCount
  BY DEF ServerInv, TypeOK, QueueExact, TakeTask
<1>1. PICK j \in Jobs : j = Head(tasks)
  BY <1>t
<1>2. /\ Len(tasks) \in Nat \ {0} /\ tasks[1] = j /\ stage[j] = "queued"
      /\ tasks' = Tail(tasks) /\ stage' = [stage EXCEPT ![j] = "running"]
  BY <1>t, <1>1 DEF TakeTask, To
<1>3. \A x \in Jobs : stage'[x] = IF x = j THEN "running" ELSE stage[x]
  BY <1>t, <1>2
<1>4. /\ tasks' \in Seq(Jobs) /\ Len(tasks') = Len(tasks) - 1
      /\ \A i \in 1..Len(tasks') : tasks'[i] = tasks[i + 1] /\ tasks[i + 1] # j
  BY <1>t, <1>2
<1>5. stage' \in [Jobs -> Stages]
  BY <1>t, <1>2 DEF Stages
<1>6. ASSUME NEW x \in Jobs
      PROVE  stage'[x] = "queued" <=> \E i \in 1..Len(tasks') : tasks'[i] = x
  <2>1. CASE x = j
    BY <1>3, <1>4, <2>1
  <2>2. ASSUME x # j, stage[x] = "queued" PROVE \E i \in 1..Len(tasks') : tasks'[i] = x
    <3>1. PICK k \in 1..Len(tasks) : tasks[k] = x
      BY <1>t, <2>2
    <3>2. k - 1 \in 1..Len(tasks') /\ tasks'[k - 1] = tasks[(k - 1) + 1] /\ (k - 1) + 1 = k
      BY <1>2, <1>4, <2>2, <3>1
    <3>. QED  BY <3>1, <3>2
  <2>3. ASSUME x # j, NEW i \in 1..Len(tasks'), tasks'[i] = x PROVE stage[x] = "queued"
    <3>1. i + 1 \in 1..Len(tasks) /\ tasks[i + 1] = x
      BY <1>2, <1>4, <2>3
    <3>. QED  BY <1>t, <3>1
  <2>. QED  BY <1>3, <2>1, <2>2, <2>3
<1>7. ASSUME NEW i \in 1..Len(tasks'), NEW k \in 1..Len(tasks'), tasks'[i] = tasks'[k]
      PROVE  i = k
  <2>1. i + 1 \in 1..Len(tasks) /\ k + 1 \in 1..Len(tasks) /\ tasks[i + 1] = tasks[k + 1]
    BY <1>2, <1>4, <1>7
  <2>2. i + 1 = k + 1
    BY <1>t, <2>1
  <2>. QED  BY <2>2
<1>8. Accepted' = Accepted
  BY <1>2, <1>3 DEF Accepted, Jobs
<1>9. Busy' = Busy \cup {j} /\ j \notin Busy
  BY <1>2, <1>3 DEF Busy
<1>10. /\ Cardinality(Busy') = Cardinality(Busy) + 1
       /\ Cardinality(Accepted') = Cardinality(Accepted)
  BY <1>8, <1>9, ServerSets, CountAdd, Zenon
<1>11. (Cardinality(Busy) <= WorkerCount)'
  BY <1>t, <1>10, ServerSets DEF WorkerCount
<1>12. SlotsExact'
  BY <1>t, <1>10 DEF ServerInv, SlotsExact
<1>. QED  BY <1>t, <1>4, <1>5, <1>6, <1>7, <1>11, <1>12 DEF ServerInv, TypeOK, QueueExact

\* A job that a worker runs ends: its place among the busy ones is free.
LEMMA EndJob ==
    ASSUME ServerConstants, ServerInv, NEW j \in Jobs, stage[j] \in {"running", "replied"},
           stage' = [stage EXCEPT ![j] = "closed"], UNCHANGED tasks
    PROVE  /\ stage' \in [Jobs -> Stages] /\ QueueExact'
           /\ \A x \in Jobs : stage'[x] = IF x = j THEN "closed" ELSE stage[x]
<1>t. /\ stage \in [Jobs -> Stages] /\ tasks \in Seq(Jobs)
      /\ \A x \in Jobs : stage[x] = "queued" <=> \E i \in 1..Len(tasks) : tasks[i] = x
      /\ \A i, k \in 1..Len(tasks) : tasks[i] = tasks[k] => i = k
      /\ Cardinality(Busy) <= WorkerCount
  BY DEF ServerInv, TypeOK, QueueExact
<1>1. \A x \in Jobs : stage'[x] = IF x = j THEN "closed" ELSE stage[x]
  BY <1>t
<1>2. stage' \in [Jobs -> Stages]
  BY <1>t DEF Stages
<1>3. Busy' = Busy \ {j}
  BY <1>1 DEF Busy
<1>4. Cardinality(Busy') <= Cardinality(Busy) /\ Cardinality(Busy') \in Nat
  BY <1>3, ServerSets, CountSubset
<1>5. (Cardinality(Busy) <= WorkerCount)'
  BY <1>t, <1>4, ServerSets DEF WorkerCount
<1>. QED  BY <1>t, <1>1, <1>2, <1>5 DEF QueueExact

\* The handler has written its response; it still holds its worker and its slot.
LEMMA ReplyStep ==
    ASSUME ServerInv, NEW c \in Conns, Reply(c)
    PROVE  ServerInv'
<1>t. /\ stage \in [Jobs -> Stages] /\ c \in Jobs /\ stage[c] = "running"
      /\ stage' = [stage EXCEPT ![c] = "replied"] /\ UNCHANGED <<tasks, active, phase>>
  BY DEF ServerInv, TypeOK, Jobs, Reply, To
<1>1. \A x \in Jobs : stage'[x] = IF x = c THEN "replied" ELSE stage[x]
  BY <1>t
<1>2. Busy' = Busy /\ Accepted' = Accepted /\ stage' \in [Jobs -> Stages]
  BY <1>t, <1>1 DEF Busy, Accepted, Jobs, Stages
<1>3. SlotsExact' /\ (Cardinality(Busy) <= WorkerCount)'
  BY <1>t, <1>2, SameSets
<1>. QED  BY <1>t, <1>1, <1>2, <1>3 DEF ServerInv, TypeOK, QueueExact

\* The socket is closed and the slot released, after a response or without one.
LEMMA CloseStep ==
    ASSUME ServerConstants, ServerInv, NEW c \in Conns, Close(c) \/ Drop(c)
    PROVE  ServerInv'
<1>t. /\ c \in Jobs /\ stage[c] \in {"running", "replied"} /\ active \in Nat
      /\ stage' = [stage EXCEPT ![c] = "closed"] /\ active' = active - 1
      /\ UNCHANGED <<tasks, phase>>
  BY DEF ServerInv, TypeOK, Jobs, Close, Drop, To
<1>1. /\ stage' \in [Jobs -> Stages] /\ QueueExact'
      /\ \A x \in Jobs : stage'[x] = IF x = c THEN "closed" ELSE stage[x]
  BY <1>t, EndJob
<1>2. Accepted' = Accepted \ {c} /\ c \in Accepted
  BY <1>t, <1>1 DEF Accepted, Jobs
<1>3. Cardinality(Accepted') = Cardinality(Accepted) - 1 /\ Cardinality(Accepted) > 0
  BY <1>2, ServerSets, CountRemove, Zenon
<1>4. SlotsExact' /\ active' \in Nat
  BY <1>t, <1>3, ServerSets DEF ServerInv, SlotsExact, ServerConstants
<1>. QED  BY <1>t, <1>1, <1>4 DEF ServerInv, TypeOK

\* A task that is no connection returns; it had no slot.
LEMMA FinishStep ==
    ASSUME ServerConstants, ServerInv, NEW t \in Tasks, Finish(t)
    PROVE  ServerInv'
<1>t. /\ t \in Jobs /\ t \notin Conns /\ stage[t] = "running"
      /\ stage' = [stage EXCEPT ![t] = "closed"] /\ UNCHANGED <<tasks, active, phase>>
  BY DEF ServerConstants, Jobs, Finish, To
<1>1. /\ stage' \in [Jobs -> Stages] /\ QueueExact'
      /\ \A x \in Jobs : stage'[x] = IF x = t THEN "closed" ELSE stage[x]
  BY <1>t, EndJob
<1>2. Accepted' = Accepted
  BY <1>t, <1>1 DEF Accepted, Jobs
<1>3. Cardinality(Accepted') = Cardinality(Accepted)
  BY <1>2, Zenon
<1>. QED  BY <1>t, <1>1, <1>3 DEF ServerInv, TypeOK, SlotsExact

\* Signal, destructor and restart: the pool ends only when nothing is left of it.
LEMMA StopSteps ==
    ASSUME ServerConstants, ServerInv, StopAccepting \/ StopPool \/ Restart
    PROVE  ServerInv'
<1>t. stage \in [Jobs -> Stages] /\ phase' \in Phases /\ tasks' = tasks
  BY DEF ServerInv, TypeOK, StopAccepting, StopPool, Restart, Phases
<1>1. CASE StopAccepting
  <2>1. /\ \A j \in Jobs : stage'[j] = IF stage[j] = "backlog" THEN "refused" ELSE stage[j]
        /\ stage' = [j \in Jobs |-> IF stage[j] = "backlog" THEN "refused" ELSE stage[j]]
        /\ active' = active
    BY <1>1 DEF StopAccepting
  <2>2. stage' \in [Jobs -> Stages]
    BY <1>t, <2>1 DEF Stages
  <2>3. \A j \in Jobs : stage'[j] = stage[j] \/ (stage[j] \in Outside /\ stage'[j] \in Outside)
    BY <2>1 DEF Outside, Gone
  <2>. QED  BY <1>t, <2>1, <2>2, <2>3, MoveOutside
<1>2. CASE StopPool
  <2>1. stage' = stage /\ active' = active
    BY <1>2 DEF StopPool
  <2>. QED  BY <1>t, <2>1, MoveOutside
<1>3. CASE Restart
  <2>1. stage' = stage /\ active' = 0 /\ tasks = <<>> /\ Busy = {}
    BY <1>3 DEF Restart
  <2>2. \A j \in Jobs : stage[j] # "queued"
    BY <2>1 DEF ServerInv, QueueExact
  <2>3. Accepted = {}
    BY <2>1, <2>2 DEF Accepted, Busy, Jobs
  <2>4. active = 0
    BY <2>3, FS_EmptySet DEF ServerInv, SlotsExact
  <2>. QED  BY <1>t, <2>1, <2>4, MoveOutside
<1>. QED  BY <1>1, <1>2, <1>3

\* A client connects, or is refused when nobody listens.
LEMMA ConnectStep ==
    ASSUME ServerInv, NEW c \in Conns, Connect(c)
    PROVE  ServerInv'
<1>1. PICK st \in {"backlog", "refused"} :
        /\ stage' = [stage EXCEPT ![c] = st] /\ UNCHANGED <<tasks, active, phase>>
        /\ stage[c] \in Gone
  BY DEF Connect, To
<1>2. stage' \in [Jobs -> Stages] /\ phase' \in Phases
  BY <1>1 DEF ServerInv, TypeOK, Stages
<1>3. \A j \in Jobs : stage'[j] = stage[j] \/ (stage[j] \in Outside /\ stage'[j] \in Outside)
  BY <1>1 DEF ServerInv, TypeOK, Outside, Gone
<1>. QED  BY <1>1, <1>2, <1>3, MoveOutside

\* A server that has just been started is exact.
LEMMA ServerInit ==
    ASSUME ServerConstants, Init PROVE ServerInv
<1>1. Accepted = {} /\ Busy = {}
  BY DEF Init, Accepted, Busy, Jobs
<1>2. Cardinality(Accepted) = 0 /\ Cardinality(Busy) = 0
  BY <1>1, FS_EmptySet
<1>3. TypeOK
  BY DEF Init, TypeOK, Stages, Phases
<1>4. SlotsExact
  BY <1>2 DEF Init, SlotsExact, ServerConstants
<1>5. QueueExact
  BY <1>2, ServerSets DEF Init, QueueExact
<1>. QED  BY <1>3, <1>4, <1>5 DEF ServerInv
=============================================================================
