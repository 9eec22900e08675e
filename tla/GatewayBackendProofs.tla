------------------------ MODULE GatewayBackendProofs ------------------------
(***************************************************************************)
(* Fewer requests under way than the two pools have workers together       *)
(* cannot block both pools, whatever the sizes of the pools: proof of      *)
(* NoMutualWait from the inductive invariant PoolsInv.                     *)
(***************************************************************************)
EXTENDS GatewayBackend, FiniteSetTheorems, TLAPS

\* The load below which the pools cannot wait for each other.
FewRequests == Cardinality(Requests) < Gateway!WorkerCount + Backend!WorkerCount

\* The conjuncts of PoolsInv about one queue, for any next values of the backend's
\* stages and queue.
Queue(st, q) ==
    /\ st \in [Backend!Jobs -> Backend!Stages]
    /\ q \in Seq(Backend!Jobs)
    /\ \A i \in 1..Len(q) : st[q[i]] = "queued"
    /\ \A i, k \in 1..Len(q) : q[i] = q[k] => i = k

Follows(st) ==
    \A r \in Requests :
        st[Call(r)] \in {"none", "backlog", "queued"} => st[Notify(r)] = "none"

----------------------------------------------------------------------------

\* Calls and notifications of requests are different jobs of the backend.
LEMMA JobNames ==
    /\ \A r \in Requests : Call(r) \in Backend!Jobs /\ Notify(r) \in Backend!Jobs
    /\ \A r, x \in Requests : Call(r) # Notify(x)
    /\ \A r, x \in Requests : (Call(r) = Call(x) => r = x) /\ (Notify(r) = Notify(x) => r = x)
    /\ \A j \in Backend!Jobs : \E r \in Requests : j = Call(r) \/ j = Notify(r)
BY DEF Backend!Jobs, Calls, Call, Notify

\* Moving a job that is not queued, to a stage that is not queued either, leaves the
\* queue as it was.
LEMMA MoveJob ==
    ASSUME Queue(beStage, beTasks), NEW j \in Backend!Jobs, beStage[j] # "queued",
           NEW st \in Backend!Stages, beStage' = [beStage EXCEPT ![j] = st], UNCHANGED beTasks
    PROVE  Queue(beStage, beTasks)'
BY DEF Queue

\* WorkerPool::submit appends a job that was not in the queue.
LEMMA QueueJob ==
    ASSUME Queue(beStage, beTasks), NEW j \in Backend!Jobs, beStage[j] # "queued",
           Backend!Submit(j)
    PROVE  Queue(beStage, beTasks)'
<1>1. CASE bePhase = "stopped"
  BY <1>1, MoveJob DEF Backend!Submit, Backend!To, Backend!Stages
<1>2. CASE bePhase # "stopped"
  <2>1. beStage' = [beStage EXCEPT ![j] = "queued"] /\ beTasks' = Append(beTasks, j)
    BY <1>2 DEF Backend!Submit, Backend!To
  <2>2. \A i \in 1..Len(beTasks) : beTasks[i] # j
    BY DEF Queue
  <2>. QED  BY <2>1, <2>2 DEF Queue, Backend!Stages
<1>. QED  BY <1>1, <1>2

\* A worker takes the oldest job, which was queued and is no longer in the queue.
LEMMA TakeJob ==
    ASSUME Queue(beStage, beTasks), Backend!TakeTask
    PROVE  /\ Queue(beStage, beTasks)'
           /\ \E j \in Backend!Jobs :
                beStage[j] = "queued" /\ beStage' = [beStage EXCEPT ![j] = "running"]
<1>1. /\ Len(beTasks) > 0 /\ Head(beTasks) = beTasks[1] /\ beTasks[1] \in Backend!Jobs
      /\ beTasks' = Tail(beTasks)
      /\ beStage' = [beStage EXCEPT ![beTasks[1]] = "running"]
  BY DEF Backend!TakeTask, Backend!To, Queue
<1>2. beStage[beTasks[1]] = "queued"
  BY <1>1 DEF Queue
<1>3. \A i \in 1..Len(beTasks)' : beTasks'[i] = beTasks[i + 1] /\ i + 1 \in 1..Len(beTasks)
                                  /\ beTasks[i + 1] # beTasks[1]
  BY <1>1 DEF Queue
<1>4. beTasks' \in Seq(Backend!Jobs)
  BY <1>1 DEF Queue
<1>5. (\A i \in 1..Len(beTasks) : beStage[beTasks[i]] = "queued")'
  BY <1>1, <1>3 DEF Queue
<1>6. (\A i, k \in 1..Len(beTasks) : beTasks[i] = beTasks[k] => i = k)'
  BY <1>3 DEF Queue
<1>. QED  BY <1>1, <1>2, <1>4, <1>5, <1>6 DEF Queue, Backend!Stages

\* Initially there are no jobs.
LEMMA PoolsInit == Init => PoolsInv
BY JobNames DEF Init, Backend!Init, PoolsInv, Backend!Stages

\* Every step preserves the invariant: one case per operation of the backend.
LEMMA PoolsStep == PoolsInv /\ [Next]_vars => PoolsInv'
<1> SUFFICES ASSUME PoolsInv, [Next]_vars PROVE PoolsInv'
  OBVIOUS
<1>q. Queue(beStage, beTasks) /\ Follows(beStage)
  BY DEF PoolsInv, Queue, Follows
<1>g. ASSUME Queue(beStage, beTasks)', Follows(beStage)' PROVE PoolsInv'
  BY <1>g DEF PoolsInv, Queue, Follows
\* a job that was not queued moves to a stage other than queued
<1>m. ASSUME NEW j \in Backend!Jobs, beStage[j] # "queued", NEW st \in Backend!Stages,
             beStage' = [beStage EXCEPT ![j] = st], UNCHANGED beTasks, Follows(beStage)'
      PROVE  PoolsInv'
  BY <1>q, <1>g, <1>m, MoveJob
<1>0. CASE UNCHANGED beVars
  BY <1>0 DEF beVars, PoolsInv
<1>1. ASSUME NEW r \in Requests, NewCall(r) PROVE PoolsInv'
  <2>1. /\ beStage[Call(r)] # "queued" /\ beStage[Notify(r)] # "queued"
        /\ beStage' = [[beStage EXCEPT ![Call(r)] = "none"] EXCEPT ![Notify(r)] = "none"]
        /\ beTasks' = beTasks
    BY <1>1 DEF NewCall, Gone
  <2>2. Queue(beStage, beTasks)'
    BY <1>q, <2>1, JobNames DEF Queue, Backend!Stages
  <2>3. Follows(beStage)'
    BY <1>q, <2>1, JobNames DEF Follows, Queue
  <2>. QED  BY <1>g, <2>2, <2>3
<1>2. ASSUME NEW r \in Requests, Forward(r) PROVE PoolsInv'
  <2>1. PICK st \in {"backlog", "refused"} :
          beStage' = [beStage EXCEPT ![Call(r)] = st] /\ beTasks' = beTasks
    BY <1>2 DEF Forward, Backend!Connect, Backend!To
  <2>2. beStage[Call(r)] = "none" /\ beStage[Notify(r)] = "none"
    BY <1>2, <1>q DEF Forward, Follows
  <2>3. Follows(beStage)'
    BY <1>q, <2>1, <2>2, JobNames DEF Follows, Queue
  <2>. QED  BY <1>m, <2>1, <2>2, <2>3, JobNames DEF Backend!Stages
<1>3. ASSUME NEW r \in Requests, BackendPays(r) PROVE PoolsInv'
  <2>1. beStage[Call(r)] = "running" /\ beStage[Notify(r)] = "none" /\ Backend!Submit(Notify(r))
    BY <1>3 DEF BackendPays, Backend!SubmitTask
  <2>2. Queue(beStage, beTasks)'
    BY <1>q, <2>1, JobNames, QueueJob
  <2>3. Follows(beStage)'
    BY <1>q, <2>1, JobNames DEF Follows, Queue, Backend!Submit, Backend!To
  <2>. QED  BY <1>g, <2>2, <2>3
\* Reply, Drop, Close and Finish: a job that runs or has run goes on
<1>4. ASSUME NEW j \in Backend!Jobs, beStage[j] \in {"running", "replied"},
             NEW st \in {"replied", "closed"}, beStage' = [beStage EXCEPT ![j] = st],
             UNCHANGED beTasks
      PROVE  PoolsInv'
  <2>1. Follows(beStage)'
    BY <1>q, <1>4, JobNames DEF Follows, Queue
  <2>. QED  BY <1>m, <1>4, <2>1 DEF Backend!Stages
<1>5. ASSUME NEW r \in Requests, BackendReplies(r) \/ BackendDrops(r) \/ NotifyReturns(r)
      PROVE  PoolsInv'
  BY <1>4, <1>5, JobNames DEF BackendReplies, BackendDrops, NotifyReturns, Backend!Reply,
     Backend!Drop, Backend!Finish, Backend!To
<1>6. ASSUME NEW c \in Calls, Backend!Accept(c) PROVE PoolsInv'
  <2>1. PICK r \in Requests : c = Call(r)
    BY DEF Calls
  <2>2. beStage[c] = "backlog" /\ beStage[Notify(r)] = "none"
    BY <1>6, <1>q, <2>1 DEF Backend!Accept, Follows
  <2>3. PICK st \in {"queued", "refused"} : beStage' = [beStage EXCEPT ![c] = st]
    BY <1>6 DEF Backend!Accept, Backend!Submit, Backend!To
  <2>4. Follows(beStage)'
    BY <1>q, <2>1, <2>2, <2>3, JobNames DEF Follows, Queue
  <2>5. Queue(beStage, beTasks)'
    <3>1. CASE Backend!Submit(c)
      BY <1>q, <2>1, <2>2, <3>1, QueueJob, JobNames
    <3>2. CASE Backend!To(c, "refused") /\ UNCHANGED beTasks
      BY <1>q, <2>1, <2>2, <3>2, MoveJob, JobNames DEF Backend!To, Backend!Stages
    <3>. QED  BY <1>6, <3>1, <3>2 DEF Backend!Accept
  <2>. QED  BY <1>g, <2>4, <2>5
<1>7. ASSUME NEW c \in Calls, Backend!Close(c) PROVE PoolsInv'
  BY <1>4, <1>7 DEF Backend!Close, Backend!To, Backend!Jobs
<1>8. CASE Backend!TakeTask
  <2>1. PICK j \in Backend!Jobs :
          beStage[j] = "queued" /\ beStage' = [beStage EXCEPT ![j] = "running"]
    BY <1>q, <1>8, TakeJob
  <2>2. Follows(beStage)'
    BY <1>q, <2>1, JobNames DEF Follows, Queue
  <2>. QED  BY <1>q, <1>g, <1>8, <2>2, TakeJob
<1>9. CASE Backend!StopAccepting
  <2>1. /\ beStage' = [j \in Backend!Jobs |-> IF beStage[j] = "backlog" THEN "refused" ELSE beStage[j]]
        /\ beTasks' = beTasks
    BY <1>9 DEF Backend!StopAccepting
  <2>2. Queue(beStage, beTasks)'
    BY <1>q, <2>1 DEF Queue, Backend!Stages
  <2>3. Follows(beStage)'
    BY <1>q, <2>1, JobNames DEF Follows
  <2>. QED  BY <1>g, <2>2, <2>3
<1>10. CASE Backend!StopPool \/ Backend!Restart
  BY <1>10 DEF Backend!StopPool, Backend!Restart, PoolsInv
<1>11. ASSUME NEW r \in Requests, HandlerSteps(r) PROVE PoolsInv'
  BY <1>0, <1>2, <1>3, <1>5, <1>11
     DEF HandlerSteps, GatewayAnswers, ForwardReturns, HandlePaymentResult, NotifyConnect
<1>. QED
  BY <1>0, <1>1, <1>6, <1>7, <1>8, <1>9, <1>10, <1>11
     DEF Next, vars, GatewayServer, BackendServer, Shutdown

\* The queue of the backend's pool is exact and a notification never precedes its
\* request out of the queue, through refusals, shutdowns and restarts of both servers.
THEOREM QueueInvariance == Spec => []PoolsInv
BY PoolsInit, PoolsStep, PTL DEF Spec

\* A request that waits and a notification that waits belong to different requests,
\* so there are at least as many requests as blocked workers.
LEMMA WaitersDisjoint == ASSUME FewRequests, PoolsInv PROVE NoMutualWait
<1>1. WaitsForBackend \cap WaitsForGateway = {}
  BY DEF PoolsInv, WaitsForBackend, WaitsForGateway
<1>2. WaitsForBackend \subseteq Requests /\ WaitsForGateway \subseteq Requests
  BY DEF WaitsForBackend, WaitsForGateway
<1>3. IsFiniteSet(WaitsForBackend) /\ IsFiniteSet(WaitsForGateway)
  BY <1>2, RequestAssumption, FS_Subset
<1>4. /\ IsFiniteSet(WaitsForBackend \cup WaitsForGateway)
      /\ Cardinality(WaitsForBackend \cup WaitsForGateway)
           = Cardinality(WaitsForBackend) + Cardinality(WaitsForGateway)
  <2>1. Cardinality(WaitsForBackend \cap WaitsForGateway) = 0
    BY <1>1, FS_EmptySet
  <2>2. /\ IsFiniteSet(WaitsForBackend \cup WaitsForGateway)
        /\ Cardinality(WaitsForBackend \cup WaitsForGateway)
             = Cardinality(WaitsForBackend) + Cardinality(WaitsForGateway)
                 - Cardinality(WaitsForBackend \cap WaitsForGateway)
    BY <1>3, FS_Union
  <2>3. Cardinality(WaitsForBackend) \in Nat /\ Cardinality(WaitsForGateway) \in Nat
    BY <1>3, FS_CardinalityType
  <2>. QED  BY <2>1, <2>2, <2>3
<1>5. Cardinality(WaitsForBackend \cup WaitsForGateway) <= Cardinality(Requests)
  BY <1>2, RequestAssumption, FS_Subset
<1>6. /\ Cardinality(Requests) \in Nat
      /\ Cardinality(WaitsForBackend) \in Nat /\ Cardinality(WaitsForGateway) \in Nat
  BY <1>3, RequestAssumption, FS_CardinalityType
<1>7. Gateway!WorkerCount \in Nat /\ Backend!WorkerCount \in Nat
  BY ThreadAssumption DEF Gateway!WorkerCount, Backend!WorkerCount
<1>. QED  BY <1>4, <1>5, <1>6, <1>7 DEF FewRequests, NoMutualWait

\* With fewer requests under way than workers in both pools together, gateway and
\* backend never wait for each other with all their workers.
THEOREM PoolsDoNotBlock == FewRequests => (Spec => []NoMutualWait)
<1> SUFFICES ASSUME FewRequests PROVE Spec => []NoMutualWait
  OBVIOUS
<1>1. Spec => []PoolsInv
  BY QueueInvariance
<1>2. PoolsInv => NoMutualWait
  BY WaitersDisjoint
<1>. QED  BY <1>1, <1>2, PTL

----------------------------------------------------------------------------
(* Slots and queues of both servers: each operation keeps its server exact *)
(* (HttpServerProofs), whatever the handlers of the other one do.          *)

GatewayLemmas == INSTANCE HttpServerProofs WITH
    Conns <- Calls \cup {Result(r) : r \in Requests}, Tasks <- {},
    MaxConnections <- GatewayConnections, WorkerThreads <- GatewayThreads,
    stage <- gwStage, tasks <- gwTasks, active <- gwActive, phase <- gwPhase

BackendLemmas == INSTANCE HttpServerProofs WITH
    Conns <- Calls, Tasks <- {Notify(r) : r \in Requests},
    MaxConnections <- BackendConnections, WorkerThreads <- BackendThreads,
    stage <- beStage, tasks <- beTasks, active <- beActive, phase <- bePhase

ServersInv == GatewayLemmas!ServerInv /\ BackendLemmas!ServerInv

\* The jobs of the two servers are finitely many.
LEMMA JobsFinite ==
    /\ IsFiniteSet(Calls) /\ IsFiniteSet({Result(r) : r \in Requests})
    /\ IsFiniteSet({Notify(r) : r \in Requests})
<1>1. [r \in Requests |-> Call(r)] \in Surjection(Requests, Calls)
  BY DEF Surjection, Calls
<1>2. [r \in Requests |-> Result(r)] \in Surjection(Requests, {Result(r) : r \in Requests})
  BY DEF Surjection
<1>3. [r \in Requests |-> Notify(r)] \in Surjection(Requests, {Notify(r) : r \in Requests})
  BY DEF Surjection
<1>. QED  BY <1>1, <1>2, <1>3, RequestAssumption, FS_Surjection

\* The lemmas' constants are those of the two servers.
LEMMA ServersConstants == GatewayLemmas!ServerConstants /\ BackendLemmas!ServerConstants
<1>1. /\ \A S : GatewayLemmas!IsFiniteSet(S) <=> IsFiniteSet(S)
      /\ \A S : BackendLemmas!IsFiniteSet(S) <=> IsFiniteSet(S)
  BY Zenon DEF GatewayLemmas!IsFiniteSet, BackendLemmas!IsFiniteSet, IsFiniteSet
<1>2. IsFiniteSet(Calls \cup {Result(r) : r \in Requests}) /\ IsFiniteSet({})
  BY JobsFinite, FS_Union, FS_EmptySet
<1>3. Calls \cap {Notify(r) : r \in Requests} = {}
  BY DEF Calls, Call, Notify
<1>. QED  BY <1>1, <1>2, <1>3, JobsFinite, ThreadAssumption, ConnectionAssumption
     DEF GatewayLemmas!ServerConstants, BackendLemmas!ServerConstants

\* The operations and promises the lemmas speak of are those of the gateway's server ...
LEMMA GatewayNames ==
    /\ \A c : /\ Gateway!Accept(c) <=> GatewayLemmas!Accept(c)
              /\ Gateway!Connect(c) <=> GatewayLemmas!Connect(c)
              /\ Gateway!Reply(c) <=> GatewayLemmas!Reply(c)
              /\ Gateway!Close(c) <=> GatewayLemmas!Close(c)
              /\ Gateway!Drop(c) <=> GatewayLemmas!Drop(c)
    /\ Gateway!TakeTask <=> GatewayLemmas!TakeTask
    /\ Gateway!StopAccepting <=> GatewayLemmas!StopAccepting
    /\ Gateway!StopPool <=> GatewayLemmas!StopPool
    /\ Gateway!Restart <=> GatewayLemmas!Restart
    /\ Gateway!Init <=> GatewayLemmas!Init
    /\ Gateway!TypeOK <=> GatewayLemmas!TypeOK
    /\ Gateway!SlotsExact <=> GatewayLemmas!SlotsExact
    /\ Gateway!QueueExact <=> GatewayLemmas!QueueExact
<1>1. \A S : Gateway!Cardinality(S) = GatewayLemmas!Cardinality(S)
  BY Zenon DEF Gateway!Cardinality, GatewayLemmas!Cardinality
<1>2. Gateway!Busy = GatewayLemmas!Busy /\ Gateway!Accepted = GatewayLemmas!Accepted /\ Gateway!WorkerCount = GatewayLemmas!WorkerCount
      /\ Gateway!Jobs = GatewayLemmas!Jobs /\ Gateway!Stages = GatewayLemmas!Stages /\ Gateway!Phases = GatewayLemmas!Phases
  BY Zenon DEF Gateway!Busy, Gateway!Accepted, Gateway!WorkerCount, Gateway!Jobs, Gateway!Stages,
   Gateway!Phases, GatewayLemmas!Busy, GatewayLemmas!Accepted, GatewayLemmas!WorkerCount,
   GatewayLemmas!Jobs, GatewayLemmas!Stages, GatewayLemmas!Phases
<1>3. \A c : Gateway!Accept(c) <=> GatewayLemmas!Accept(c)
  BY Zenon DEF Gateway!Accept, Gateway!Submit, Gateway!To, GatewayLemmas!Accept, GatewayLemmas!Submit,
   GatewayLemmas!To
<1>4. \A c : Gateway!Connect(c) <=> GatewayLemmas!Connect(c)
  BY Zenon DEF Gateway!Connect, Gateway!To, Gateway!Gone, GatewayLemmas!Connect, GatewayLemmas!To,
   GatewayLemmas!Gone
<1>5. \A c : Gateway!Reply(c) <=> GatewayLemmas!Reply(c)
  BY Zenon DEF Gateway!Reply, Gateway!To, GatewayLemmas!Reply, GatewayLemmas!To
<1>6. \A c : Gateway!Close(c) <=> GatewayLemmas!Close(c)
  BY Zenon DEF Gateway!Close, Gateway!To, GatewayLemmas!Close, GatewayLemmas!To
<1>7. \A c : Gateway!Drop(c) <=> GatewayLemmas!Drop(c)
  BY Zenon DEF Gateway!Drop, Gateway!To, GatewayLemmas!Drop, GatewayLemmas!To
<1>8. Gateway!TakeTask <=> GatewayLemmas!TakeTask
  BY <1>1, <1>2, Zenon DEF Gateway!TakeTask, Gateway!To, GatewayLemmas!TakeTask, GatewayLemmas!To
<1>9. Gateway!StopAccepting <=> GatewayLemmas!StopAccepting
  BY <1>1, <1>2, Zenon DEF Gateway!StopAccepting, GatewayLemmas!StopAccepting
<1>10. Gateway!StopPool <=> GatewayLemmas!StopPool
  BY <1>1, <1>2, Zenon DEF Gateway!StopPool, Gateway!To, GatewayLemmas!StopPool, GatewayLemmas!To
<1>11. Gateway!Restart <=> GatewayLemmas!Restart
  BY <1>1, <1>2, Zenon DEF Gateway!Restart, GatewayLemmas!Restart
<1>12. Gateway!Init <=> GatewayLemmas!Init
  BY <1>1, <1>2, Zenon DEF Gateway!Init, GatewayLemmas!Init
<1>13. Gateway!TypeOK <=> GatewayLemmas!TypeOK
  BY <1>1, <1>2, Zenon DEF Gateway!TypeOK, GatewayLemmas!TypeOK
<1>14. Gateway!SlotsExact <=> GatewayLemmas!SlotsExact
  BY <1>1, <1>2, Zenon DEF Gateway!SlotsExact, GatewayLemmas!SlotsExact
<1>15. Gateway!QueueExact <=> GatewayLemmas!QueueExact
  BY <1>1, <1>2, Zenon DEF Gateway!QueueExact, GatewayLemmas!QueueExact
<1>. QED  BY <1>3, <1>4, <1>5, <1>6, <1>7, <1>8, <1>9, <1>10, <1>11, <1>12, <1>13, <1>14, <1>15, Zenon

\* ... and of the backend's.
LEMMA BackendNames ==
    /\ \A c : /\ Backend!Accept(c) <=> BackendLemmas!Accept(c)
              /\ Backend!Connect(c) <=> BackendLemmas!Connect(c)
              /\ Backend!Reply(c) <=> BackendLemmas!Reply(c)
              /\ Backend!Close(c) <=> BackendLemmas!Close(c)
              /\ Backend!Drop(c) <=> BackendLemmas!Drop(c)
              /\ Backend!SubmitTask(c) <=> BackendLemmas!SubmitTask(c)
              /\ Backend!Finish(c) <=> BackendLemmas!Finish(c)
    /\ Backend!TakeTask <=> BackendLemmas!TakeTask
    /\ Backend!StopAccepting <=> BackendLemmas!StopAccepting
    /\ Backend!StopPool <=> BackendLemmas!StopPool
    /\ Backend!Restart <=> BackendLemmas!Restart
    /\ Backend!Init <=> BackendLemmas!Init
    /\ Backend!TypeOK <=> BackendLemmas!TypeOK
    /\ Backend!SlotsExact <=> BackendLemmas!SlotsExact
    /\ Backend!QueueExact <=> BackendLemmas!QueueExact
<1>1. \A S : Backend!Cardinality(S) = BackendLemmas!Cardinality(S)
  BY Zenon DEF Backend!Cardinality, BackendLemmas!Cardinality
<1>2. Backend!Busy = BackendLemmas!Busy /\ Backend!Accepted = BackendLemmas!Accepted /\ Backend!WorkerCount = BackendLemmas!WorkerCount
      /\ Backend!Jobs = BackendLemmas!Jobs /\ Backend!Stages = BackendLemmas!Stages /\ Backend!Phases = BackendLemmas!Phases
  BY Zenon DEF Backend!Busy, Backend!Accepted, Backend!WorkerCount, Backend!Jobs, Backend!Stages,
   Backend!Phases, BackendLemmas!Busy, BackendLemmas!Accepted, BackendLemmas!WorkerCount,
   BackendLemmas!Jobs, BackendLemmas!Stages, BackendLemmas!Phases
<1>3. \A c : Backend!Accept(c) <=> BackendLemmas!Accept(c)
  BY Zenon DEF Backend!Accept, Backend!Submit, Backend!To, BackendLemmas!Accept, BackendLemmas!Submit,
   BackendLemmas!To
<1>4. \A c : Backend!Connect(c) <=> BackendLemmas!Connect(c)
  BY Zenon DEF Backend!Connect, Backend!To, Backend!Gone, BackendLemmas!Connect, BackendLemmas!To,
   BackendLemmas!Gone
<1>5. \A c : Backend!Reply(c) <=> BackendLemmas!Reply(c)
  BY Zenon DEF Backend!Reply, Backend!To, BackendLemmas!Reply, BackendLemmas!To
<1>6. \A c : Backend!Close(c) <=> BackendLemmas!Close(c)
  BY Zenon DEF Backend!Close, Backend!To, BackendLemmas!Close, BackendLemmas!To
<1>7. \A c : Backend!SubmitTask(c) <=> BackendLemmas!SubmitTask(c)
  BY Zenon DEF Backend!SubmitTask, Backend!Submit, Backend!To, Backend!Gone, BackendLemmas!SubmitTask,
   BackendLemmas!Submit, BackendLemmas!To, BackendLemmas!Gone
<1>8. \A c : Backend!Finish(c) <=> BackendLemmas!Finish(c)
  BY Zenon DEF Backend!Finish, Backend!To, BackendLemmas!Finish, BackendLemmas!To
<1>9. Backend!TakeTask <=> BackendLemmas!TakeTask
  BY <1>1, <1>2, Zenon DEF Backend!TakeTask, Backend!To, BackendLemmas!TakeTask, BackendLemmas!To
<1>10. Backend!StopAccepting <=> BackendLemmas!StopAccepting
  BY <1>1, <1>2, Zenon DEF Backend!StopAccepting, BackendLemmas!StopAccepting
<1>11. Backend!StopPool <=> BackendLemmas!StopPool
  BY <1>1, <1>2, Zenon DEF Backend!StopPool, Backend!To, BackendLemmas!StopPool, BackendLemmas!To
<1>12. Backend!Restart <=> BackendLemmas!Restart
  BY <1>1, <1>2, Zenon DEF Backend!Restart, BackendLemmas!Restart
<1>13. Backend!Init <=> BackendLemmas!Init
  BY <1>1, <1>2, Zenon DEF Backend!Init, BackendLemmas!Init
<1>14. Backend!TypeOK <=> BackendLemmas!TypeOK
  BY <1>1, <1>2, Zenon DEF Backend!TypeOK, BackendLemmas!TypeOK
<1>15. Backend!SlotsExact <=> BackendLemmas!SlotsExact
  BY <1>1, <1>2, Zenon DEF Backend!SlotsExact, BackendLemmas!SlotsExact
<1>16. Backend!QueueExact <=> BackendLemmas!QueueExact
  BY <1>1, <1>2, Zenon DEF Backend!QueueExact, BackendLemmas!QueueExact
<1>17. \A c : Backend!Drop(c) <=> BackendLemmas!Drop(c)
  BY Zenon DEF Backend!Drop, Backend!To, BackendLemmas!Drop, BackendLemmas!To
<1>. QED  BY <1>3, <1>4, <1>5, <1>6, <1>7, <1>8, <1>9, <1>10, <1>11, <1>12, <1>13, <1>14, <1>15,
          <1>16, <1>17, Zenon

\* A server nobody touches stays as it is.
LEMMA QuietServers ==
    /\ GatewayLemmas!ServerInv /\ UNCHANGED gwVars => GatewayLemmas!ServerInv'
    /\ BackendLemmas!ServerInv /\ UNCHANGED beVars => BackendLemmas!ServerInv'
BY DEF gwVars, beVars,
   GatewayLemmas!ServerInv, GatewayLemmas!TypeOK, GatewayLemmas!SlotsExact,
   GatewayLemmas!QueueExact, GatewayLemmas!Accepted, GatewayLemmas!Busy,
   BackendLemmas!ServerInv, BackendLemmas!TypeOK, BackendLemmas!SlotsExact,
   BackendLemmas!QueueExact, BackendLemmas!Accepted, BackendLemmas!Busy

\* Every operation of the gateway's server keeps it exact ...
LEMMA GatewayStep ==
    ASSUME GatewayLemmas!ServerInv
    PROVE  /\ \A c \in Calls \cup {Result(r) : r \in Requests} :
                Gateway!Accept(c) \/ Gateway!Connect(c) \/ Gateway!Reply(c) \/ Gateway!Close(c)
                  \/ Gateway!Drop(c) => GatewayLemmas!ServerInv'
           /\ Gateway!TakeTask \/ Gateway!StopAccepting \/ Gateway!StopPool \/ Gateway!Restart
                => GatewayLemmas!ServerInv'
<1>1. ASSUME NEW c \in Calls \cup {Result(r) : r \in Requests},
             Gateway!Accept(c) \/ Gateway!Connect(c) \/ Gateway!Reply(c) \/ Gateway!Close(c)
               \/ Gateway!Drop(c)
      PROVE  GatewayLemmas!ServerInv'
  <2>1. GatewayLemmas!Accept(c) \/ GatewayLemmas!Connect(c) \/ GatewayLemmas!Reply(c)
          \/ GatewayLemmas!Close(c) \/ GatewayLemmas!Drop(c)
    BY <1>1, GatewayNames, Zenon
  <2>. QED  BY <2>1, ServersConstants, GatewayLemmas!AcceptStep, GatewayLemmas!ConnectStep,
            GatewayLemmas!ReplyStep, GatewayLemmas!CloseStep, Zenon
<1>2. ASSUME Gateway!TakeTask \/ Gateway!StopAccepting \/ Gateway!StopPool \/ Gateway!Restart
      PROVE  GatewayLemmas!ServerInv'
  <2>1. GatewayLemmas!TakeTask \/ GatewayLemmas!StopAccepting \/ GatewayLemmas!StopPool
          \/ GatewayLemmas!Restart
    BY <1>2, GatewayNames, Zenon
  <2>. QED  BY <2>1, ServersConstants, GatewayLemmas!TakeTaskStep, GatewayLemmas!StopSteps, Zenon
<1>. QED  BY <1>1, <1>2, Zenon

\* ... and every operation of the backend's.
LEMMA BackendStep ==
    ASSUME BackendLemmas!ServerInv
    PROVE  /\ \A c \in Calls :
                Backend!Accept(c) \/ Backend!Connect(c) \/ Backend!Reply(c) \/ Backend!Close(c)
                  \/ Backend!Drop(c) => BackendLemmas!ServerInv'
           /\ \A t \in {Notify(r) : r \in Requests} :
                Backend!SubmitTask(t) \/ Backend!Finish(t) => BackendLemmas!ServerInv'
           /\ Backend!TakeTask \/ Backend!StopAccepting \/ Backend!StopPool \/ Backend!Restart
                => BackendLemmas!ServerInv'
<1>1. ASSUME NEW c \in Calls,
             Backend!Accept(c) \/ Backend!Connect(c) \/ Backend!Reply(c) \/ Backend!Close(c)
               \/ Backend!Drop(c)
      PROVE  BackendLemmas!ServerInv'
  <2>1. BackendLemmas!Accept(c) \/ BackendLemmas!Connect(c) \/ BackendLemmas!Reply(c)
          \/ BackendLemmas!Close(c) \/ BackendLemmas!Drop(c)
    BY <1>1, BackendNames, Zenon
  <2>. QED  BY <2>1, ServersConstants, BackendLemmas!AcceptStep, BackendLemmas!ConnectStep,
            BackendLemmas!ReplyStep, BackendLemmas!CloseStep, Zenon
<1>2. ASSUME NEW t \in {Notify(r) : r \in Requests}, Backend!SubmitTask(t) \/ Backend!Finish(t)
      PROVE  BackendLemmas!ServerInv'
  <2>1. BackendLemmas!SubmitTask(t) \/ BackendLemmas!Finish(t)
    BY <1>2, BackendNames, Zenon
  <2>. QED  BY <2>1, ServersConstants, BackendLemmas!SubmitTaskStep, BackendLemmas!FinishStep, Zenon
<1>3. ASSUME Backend!TakeTask \/ Backend!StopAccepting \/ Backend!StopPool \/ Backend!Restart
      PROVE  BackendLemmas!ServerInv'
  <2>1. BackendLemmas!TakeTask \/ BackendLemmas!StopAccepting \/ BackendLemmas!StopPool
          \/ BackendLemmas!Restart
    BY <1>3, BackendNames, Zenon
  <2>. QED  BY <2>1, ServersConstants, BackendLemmas!TakeTaskStep, BackendLemmas!StopSteps, Zenon
<1>. QED  BY <1>1, <1>2, <1>3, Zenon

\* A browser's request reuses names that neither server holds any more.
LEMMA NewCallStep ==
    ASSUME ServersInv, NEW r \in Requests, NewCall(r)
    PROVE  ServersInv'
<1>1. GatewayLemmas!ServerInv'
  <2>1. /\ gwStage \in [GatewayLemmas!Jobs -> GatewayLemmas!Stages]
        /\ gwPhase' \in GatewayLemmas!Phases /\ UNCHANGED <<gwTasks, gwActive>>
        /\ Call(r) \in GatewayLemmas!Jobs /\ Result(r) \in GatewayLemmas!Jobs
    BY DEF ServersInv, GatewayLemmas!ServerInv, GatewayLemmas!TypeOK, NewCall, Calls,
       GatewayLemmas!Jobs
  <2>2. gwStage' \in [GatewayLemmas!Jobs -> GatewayLemmas!Stages]
    BY <2>1 DEF NewCall, GatewayLemmas!Stages
  <2>3. \A j \in GatewayLemmas!Jobs :
          gwStage'[j] = gwStage[j]
            \/ (gwStage[j] \in GatewayLemmas!Outside /\ gwStage'[j] \in GatewayLemmas!Outside)
    BY <2>1 DEF NewCall, Gone, GatewayLemmas!Outside, GatewayLemmas!Gone
  <2>. QED  BY <2>1, <2>2, <2>3, GatewayLemmas!MoveOutside DEF ServersInv
<1>2. BackendLemmas!ServerInv'
  <2>1. /\ beStage \in [BackendLemmas!Jobs -> BackendLemmas!Stages]
        /\ bePhase' \in BackendLemmas!Phases /\ UNCHANGED <<beTasks, beActive>>
        /\ Call(r) \in BackendLemmas!Jobs /\ Notify(r) \in BackendLemmas!Jobs
    BY DEF ServersInv, BackendLemmas!ServerInv, BackendLemmas!TypeOK, NewCall, Calls,
       BackendLemmas!Jobs
  <2>2. beStage' \in [BackendLemmas!Jobs -> BackendLemmas!Stages]
    BY <2>1 DEF NewCall, BackendLemmas!Stages
  <2>3. \A j \in BackendLemmas!Jobs :
          beStage'[j] = beStage[j]
            \/ (beStage[j] \in BackendLemmas!Outside /\ beStage'[j] \in BackendLemmas!Outside)
    BY <2>1 DEF NewCall, Gone, BackendLemmas!Outside, BackendLemmas!Gone
  <2>. QED  BY <2>1, <2>2, <2>3, BackendLemmas!MoveOutside DEF ServersInv
<1>. QED  BY <1>1, <1>2 DEF ServersInv

\* Every step keeps both servers exact.
LEMMA ServersStep == ServersInv /\ [Next]_vars => ServersInv'
<1> SUFFICES ASSUME ServersInv, [Next]_vars PROVE ServersInv'
  OBVIOUS
<1>i. GatewayLemmas!ServerInv /\ BackendLemmas!ServerInv
  BY DEF ServersInv
<1>n. \A r \in Requests : /\ Call(r) \in Calls
                          /\ Result(r) \in {Result(q) : q \in Requests}
                          /\ Notify(r) \in {Notify(q) : q \in Requests}
  BY DEF Calls
<1>1. ASSUME NEW r \in Requests, NewCall(r) PROVE ServersInv'
  BY <1>1, NewCallStep
<1>2. ASSUME NEW r \in Requests,
             GatewayAnswers(r) \/ ForwardReturns(r) \/ HandlePaymentResult(r) \/ NotifyConnect(r)
      PROVE  ServersInv'
  <2>1. /\ Gateway!Reply(Call(r)) \/ Gateway!Drop(Call(r)) \/ Gateway!Reply(Result(r))
             \/ Gateway!Drop(Result(r)) \/ Gateway!Connect(Result(r))
        /\ UNCHANGED beVars
    BY <1>2 DEF GatewayAnswers, ForwardReturns, HandlePaymentResult, NotifyConnect
  <2>. QED  BY <1>i, <1>n, <2>1, GatewayStep, QuietServers DEF ServersInv
<1>3. ASSUME NEW r \in Requests,
             Forward(r) \/ BackendDrops(r) \/ BackendPays(r) \/ BackendReplies(r)
               \/ NotifyReturns(r)
      PROVE  ServersInv'
  <2>1. /\ Backend!Connect(Call(r)) \/ Backend!Reply(Call(r)) \/ Backend!Drop(Call(r))
             \/ Backend!SubmitTask(Notify(r)) \/ Backend!Finish(Notify(r))
        /\ UNCHANGED gwVars
    BY <1>3 DEF Forward, BackendDrops, BackendPays, BackendReplies, NotifyReturns
  <2>. QED  BY <1>i, <1>n, <2>1, BackendStep, QuietServers DEF ServersInv
<1>4. CASE GatewayServer
  BY <1>i, <1>4, GatewayStep, QuietServers DEF ServersInv, GatewayServer
<1>5. CASE BackendServer
  BY <1>i, <1>5, BackendStep, QuietServers DEF ServersInv, BackendServer
<1>6. CASE Shutdown
  BY <1>i, <1>6, GatewayStep, BackendStep, QuietServers DEF ServersInv, Shutdown
<1>7. CASE UNCHANGED vars
  BY <1>i, <1>7, QuietServers DEF ServersInv, vars
<1>. QED  BY <1>1, <1>2, <1>3, <1>4, <1>5, <1>6, <1>7 DEF Next, HandlerSteps

\* Counter, queue and workers of both servers are exact in every reachable state, for
\* any number of requests under way, worker threads and connection slots.
THEOREM ServersInvariance == Spec => []ServersInv
<1>1. Init => ServersInv
  BY ServersConstants, GatewayNames, BackendNames, GatewayLemmas!ServerInit,
     BackendLemmas!ServerInit, Zenon DEF Init, ServersInv
<1>. QED  BY <1>1, ServersStep, PTL DEF Spec

\* What the invariant says in the words of GatewayBackend.
LEMMA ServersInvImplies == ServersInv => ServersTypeOK /\ ServersSlotsExact /\ ServersQueueExact
BY GatewayNames, BackendNames, Zenon
   DEF ServersInv, GatewayLemmas!ServerInv, BackendLemmas!ServerInv, ServersTypeOK,
   ServersSlotsExact, ServersQueueExact

\* Stages, queue, count and phase of both servers stay what HttpServer says they are.
THEOREM ServersTyping == Spec => []ServersTypeOK
BY ServersInvariance, ServersInvImplies, PTL

\* active_connections_ of either server counts exactly the connections it has accepted
\* and not closed, and stays within the limit: no handler that fails, no refusal and no
\* shutdown leaks a slot or releases one twice.
THEOREM SlotsNeverLeak == Spec => []ServersSlotsExact
BY ServersInvariance, ServersInvImplies, PTL

\* The queue of either pool holds exactly the accepted connections and submitted
\* notifications nobody has begun, each once, and no more jobs run than there are workers.
THEOREM QueuesExact == Spec => []ServersQueueExact
BY ServersInvariance, ServersInvImplies, PTL
=============================================================================
