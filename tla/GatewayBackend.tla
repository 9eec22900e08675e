--------------------------- MODULE GatewayBackend ---------------------------
(***************************************************************************)
(* Gateway and backend, each an HttpServer, calling each other.  A gateway *)
(* worker that forwards a request (gateway_impl.hpp, http_forwarder.hpp)   *)
(* blocks until the backend answers.  A backend worker that notifies a     *)
(* payment (common/gateway_notify.hpp) blocks until the gateway answers.   *)
(* Neither read has a timeout, and the notification task waits in the same *)
(* queue as the requests.                                                  *)
(*                                                                         *)
(* Requests bounds how many requests are under way at once, each together  *)
(* with the notification it may cause; a finished one is reused.           *)
(***************************************************************************)
EXTENDS Naturals, Sequences, FiniteSets

CONSTANTS
    Requests,
    GatewayThreads, BackendThreads,           \* HTTP_WORKER_THREADS of each process
    GatewayConnections, BackendConnections,   \* HTTP_MAX_CONCURRENT_CONNECTIONS
    MinWorkers,                               \* see HttpServer
    Stops                                     \* processes that may be stopped and restarted

ASSUME RequestAssumption == IsFiniteSet(Requests)
ASSUME ThreadAssumption ==
    GatewayThreads \in Nat \ {0} /\ BackendThreads \in Nat \ {0} /\ MinWorkers \in Nat \ {0}
ASSUME ConnectionAssumption ==
    GatewayConnections \in Nat \ {0} /\ BackendConnections \in Nat \ {0}

VARIABLES
    gwStage, gwTasks, gwActive, gwPhase,
    beStage, beTasks, beActive, bePhase

gwVars == <<gwStage, gwTasks, gwActive, gwPhase>>
beVars == <<beStage, beTasks, beActive, bePhase>>
vars == <<gwVars, beVars>>

\* A request is a connection to the gateway and, forwarded, one to the backend; its
\* notification is a task of the backend and a connection to the gateway.
Call(r) == <<"call", r>>
Result(r) == <<"result", r>>
Notify(r) == <<"notify", r>>
Calls == {Call(r) : r \in Requests}

Gateway == INSTANCE HttpServer WITH
    Conns <- Calls \cup {Result(r) : r \in Requests}, Tasks <- {},
    MaxConnections <- GatewayConnections, WorkerThreads <- GatewayThreads,
    stage <- gwStage, tasks <- gwTasks, active <- gwActive, phase <- gwPhase

Backend == INSTANCE HttpServer WITH
    Conns <- Calls, Tasks <- {Notify(r) : r \in Requests},
    MaxConnections <- BackendConnections, WorkerThreads <- BackendThreads,
    stage <- beStage, tasks <- beTasks, active <- beActive, phase <- bePhase

Gone == {"none", "closed", "refused"}
\* The peer can read an answer, or the end of the stream.
Answered == {"replied", "closed", "refused"}

Init == Gateway!Init /\ Backend!Init

----------------------------------------------------------------------------
(* A browser's request, through Nginx.                                     *)

NewCall(r) ==
    /\ gwStage[Call(r)] \in Gone /\ gwStage[Result(r)] \in Gone
    /\ beStage[Call(r)] \in Gone /\ beStage[Notify(r)] \in Gone
    /\ gwPhase = "running"
    /\ gwStage' = [gwStage EXCEPT ![Call(r)] = "backlog", ![Result(r)] = "none"]
    /\ beStage' = [beStage EXCEPT ![Call(r)] = "none", ![Notify(r)] = "none"]
    /\ UNCHANGED <<gwTasks, gwActive, gwPhase, beTasks, beActive, bePhase>>

----------------------------------------------------------------------------
(* The gateway's handler.                                                  *)

\* handleRequest answers by itself: wrong origin, unknown path, no session, Redis
\* down, backend not reachable; or the request cannot be read.
GatewayAnswers(r) ==
    /\ beStage[Call(r)] = "none"
    /\ Gateway!Reply(Call(r)) \/ Gateway!Drop(Call(r))
    /\ UNCHANGED beVars

\* Mutant of Forward: the forwarder connects again when the backend closed the
\* connection.
ForwardRetrying(r) ==
    /\ gwStage[Call(r)] = "running"
    /\ beStage[Call(r)] \in {"none", "closed"}
    /\ Backend!Connect(Call(r))
    /\ UNCHANGED gwVars

\* forwardToBackend connects and writes the request ...
Forward(r) ==
    /\ gwStage[Call(r)] = "running"
    /\ beStage[Call(r)] = "none"
    /\ Backend!Connect(Call(r))
    /\ UNCHANGED gwVars

\* ... and readHttpResponse blocks until the backend answers or closes.
ForwardReturns(r) ==
    /\ beStage[Call(r)] \in Answered
    /\ Gateway!Reply(Call(r))
    /\ UNCHANGED beVars

\* handlePaymentResult pushes to the WebSocket and answers; or the request cannot be
\* read.
HandlePaymentResult(r) ==
    /\ Gateway!Reply(Result(r)) \/ Gateway!Drop(Result(r))
    /\ UNCHANGED beVars

----------------------------------------------------------------------------
(* The backend's handler.                                                  *)

\* readHttpRequest fails before any handler runs: the connection is closed unanswered.
BackendDrops(r) ==
    /\ beStage[Notify(r)] = "none"
    /\ Backend!Drop(Call(r))
    /\ UNCHANGED gwVars

\* handlePay settled the payment and submits the notification to the pool.
BackendPays(r) ==
    /\ beStage[Call(r)] = "running"
    /\ beStage[Notify(r)] = "none"
    /\ Backend!SubmitTask(Notify(r))
    /\ UNCHANGED gwVars

\* Mutant of BackendReplies: handlePay waits for the notification it submitted.
BackendRepliesAfterNotice(r) ==
    /\ beStage[Notify(r)] \in Gone
    /\ Backend!Reply(Call(r))
    /\ UNCHANGED gwVars

\* Every handler ends by writing its response.
BackendReplies(r) == Backend!Reply(Call(r)) /\ UNCHANGED gwVars

\* notifyPaymentResult connects to the gateway ...
NotifyConnect(r) ==
    /\ beStage[Notify(r)] = "running"
    /\ gwStage[Result(r)] = "none"
    /\ Gateway!Connect(Result(r))
    /\ UNCHANGED beVars

\* ... and readHttpStatus blocks until it answers or closes.
NotifyReturns(r) ==
    /\ gwStage[Result(r)] \in Answered
    /\ Backend!Finish(Notify(r))
    /\ UNCHANGED gwVars

----------------------------------------------------------------------------

GatewayServer ==
    \/ \E c \in Calls \cup {Result(r) : r \in Requests} :
         (Gateway!Accept(c) \/ Gateway!Close(c)) /\ UNCHANGED beVars
    \/ Gateway!TakeTask /\ UNCHANGED beVars

BackendServer ==
    \/ \E c \in Calls : (Backend!Accept(c) \/ Backend!Close(c)) /\ UNCHANGED gwVars
    \/ Backend!TakeTask /\ UNCHANGED gwVars

Shutdown ==
    \/ /\ "gateway" \in Stops
       /\ Gateway!StopAccepting \/ Gateway!StopPool \/ Gateway!Restart
       /\ UNCHANGED beVars
    \/ /\ "backend" \in Stops
       /\ Backend!StopAccepting \/ Backend!StopPool \/ Backend!Restart
       /\ UNCHANGED gwVars

HandlerSteps(r) ==
    \/ GatewayAnswers(r) \/ Forward(r) \/ ForwardReturns(r) \/ HandlePaymentResult(r)
    \/ BackendDrops(r) \/ BackendPays(r) \/ BackendReplies(r)
    \/ NotifyConnect(r) \/ NotifyReturns(r)

Next ==
    \/ \E r \in Requests : NewCall(r) \/ HandlerSteps(r)
    \/ GatewayServer \/ BackendServer \/ Shutdown

\* Threads keep running: accept loops, idle workers and handlers that are not blocked
\* in a read.  Nothing is assumed of browsers, of whether a payment is made, or of a
\* shutdown: a process may stay between two of its steps, or stopped, for ever.
Fairness ==
    /\ \A r \in Requests :
         /\ WF_vars(Forward(r) \/ GatewayAnswers(r)) /\ WF_vars(ForwardReturns(r))
         /\ WF_vars(HandlePaymentResult(r))
         /\ WF_vars(BackendReplies(r))
         /\ WF_vars(NotifyConnect(r)) /\ WF_vars(NotifyReturns(r))
         /\ WF_vars(Gateway!Accept(Call(r)) /\ UNCHANGED beVars)
         /\ WF_vars(Gateway!Accept(Result(r)) /\ UNCHANGED beVars)
         /\ WF_vars(Gateway!Close(Call(r)) /\ UNCHANGED beVars)
         /\ WF_vars(Gateway!Close(Result(r)) /\ UNCHANGED beVars)
         /\ WF_vars(Backend!Accept(Call(r)) /\ UNCHANGED gwVars)
         /\ WF_vars(Backend!Close(Call(r)) /\ UNCHANGED gwVars)
    /\ WF_vars(Gateway!TakeTask /\ UNCHANGED beVars)
    /\ WF_vars(Backend!TakeTask /\ UNCHANGED gwVars)

Spec == Init /\ [][Next]_vars
FairSpec == Spec /\ Fairness

----------------------------------------------------------------------------

\* Stages, queue, count and phase of both servers are what HttpServer says they are.
ServersTypeOK == Gateway!TypeOK /\ Backend!TypeOK

\* In both servers active_connections_ counts exactly the connections that are not
\* closed yet and stays within the limit: handlers that fail, calls in both directions,
\* refusals and a shutdown neither leak a slot nor release one twice.
ServersSlotsExact == Gateway!SlotsExact /\ Backend!SlotsExact

\* In both servers the queue of the pool holds exactly the accepted connections and
\* submitted notifications nobody has begun, each once, and no more run than there are
\* workers.
ServersQueueExact == Gateway!QueueExact /\ Backend!QueueExact

\* Requests whose gateway worker waits for a backend that has only queued them, and
\* notifications whose backend worker waits for a gateway that has only queued them.
WaitsForBackend ==
    {r \in Requests : gwStage[Call(r)] = "running" /\ beStage[Call(r)] = "queued"}
WaitsForGateway ==
    {r \in Requests : beStage[Notify(r)] = "running" /\ gwStage[Result(r)] = "queued"}

\* The two pools are never all waiting for each other: a state in which every
\* gateway worker waits for a queued request and every backend worker for a queued
\* notification is final.
NoMutualWait ==
    ~ /\ Cardinality(WaitsForBackend) >= Gateway!WorkerCount
      /\ Cardinality(WaitsForGateway) >= Backend!WorkerCount

\* The inductive invariant behind NoMutualWait: the backend's queue holds queued
\* jobs, each once, and a notification exists only once its request has left that
\* queue, so that a request and its own notification never wait at the same time.
PoolsInv ==
    /\ beStage \in [Backend!Jobs -> Backend!Stages]
    /\ beTasks \in Seq(Backend!Jobs)
    /\ \A i \in 1..Len(beTasks) : beStage[beTasks[i]] = "queued"
    /\ \A i, k \in 1..Len(beTasks) : beTasks[i] = beTasks[k] => i = k
    /\ \A r \in Requests :
         beStage[Call(r)] \in {"none", "backlog", "queued"} => beStage[Notify(r)] = "none"

\* Every request the gateway's socket takes is answered, refused or closed, and every
\* notification handlePay submitted runs to its end.
EveryCallAnswered ==
    \A r \in Requests :
        /\ gwStage[Call(r)] = "backlog" ~> gwStage[Call(r)] \in Answered
        /\ beStage[Notify(r)] = "queued" ~> beStage[Notify(r)] = "closed"

\* What a server has accepted it serves and closes, also when it is told to stop in
\* between and the other server is stopping too: ~WorkerPool waits for its queue.
AcceptedIsServed == Gateway!QueuedIsServed /\ Backend!QueuedIsServed
=============================================================================
