--------------------------- MODULE ConnectionPool ---------------------------
(***************************************************************************)
(* The three connection pools: MySqlPool and RedisPool of the backend and  *)
(* SessionStore of the gateway.  They share one design (a queue, a mutex,  *)
(* a condition variable, a guard that gives a connection back) and differ  *)
(* in what acquire does with a connection that does not answer the ping:   *)
(* MySqlPool and SessionStore replace it, the first with the mutex held;   *)
(* RedisPool's ping throws.                                                *)
(*                                                                         *)
(* A thread acquires, uses and releases connections; only a settlement     *)
(* acquires a second one while it holds the first.  stack[t] are the       *)
(* guards of a thread, the innermost last.                                 *)
(***************************************************************************)
EXTENDS Naturals, Sequences, FiniteSets

CONSTANTS
    Threads,    \* the workers of the process
    Conns,      \* addresses a connection can have
    PoolSize,   \* pool_size
    Kinds,      \* which of the pools to look at
    MaxFaults,  \* bound on outages, dropped connections and refused connects
    NoConn

PoolKinds == {"MySqlPool", "RedisPool", "SessionStore"}

ASSUME PoolAssumption ==
    /\ PoolSize \in Nat \ {0} /\ MaxFaults \in Nat
    /\ IsFiniteSet(Threads) /\ IsFiniteSet(Conns) /\ PoolSize <= Cardinality(Conns)
    /\ Kinds \subseteq PoolKinds /\ NoConn \notin Conns

VARIABLES
    kind,         \* the pool this behaviour is about
    phase,        \* of the process: "starting", "running", "exited"
    connections,  \* connections_
    state,        \* of each address: "none", "open", or "broken" by the server
    pc,           \* where a thread is: out of the pool, in acquire, or using a connection
    hand,         \* the connection acquire has popped
    stack,        \* the connections of a thread's guards
    woken,        \* waiting threads a notify has reached
    serverUp, faults

vars == <<kind, phase, connections, state, pc, hand, stack, woken, serverUp, faults>>

InAcquire == {"wait", "ping", "create"}

TypeOK ==
    /\ kind \in Kinds
    /\ phase \in {"starting", "running", "exited"}
    /\ connections \in Seq(Conns) /\ Len(connections) <= PoolSize
    /\ state \in [Conns -> {"none", "open", "broken"}]
    /\ pc \in [Threads -> {"out", "use"} \cup InAcquire]
    /\ hand \in [Threads -> Conns \cup {NoConn}]
    /\ stack \in [Threads -> Seq(Conns)]
    /\ woken \subseteq {t \in Threads : pc[t] = "wait"}
    /\ serverUp \in BOOLEAN
    /\ faults \in 0..MaxFaults

Init ==
    /\ kind \in Kinds
    /\ phase = "starting"
    /\ connections = <<>>
    /\ state = [c \in Conns |-> "none"]
    /\ pc = [t \in Threads |-> "out"]
    /\ hand = [t \in Threads |-> NoConn]
    /\ stack = [t \in Threads |-> <<>>]
    /\ woken = {}
    /\ serverUp = TRUE
    /\ faults = 0

----------------------------------------------------------------------------
(* Start and end of the process.                                           *)

Fault == faults < MaxFaults /\ faults' = faults + 1

\* createConnection: connect, authenticate, select.
CreateConnection(c) ==
    /\ serverUp
    /\ state[c] = "none"
    /\ state' = [state EXCEPT ![c] = "open"]

\* createConnection throws: always while the server is down, and at times while it
\* is up (no connection left for us, a timeout, credentials that were changed).
CreateThrows == IF serverUp THEN Fault ELSE UNCHANGED faults

\* Mutant of InitPool: the loop runs to i <= pool_size.
InitPoolOneMore(c) ==
    /\ phase = "starting"
    /\ CreateConnection(c)
    /\ connections' = Append(connections, c)
    /\ phase' = IF Len(connections) = PoolSize THEN "running" ELSE "starting"
    /\ UNCHANGED <<kind, pc, hand, stack, woken, serverUp, faults>>

\* One round of init's loop; the last sets initialized_.
InitPool(c) ==
    /\ phase = "starting"
    /\ CreateConnection(c)
    /\ connections' = Append(connections, c)
    /\ phase' = IF Len(connections) + 1 = PoolSize THEN "running" ELSE "starting"
    /\ UNCHANGED <<kind, pc, hand, stack, woken, serverUp, faults>>

\* shutdown closes what is in the queue.
CloseIdle ==
    /\ state' = [c \in Conns |->
                   IF \E i \in DOMAIN connections : connections[i] = c THEN "none" ELSE state[c]]
    /\ connections' = <<>>

\* Mutant of InitFails: shutdown returns early whenever initialized_ is false.
InitFailsKeepingOpen ==
    /\ phase = "starting" /\ CreateThrows
    /\ phase' = "exited"
    /\ UNCHANGED <<kind, state, connections, pc, hand, stack, woken, serverUp>>

\* createConnection throws during init: main returns and the destructor closes the
\* connections made so far.
InitFails ==
    /\ phase = "starting" /\ CreateThrows
    /\ phase' = "exited"
    /\ CloseIdle
    /\ UNCHANGED <<kind, pc, hand, stack, woken, serverUp>>

\* The pool is a static made before WorkerPool: its destructor runs after ~WorkerPool
\* has joined the workers, so no thread is in the pool.
Shutdown ==
    /\ phase = "running"
    /\ \A t \in Threads : pc[t] = "out"
    /\ phase' = "exited"
    /\ CloseIdle
    /\ UNCHANGED <<kind, pc, hand, stack, woken, serverUp, faults>>

\* A new process; the kernel has closed what the old one left open.
Restart ==
    /\ phase = "exited"
    /\ phase' = "starting"
    /\ state' = [c \in Conns |-> "none"]
    /\ UNCHANGED <<kind, connections, pc, hand, stack, woken, serverUp, faults>>

----------------------------------------------------------------------------
(* acquire.                                                                *)

\* Only MySqlPool pings and reconnects with the mutex held.
MutexFree == kind = "MySqlPool" => \A t \in Threads : pc[t] \notin {"ping", "create"}

\* finalizePaymentSuccess's guard is alive when markAttemptFailedNoThrow acquires.
MaxDepth == IF kind = "MySqlPool" THEN 2 ELSE 1

Pop(t) ==
    /\ hand' = [hand EXCEPT ![t] = Head(connections)]
    /\ connections' = Tail(connections)
    /\ pc' = [pc EXCEPT ![t] = "ping"]

\* acquire throws: out of the handler, or, when it was the second connection,
\* into the catch of markAttemptFailedNoThrow.
Throw(t) ==
    /\ pc' = [pc EXCEPT ![t] = IF stack[t] = <<>> THEN "out" ELSE "use"]
    /\ hand' = [hand EXCEPT ![t] = NoConn]

Acquire(t) ==
    /\ phase = "running" /\ MutexFree
    /\ pc[t] \in {"out", "use"} /\ Len(stack[t]) < MaxDepth
    /\ IF connections # <<>>
         THEN Pop(t)
         ELSE pc' = [pc EXCEPT ![t] = "wait"] /\ UNCHANGED <<hand, connections>>
    /\ UNCHANGED <<kind, phase, state, stack, woken, serverUp, faults>>

\* A notified thread looks at the predicate again and may find the queue empty.
Wake(t) ==
    /\ pc[t] = "wait" /\ t \in woken /\ MutexFree
    /\ woken' = woken \ {t}
    /\ IF connections # <<>> THEN Pop(t) ELSE UNCHANGED <<pc, hand, connections>>
    /\ UNCHANGED <<kind, phase, state, stack, serverUp, faults>>

\* Mutant of Timeout: wait in place of wait_for.
TimeoutNever(t) ==
    /\ FALSE
    /\ pc[t] = "wait" /\ MutexFree
    /\ woken' = woken \ {t}
    /\ Throw(t)
    /\ UNCHANGED <<kind, phase, state, connections, stack, serverUp, faults>>

\* wait_for gives up, unless the predicate holds at the last look.
Timeout(t) ==
    /\ pc[t] = "wait" /\ MutexFree
    /\ woken' = woken \ {t}
    /\ IF connections # <<>> THEN Pop(t) ELSE Throw(t) /\ UNCHANGED connections
    /\ UNCHANGED <<kind, phase, state, stack, serverUp, faults>>

\* The guard takes the connection.
Return(t, c) ==
    /\ stack' = [stack EXCEPT ![t] = Append(@, c)]
    /\ hand' = [hand EXCEPT ![t] = NoConn]
    /\ pc' = [pc EXCEPT ![t] = "use"]

PingAnswered(t) ==
    /\ pc[t] = "ping" /\ state[hand[t]] = "open"
    /\ Return(t, hand[t])
    /\ UNCHANGED <<kind, phase, connections, state, woken, serverUp, faults>>

\* Mutant of Replace: the closed connection also goes back to the queue.
ReplaceKeepingOld(t) ==
    /\ state' = [state EXCEPT ![hand[t]] = "none"]
    /\ connections' = Append(connections, hand[t])
    /\ hand' = [hand EXCEPT ![t] = NoConn]
    /\ pc' = [pc EXCEPT ![t] = "create"]
    /\ UNCHANGED <<kind, phase, stack, woken, serverUp, faults>>

\* Mutant of Replace: the caller is told of the dead connection, and none is made.
ReplaceByNone(t) ==
    /\ state' = [state EXCEPT ![hand[t]] = "none"]
    /\ Throw(t)
    /\ UNCHANGED <<kind, phase, connections, stack, woken, serverUp, faults>>

\* The dead connection is closed and another one is to be made.
Replace(t) ==
    /\ state' = [state EXCEPT ![hand[t]] = "none"]
    /\ hand' = [hand EXCEPT ![t] = NoConn]
    /\ pc' = [pc EXCEPT ![t] = "create"]
    /\ UNCHANGED <<kind, phase, connections, stack, woken, serverUp, faults>>

\* mysql_ping # 0.
MySqlPingFails(t) ==
    /\ kind = "MySqlPool" /\ pc[t] = "ping" /\ state[hand[t]] = "broken"
    /\ Replace(t)

\* SessionStore::ping: statusOk(nullptr) is false.
StorePingFails(t) ==
    /\ kind = "SessionStore" /\ pc[t] = "ping" /\ state[hand[t]] = "broken"
    /\ Replace(t)

\* RedisPool::ping: checkStatusReply(nullptr) throws; the popped connection is
\* neither freed nor given back.  (It would be replaced if Redis answered PING with
\* another status than PONG, which it does not.)
RedisPingThrows(t) ==
    /\ kind = "RedisPool" /\ pc[t] = "ping" /\ state[hand[t]] = "broken"
    /\ Throw(t)
    /\ UNCHANGED <<kind, phase, connections, state, stack, woken, serverUp, faults>>

Reconnect(t) ==
    /\ pc[t] = "create"
    /\ \E c \in Conns : CreateConnection(c) /\ Return(t, c)
    /\ UNCHANGED <<kind, phase, connections, woken, serverUp, faults>>

\* The exception leaves acquire; the connection it was to replace is gone.
ReconnectFails(t) ==
    /\ pc[t] = "create" /\ CreateThrows
    /\ Throw(t)
    /\ UNCHANGED <<kind, phase, connections, state, stack, woken, serverUp>>

----------------------------------------------------------------------------
(* release.                                                                *)

Sleeping == {t \in Threads : pc[t] = "wait"} \ woken

\* Mutant of NotifyOne: only a queue that was empty is worth a notification.
NotifyOneIfEmpty ==
    \/ connections = <<>> /\ \E v \in Sleeping : woken' = woken \cup {v}
    \/ (Sleeping = {} \/ connections # <<>>) /\ UNCHANGED woken

\* notify_one reaches one of the threads that still sleep, if there is one.
NotifyOne ==
    \/ \E v \in Sleeping : woken' = woken \cup {v}
    \/ Sleeping = {} /\ UNCHANGED woken

\* The innermost guard goes out of scope, whether the statement succeeded or threw.
Release(t) ==
    LET last == Len(stack[t]) IN
    /\ pc[t] = "use" /\ MutexFree
    /\ connections' = Append(connections, stack[t][last])
    /\ NotifyOne
    /\ stack' = [stack EXCEPT ![t] = SubSeq(@, 1, last - 1)]
    /\ pc' = [pc EXCEPT ![t] = IF last = 1 THEN "out" ELSE "use"]
    /\ UNCHANGED <<kind, phase, state, hand, serverUp, faults>>

----------------------------------------------------------------------------
(* The server.                                                             *)

\* The server stops: every connection of the process is dead.
Outage ==
    /\ Fault /\ serverUp
    /\ serverUp' = FALSE
    /\ state' = [c \in Conns |-> IF state[c] = "open" THEN "broken" ELSE state[c]]
    /\ UNCHANGED <<kind, phase, connections, pc, hand, stack, woken>>

Recover ==
    /\ ~serverUp
    /\ serverUp' = TRUE
    /\ UNCHANGED <<kind, phase, connections, state, pc, hand, stack, woken, faults>>

\* The server drops one connection, such as one that was idle too long.
ConnectionDrops(c) ==
    /\ Fault
    /\ state[c] = "open"
    /\ state' = [state EXCEPT ![c] = "broken"]
    /\ UNCHANGED <<kind, phase, connections, pc, hand, stack, woken, serverUp>>

----------------------------------------------------------------------------

\* acquire after the pop: the ping and what follows it.
CheckConnection(t) ==
    \/ PingAnswered(t)
    \/ MySqlPingFails(t) \/ StorePingFails(t) \/ RedisPingThrows(t)
    \/ Reconnect(t) \/ ReconnectFails(t)

Next ==
    \/ \E c \in Conns : InitPool(c) \/ ConnectionDrops(c)
    \/ InitFails \/ Shutdown \/ Restart
    \/ \E t \in Threads :
         Acquire(t) \/ Wake(t) \/ Timeout(t) \/ CheckConnection(t) \/ Release(t)
    \/ Outage \/ Recover

\* The calls to the server have timeouts, and a thread whose wait_for is over is not
\* passed over at the mutex forever.
Fairness == \A t \in Threads : WF_vars(CheckConnection(t)) /\ SF_vars(Timeout(t))

Spec == Init /\ [][Next]_vars /\ Fairness

----------------------------------------------------------------------------
(* What the pools promise.                                                 *)

Idle == {connections[i] : i \in DOMAIN connections}
Guarded(t) == {stack[t][i] : i \in DOMAIN stack[t]} \cup ({hand[t]} \ {NoConn})

\* A connection is at one place: once in the queue or with one thread, and what is
\* at either place has not been closed.  Two threads never talk on one connection.
OneOwner ==
    /\ Cardinality(Idle) = Len(connections)
    /\ \A t \in Threads : Guarded(t) \cap Idle = {}
    /\ \A t, u \in Threads : t # u => Guarded(t) \cap Guarded(u) = {}
    /\ \A c \in Idle \cup UNION {Guarded(t) : t \in Threads} : state[c] # "none"

\* notify_one at every release is enough: while a thread sleeps unnotified there
\* are at least as many notified threads as connections in the queue, so no
\* connection lies idle beside a sleeper.
NoLostWakeup == Sleeping # {} => Len(connections) <= Cardinality(woken)

\* How many connections the pool has, in the queue, in use or being replaced.
Population ==
    Len(connections)
      + Cardinality(UNION {Guarded(t) : t \in Threads})
      + Cardinality({t \in Threads : pc[t] = "create"})

\* createConnection threw: the thread leaves acquire with nothing.
GivesUp(t) == pc[t] = "create" /\ pc'[t] # "create" /\ stack'[t] = stack[t]

\* MySqlPool and SessionStore lose a connection only to a createConnection that threw,
\* and that one takes one from the pool: no timeout, dead connection, outage or
\* exception of a statement changes how many there are.
LostOnlyToFailedConnect ==
    [][kind # "RedisPool" /\ phase = "running" /\ phase' = "running"
         => IF \E t \in Threads : GivesUp(t)
              THEN Population' = Population - 1
              ELSE Population' = Population]_vars

\* acquire keeps the number of connections of the pool constant while the server
\* can be reached.
AcquireKeepsTotal ==
    [][phase = "running" /\ phase' = "running" /\ serverUp => Population' = Population]_vars

\* What MySqlPool and SessionStore opened is closed when the process ends, also when
\* it ends in the middle of init.
ExitClosesAll ==
    phase = "exited" /\ kind # "RedisPool" => \A c \in Conns : state[c] = "none"

\* acquire returns or throws, also when all threads hold a connection and wait for
\* a second one.
AcquireEnds ==
    \A t \in Threads : pc[t] \in InAcquire ~> pc[t] \notin InAcquire
=============================================================================
