----------------------------- MODULE WsRegistry -----------------------------
(***************************************************************************)
(* The gateway's WebSocket side: the accept loop runWebSocketServer and    *)
(* one detached thread handleWebSocketClient per page A (gateway/main.cpp),*)
(* and the WsRegistry that maps payment sessions to file descriptors       *)
(* (gateway/common/ws_registry.hpp), through which handlePaymentResult     *)
(* pushes a payment's result.                                              *)
(*                                                                         *)
(* Threads and registry name a connection by the number of its descriptor; *)
(* which connection a number denotes is the kernel's business and changes  *)
(* when a number is closed and handed out again.  A thread blocked in      *)
(* read() goes on reading the connection it began with.                    *)
(***************************************************************************)
EXTENDS Naturals, FiniteSets

CONSTANTS
    Conns,            \* WebSocket connections of pages A
    Sessions,         \* payment_session_ids
    SessionFor,       \* the payment_session_id in a connection's request
    Fds,              \* descriptor numbers the process can get
    MaxConnections,   \* WS_MAX_CONNECTIONS
    NoConn, NoFd, NoSession

ASSUME WsAssumption ==
    /\ SessionFor \in [Conns -> Sessions] /\ MaxConnections \in Nat \ {0}
    /\ IsFiniteSet(Conns)
    /\ NoConn \notin Conns /\ NoFd \notin Fds /\ NoSession \notin Sessions

VARIABLES
    alive,         \* the gateway process runs
    socket,        \* the kernel's table: the connection a number denotes
    peer,          \* whether the page is still there
    pc,            \* what a connection's thread does next; "none": no thread
    clientFd,      \* the thread's client_fd
    reads,         \* the connection the thread's read() is blocked on
    sessionToFd, fdToSession,   \* the registry's two maps
    wsActive,      \* g_ws_active_connections
    received       \* the sessions whose PAYMENT_RESULT was written to a connection

registry == <<sessionToFd, fdToSession>>
wsVars ==
    <<alive, socket, peer, pc, clientFd, reads, sessionToFd, fdToSession, wsActive, received>>

Pc == {"none", "accepted", "handshake", "bind", "send_bound", "reading", "unbind", "close", "leave"}

WsTypeOK ==
    /\ alive \in BOOLEAN
    /\ socket \in [Fds -> Conns \cup {NoConn}]
    /\ peer \in [Conns -> {"open", "gone"}]
    /\ pc \in [Conns -> Pc]
    /\ clientFd \in [Conns -> Fds \cup {NoFd}]
    /\ reads \in [Conns -> Conns \cup {NoConn}]
    /\ sessionToFd \in [Sessions -> Fds \cup {NoFd}]
    /\ fdToSession \in [Fds -> Sessions \cup {NoSession}]
    /\ wsActive \in Nat
    /\ received \in [Conns -> SUBSET Sessions]

WsInit ==
    /\ alive = FALSE
    /\ socket = [f \in Fds |-> NoConn]
    /\ peer = [c \in Conns |-> "gone"]
    /\ pc = [c \in Conns |-> "none"]
    /\ clientFd = [c \in Conns |-> NoFd]
    /\ reads = [c \in Conns |-> NoConn]
    /\ sessionToFd = [s \in Sessions |-> NoFd]
    /\ fdToSession = [f \in Fds |-> NoSession]
    /\ wsActive = 0
    /\ received = [c \in Conns |-> {}]

Goto(c, next) == pc' = [pc EXCEPT ![c] = next]

----------------------------------------------------------------------------
(* The accept loop.                                                        *)

\* A page connects: accept() hands out a free number, the count is below the limit
\* and a thread is started.
Accept(c, f) ==
    /\ alive /\ pc[c] = "none" /\ \A d \in Conns : reads[d] # c
    /\ socket[f] = NoConn
    /\ wsActive < MaxConnections
    /\ socket' = [socket EXCEPT ![f] = c]
    /\ peer' = [peer EXCEPT ![c] = "open"]
    /\ clientFd' = [clientFd EXCEPT ![c] = f]
    /\ received' = [received EXCEPT ![c] = {}]
    /\ Goto(c, "accepted")
    /\ UNCHANGED <<alive, reads, registry, wsActive>>

\* Mutant of Refuse: the refusal gives back a slot it never took.
RefuseReleasesSlot(c) ==
    /\ alive /\ pc[c] = "none" /\ peer[c] = "gone"
    /\ wsActive >= MaxConnections
    /\ wsActive' = wsActive - 1
    /\ UNCHANGED <<alive, socket, peer, pc, clientFd, reads, registry, received>>

\* At the limit the new descriptor is closed at once; nothing else happens.
Refuse(c) ==
    /\ alive /\ pc[c] = "none" /\ peer[c] = "gone"
    /\ wsActive >= MaxConnections
    /\ UNCHANGED wsVars

----------------------------------------------------------------------------
(* handleWebSocketClient.                                                  *)

\* ConnectionGuard's constructor, on the new thread; the first read() begins.
Start(c) ==
    /\ pc[c] = "accepted"
    /\ wsActive' = wsActive + 1
    /\ reads' = [reads EXCEPT ![c] = socket[clientFd[c]]]
    /\ Goto(c, "handshake")
    /\ UNCHANGED <<alive, socket, peer, clientFd, registry, received>>

\* The end of the upgrade request arrives on the connection the thread reads, and no
\* other thread has consumed it; performHandshake writes 101 to the descriptor.
Handshake(c) ==
    /\ pc[c] = "handshake"
    /\ reads[c] # NoConn
    /\ \A d \in Conns \ {c} : reads[d] = reads[c] => pc[d] = "handshake"
    /\ socket[clientFd[c]] # NoConn
    /\ Goto(c, "bind")
    /\ UNCHANGED <<alive, socket, peer, clientFd, reads, registry, wsActive, received>>

\* Mutant of HandshakeFails: the early return closes the descriptor but keeps the slot.
HandshakeFailsKeepingSlot(c) ==
    /\ pc[c] = "handshake"
    /\ socket' = [socket EXCEPT ![clientFd[c]] = NoConn]
    /\ peer' = [peer EXCEPT ![c] = "gone"]
    /\ clientFd' = [clientFd EXCEPT ![c] = NoFd]
    /\ reads' = [reads EXCEPT ![c] = NoConn]
    /\ Goto(c, "none")
    /\ UNCHANGED <<alive, registry, wsActive, received>>

\* The request is cut off, too long or not a valid upgrade, or the write fails.
HandshakeFails(c) ==
    /\ pc[c] = "handshake"
    /\ Goto(c, "close")
    /\ UNCHANGED <<alive, socket, peer, clientFd, reads, registry, wsActive, received>>

\* WsRegistry::bind closes the descriptor the session was bound to.
Bind(c) ==
    LET s == SessionFor[reads[c]]
        f == clientFd[c]
        replaced == {g \in Fds : sessionToFd[s] = g /\ g # f}
    IN
    /\ pc[c] = "bind"
    /\ socket' = [g \in Fds |-> IF g \in replaced THEN NoConn ELSE socket[g]]
    /\ fdToSession' = [fdToSession EXCEPT ![f] = s]
    /\ sessionToFd' = [sessionToFd EXCEPT ![s] = f]
    /\ Goto(c, "send_bound")
    /\ UNCHANGED <<alive, peer, clientFd, reads, wsActive, received>>

\* BIND_SUCCESS is written to the number, outside the registry's lock, and the thread
\* begins to read.
SendBound(c) ==
    /\ pc[c] = "send_bound"
    /\ reads' = [reads EXCEPT ![c] = socket[clientFd[c]]]
    /\ Goto(c, "reading")
    /\ UNCHANGED <<alive, socket, peer, clientFd, registry, wsActive, received>>

\* A part of the upgrade request, or a frame from the page, has been read: the loop
\* calls read() again, on the number.
ReadAgain(c) ==
    /\ pc[c] \in {"handshake", "reading"}
    /\ reads[c] \in {d \in Conns : peer[d] = "open"}
    /\ reads' = [reads EXCEPT ![c] = socket[clientFd[c]]]
    /\ UNCHANGED <<alive, socket, peer, pc, clientFd, registry, wsActive, received>>

\* Mutant of ReadEnds: only an error ends the loop, the end of the stream does not.
ReadEndsOnError(c) ==
    /\ pc[c] = "reading"
    /\ reads[c] = NoConn
    /\ Goto(c, "unbind")
    /\ UNCHANGED <<alive, socket, peer, clientFd, reads, registry, wsActive, received>>

\* read() returns 0 (the page has gone) or -1 (the number is closed).
ReadEnds(c) ==
    /\ pc[c] = "reading"
    /\ reads[c] \in {NoConn} \cup {d \in Conns : peer[d] = "gone"}
    /\ Goto(c, "unbind")
    /\ UNCHANGED <<alive, socket, peer, clientFd, reads, registry, wsActive, received>>

\* Mutant of Unbind: the entry of session_to_fd_ is left behind.
UnbindOneMap(c) ==
    /\ pc[c] = "unbind"
    /\ fdToSession' = [fdToSession EXCEPT ![clientFd[c]] = NoSession]
    /\ Goto(c, "close")
    /\ UNCHANGED <<alive, socket, peer, clientFd, reads, sessionToFd, wsActive, received>>

\* WsRegistry::unbind.
Unbind(c) ==
    LET f == clientFd[c]
        s == fdToSession[f]
    IN
    /\ pc[c] = "unbind"
    /\ fdToSession' = [fdToSession EXCEPT ![f] = NoSession]
    /\ sessionToFd' = [t \in Sessions |-> IF t = s /\ sessionToFd[t] = f THEN NoFd
                                                                         ELSE sessionToFd[t]]
    /\ Goto(c, "close")
    /\ UNCHANGED <<alive, socket, peer, clientFd, reads, wsActive, received>>

\* close(client_fd): the number, whatever it denotes.
Close(c) ==
    /\ pc[c] = "close"
    /\ socket' = [socket EXCEPT ![clientFd[c]] = NoConn]
    /\ Goto(c, "leave")
    /\ UNCHANGED <<alive, peer, clientFd, reads, registry, wsActive, received>>

\* ConnectionGuard's destructor; the thread ends and its page is disconnected.
Leave(c) ==
    /\ pc[c] = "leave"
    /\ wsActive' = wsActive - 1
    /\ peer' = [peer EXCEPT ![c] = "gone"]
    /\ clientFd' = [clientFd EXCEPT ![c] = NoFd]
    /\ reads' = [reads EXCEPT ![c] = NoConn]
    /\ Goto(c, "none")
    /\ UNCHANGED <<alive, socket, registry, received>>

----------------------------------------------------------------------------

PageLeaves(c) ==
    /\ peer[c] = "open"
    /\ peer' = [peer EXCEPT ![c] = "gone"]
    /\ UNCHANGED <<alive, socket, pc, clientFd, reads, registry, wsActive, received>>

\* WsRegistry::push, called by handlePaymentResult: a frame to the number the
\* session is bound to; it reaches the connection that number denotes.
Push(s) ==
    /\ sessionToFd[s] # NoFd
    /\ socket[sessionToFd[s]] # NoConn
    /\ received' = [received EXCEPT ![socket[sessionToFd[s]]] = @ \cup {s}]
    /\ UNCHANGED <<alive, socket, peer, pc, clientFd, reads, registry, wsActive>>

----------------------------------------------------------------------------
(* The process.                                                            *)

StartGateway == ~alive /\ alive' = TRUE /\ UNCHANGED <<socket, peer, pc, clientFd, reads, registry,
                                                      wsActive, received>>

\* The process ends: main returns after a signal, without a thought of the detached
\* threads, or it is killed.  The kernel closes every connection.
Die ==
    /\ alive /\ alive' = FALSE
    /\ socket' = [f \in Fds |-> NoConn]
    /\ peer' = [c \in Conns |-> "gone"]
    /\ pc' = [c \in Conns |-> "none"]
    /\ clientFd' = [c \in Conns |-> NoFd]
    /\ reads' = [c \in Conns |-> NoConn]
    /\ sessionToFd' = [s \in Sessions |-> NoFd]
    /\ fdToSession' = [f \in Fds |-> NoSession]
    /\ wsActive' = 0
    /\ UNCHANGED received

\* SIGPIPE is not ignored: a thread about to write to a page that has reset its
\* connection ends the process.
SigPipe(c) ==
    /\ pc[c] \in {"handshake", "send_bound"}
    /\ peer[c] = "gone" /\ socket[clientFd[c]] = c
    /\ Die

----------------------------------------------------------------------------

ThreadStep(c) ==
    \/ Start(c) \/ Handshake(c) \/ HandshakeFails(c) \/ Bind(c) \/ SendBound(c) \/ ReadEnds(c)
    \/ Unbind(c) \/ Close(c) \/ Leave(c)

WsNext ==
    \/ \E c \in Conns : (\E f \in Fds : Accept(c, f)) \/ Refuse(c)
    \/ \E c \in Conns : ThreadStep(c) \/ ReadAgain(c) \/ PageLeaves(c) \/ SigPipe(c)
    \/ \E s \in Sessions : Push(s)
    \/ StartGateway \/ Die

WsSpec == WsInit /\ [][WsNext]_wsVars

----------------------------------------------------------------------------

\* A payment's result is written only to connections that asked for its session.
PushReachesItsPage == \A c \in Conns : received[c] \subseteq {SessionFor[c]}

\* The registry leads from c's session to c.
Reachable(c) ==
    /\ pc[c] = "reading"
    /\ \E f \in Fds : sessionToFd[SessionFor[c]] = f /\ socket[f] = c

\* The thread of a page that has gone unbinds, closes its descriptor and gives its
\* place under the limit back.
GoneIsForgotten ==
    \A c \in Conns : pc[c] # "none" /\ peer[c] = "gone" ~> pc[c] = "none"

\* g_ws_active_connections counts exactly the threads that have begun and not ended,
\* on every path out of handleWebSocketClient, also when descriptors are closed and
\* reused under a thread.
SlotsCounted ==
    wsActive = Cardinality({c \in Conns : pc[c] \notin {"none", "accepted"}})
=============================================================================
