-------------------------- MODULE WsRegistryProofs --------------------------
(***************************************************************************)
(* The counter of WebSocket threads is exact whatever the descriptors do,  *)
(* and a result reaches the page that asked for it when no two pages wait  *)
(* for the same payment session; for any number of pages, sessions,        *)
(* descriptors and slots.                                                  *)
(***************************************************************************)
EXTENDS WsRegistry, CountingLemmas, TLAPS

\* Threads that ConnectionGuard counts.
Counted == {c \in Conns : pc[c] \notin {"none", "accepted"}}

\* The inductive invariant of the counter: a thread keeps a number until it ends and
\* binds only after it has read a request.
SlotsInv ==
    /\ WsTypeOK /\ SlotsCounted
    /\ \A c \in Conns : /\ pc[c] # "none" => clientFd[c] \in Fds
                        /\ pc[c] = "bind" => reads[c] \in Conns

\* No two pages wait for the same payment session.
OneSessionPerPage == \A c, d \in Conns : SessionFor[c] = SessionFor[d] => c = d

\* A thread's number denotes its connection until it closes it, and no other thread
\* holds that number.
OwnNumber ==
    /\ \A c \in Conns : pc[c] \notin {"none", "leave"} => socket[clientFd[c]] = c
    /\ \A f \in Fds : socket[f] # NoConn =>
         pc[socket[f]] \notin {"none", "leave"} /\ clientFd[socket[f]] = f

\* A thread reads its own connection and nothing else.
OwnReads ==
    \A c \in Conns : /\ reads[c] \in {NoConn, c}
                     /\ pc[c] \in {"handshake", "bind", "send_bound", "reading"} => reads[c] = c

Bindings == {"send_bound", "reading", "unbind"}

\* The two maps hold exactly the bindings of the threads between bind and unbind.
MapsExact ==
    /\ \A c \in Conns : pc[c] \in Bindings => /\ sessionToFd[SessionFor[c]] = clientFd[c]
                                              /\ fdToSession[clientFd[c]] = SessionFor[c]
    /\ \A s \in Sessions : sessionToFd[s] # NoFd =>
         \E c \in Conns : SessionFor[c] = s /\ pc[c] \in Bindings

\* The inductive invariant of the registry when every page has a session of its own.
PagesInv == SlotsInv /\ OwnNumber /\ OwnReads /\ MapsExact /\ PushReachesItsPage

----------------------------------------------------------------------------
(* The counter.                                                            *)

\* A thread that is neither counted before nor after a step, or both, leaves the
\* counter right.
LEMMA CountKept ==
    ASSUME SlotsInv, NEW c \in Conns, NEW p \in Pc, UNCHANGED wsActive,
           pc' = [pc EXCEPT ![c] = p],
           p \in {"none", "accepted"} <=> pc[c] \in {"none", "accepted"}
    PROVE  SlotsCounted' /\ pc' \in [Conns -> Pc]
<1>1. pc \in [Conns -> Pc]
  BY DEF SlotsInv, WsTypeOK
<1>2. {d \in Conns : pc'[d] \notin {"none", "accepted"}} = {d \in Conns : pc[d] \notin {"none", "accepted"}}
  BY <1>1
<1>3. Cardinality({d \in Conns : pc'[d] \notin {"none", "accepted"}})
        = Cardinality({d \in Conns : pc[d] \notin {"none", "accepted"}})
  BY <1>2, Zenon
<1>. QED  BY <1>1, <1>3 DEF SlotsInv, SlotsCounted

\* A step that leaves the threads alone leaves the counter right.
LEMMA CountQuiet == ASSUME SlotsInv, UNCHANGED <<pc, wsActive>> PROVE SlotsCounted'
BY DEF SlotsInv, SlotsCounted

\* The page connects.
LEMMA AcceptKeeps ==
    ASSUME SlotsInv, NEW c \in Conns, NEW f \in Fds, Accept(c, f)
    PROVE  SlotsInv'
<1>1. SlotsCounted' /\ pc' \in [Conns -> Pc]
  BY CountKept DEF Accept, Goto, Pc
<1>2. WsTypeOK'
  BY <1>1 DEF SlotsInv, WsTypeOK, Accept, registry
<1>. QED  BY <1>1, <1>2 DEF SlotsInv, WsTypeOK, Accept, Goto, registry

\* The thread takes its slot.
LEMMA StartKeeps ==
    ASSUME SlotsInv, NEW c \in Conns, Start(c)
    PROVE  SlotsInv'
<1>t. pc \in [Conns -> Pc] /\ wsActive \in Nat /\ socket \in [Fds -> Conns \cup {NoConn}]
      /\ clientFd[c] \in Fds
  BY DEF SlotsInv, WsTypeOK, Start
<1>1. Counted' = Counted \cup {c} /\ c \notin Counted
  BY <1>t DEF Start, Goto, Counted
<1>2. IsFiniteSet(Counted) /\ Cardinality(Counted) \in Nat
  BY WsAssumption, CountSubset DEF Counted
<1>3. Cardinality(Counted') = Cardinality(Counted) + 1
  BY <1>1, <1>2, CountAdd, Zenon
<1>4. wsActive = Cardinality(Counted) /\ (SlotsCounted <=> wsActive = Cardinality(Counted))'
  BY DEF SlotsInv, SlotsCounted, Counted
<1>5. SlotsCounted' /\ wsActive' \in Nat
  BY <1>t, <1>3, <1>4 DEF Start
<1>6. WsTypeOK'
  BY <1>t, <1>5 DEF SlotsInv, WsTypeOK, Start, Goto, Pc, registry
<1>. QED  BY <1>t, <1>5, <1>6 DEF SlotsInv, Start, Goto

\* The thread gives its slot back.
LEMMA LeaveKeeps ==
    ASSUME SlotsInv, NEW c \in Conns, Leave(c)
    PROVE  SlotsInv'
<1>t. pc \in [Conns -> Pc] /\ wsActive \in Nat
  BY DEF SlotsInv, WsTypeOK
<1>1. Counted' = Counted \ {c} /\ c \in Counted
  BY <1>t DEF Leave, Goto, Counted
<1>2. IsFiniteSet(Counted) /\ Cardinality(Counted) \in Nat
  BY WsAssumption, CountSubset DEF Counted
<1>3. Cardinality(Counted') = Cardinality(Counted) - 1 /\ Cardinality(Counted') \in Nat
  BY <1>1, <1>2, CountRemove, Zenon
<1>4. wsActive = Cardinality(Counted) /\ (SlotsCounted <=> wsActive = Cardinality(Counted))'
  BY DEF SlotsInv, SlotsCounted, Counted
<1>5. SlotsCounted' /\ wsActive' \in Nat
  BY <1>t, <1>3, <1>4 DEF Leave
<1>6. WsTypeOK'
  BY <1>t, <1>5 DEF SlotsInv, WsTypeOK, Leave, Goto, Pc, registry
<1>. QED  BY <1>t, <1>5, <1>6 DEF SlotsInv, WsTypeOK, Leave, Goto, registry

\* The steps of a thread between its two ends.
LEMMA ThreadKeeps ==
    ASSUME SlotsInv, NEW c \in Conns,
           Handshake(c) \/ HandshakeFails(c) \/ Bind(c) \/ SendBound(c) \/ ReadEnds(c)
             \/ Unbind(c) \/ Close(c)
    PROVE  SlotsInv'
<1>t. pc \in [Conns -> Pc] /\ clientFd[c] \in Fds /\ socket \in [Fds -> Conns \cup {NoConn}]
      /\ fdToSession \in [Fds -> Sessions \cup {NoSession}]
      /\ sessionToFd \in [Sessions -> Fds \cup {NoFd}] /\ clientFd \in [Conns -> Fds \cup {NoFd}]
      /\ reads \in [Conns -> Conns \cup {NoConn}] /\ SessionFor \in [Conns -> Sessions]
  BY WsAssumption DEF SlotsInv, WsTypeOK, Handshake, HandshakeFails, Bind, SendBound, ReadEnds, Unbind,
     Close
<1>1. SlotsCounted' /\ pc' \in [Conns -> Pc]
  BY CountKept DEF Handshake, HandshakeFails, Bind, SendBound, ReadEnds, Unbind, Close, Goto, Pc
<1>2. CASE Handshake(c)
  BY <1>t, <1>1, <1>2 DEF SlotsInv, WsTypeOK, Handshake, Goto, registry
<1>3. CASE HandshakeFails(c) \/ ReadEnds(c)
  BY <1>t, <1>1, <1>3 DEF SlotsInv, WsTypeOK, HandshakeFails, ReadEnds, Goto, registry
<1>4. CASE Bind(c)
  <2>1. reads[c] \in Conns /\ SessionFor[reads[c]] \in Sessions
    BY <1>t, <1>4 DEF SlotsInv, Bind
  <2>2. WsTypeOK'
    BY <1>t, <1>1, <1>4, <2>1 DEF SlotsInv, WsTypeOK, Bind
  <2>. QED  BY <1>t, <1>1, <1>4, <2>2 DEF SlotsInv, Bind, Goto
<1>5. CASE SendBound(c)
  BY <1>t, <1>1, <1>5 DEF SlotsInv, WsTypeOK, SendBound, Goto, registry
<1>6. CASE Unbind(c)
  <2>1. WsTypeOK'
    BY <1>t, <1>1, <1>6 DEF SlotsInv, WsTypeOK, Unbind
  <2>. QED  BY <1>t, <1>1, <1>6, <2>1 DEF SlotsInv, Unbind, Goto
<1>7. CASE Close(c)
  BY <1>t, <1>1, <1>7 DEF SlotsInv, WsTypeOK, Close, Goto, registry
<1>. QED  BY <1>2, <1>3, <1>4, <1>5, <1>6, <1>7

\* The process ends, and every thread with it.
LEMMA DieKeeps == ASSUME SlotsInv, Die PROVE SlotsInv'
<1>1. {c \in Conns : pc'[c] \notin {"none", "accepted"}} = {}
  BY DEF Die
<1>2. Cardinality({c \in Conns : pc'[c] \notin {"none", "accepted"}}) = 0
  BY <1>1, FS_EmptySet, Zenon
<1>. QED  BY <1>2 DEF SlotsInv, SlotsCounted, WsTypeOK, Die, Pc

\* What pages, pushes and the start of the process do to the counter: nothing.
LEMMA OthersKeep ==
    ASSUME SlotsInv,
           \/ \E c \in Conns : Refuse(c) \/ ReadAgain(c) \/ PageLeaves(c)
           \/ \E s \in Sessions : Push(s)
           \/ StartGateway \/ UNCHANGED wsVars
    PROVE  SlotsInv'
<1>1. SlotsCounted'
  BY CountQuiet DEF Refuse, ReadAgain, PageLeaves, Push, StartGateway, wsVars
<1>2. CASE StartGateway \/ UNCHANGED wsVars \/ \E c \in Conns : Refuse(c)
  BY <1>1, <1>2 DEF SlotsInv, WsTypeOK, Refuse, StartGateway, wsVars, registry
<1>3. ASSUME NEW c \in Conns, ReadAgain(c) PROVE SlotsInv'
  <2>1. clientFd[c] \in Fds /\ socket[clientFd[c]] \in Conns \cup {NoConn}
    BY <1>3 DEF ReadAgain, SlotsInv, WsTypeOK
  <2>. QED  BY <1>1, <1>3, <2>1 DEF SlotsInv, WsTypeOK, ReadAgain, registry
<1>4. ASSUME NEW c \in Conns, PageLeaves(c) PROVE SlotsInv'
  BY <1>1, <1>4 DEF SlotsInv, WsTypeOK, PageLeaves, registry
<1>5. ASSUME NEW s \in Sessions, Push(s) PROVE SlotsInv'
  <2>1. sessionToFd[s] \in Fds /\ socket[sessionToFd[s]] \in Conns
    BY <1>5 DEF Push, SlotsInv, WsTypeOK
  <2>2. received' \in [Conns -> SUBSET Sessions]
    BY <1>5, <2>1 DEF Push, SlotsInv, WsTypeOK
  <2>. QED  BY <1>1, <1>5, <2>2 DEF SlotsInv, WsTypeOK, Push, registry
<1>. QED  BY <1>2, <1>3, <1>4, <1>5

\* Every step of the WebSocket side keeps the counter right.
LEMMA SlotsStep == SlotsInv /\ [WsNext]_wsVars => SlotsInv'
<1> SUFFICES ASSUME SlotsInv, [WsNext]_wsVars PROVE SlotsInv'
  OBVIOUS
<1>1. ASSUME NEW c \in Conns, ThreadStep(c) PROVE SlotsInv'
  BY <1>1, StartKeeps, ThreadKeeps, LeaveKeeps DEF ThreadStep
<1>2. ASSUME NEW c \in Conns, NEW f \in Fds, Accept(c, f) PROVE SlotsInv'
  BY <1>2, AcceptKeeps
<1>3. CASE Die \/ \E c \in Conns : SigPipe(c)
  BY <1>3, DieKeeps DEF SigPipe
<1>. QED  BY <1>1, <1>2, <1>3, OthersKeep DEF WsNext

\* No thread runs at first.
LEMMA SlotsInit == WsInit => SlotsInv
<1> SUFFICES ASSUME WsInit PROVE SlotsInv
  OBVIOUS
<1>1. {c \in Conns : pc[c] \notin {"none", "accepted"}} = {}
  BY DEF WsInit
<1>2. Cardinality({c \in Conns : pc[c] \notin {"none", "accepted"}}) = 0
  BY <1>1, FS_EmptySet, Zenon
<1>. QED  BY <1>2 DEF SlotsInv, SlotsCounted, WsTypeOK, WsInit, Pc

\* g_ws_active_connections counts exactly the threads that have begun and not ended, on
\* every path out of handleWebSocketClient, however descriptors are closed and reused
\* under them, and also for pages that wait for the same session.
THEOREM CountIsExact == WsSpec => []SlotsCounted
<1>1. SlotsInv => SlotsCounted
  BY DEF SlotsInv
<1>. QED  BY SlotsInit, SlotsStep, <1>1, PTL DEF WsSpec

----------------------------------------------------------------------------
(* The registry, when every page waits for a session of its own.           *)

\* What the proofs below read off the invariant.
LEMMA PagesTypes ==
    ASSUME PagesInv
    PROVE  /\ SessionFor \in [Conns -> Sessions]
           /\ NoConn \notin Conns /\ NoFd \notin Fds /\ NoSession \notin Sessions
           /\ socket \in [Fds -> Conns \cup {NoConn}] /\ pc \in [Conns -> Pc]
           /\ clientFd \in [Conns -> Fds \cup {NoFd}] /\ reads \in [Conns -> Conns \cup {NoConn}]
           /\ sessionToFd \in [Sessions -> Fds \cup {NoFd}]
           /\ fdToSession \in [Fds -> Sessions \cup {NoSession}]
           /\ received \in [Conns -> SUBSET Sessions]
           /\ \A c \in Conns : pc[c] # "none" => clientFd[c] \in Fds
BY WsAssumption DEF PagesInv, SlotsInv, WsTypeOK

\* A new connection gets a number nobody holds.
LEMMA AcceptOwn ==
    ASSUME PagesInv, NEW c \in Conns, NEW f \in Fds, Accept(c, f)
    PROVE  OwnNumber' /\ OwnReads' /\ MapsExact' /\ PushReachesItsPage'
<1>1. /\ socket' = [socket EXCEPT ![f] = c] /\ clientFd' = [clientFd EXCEPT ![c] = f]
      /\ pc' = [pc EXCEPT ![c] = "accepted"] /\ received' = [received EXCEPT ![c] = {}]
      /\ pc[c] = "none" /\ socket[f] = NoConn
      /\ UNCHANGED <<reads, sessionToFd, fdToSession>>
  BY DEF Accept, Goto, registry
<1>2. OwnNumber'
  BY <1>1, PagesTypes DEF PagesInv, OwnNumber
<1>3. OwnReads'
  BY <1>1, PagesTypes DEF PagesInv, OwnReads
<1>4. MapsExact'
  BY <1>1, PagesTypes DEF PagesInv, MapsExact, Bindings
<1>5. PushReachesItsPage'
  BY <1>1, PagesTypes DEF PagesInv, PushReachesItsPage
<1>. QED  BY <1>2, <1>3, <1>4, <1>5

\* The thread reads its own connection; nothing is bound or closed.
LEMMA ReadOwn ==
    ASSUME PagesInv, NEW c \in Conns, NEW p \in Pc, pc[c] \notin {"none", "leave"},
           p \notin {"none", "leave"}, p \in Bindings <=> pc[c] \in Bindings,
           pc' = [pc EXCEPT ![c] = p],
           \/ reads' = [reads EXCEPT ![c] = socket[clientFd[c]]]
           \/ UNCHANGED reads
              /\ (p \in {"handshake", "bind", "send_bound", "reading"} => reads[c] = c),
           UNCHANGED <<socket, clientFd, sessionToFd, fdToSession, received>>
    PROVE  OwnNumber' /\ OwnReads' /\ MapsExact' /\ PushReachesItsPage'
<1>1. socket[clientFd[c]] = c
  BY DEF PagesInv, OwnNumber
<1>2. OwnNumber'
  BY PagesTypes DEF PagesInv, OwnNumber
<1>3. OwnReads'
  BY <1>1, PagesTypes DEF PagesInv, OwnReads
<1>4. MapsExact'
  BY PagesTypes DEF PagesInv, MapsExact
<1>5. PushReachesItsPage'
  BY DEF PagesInv, PushReachesItsPage
<1>. QED  BY <1>2, <1>3, <1>4, <1>5

\* bind replaces nothing: no other page has the session.
LEMMA BindOwn ==
    ASSUME OneSessionPerPage, PagesInv, NEW c \in Conns, Bind(c)
    PROVE  OwnNumber' /\ OwnReads' /\ MapsExact' /\ PushReachesItsPage'
<1> DEFINE s == SessionFor[c]
<1>1. reads[c] = c /\ pc[c] = "bind" /\ clientFd[c] \in Fds /\ s \in Sessions
  BY PagesTypes DEF PagesInv, OwnReads, Bind
<1>2. sessionToFd[s] = NoFd
  BY <1>1 DEF PagesInv, MapsExact, Bindings, OneSessionPerPage
<1>3. /\ socket' = socket
      /\ fdToSession' = [fdToSession EXCEPT ![clientFd[c]] = s]
      /\ sessionToFd' = [sessionToFd EXCEPT ![s] = clientFd[c]]
      /\ pc' = [pc EXCEPT ![c] = "send_bound"]
      /\ UNCHANGED <<clientFd, reads, received>>
  BY <1>1, <1>2, PagesTypes DEF Bind, Goto
<1>4. OwnNumber'
  BY <1>1, <1>3, PagesTypes DEF PagesInv, OwnNumber
<1>5. OwnReads'
  BY <1>1, <1>3, PagesTypes DEF PagesInv, OwnReads
<1>6. \A d \in Conns : d # c /\ pc[d] \in Bindings =>
        SessionFor[d] # s /\ clientFd[d] # clientFd[c] /\ clientFd[d] \in Fds
  BY <1>1, PagesTypes DEF PagesInv, OwnNumber, OneSessionPerPage, Bindings
<1>7. \A d \in Conns : pc'[d] \in Bindings => sessionToFd'[SessionFor[d]] = clientFd'[d]
                                              /\ fdToSession'[clientFd'[d]] = SessionFor[d]
  BY <1>1, <1>3, <1>6, PagesTypes DEF PagesInv, MapsExact
<1>8. ASSUME NEW t \in Sessions, sessionToFd'[t] # NoFd
      PROVE  \E d \in Conns : SessionFor[d] = t /\ pc'[d] \in Bindings
  BY <1>1, <1>3, <1>8, PagesTypes DEF PagesInv, MapsExact, Bindings
<1>9. PushReachesItsPage'
  BY <1>3 DEF PagesInv, PushReachesItsPage
<1>. QED  BY <1>4, <1>5, <1>7, <1>8, <1>9 DEF MapsExact

\* unbind removes the thread's own binding and no other.
LEMMA UnbindOwn ==
    ASSUME OneSessionPerPage, PagesInv, NEW c \in Conns, Unbind(c)
    PROVE  OwnNumber' /\ OwnReads' /\ MapsExact' /\ PushReachesItsPage'
<1> DEFINE s == SessionFor[c]
<1>1. /\ pc[c] = "unbind" /\ clientFd[c] \in Fds /\ s \in Sessions
      /\ sessionToFd[s] = clientFd[c] /\ fdToSession[clientFd[c]] = s
  BY PagesTypes DEF PagesInv, MapsExact, Bindings, Unbind
<1>2. /\ fdToSession' = [fdToSession EXCEPT ![clientFd[c]] = NoSession]
      /\ sessionToFd' = [sessionToFd EXCEPT ![s] = NoFd]
      /\ pc' = [pc EXCEPT ![c] = "close"]
      /\ UNCHANGED <<socket, clientFd, reads, received>>
  BY <1>1, PagesTypes DEF Unbind, Goto
<1>3. OwnNumber'
  BY <1>1, <1>2, PagesTypes DEF PagesInv, OwnNumber
<1>4. OwnReads'
  BY <1>1, <1>2, PagesTypes DEF PagesInv, OwnReads
<1>5. \A d \in Conns : d # c /\ pc[d] \in Bindings =>
        SessionFor[d] # s /\ clientFd[d] # clientFd[c] /\ clientFd[d] \in Fds
  BY <1>1, PagesTypes DEF PagesInv, OwnNumber, OneSessionPerPage, Bindings
<1>6. \A d \in Conns : pc'[d] \in Bindings => sessionToFd'[SessionFor[d]] = clientFd'[d]
                                              /\ fdToSession'[clientFd'[d]] = SessionFor[d]
  BY <1>1, <1>2, <1>5, PagesTypes DEF PagesInv, MapsExact, Bindings
<1>7. ASSUME NEW t \in Sessions, sessionToFd'[t] # NoFd
      PROVE  \E d \in Conns : SessionFor[d] = t /\ pc'[d] \in Bindings
  <2>1. t # s /\ sessionToFd[t] # NoFd
    BY <1>1, <1>2, <1>7, PagesTypes
  <2>2. PICK d \in Conns : SessionFor[d] = t /\ pc[d] \in Bindings
    BY <2>1 DEF PagesInv, MapsExact
  <2>. QED  BY <1>1, <1>2, <2>1, <2>2, PagesTypes
<1>8. PushReachesItsPage'
  BY <1>2 DEF PagesInv, PushReachesItsPage
<1>. QED  BY <1>3, <1>4, <1>6, <1>7, <1>8 DEF MapsExact

\* close closes the thread's own connection, and it has no binding any more.
LEMMA CloseOwn ==
    ASSUME PagesInv, NEW c \in Conns, Close(c)
    PROVE  OwnNumber' /\ OwnReads' /\ MapsExact' /\ PushReachesItsPage'
<1>1. /\ pc[c] = "close" /\ clientFd[c] \in Fds /\ socket[clientFd[c]] = c
      /\ socket' = [socket EXCEPT ![clientFd[c]] = NoConn] /\ pc' = [pc EXCEPT ![c] = "leave"]
      /\ UNCHANGED <<clientFd, reads, sessionToFd, fdToSession, received>>
  BY PagesTypes DEF PagesInv, OwnNumber, Close, Goto, registry
<1>2. OwnNumber'
  BY <1>1, PagesTypes DEF PagesInv, OwnNumber
<1>3. OwnReads' /\ MapsExact'
  BY <1>1, PagesTypes DEF PagesInv, OwnReads, MapsExact, Bindings
<1>4. PushReachesItsPage'
  BY <1>1 DEF PagesInv, PushReachesItsPage
<1>. QED  BY <1>2, <1>3, <1>4

\* The thread ends.
LEMMA LeaveOwn ==
    ASSUME PagesInv, NEW c \in Conns, Leave(c)
    PROVE  OwnNumber' /\ OwnReads' /\ MapsExact' /\ PushReachesItsPage'
<1>1. /\ pc[c] = "leave" /\ pc' = [pc EXCEPT ![c] = "none"]
      /\ clientFd' = [clientFd EXCEPT ![c] = NoFd] /\ reads' = [reads EXCEPT ![c] = NoConn]
      /\ UNCHANGED <<socket, sessionToFd, fdToSession, received>>
  BY DEF Leave, Goto, registry
<1>2. OwnNumber'
  BY <1>1, PagesTypes DEF PagesInv, OwnNumber
<1>3. OwnReads'
  BY <1>1, PagesTypes DEF PagesInv, OwnReads
<1>4. MapsExact'
  BY <1>1, PagesTypes DEF PagesInv, MapsExact, Bindings
<1>5. PushReachesItsPage'
  BY <1>1 DEF PagesInv, PushReachesItsPage
<1>. QED  BY <1>2, <1>3, <1>4, <1>5

\* A push goes to the page the binding belongs to.
LEMMA PushOwn ==
    ASSUME PagesInv, NEW s \in Sessions, sessionToFd[s] # NoFd, socket[sessionToFd[s]] # NoConn
    PROVE  /\ socket[sessionToFd[s]] \in Conns /\ SessionFor[socket[sessionToFd[s]]] = s
           /\ pc[socket[sessionToFd[s]]] \in Bindings
<1>1. PICK c \in Conns : SessionFor[c] = s /\ pc[c] \in Bindings
  BY DEF PagesInv, MapsExact
<1>. QED  BY <1>1 DEF PagesInv, MapsExact, OwnNumber, Bindings

\* The steps that leave threads and registry alone.
LEMMA OthersOwn ==
    ASSUME PagesInv,
           \/ \E c \in Conns : Refuse(c) \/ PageLeaves(c)
           \/ \E s \in Sessions : Push(s)
           \/ StartGateway \/ UNCHANGED wsVars
    PROVE  OwnNumber' /\ OwnReads' /\ MapsExact' /\ PushReachesItsPage'
<1>1. UNCHANGED <<socket, pc, clientFd, reads, sessionToFd, fdToSession>>
  BY DEF Refuse, PageLeaves, Push, StartGateway, wsVars, registry
<1>2. OwnNumber' /\ OwnReads' /\ MapsExact'
  BY <1>1 DEF PagesInv, OwnNumber, OwnReads, MapsExact
<1>3. ASSUME NEW s \in Sessions, Push(s) PROVE PushReachesItsPage'
  <2>1. PICK c \in Conns : c = socket[sessionToFd[s]] /\ SessionFor[c] = s
    BY <1>3, PushOwn DEF Push
  <2>2. received' = [received EXCEPT ![c] = @ \cup {s}]
    BY <1>3, <2>1 DEF Push
  <2>. QED  BY <2>1, <2>2, PagesTypes DEF PagesInv, PushReachesItsPage
<1>4. ASSUME UNCHANGED received PROVE PushReachesItsPage'
  BY <1>4 DEF PagesInv, PushReachesItsPage
<1>. QED  BY <1>2, <1>3, <1>4 DEF Refuse, PageLeaves, StartGateway, wsVars

\* Every step keeps threads, descriptors and registry in order.
LEMMA PagesStep == ASSUME OneSessionPerPage PROVE PagesInv /\ [WsNext]_wsVars => PagesInv'
<1> SUFFICES ASSUME PagesInv, [WsNext]_wsVars PROVE PagesInv'
  OBVIOUS
<1> DEFINE Own == OwnNumber' /\ OwnReads' /\ MapsExact' /\ PushReachesItsPage'
<1>0. SlotsInv'
  BY SlotsStep DEF PagesInv
<1>1. ASSUME NEW c \in Conns, Start(c) PROVE Own
  <2>1. /\ pc[c] = "accepted" /\ pc' = [pc EXCEPT ![c] = "handshake"]
        /\ reads' = [reads EXCEPT ![c] = socket[clientFd[c]]]
        /\ UNCHANGED <<socket, clientFd, sessionToFd, fdToSession, received>>
    BY <1>1 DEF Start, Goto, registry
  <2>. QED  BY <2>1, ReadOwn DEF Pc, Bindings
<1>2. ASSUME NEW c \in Conns, Handshake(c) PROVE Own
  <2>1. /\ pc[c] = "handshake" /\ pc' = [pc EXCEPT ![c] = "bind"] /\ UNCHANGED reads
        /\ UNCHANGED <<socket, clientFd, sessionToFd, fdToSession, received>> /\ reads[c] = c
    BY <1>2 DEF Handshake, Goto, registry, PagesInv, OwnReads
  <2>. QED  BY <2>1, ReadOwn DEF Pc, Bindings
<1>3. ASSUME NEW c \in Conns, HandshakeFails(c) PROVE Own
  <2>1. /\ pc[c] = "handshake" /\ pc' = [pc EXCEPT ![c] = "close"] /\ UNCHANGED reads
        /\ UNCHANGED <<socket, clientFd, sessionToFd, fdToSession, received>>
    BY <1>3 DEF HandshakeFails, Goto, registry
  <2>. QED  BY <2>1, ReadOwn DEF Pc, Bindings
<1>4. ASSUME NEW c \in Conns, SendBound(c) PROVE Own
  <2>1. /\ pc[c] = "send_bound" /\ pc' = [pc EXCEPT ![c] = "reading"]
        /\ reads' = [reads EXCEPT ![c] = socket[clientFd[c]]]
        /\ UNCHANGED <<socket, clientFd, sessionToFd, fdToSession, received>>
    BY <1>4 DEF SendBound, Goto, registry
  <2>. QED  BY <2>1, ReadOwn DEF Pc, Bindings
<1>5. ASSUME NEW c \in Conns, ReadAgain(c) PROVE Own
  <2>1. /\ pc[c] \in {"handshake", "reading"} /\ pc' = [pc EXCEPT ![c] = pc[c]]
        /\ reads' = [reads EXCEPT ![c] = socket[clientFd[c]]]
        /\ UNCHANGED <<socket, clientFd, sessionToFd, fdToSession, received>>
    BY <1>5, PagesTypes DEF ReadAgain, registry
  <2>. QED  BY <2>1, ReadOwn DEF Pc, Bindings
<1>6. ASSUME NEW c \in Conns, ReadEnds(c) PROVE Own
  <2>1. /\ pc[c] = "reading" /\ pc' = [pc EXCEPT ![c] = "unbind"] /\ UNCHANGED reads
        /\ UNCHANGED <<socket, clientFd, sessionToFd, fdToSession, received>>
    BY <1>6 DEF ReadEnds, Goto, registry
  <2>. QED  BY <2>1, ReadOwn DEF Pc, Bindings
<1>7. ASSUME NEW c \in Conns, ThreadStep(c) PROVE Own
  BY <1>1, <1>2, <1>3, <1>4, <1>6, <1>7, BindOwn, UnbindOwn, CloseOwn, LeaveOwn DEF ThreadStep
<1>8. ASSUME Die PROVE Own
  BY <1>8 DEF Die, OwnNumber, OwnReads, MapsExact, Bindings, PagesInv, PushReachesItsPage
<1>9. Own
  BY <1>5, <1>7, <1>8, AcceptOwn, OthersOwn DEF WsNext, SigPipe
<1>. QED  BY <1>0, <1>9 DEF PagesInv

\* Nothing is open, bound or received at first.
LEMMA PagesInit == WsInit => PagesInv
<1> SUFFICES ASSUME WsInit PROVE PagesInv
  OBVIOUS
<1>1. OwnNumber /\ OwnReads
  BY DEF WsInit, OwnNumber, OwnReads
<1>2. MapsExact /\ PushReachesItsPage
  BY DEF WsInit, MapsExact, Bindings, PushReachesItsPage
<1>. QED  BY <1>1, <1>2, SlotsInit DEF PagesInv

\* Pages that wait for different payment sessions never see each other's results,
\* whatever numbers their threads close and the kernel hands out again: WsRegistry's
\* bind then never replaces a binding.
THEOREM ResultsGoHome == OneSessionPerPage => (WsSpec => []PushReachesItsPage)
<1> SUFFICES ASSUME OneSessionPerPage PROVE WsSpec => []PushReachesItsPage
  OBVIOUS
<1>1. WsInit => PagesInv
  BY PagesInit
<1>2. PagesInv /\ [WsNext]_wsVars => PagesInv'
  BY PagesStep
<1>3. PagesInv => PushReachesItsPage
  BY DEF PagesInv
<1>. QED  BY <1>1, <1>2, <1>3, PTL DEF WsSpec
=============================================================================
