--------------------------- MODULE PaymentResult ---------------------------
(***************************************************************************)
(* From the QR code on page A to the result on page A: both processes      *)
(* started from one configuration file (Config), the gateway's WebSocket   *)
(* side (WsRegistry), and the backend's part, of which only what it        *)
(* promises is left (PaymentSettlement, implemented by PaymentFlow) plus   *)
(* the notification of each settled payment.                               *)
(*                                                                         *)
(* Page A (payment_confirm.html) confirms, opens its WebSocket, shows the  *)
(* QR code on BIND_SUCCESS and the result on PAYMENT_RESULT.  It neither   *)
(* reconnects nor asks again.  An order has one payment session.           *)
(***************************************************************************)
EXTENDS WsRegistry, Config

VARIABLES
    conf,        \* what the configuration makes of this deployment
    backendUp,   \* the backend process runs
    status,      \* orders.status, by payment session
    notice,      \* the notification of a session's payment
    page,        \* what page A shows
    phone        \* what page B on the buyer's phone shows

resultVars == <<conf, backendUp, status, notice, page, phone>>
vars == <<wsVars, resultVars>>

\* unbound: the gateway answered 500; failed: not connected, or answered 403; crashed:
\* lost with the backend.
Notices == {"none", "queued", "pushed", "unbound", "failed", "crashed"}
\* blank: not confirmed yet, or the WebSocket was closed and the page says so;
\* connecting: confirmed.
Pages == {"blank", "connecting", "qr", "paid"}

ResultTypeOK ==
    /\ WsTypeOK
    /\ backendUp \in BOOLEAN
    /\ status \in [Sessions -> {"PendingPay", "Paid"}]
    /\ notice \in [Sessions -> Notices]
    /\ page \in [Conns -> Pages]
    /\ phone \in [Sessions -> {"blank", "pay", "paid"}]

----------------------------------------------------------------------------
(* The configuration, as far as these steps meet it.                       *)

\* Sections that handlers read on the way to a settlement: handleConfirm, then
\* handlePaymentPage and handlePay.
ConfirmSections == {"runtime", "paymentNginx", "jwt"}
PaySections == {"jwt", "passwordHash"}

ConfOf(env) ==
    LET d == Deployment(env) IN
    [gatewayStarts |-> Starts(GatewayNeeds, GatewayStart, env),
     backendStarts |-> Starts(BackendNeeds, BackendStart, env),
     forwards |-> Origin(d) = "accepted" /\ Connects(d.backendIp),
     bad |-> d.backendBad \cap (ConfirmSections \cup PaySections),
     emptyPool |-> d.emptyPool,
     notify |-> NotifyOutcome(d)]

Init ==
    /\ WsInit
    /\ conf \in {ConfOf(env) : env \in Envs}
    /\ backendUp = FALSE
    /\ status = [s \in Sessions |-> "PendingPay"]
    /\ notice = [s \in Sessions |-> "none"]
    /\ page = [c \in Conns |-> "blank"]
    /\ phone = [s \in Sessions |-> "blank"]

\* A request gets through the gateway to the backend, which has a connection to MySQL.
Served == alive /\ backendUp /\ conf.forwards /\ ~conf.emptyPool

----------------------------------------------------------------------------
(* The processes.                                                          *)

GatewayMain ==
    /\ ~alive
    /\ IF conf.gatewayStarts THEN StartGateway ELSE UNCHANGED wsVars
    /\ UNCHANGED resultVars

BackendMain ==
    /\ ~backendUp
    /\ backendUp' = conf.backendStarts
    /\ UNCHANGED <<wsVars, conf, status, notice, page, phone>>

\* The tasks in the worker pool's queue are lost.
BackendDies ==
    /\ backendUp /\ backendUp' = FALSE
    /\ notice' = [s \in Sessions |-> IF notice[s] = "queued" THEN "crashed" ELSE notice[s]]
    /\ UNCHANGED <<wsVars, conf, status, page, phone>>

\* Pages with a WebSocket see it close.
Disconnected ==
    page' = [c \in Conns |-> IF peer[c] = "open" THEN "blank" ELSE page[c]]

GatewayDies ==
    /\ Die \/ \E c \in Conns : SigPipe(c)
    /\ Disconnected
    /\ UNCHANGED <<conf, backendUp, status, notice, phone>>

----------------------------------------------------------------------------
(* Page A and its WebSocket.                                               *)

Shows(c, what) == page' = [page EXCEPT ![c] = what]

\* Mutant of Confirm: the sections are read when the QR code is scanned.
ConfirmUnchecked(c) ==
    /\ page[c] = "blank" /\ pc[c] = "none"
    /\ Served
    /\ status[SessionFor[c]] = "PendingPay"
    /\ Shows(c, "connecting")
    /\ UNCHANGED <<wsVars, conf, backendUp, status, notice, phone>>

\* The buyer clicks: handleConfirm answers with the session, new or used again.
Confirm(c) ==
    /\ page[c] = "blank" /\ pc[c] = "none"
    /\ Served /\ conf.bad \cap ConfirmSections = {}
    /\ status[SessionFor[c]] = "PendingPay"
    /\ Shows(c, "connecting")
    /\ UNCHANGED <<wsVars, conf, backendUp, status, notice, phone>>

\* The page opens its WebSocket: taken, or closed at the limit.
Connect(c) ==
    /\ page[c] = "connecting"
    /\ \/ \E f \in Fds : Accept(c, f) /\ UNCHANGED page
       \/ Refuse(c) /\ Shows(c, "blank")
    /\ UNCHANGED <<conf, backendUp, status, notice, phone>>

\* A page that never gets an answer gives up.
ConnectFails(c) ==
    /\ page[c] = "connecting" /\ ~alive
    /\ Shows(c, "blank")
    /\ UNCHANGED <<wsVars, conf, backendUp, status, notice, phone>>

\* Mutant of Bound: BIND_SUCCESS goes out before the registry is told.
BoundEarly(c) ==
    \/ /\ pc[c] = "bind"
       /\ Goto(c, "send_bound")
       /\ page' = IF peer[c] = "open" THEN [page EXCEPT ![c] = "qr"] ELSE page
       /\ UNCHANGED <<alive, socket, peer, clientFd, reads, registry, wsActive, received>>
    \/ /\ pc[c] = "send_bound"
       /\ fdToSession' = [fdToSession EXCEPT ![clientFd[c]] = SessionFor[c]]
       /\ sessionToFd' = [sessionToFd EXCEPT ![SessionFor[c]] = clientFd[c]]
       /\ Goto(c, "reading")
       /\ UNCHANGED <<alive, socket, peer, clientFd, reads, wsActive, received, page>>

\* bind, then BIND_SUCCESS: the page shows the QR code, whatever it showed before.
Bound(c) ==
    \/ Bind(c) /\ UNCHANGED page
    \/ /\ SendBound(c)
       /\ page' = [d \in Conns |-> IF socket[clientFd[c]] = d /\ peer[d] = "open" THEN "qr"
                                                                                 ELSE page[d]]

\* The other steps of its thread; a page that is still there is disconnected by them.
OtherThreadStep(c) ==
    \/ Start(c) /\ UNCHANGED page
    \/ Handshake(c) /\ UNCHANGED page
    \/ HandshakeFails(c) /\ UNCHANGED page
    \/ ReadEnds(c) /\ UNCHANGED page
    \/ Unbind(c) /\ UNCHANGED page
    \/ Close(c) /\ UNCHANGED page
    \/ Leave(c) /\ IF peer[c] = "open" THEN Shows(c, "blank") ELSE UNCHANGED page

ClientThread(c) ==
    /\ Bound(c) \/ OtherThreadStep(c)
    /\ UNCHANGED <<conf, backendUp, status, notice, phone>>

\* The page is closed or loaded again, or the connection to it breaks.
PageGone(c) ==
    /\ PageLeaves(c)
    /\ Shows(c, "blank")
    /\ UNCHANGED <<conf, backendUp, status, notice, phone>>

----------------------------------------------------------------------------
(* Page B: the QR code is scanned, handlePaymentPage and handlePay.        *)

\* handlePaymentPage answers with the order while it waits to be paid.
Scan(s) ==
    /\ phone[s] = "blank"
    /\ \E c \in Conns : SessionFor[c] = s /\ page[c] = "qr"
    /\ Served /\ "jwt" \notin conf.bad
    /\ status[s] = "PendingPay"
    /\ phone' = [phone EXCEPT ![s] = "pay"]
    /\ UNCHANGED <<wsVars, conf, backendUp, status, notice, page>>

\* Mutant of Pay: the result of finalizePaymentSuccess is not looked at.
PayUnsettled(s) ==
    /\ phone[s] = "pay" /\ Served /\ conf.bad \cap PaySections = {}
    /\ status[s] = "PendingPay"
    /\ notice' = [notice EXCEPT ![s] = "queued"]
    /\ phone' = [phone EXCEPT ![s] = "paid"]
    /\ UNCHANGED <<wsVars, conf, backendUp, status, page>>

\* handlePay settles (in the transaction PaymentFlow describes), submits the
\* notification and answers PAID.
Pay(s) ==
    /\ phone[s] = "pay" /\ Served /\ conf.bad \cap PaySections = {}
    /\ status[s] = "PendingPay"
    /\ status' = [status EXCEPT ![s] = "Paid"]
    /\ notice' = [notice EXCEPT ![s] = "queued"]
    /\ phone' = [phone EXCEPT ![s] = "paid"]
    /\ UNCHANGED <<wsVars, conf, backendUp, page>>

\* The backend dies between the commit and the submit.
PayCrashes(s) ==
    /\ phone[s] = "pay" /\ Served /\ conf.bad \cap PaySections = {}
    /\ status[s] = "PendingPay"
    /\ status' = [status EXCEPT ![s] = "Paid"]
    /\ notice' = [t \in Sessions |-> IF t = s \/ notice[t] = "queued" THEN "crashed" ELSE notice[t]]
    /\ backendUp' = FALSE
    /\ UNCHANGED <<wsVars, conf, page, phone>>

\* The commit took effect, but its reply was lost or the update of the attempt after it
\* throws: handlePay answers an error and submits nothing.
PayThrows(s) ==
    /\ phone[s] = "pay" /\ Served /\ conf.bad \cap PaySections = {}
    /\ status[s] = "PendingPay"
    /\ status' = [status EXCEPT ![s] = "Paid"]
    /\ UNCHANGED <<wsVars, conf, backendUp, notice, page, phone>>

----------------------------------------------------------------------------
(* notifyPaymentResult, run once by a worker of the backend, and the       *)
(* gateway's handlePaymentResult.                                          *)

Noted(s, outcome) == notice' = [notice EXCEPT ![s] = outcome]

\* paymentGateway() throws: nothing catches it in workerLoop and the process ends.
NotifyThrows(s) ==
    /\ notice[s] = "queued" /\ conf.notify = "throws"
    /\ BackendDies

\* No connection, because of the address or because the gateway is down, or 403.
NotifyFails(s) ==
    /\ notice[s] = "queued"
    /\ \/ conf.notify \in {"unreachable", "forbidden"}
       \/ conf.notify = "pushed" /\ ~alive
    /\ Noted(s, "failed")
    /\ UNCHANGED <<wsVars, conf, backendUp, status, page, phone>>

CanPush(s) == notice[s] = "queued" /\ conf.notify = "pushed" /\ alive

\* Mutant of NotifyUnbound: the registry is asked for another key than bind used.
NotifyUnboundAlways(s) ==
    /\ CanPush(s)
    /\ Noted(s, "unbound")
    /\ UNCHANGED <<wsVars, conf, backendUp, status, page, phone>>

\* push finds no descriptor, or one that is closed: 500.
NotifyUnbound(s) ==
    /\ CanPush(s)
    /\ \/ sessionToFd[s] = NoFd
       \/ sessionToFd[s] # NoFd /\ socket[sessionToFd[s]] = NoConn
    /\ Noted(s, "unbound")
    /\ UNCHANGED <<wsVars, conf, backendUp, status, page, phone>>

\* The frame is written: a page that is there shows the result.
NotifyPush(s) ==
    LET c == socket[sessionToFd[s]] IN
    /\ CanPush(s)
    /\ Push(s)
    /\ Noted(s, "pushed")
    /\ page' = IF peer[c] = "open" THEN [page EXCEPT ![c] = "paid"] ELSE page
    /\ UNCHANGED <<conf, backendUp, status, phone>>

\* The frame is written to a page that has reset its connection: SIGPIPE.
NotifyKillsGateway(s) ==
    /\ CanPush(s)
    /\ \E f \in Fds : sessionToFd[s] = f /\ socket[f] \in {c \in Conns : peer[c] = "gone"}
    /\ Die
    /\ Noted(s, "failed")
    /\ Disconnected
    /\ UNCHANGED <<conf, backendUp, status, phone>>

Notify(s) ==
    \/ NotifyThrows(s) \/ NotifyFails(s) \/ NotifyUnbound(s) \/ NotifyPush(s)
    \/ NotifyKillsGateway(s)

----------------------------------------------------------------------------

Next ==
    \/ GatewayMain \/ BackendMain \/ BackendDies \/ GatewayDies
    \/ \E c \in Conns : Confirm(c) \/ Connect(c) \/ ConnectFails(c) \/ ClientThread(c) \/ PageGone(c)
    \/ \E s \in Sessions : Scan(s) \/ Pay(s) \/ PayCrashes(s) \/ PayThrows(s) \/ Notify(s)

\* Threads of both processes run; what pages and people do is up to them, so a thread
\* that waits for the upgrade request of a page that is there may wait.
Fairness ==
    /\ \A c \in Conns : WF_vars(ClientThread(c) /\ (pc[c] = "handshake" => peer[c] = "gone"))
    /\ \A s \in Sessions : WF_vars(Notify(s))

Spec == Init /\ [][Next]_vars /\ Fairness

----------------------------------------------------------------------------

\* Both pages say "paid" only of an order that is paid, and page A only of its own.
PageShowsTruth ==
    /\ \A c \in Conns : page[c] = "paid" => status[SessionFor[c]] = "Paid"
    /\ \A s \in Sessions : phone[s] = "paid" => status[s] = "Paid"

\* A QR code on a page that is connected belongs to a binding: a payment made from it
\* can be announced to the page, whatever other pages did to the descriptors.
ShownQrIsReachable ==
    \A c \in Conns : page[c] = "qr" /\ peer[c] = "open" => Reachable(c)

\* Sections that are read late still stop a payment before the money moves; only the
\* section the notification needs is read after it.
PaidNeedsConfig ==
    \A s \in Sessions :
        status[s] = "Paid" => conf.bad = {} /\ conf.gatewayStarts /\ conf.backendStarts

\* Seen from outside the composition is the abstract settlement: an order is settled
\* once, and announced at most once and only after that.
Settlement == INSTANCE PaymentSettlement WITH
    Orders <- Sessions, Accounts <- Sessions, OrderAccount <- [s \in Sessions |-> s],
    stock <- [s \in Sessions |-> IF status[s] = "Paid" THEN "Sold" ELSE "OnSale"],
    announced <- {s \in Sessions : notice[s] = "pushed"}
AnnouncesSettlement == Settlement!Spec

\* A page that shows its QR code when the payment's notification is queued shows the
\* result, unless it goes, one of the processes dies or the configuration gives the
\* processes addresses under which the notification cannot arrive.
WaitingPageIsTold ==
    \A c \in Conns :
        page[c] = "qr" /\ notice[SessionFor[c]] = "queued" /\ conf.notify = "pushed"
            ~> page[c] # "qr" \/ notice[SessionFor[c]] = "crashed"
=============================================================================
