------------------------ MODULE PaymentResultProofs ------------------------
(***************************************************************************)
(* What PaymentResult promises about both pages, the settlement and the    *)
(* configuration, for any number of pages, payment sessions, descriptors   *)
(* and slots.  What the pages show is proved for pages that wait for       *)
(* different sessions (OneSessionPerPage): the ws_wrong_page run shows     *)
(* what two pages of one session can do to each other.                     *)
(***************************************************************************)
EXTENDS PaymentResult, WsRegistryProofs, TLAPS

\* The sections handleConfirm reads were right when both processes ran.
Checked == conf.bad \cap ConfirmSections = {} /\ conf.gatewayStarts /\ conf.backendStarts

\* A page that got past handleConfirm, and a phone that scanned its QR code, are
\* evidence of a configuration that a settlement can rely on.
ConfigKept ==
    /\ conf.bad \subseteq ConfirmSections \cup PaySections /\ conf.backendStarts \in BOOLEAN
    /\ alive => conf.gatewayStarts
    /\ backendUp => conf.backendStarts
    /\ \A c \in Conns : page[c] # "blank" \/ peer[c] = "open" => Checked
    /\ \A s \in Sessions : phone[s] # "blank" => Checked
    /\ PaidNeedsConfig

\* What is announced, and what page B shows, has been settled.
SettledFirst ==
    \A s \in Sessions : notice[s] # "none" \/ phone[s] = "paid" => status[s] = "Paid"

\* The inductive invariant that needs nothing of the pages' sessions.
ResultInv == ResultTypeOK /\ SlotsInv /\ ConfigKept /\ SettledFirst

\* The inductive invariant of what the pages show.
DisplayInv ==
    /\ ResultInv /\ PagesInv
    /\ \A c \in Conns : page[c] = "qr" => pc[c] = "reading" /\ peer[c] = "open"
    /\ \A c \in Conns : page[c] = "paid" => status[SessionFor[c]] = "Paid"

----------------------------------------------------------------------------

\* Every step of the composition is a step of the WebSocket side or leaves it alone.
LEMMA ComposedStep == [Next]_vars => [WsNext]_wsVars
<1> SUFFICES ASSUME [Next]_vars PROVE [WsNext]_wsVars
  OBVIOUS
<1>1. CASE GatewayMain
  BY <1>1 DEF GatewayMain, WsNext
<1>2. CASE GatewayDies
  BY <1>2 DEF GatewayDies, WsNext
<1>3. CASE BackendMain \/ BackendDies
  BY <1>3 DEF BackendMain, BackendDies
<1>4. ASSUME NEW c \in Conns, Confirm(c) \/ ConnectFails(c) PROVE [WsNext]_wsVars
  BY <1>4 DEF Confirm, ConnectFails
<1>5. ASSUME NEW c \in Conns, Connect(c) PROVE [WsNext]_wsVars
  BY <1>5 DEF Connect, WsNext
<1>6. ASSUME NEW c \in Conns, ClientThread(c) \/ PageGone(c) PROVE [WsNext]_wsVars
  BY <1>6 DEF ClientThread, Bound, OtherThreadStep, PageGone, ThreadStep, WsNext
<1>7. ASSUME NEW s \in Sessions, Scan(s) \/ Pay(s) \/ PayCrashes(s) \/ PayThrows(s)
      PROVE  [WsNext]_wsVars
  BY <1>7 DEF Scan, Pay, PayCrashes, PayThrows
<1>8. ASSUME NEW s \in Sessions, Notify(s) PROVE [WsNext]_wsVars
  <2>1. CASE NotifyThrows(s) \/ NotifyFails(s) \/ NotifyUnbound(s)
    BY <2>1 DEF NotifyThrows, BackendDies, NotifyFails, NotifyUnbound
  <2>2. CASE NotifyPush(s) \/ NotifyKillsGateway(s)
    BY <2>2 DEF NotifyPush, NotifyKillsGateway, WsNext
  <2>. QED  BY <1>8, <2>1, <2>2 DEF Notify
<1>9. CASE UNCHANGED vars
  BY <1>9 DEF vars
<1>. QED  BY <1>1, <1>2, <1>3, <1>4, <1>5, <1>6, <1>7, <1>8, <1>9 DEF Next

\* What ConfOf makes of any configuration file.
LEMMA ConfShape ==
    ASSUME Init
    PROVE  conf.bad \subseteq ConfirmSections \cup PaySections /\ conf.backendStarts \in BOOLEAN
<1>1. PICK env \in Envs : conf = ConfOf(env)
  BY DEF Init
<1>2. conf.bad = Deployment(env).backendBad \cap (ConfirmSections \cup PaySections)
  BY <1>1 DEF ConfOf
<1>3. conf.backendStarts = Starts(BackendNeeds, BackendStart, env)
  BY <1>1 DEF ConfOf
<1>. QED  BY <1>2, <1>3 DEF Starts

\* Nothing is confirmed, settled or announced at first.
LEMMA ResultInit == Init => ResultInv
<1> SUFFICES ASSUME Init PROVE ResultInv
  OBVIOUS
<1>1. SlotsInv
  BY SlotsInit DEF Init
<1>2. ResultTypeOK
  BY <1>1 DEF Init, ResultTypeOK, SlotsInv, Notices, Pages
<1>3. ConfigKept
  BY ConfShape DEF Init, WsInit, ConfigKept, PaidNeedsConfig
<1>. QED  BY <1>1, <1>2, <1>3 DEF ResultInv, SettledFirst, Init

\* A step of pages and gateway: a page that is new or connected has been confirmed.
LEMMA PagesMove ==
    ASSUME ResultInv, SlotsInv', page' \in [Conns -> Pages],
           UNCHANGED <<conf, backendUp, status, notice, phone>>,
           alive' => alive \/ conf.gatewayStarts,
           \A c \in Conns : page'[c] # "blank" \/ peer'[c] = "open" =>
             page[c] # "blank" \/ peer[c] = "open" \/ Checked
    PROVE  ResultInv'
<1>1. ResultTypeOK'
  BY DEF ResultInv, ResultTypeOK, SlotsInv
<1>2. ConfigKept'
  BY DEF ResultInv, ConfigKept, PaidNeedsConfig, Checked
<1>3. SettledFirst'
  BY DEF ResultInv, SettledFirst
<1>. QED  BY <1>1, <1>2, <1>3 DEF ResultInv

\* A step of the backend: orders are settled with a configuration that was checked, and
\* announced and shown as paid only after that.
LEMMA BackendMove ==
    ASSUME ResultInv, UNCHANGED <<wsVars, conf, page>>,
           ResultTypeOK', SettledFirst', backendUp' \in {FALSE, backendUp, conf.backendStarts},
           \A s \in Sessions : phone'[s] # "blank" => phone[s] # "blank" \/ Checked,
           \A s \in Sessions : status'[s] = "Paid" => status[s] = "Paid"
                                                  \/ (Checked /\ conf.bad \cap PaySections = {})
    PROVE  ResultInv'
<1>1. SlotsInv'
  BY OthersKeep DEF ResultInv
<1>2. PaidNeedsConfig'
  BY DEF ResultInv, ConfigKept, PaidNeedsConfig, Checked
<1>3. backendUp' => conf'.backendStarts
  <2>1. (backendUp => conf.backendStarts) /\ conf' = conf
    BY DEF ResultInv, ConfigKept
  <2>. QED  BY <2>1, Zenon
<1>4. UNCHANGED <<alive, peer, page, conf>>
  BY DEF wsVars
<1>5. /\ (conf.bad \subseteq ConfirmSections \cup PaySections)'
      /\ (conf.backendStarts \in BOOLEAN)' /\ (alive => conf.gatewayStarts)'
      /\ (\A c \in Conns : page[c] # "blank" \/ peer[c] = "open" => Checked)'
  BY <1>4 DEF ResultInv, ConfigKept, Checked
<1>6. (\A s \in Sessions : phone[s] # "blank" => Checked)'
  BY <1>4 DEF ResultInv, ConfigKept, Checked
<1>7. ConfigKept'
  BY <1>2, <1>3, <1>5, <1>6 DEF ConfigKept
<1>. QED  BY <1>1, <1>7 DEF ResultInv

\* Gateway and pages.
LEMMA GatewayKeeps ==
    ASSUME ResultInv, SlotsInv',
           \/ GatewayMain \/ GatewayDies
           \/ \E c \in Conns : Confirm(c) \/ Connect(c) \/ ConnectFails(c) \/ PageGone(c)
    PROVE  ResultInv'
<1>t. page \in [Conns -> Pages] /\ peer \in [Conns -> {"open", "gone"}]
  BY DEF ResultInv, ResultTypeOK, WsTypeOK
<1>1. CASE GatewayMain
  <2>1. UNCHANGED <<conf, backendUp, status, notice, phone, page, peer>>
        /\ (alive' => alive \/ conf.gatewayStarts)
    BY <1>1 DEF GatewayMain, StartGateway, resultVars, wsVars
  <2>. QED  BY <1>t, <2>1, PagesMove
<1>2. CASE GatewayDies
  <2>1. /\ UNCHANGED <<conf, backendUp, status, notice, phone>> /\ alive' = FALSE
        /\ peer' = [c \in Conns |-> "gone"] /\ Disconnected
    BY <1>2 DEF GatewayDies, SigPipe, Die
  <2>2. page' \in [Conns -> Pages]
    BY <1>t, <2>1 DEF Disconnected, Pages
  <2>3. \A c \in Conns : page'[c] # "blank" => page[c] # "blank"
    BY <1>t, <2>1 DEF Disconnected
  <2>. QED  BY <2>1, <2>2, <2>3, PagesMove
<1>3. ASSUME NEW c \in Conns, Confirm(c) PROVE ResultInv'
  <2>1. /\ page' = [page EXCEPT ![c] = "connecting"] /\ UNCHANGED <<alive, peer>>
        /\ UNCHANGED <<conf, backendUp, status, notice, phone>>
    BY <1>3 DEF Confirm, Shows, wsVars
  <2>2. Checked
    BY <1>3 DEF Confirm, Served, Checked, ResultInv, ConfigKept
  <2>3. page' \in [Conns -> Pages]
    BY <1>t, <2>1 DEF Pages
  <2>. QED  BY <2>1, <2>2, <2>3, PagesMove
<1>4. ASSUME NEW c \in Conns, Connect(c) PROVE ResultInv'
  <2>1. /\ \/ peer' = [peer EXCEPT ![c] = "open"] /\ UNCHANGED page
           \/ UNCHANGED peer /\ page' = [page EXCEPT ![c] = "blank"]
        /\ UNCHANGED <<alive, conf, backendUp, status, notice, phone>> /\ page[c] # "blank"
    BY <1>4 DEF Connect, Accept, Refuse, Shows, wsVars
  <2>2. page' \in [Conns -> Pages]
    BY <1>t, <2>1 DEF Pages
  <2>3. \A d \in Conns : page'[d] # "blank" \/ peer'[d] = "open" =>
          page[d] # "blank" \/ peer[d] = "open"
    BY <1>t, <2>1
  <2>. QED  BY <2>1, <2>2, <2>3, PagesMove
<1>5. ASSUME NEW c \in Conns, ConnectFails(c) \/ PageGone(c) PROVE ResultInv'
  <2>1. /\ UNCHANGED peer \/ peer' = [peer EXCEPT ![c] = "gone"]
        /\ page' = [page EXCEPT ![c] = "blank"]
        /\ UNCHANGED <<alive, conf, backendUp, status, notice, phone>>
    BY <1>5 DEF ConnectFails, PageGone, PageLeaves, Shows, wsVars
  <2>2. page' \in [Conns -> Pages]
    BY <1>t, <2>1 DEF Pages
  <2>3. \A d \in Conns : page'[d] # "blank" \/ peer'[d] = "open" =>
          page[d] # "blank" \/ peer[d] = "open"
    BY <1>t, <2>1
  <2>. QED  BY <2>1, <2>2, <2>3, PagesMove
<1>. QED  BY <1>1, <1>2, <1>3, <1>4, <1>5

\* The thread of a WebSocket connection.
LEMMA ClientThreadKeeps ==
    ASSUME ResultInv, SlotsInv', NEW c \in Conns, ClientThread(c)
    PROVE  ResultInv'
<1>t. page \in [Conns -> Pages] /\ peer \in [Conns -> {"open", "gone"}]
  BY DEF ResultInv, ResultTypeOK, WsTypeOK
<1>0. UNCHANGED <<conf, backendUp, status, notice, phone>>
  BY DEF ClientThread
<1>1. CASE UNCHANGED <<alive, peer, page>>
  BY <1>t, <1>0, <1>1, PagesMove
<1>2. CASE /\ UNCHANGED <<alive, peer>>
           /\ page' = [d \in Conns |-> IF socket[clientFd[c]] = d /\ peer[d] = "open" THEN "qr"
                                                                                     ELSE page[d]]
  <2>1. page' \in [Conns -> Pages]
    BY <1>t, <1>2 DEF Pages
  <2>2. \A d \in Conns : page'[d] # "blank" => page[d] # "blank" \/ peer[d] = "open"
    BY <1>2
  <2>. QED  BY <1>0, <1>2, <2>1, <2>2, PagesMove
<1>3. CASE /\ UNCHANGED alive /\ peer' = [peer EXCEPT ![c] = "gone"]
           /\ UNCHANGED page \/ page' = [page EXCEPT ![c] = "blank"]
  <2>1. page' \in [Conns -> Pages]
    BY <1>t, <1>3 DEF Pages
  <2>2. \A d \in Conns : page'[d] # "blank" \/ peer'[d] = "open" =>
          page[d] # "blank" \/ peer[d] = "open"
    BY <1>t, <1>3
  <2>. QED  BY <1>0, <1>3, <2>1, <2>2, PagesMove
<1>. QED  BY <1>1, <1>2, <1>3 DEF ClientThread, Bound, OtherThreadStep, Start, Handshake,
          HandshakeFails, Bind, SendBound, ReadEnds, Unbind, Close, Leave, Shows

\* The backend, and page B.
LEMMA BackendKeeps ==
    ASSUME ResultInv,
           \/ BackendMain \/ BackendDies
           \/ \E s \in Sessions : Scan(s) \/ Pay(s) \/ PayCrashes(s) \/ PayThrows(s)
    PROVE  ResultInv'
<1>t. /\ status \in [Sessions -> {"PendingPay", "Paid"}] /\ notice \in [Sessions -> Notices]
      /\ phone \in [Sessions -> {"blank", "pay", "paid"}] /\ page \in [Conns -> Pages]
      /\ conf.backendStarts \in BOOLEAN /\ WsTypeOK
  BY DEF ResultInv, ResultTypeOK, ConfigKept
<1>w. UNCHANGED <<wsVars, conf, page>>
  BY DEF BackendMain, BackendDies, Scan, Pay, PayCrashes, PayThrows
<1>v. WsTypeOK'
  BY <1>t, <1>w DEF wsVars, WsTypeOK
<1>1. CASE BackendMain
  <2>1. UNCHANGED <<status, notice, phone>> /\ backendUp' = conf.backendStarts
    BY <1>1 DEF BackendMain
  <2>2. ResultTypeOK' /\ SettledFirst'
    BY <1>t, <1>v, <1>w, <2>1 DEF ResultInv, ResultTypeOK, SettledFirst
  <2>3. backendUp' \in {FALSE, backendUp, conf.backendStarts}
    BY <2>1, Zenon
  <2>4. \A t \in Sessions : (phone'[t] # "blank" => phone[t] # "blank" \/ Checked)
          /\ (status'[t] = "Paid" => status[t] = "Paid"
                                       \/ (Checked /\ conf.bad \cap PaySections = {}))
    BY <2>1
  <2>. QED  BY <1>w, <2>2, <2>3, <2>4, BackendMove, Zenon
<1>2. CASE BackendDies
  <2>1. /\ UNCHANGED <<status, phone>> /\ backendUp' = FALSE
        /\ notice' = [s \in Sessions |-> IF notice[s] = "queued" THEN "crashed" ELSE notice[s]]
    BY <1>2 DEF BackendDies
  <2>2. ResultTypeOK'
    BY <1>t, <1>v, <1>w, <2>1 DEF ResultTypeOK, Notices
  <2>3. SettledFirst'
    BY <2>1 DEF ResultInv, SettledFirst
  <2>4. backendUp' \in {FALSE, backendUp, conf.backendStarts}
    BY <2>1, Zenon
  <2>5. \A t \in Sessions : (phone'[t] # "blank" => phone[t] # "blank" \/ Checked)
          /\ (status'[t] = "Paid" => status[t] = "Paid"
                                       \/ (Checked /\ conf.bad \cap PaySections = {}))
    BY <2>1
  <2>. QED  BY <1>w, <2>2, <2>3, <2>4, <2>5, BackendMove, Zenon
<1>3. ASSUME NEW s \in Sessions, Scan(s) PROVE ResultInv'
  <2>1. phone' = [phone EXCEPT ![s] = "pay"] /\ UNCHANGED <<backendUp, status, notice>>
    BY <1>3 DEF Scan
  <2>2. Checked
    BY <1>3 DEF Scan, ResultInv, ConfigKept
  <2>3. ResultTypeOK'
    BY <1>t, <1>v, <1>w, <2>1 DEF ResultInv, ResultTypeOK
  <2>4. SettledFirst'
    BY <1>t, <2>1 DEF ResultInv, SettledFirst
  <2>5. \A t \in Sessions : (phone'[t] # "blank" => phone[t] # "blank" \/ Checked)
          /\ (status'[t] = "Paid" => status[t] = "Paid"
                                       \/ (Checked /\ conf.bad \cap PaySections = {}))
    BY <2>1, <2>2
  <2>6. backendUp' \in {FALSE, backendUp, conf.backendStarts}
    BY <2>1, Zenon
  <2>. QED  BY <1>w, <2>3, <2>4, <2>5, <2>6, BackendMove, Zenon
<1>4. ASSUME NEW s \in Sessions, Pay(s) \/ PayCrashes(s) \/ PayThrows(s) PROVE ResultInv'
  <2>1. /\ status' = [status EXCEPT ![s] = "Paid"] /\ backendUp' \in {FALSE, backendUp}
        /\ backendUp \in BOOLEAN /\ conf.bad \cap PaySections = {} /\ phone[s] = "pay"
        /\ UNCHANGED phone \/ phone' = [phone EXCEPT ![s] = "paid"]
    BY <1>4 DEF Pay, PayCrashes, PayThrows, ResultInv, ResultTypeOK
  <2>2. /\ notice' \in [Sessions -> Notices]
        /\ \A t \in Sessions : t # s /\ notice'[t] # "none" => notice[t] # "none"
    BY <1>t, <1>4 DEF Pay, PayCrashes, PayThrows, Notices
  <2>3. Checked
    BY <2>1 DEF ResultInv, ConfigKept
  <2>4. ResultTypeOK'
    BY <1>t, <1>v, <1>w, <2>1, <2>2 DEF ResultTypeOK
  <2>5. SettledFirst'
    BY <1>t, <2>1, <2>2 DEF ResultInv, SettledFirst
  <2>6. \A t \in Sessions : (phone'[t] # "blank" => phone[t] # "blank" \/ Checked)
          /\ (status'[t] = "Paid" => status[t] = "Paid"
                                       \/ (Checked /\ conf.bad \cap PaySections = {}))
    BY <2>1, <2>3
  <2>7. backendUp' \in {FALSE, backendUp, conf.backendStarts}
    BY <2>1, Zenon
  <2>. QED  BY <1>w, <2>4, <2>5, <2>6, <2>7, BackendMove, Zenon
<1>. QED  BY <1>1, <1>2, <1>3, <1>4

\* A notification's outcome.
LEMMA NoticeKeeps ==
    ASSUME ResultInv, SlotsInv', NEW s \in Sessions, notice[s] # "none",
           NEW outcome \in Notices, Noted(s, outcome), page' \in [Conns -> Pages],
           UNCHANGED <<conf, backendUp, status, phone>>, alive' => alive,
           \A c \in Conns : page'[c] # "blank" \/ peer'[c] = "open" =>
             page[c] # "blank" \/ peer[c] = "open"
    PROVE  ResultInv'
<1>1. ResultTypeOK'
  BY DEF ResultInv, ResultTypeOK, SlotsInv, Noted
<1>2. ConfigKept'
  BY DEF ResultInv, ConfigKept, PaidNeedsConfig, Checked
<1>3. SettledFirst'
  BY DEF ResultInv, SettledFirst, ResultTypeOK, Noted
<1>. QED  BY <1>1, <1>2, <1>3 DEF ResultInv

\* notifyPaymentResult and handlePaymentResult.
LEMMA NotifyKeeps ==
    ASSUME ResultInv, SlotsInv', NEW s \in Sessions, Notify(s)
    PROVE  ResultInv'
<1>t. page \in [Conns -> Pages] /\ peer \in [Conns -> {"open", "gone"}]
      /\ socket \in [Fds -> Conns \cup {NoConn}] /\ sessionToFd \in [Sessions -> Fds \cup {NoFd}]
  BY DEF ResultInv, ResultTypeOK, WsTypeOK
<1>1. CASE NotifyThrows(s)
  BY <1>1, BackendKeeps DEF NotifyThrows
<1>2. CASE NotifyFails(s) \/ NotifyUnbound(s)
  <2>1. /\ Noted(s, "failed") \/ Noted(s, "unbound")
        /\ notice[s] # "none" /\ UNCHANGED <<alive, peer, page, conf, backendUp, status, phone>>
    BY <1>2 DEF NotifyFails, NotifyUnbound, CanPush, wsVars
  <2>2. "failed" \in Notices /\ "unbound" \in Notices
    BY DEF Notices
  <2>. QED  BY <1>t, <2>1, <2>2, NoticeKeeps
<1>3. CASE NotifyPush(s)
  <2> DEFINE c == socket[sessionToFd[s]]
  <2>1. /\ Noted(s, "pushed") /\ notice[s] # "none" /\ "pushed" \in Notices
        /\ page' = IF peer[c] = "open" THEN [page EXCEPT ![c] = "paid"] ELSE page
        /\ UNCHANGED <<alive, peer, conf, backendUp, status, phone>>
    BY <1>3 DEF NotifyPush, CanPush, Push, Notices
  <2>2. page' \in [Conns -> Pages]
    BY <1>t, <2>1 DEF Pages
  <2>3. \A d \in Conns : page'[d] # "blank" => page[d] # "blank" \/ peer[d] = "open"
    BY <1>t, <2>1
  <2>. QED  BY <2>1, <2>2, <2>3, NoticeKeeps
<1>4. CASE NotifyKillsGateway(s)
  <2>1. /\ Noted(s, "failed") /\ notice[s] # "none" /\ "failed" \in Notices /\ alive' = FALSE
        /\ Disconnected /\ peer' = [c \in Conns |-> "gone"]
        /\ UNCHANGED <<conf, backendUp, status, phone>>
    BY <1>4 DEF NotifyKillsGateway, CanPush, Die, Notices
  <2>2. page' \in [Conns -> Pages]
    BY <1>t, <2>1 DEF Disconnected, Pages
  <2>3. \A d \in Conns : page'[d] # "blank" => page[d] # "blank"
    BY <1>t, <2>1 DEF Disconnected
  <2>. QED  BY <2>1, <2>2, <2>3, NoticeKeeps
<1>. QED  BY <1>1, <1>2, <1>3, <1>4 DEF Notify

\* Every step keeps what pages, orders and notifications say of the configuration and of
\* each other.
LEMMA ResultStep == ResultInv /\ [Next]_vars => ResultInv'
<1> SUFFICES ASSUME ResultInv, [Next]_vars PROVE ResultInv'
  OBVIOUS
<1>1. SlotsInv'
  BY ComposedStep, SlotsStep DEF ResultInv
<1>2. CASE UNCHANGED vars
  <2>1. UNCHANGED <<alive, peer, page, conf, backendUp, status, notice, phone>>
    BY <1>2 DEF vars, wsVars, resultVars
  <2>2. page' \in [Conns -> Pages]
    BY <2>1 DEF ResultInv, ResultTypeOK
  <2>. QED  BY <1>1, <2>1, <2>2, PagesMove
<1>. QED  BY <1>1, <1>2, GatewayKeeps, ClientThreadKeeps, BackendKeeps, NotifyKeeps DEF Next

\* ResultInv holds in every reachable state.
THEOREM ResultInvariance == Spec => []ResultInv
BY ResultInit, ResultStep, PTL DEF Spec

\* Both processes, both pages and the notifications stay in the states the code names.
THEOREM ResultTyping == Spec => []ResultTypeOK
<1>1. ResultInv => ResultTypeOK
  BY DEF ResultInv
<1>. QED  BY <1>1, ResultInvariance, PTL

\* g_ws_active_connections is exact also when the gateway serves real pages, with
\* pushes, SIGPIPE and restarts in between.
THEOREM ResultSlots == Spec => []SlotsCounted
<1>1. ResultInv => SlotsCounted
  BY DEF ResultInv, SlotsInv
<1>. QED  BY <1>1, ResultInvariance, PTL

\* No order is ever paid under a configuration of which handleConfirm, handlePaymentPage
\* or handlePay could not read a section: sections that are read late stop the payment
\* before the money moves.
THEOREM ConfigBeforeMoney == Spec => []PaidNeedsConfig
<1>1. ResultInv => PaidNeedsConfig
  BY DEF ResultInv, ConfigKept
<1>. QED  BY <1>1, ResultInvariance, PTL

----------------------------------------------------------------------------
(* The composition implements the abstract service.                        *)

\* What a step does to orders and notifications: one payment is settled, one settled
\* payment is announced, or neither changes as far as the abstract service sees.
LEMMA StepKinds ==
    ASSUME ResultInv, [Next]_vars
    PROVE  \/ \E s \in Sessions :
                /\ status[s] = "PendingPay" /\ status' = [status EXCEPT ![s] = "Paid"]
                /\ \A t \in Sessions : notice'[t] = "pushed" <=> notice[t] = "pushed"
           \/ \E s \in Sessions :
                notice[s] = "queued" /\ Noted(s, "pushed") /\ UNCHANGED status
           \/ /\ UNCHANGED status
              /\ \A t \in Sessions : notice'[t] = "pushed" <=> notice[t] = "pushed"
<1> DEFINE Quiet == \A t \in Sessions : notice'[t] = "pushed" <=> notice[t] = "pushed"
<1>t. notice \in [Sessions -> Notices] /\ status \in [Sessions -> {"PendingPay", "Paid"}]
  BY DEF ResultInv, ResultTypeOK
<1>1. ASSUME NEW s \in Sessions, Pay(s) \/ PayCrashes(s) \/ PayThrows(s)
      PROVE  status[s] = "PendingPay" /\ status' = [status EXCEPT ![s] = "Paid"] /\ Quiet
  <2>1. status[s] = "PendingPay" /\ status' = [status EXCEPT ![s] = "Paid"]
    BY <1>1 DEF Pay, PayCrashes, PayThrows
  <2>2. notice[s] = "none"
    BY <2>1 DEF ResultInv, SettledFirst
  <2>3. Quiet
    BY <1>t, <1>1, <2>2 DEF Pay, PayCrashes, PayThrows
  <2>. QED  BY <2>1, <2>3
<1>2. ASSUME NEW s \in Sessions, NotifyPush(s)
      PROVE  notice[s] = "queued" /\ Noted(s, "pushed") /\ UNCHANGED status
  BY <1>2 DEF NotifyPush, CanPush
<1>3. ASSUME BackendDies PROVE UNCHANGED status /\ Quiet
  BY <1>3 DEF BackendDies
<1>4. ASSUME NEW s \in Sessions, NotifyFails(s) \/ NotifyUnbound(s) \/ NotifyKillsGateway(s)
      PROVE  UNCHANGED status /\ Quiet
  <2>1. /\ notice[s] = "queued" /\ UNCHANGED status
        /\ Noted(s, "failed") \/ Noted(s, "unbound")
    BY <1>4 DEF NotifyFails, NotifyUnbound, NotifyKillsGateway, CanPush
  <2>. QED  BY <1>t, <2>1 DEF Noted
<1>5. ASSUME UNCHANGED <<status, notice>> PROVE UNCHANGED status /\ Quiet
  BY <1>5
<1>6. ASSUME NEW c \in Conns,
             Confirm(c) \/ Connect(c) \/ ConnectFails(c) \/ ClientThread(c) \/ PageGone(c)
      PROVE  UNCHANGED <<status, notice>>
  BY <1>6 DEF Confirm, Connect, ConnectFails, ClientThread, PageGone
<1>7. ASSUME GatewayMain \/ BackendMain \/ GatewayDies \/ UNCHANGED vars
      PROVE  UNCHANGED <<status, notice>>
  BY <1>7 DEF GatewayMain, BackendMain, GatewayDies, vars, resultVars
<1>8. ASSUME NEW s \in Sessions, Scan(s) PROVE UNCHANGED <<status, notice>>
  BY <1>8 DEF Scan
<1>9. ASSUME NEW s \in Sessions, NotifyThrows(s) PROVE UNCHANGED status /\ Quiet
  BY <1>3, <1>9 DEF NotifyThrows
<1>. QED  BY <1>1, <1>2, <1>3, <1>4, <1>5, <1>6, <1>7, <1>8, <1>9 DEF Next, Notify

\* No order is paid or announced at first.
LEMMA AnnounceInit == Init => Settlement!Init
BY DEF Init, Settlement!Init

\* Every step is a settlement, an announcement or nothing the abstract service sees.
LEMMA AnnounceStep == ResultInv /\ [Next]_vars => [Settlement!Next]_(Settlement!vars)
<1> SUFFICES ASSUME ResultInv, [Next]_vars PROVE [Settlement!Next]_(Settlement!vars)
  OBVIOUS
<1> DEFINE stock == [s \in Sessions |-> IF status[s] = "Paid" THEN "Sold" ELSE "OnSale"]
           announced == {s \in Sessions : notice[s] = "pushed"}
<1>t. notice \in [Sessions -> Notices] /\ status \in [Sessions -> {"PendingPay", "Paid"}]
  BY DEF ResultInv, ResultTypeOK
<1>1. ASSUME NEW s \in Sessions, status[s] = "PendingPay",
             status' = [status EXCEPT ![s] = "Paid"],
             \A t \in Sessions : notice'[t] = "pushed" <=> notice[t] = "pushed"
      PROVE  Settlement!Next
  <2>1. announced' = announced
    BY <1>1
  <2>2. stock' = [stock EXCEPT ![s] = "Sold"] /\ stock[s] = "OnSale"
    BY <1>t, <1>1
  <2>3. Settlement!Settle(s)
    BY <1>1, <2>1, <2>2 DEF Settlement!Settle
  <2>. QED  BY <2>3 DEF Settlement!Next
<1>2. ASSUME NEW s \in Sessions, notice[s] = "queued", Noted(s, "pushed"), UNCHANGED status
      PROVE  Settlement!Next
  <2>1. status[s] = "Paid" /\ s \notin announced
    BY <1>2 DEF ResultInv, SettledFirst
  <2>2. announced' = announced \cup {s}
    BY <1>t, <1>2 DEF Noted
  <2>3. stock' = stock
    BY <1>2
  <2>4. Settlement!Announce(s)
    BY <1>2, <2>1, <2>2, <2>3 DEF Settlement!Announce
  <2>. QED  BY <2>4 DEF Settlement!Next
<1>3. ASSUME UNCHANGED status,
             \A t \in Sessions : notice'[t] = "pushed" <=> notice[t] = "pushed"
      PROVE  UNCHANGED Settlement!vars
  <2>1. announced' = announced /\ stock' = stock
    BY <1>3
  <2>. QED  BY <1>3, <2>1 DEF Settlement!vars
<1>. QED  BY <1>1, <1>2, <1>3, StepKinds

\* Gateway, backend, configuration and pages together implement the abstract service:
\* an order is settled once and announced at most once, after that.
THEOREM ResultRefinement == Spec => AnnouncesSettlement
BY AnnounceInit, AnnounceStep, ResultInvariance, PTL
   DEF Spec, AnnouncesSettlement, Settlement!Spec

----------------------------------------------------------------------------
(* What the pages show, when every page waits for a session of its own.    *)

\* The pages after a step: what they show of results and QR codes.
LEMMA DisplayStep ==
    ASSUME OneSessionPerPage
    PROVE  DisplayInv /\ [Next]_vars => DisplayInv'
<1> SUFFICES ASSUME DisplayInv, [Next]_vars PROVE DisplayInv'
  OBVIOUS
<1> DEFINE Qr(c) == page[c] = "qr" => pc[c] = "reading" /\ peer[c] = "open"
           Told(c) == page[c] = "paid" => status[SessionFor[c]] = "Paid"
<1>0. ResultInv' /\ PagesInv'
  BY ResultStep, ComposedStep, PagesStep DEF DisplayInv
<1>t. /\ page \in [Conns -> Pages] /\ peer \in [Conns -> {"open", "gone"}]
      /\ pc \in [Conns -> Pc] /\ status \in [Sessions -> {"PendingPay", "Paid"}]
      /\ SessionFor \in [Conns -> Sessions]
  BY WsAssumption DEF DisplayInv, ResultInv, ResultTypeOK, WsTypeOK
<1>i. \A c \in Conns : Qr(c) /\ Told(c)
  BY DEF DisplayInv
<1>s. \A s \in Sessions : status[s] = "Paid" => status'[s] = "Paid"
  <2>1. ResultInv
    BY DEF DisplayInv
  <2>. QED  BY <1>t, <2>1, StepKinds
\* A page of which nothing changes, that leaves, or that is new
<1>q. ASSUME NEW c \in Conns,
             \/ UNCHANGED <<page[c], pc[c], peer[c]>>
             \/ page'[c] \in {"blank", "connecting"}
      PROVE  Qr(c)' /\ Told(c)'
  BY <1>t, <1>i, <1>s, <1>q
<1>1. CASE GatewayMain \/ BackendMain \/ BackendDies \/ UNCHANGED vars
  <2>1. UNCHANGED <<page, pc, peer>>
    BY <1>1 DEF GatewayMain, StartGateway, BackendMain, BackendDies, vars, wsVars, resultVars
  <2>2. \A c \in Conns : Qr(c)' /\ Told(c)'
    BY <1>q, <2>1
  <2>. QED  BY <1>0, <2>2 DEF DisplayInv
<1>2. CASE GatewayDies \/ \E s \in Sessions : NotifyKillsGateway(s)
  <2>1. Disconnected
    BY <1>2 DEF GatewayDies, NotifyKillsGateway
  <2>2. \A c \in Conns : page'[c] = IF peer[c] = "open" THEN "blank" ELSE page[c]
    BY <2>1 DEF Disconnected
  <2>3. \A c \in Conns : Qr(c)' /\ Told(c)'
    BY <1>t, <1>i, <1>s, <2>2
  <2>. QED  BY <1>0, <2>3 DEF DisplayInv
<1>3. ASSUME NEW c \in Conns, Confirm(c) \/ Connect(c) \/ ConnectFails(c) \/ PageGone(c)
      PROVE  DisplayInv'
  <2>1. /\ \A d \in Conns \ {c} : UNCHANGED <<page[d], pc[d], peer[d]>>
        /\ page'[c] \in {"blank", "connecting"}
    BY <1>t, <1>3 DEF Confirm, Connect, ConnectFails, PageGone, Shows, Accept, Goto, Refuse,
       PageLeaves, wsVars
  <2>2. \A d \in Conns : Qr(d)' /\ Told(d)'
    BY <1>q, <2>1
  <2>. QED  BY <1>0, <2>2 DEF DisplayInv
<1>4. ASSUME NEW c \in Conns, ClientThread(c) PROVE DisplayInv'
  <2>1. CASE SendBound(c)
    <3>1. socket[clientFd[c]] = c /\ pc' = [pc EXCEPT ![c] = "reading"] /\ UNCHANGED peer
      BY <2>1 DEF SendBound, Goto, DisplayInv, PagesInv, OwnNumber
    <3>2. \/ page' = [d \in Conns |-> IF socket[clientFd[c]] = d /\ peer[d] = "open" THEN "qr"
                                                                                    ELSE page[d]]
          \/ UNCHANGED page
      BY <1>4, <2>1 DEF ClientThread, Bound, OtherThreadStep, Bind, Start, Handshake,
         HandshakeFails, ReadEnds, Unbind, Close, Leave, SendBound
    <3>3. \A d \in Conns \ {c} : UNCHANGED <<page[d], pc[d], peer[d]>>
      BY <1>t, <3>1, <3>2
    <3>4. Qr(c)' /\ Told(c)'
      BY <1>t, <1>i, <1>s, <3>1, <3>2
    <3>. QED  BY <1>0, <1>q, <3>3, <3>4 DEF DisplayInv
  <2>2. CASE ReadEnds(c)
    <3>1. peer[c] = "gone" /\ pc' = [pc EXCEPT ![c] = "unbind"] /\ UNCHANGED <<peer, page>>
      <4>1. reads[c] = c
        BY <2>2 DEF ReadEnds, DisplayInv, PagesInv, OwnReads
      <4>2. UNCHANGED page
        BY <1>4, <2>2 DEF ClientThread, Bound, OtherThreadStep, Bind, Start, Handshake,
           HandshakeFails, SendBound, Unbind, Close, Leave, ReadEnds
      <4>. QED  BY <1>t, <2>2, <4>1, <4>2, WsAssumption DEF ReadEnds, Goto
    <3>2. \A d \in Conns : Qr(d)' /\ Told(d)'
      BY <1>t, <1>i, <1>s, <3>1
    <3>. QED  BY <1>0, <3>2 DEF DisplayInv
  <2>3. CASE /\ pc[c] # "reading"
             /\ UNCHANGED peer \/ peer' = [peer EXCEPT ![c] = "gone"]
             /\ \E p \in Pc : pc' = [pc EXCEPT ![c] = p]
             /\ UNCHANGED page \/ page' = [page EXCEPT ![c] = "blank"]
    <3>1. \A d \in Conns \ {c} : UNCHANGED <<page[d], pc[d], peer[d]>>
      BY <1>t, <2>3
    <3>2. Qr(c)' /\ Told(c)'
      BY <1>t, <1>i, <1>s, <2>3
    <3>. QED  BY <1>0, <1>q, <3>1, <3>2 DEF DisplayInv
  <2>. QED  BY <1>4, <2>1, <2>2, <2>3 DEF ClientThread, Bound, OtherThreadStep, Start, Handshake,
            HandshakeFails, Bind, Unbind, Close, Leave, Shows, Goto, Pc
<1>5. ASSUME NEW s \in Sessions,
             \/ Scan(s) \/ Pay(s) \/ PayCrashes(s) \/ PayThrows(s)
             \/ NotifyThrows(s) \/ NotifyFails(s) \/ NotifyUnbound(s)
      PROVE  DisplayInv'
  <2>1. UNCHANGED <<page, pc, peer>>
    BY <1>5 DEF Scan, Pay, PayCrashes, PayThrows, NotifyThrows, BackendDies, NotifyFails,
       NotifyUnbound, wsVars
  <2>2. \A c \in Conns : Qr(c)' /\ Told(c)'
    BY <1>q, <2>1
  <2>. QED  BY <1>0, <2>2 DEF DisplayInv
<1>6. ASSUME NEW s \in Sessions, NotifyPush(s) PROVE DisplayInv'
  <2>1. PICK c \in Conns : c = socket[sessionToFd[s]] /\ SessionFor[c] = s
    BY <1>6, PushOwn DEF NotifyPush, Push, DisplayInv
  <2>2. status'[s] = "Paid"
    BY <1>6, <1>s DEF NotifyPush, CanPush, DisplayInv, ResultInv, SettledFirst
  <2>3. /\ UNCHANGED <<pc, peer>> /\ page' \in {page, [page EXCEPT ![c] = "paid"]}
    BY <1>6, <2>1 DEF NotifyPush, Push
  <2>4. \A d \in Conns \ {c} : UNCHANGED <<page[d], pc[d], peer[d]>>
    BY <1>t, <2>3
  <2>5. Qr(c)' /\ Told(c)'
    BY <1>t, <1>i, <1>s, <2>1, <2>2, <2>3
  <2>. QED  BY <1>0, <1>q, <2>4, <2>5 DEF DisplayInv
<1>. QED  BY <1>1, <1>2, <1>3, <1>4, <1>5, <1>6 DEF Next, Notify

\* No page shows anything at first.
LEMMA DisplayInit == Init => DisplayInv
<1> SUFFICES ASSUME Init PROVE DisplayInv
  OBVIOUS
<1>1. ResultInv /\ PagesInv
  BY ResultInit, PagesInit DEF Init
<1>. QED  BY <1>1 DEF DisplayInv, Init

\* When every page waits for a payment session of its own, DisplayInv holds in every
\* reachable state.
THEOREM DisplayInvariance == OneSessionPerPage => (Spec => []DisplayInv)
<1> SUFFICES ASSUME OneSessionPerPage PROVE Spec => []DisplayInv
  OBVIOUS
<1>1. DisplayInv /\ [Next]_vars => DisplayInv'
  BY DisplayStep
<1>. QED  BY <1>1, DisplayInit, PTL DEF Spec

\* A pushed result is written only to the page that asked for its session, also when the
\* gateway has died and bindings of its new life reuse the old numbers.
THEOREM ResultsReachTheirPage == OneSessionPerPage => (Spec => []PushReachesItsPage)
<1> SUFFICES ASSUME OneSessionPerPage PROVE Spec => []PushReachesItsPage
  OBVIOUS
<1>1. Spec => []DisplayInv
  BY DisplayInvariance
<1>2. DisplayInv => PushReachesItsPage
  BY DEF DisplayInv, PagesInv
<1>. QED  BY <1>1, <1>2, PTL

\* Both pages say "paid" only of an order that is paid, and page A only of its own order,
\* whatever descriptors were closed and reused, whichever process died and restarted and
\* whatever the configuration says.
THEOREM PagesTellTheTruth == OneSessionPerPage => (Spec => []PageShowsTruth)
<1> SUFFICES ASSUME OneSessionPerPage PROVE Spec => []PageShowsTruth
  OBVIOUS
<1>1. Spec => []DisplayInv
  BY DisplayInvariance
<1>2. DisplayInv => PageShowsTruth
  BY DEF DisplayInv, ResultInv, SettledFirst, PageShowsTruth
<1>. QED  BY <1>1, <1>2, PTL

\* A page that shows its QR code can be told: the registry leads from its session to its
\* own open connection.
THEOREM QrCanBeAnswered == OneSessionPerPage => (Spec => []ShownQrIsReachable)
<1> SUFFICES ASSUME OneSessionPerPage PROVE Spec => []ShownQrIsReachable
  OBVIOUS
<1>1. Spec => []DisplayInv
  BY DisplayInvariance
<1>2. DisplayInv => ShownQrIsReachable
  BY PagesTypes DEF DisplayInv, PagesInv, MapsExact, OwnNumber, Bindings, ShownQrIsReachable,
     Reachable
<1>. QED  BY <1>1, <1>2, PTL
=============================================================================
