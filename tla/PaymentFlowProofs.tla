------------------------- MODULE PaymentFlowProofs -------------------------
(***************************************************************************)
(* Proofs about PaymentFlow for any workers, orders, accounts and bounds.  *)
(***************************************************************************)
EXTENDS PaymentFlow, TLAPS

USE TtlAssumption, OrderAssumption, NothingAssumption

\* The initial tables and the idle workers satisfy the invariant.
LEMMA InitIInv == Init => IInv
BY DEF Init, IInv, TypeOK, RowsLinked, RequestsBound, RequestBound, FreshIds, LocksHeld,
       ChecksStand, AboutToNotify, SettledTogether, SoldOnce, PaidAnswerTrue, NoticeSound, Holds,
       NoRequestLocals, Locals, BadToken, Token, Rows, Pc, ConfirmPc, InitPc, PayPc, TxnPc,
       PayBound, SessionHeld, OrderHeld, AccountHeld, AttemptHeld, PaidPc, Reasons, UserStatus,
       OrderStatus, AccountStatus, PaymentSessionStatus, PaymentAttemptResult

----------------------------------------------------------------------------
(* Typing.                                                                 *)

\* The part of TypeOK that speaks of a worker's program counter and locals.
WorkTyped == pc \in [Workers -> Pc] /\ req \in [Workers -> Locals]

\* The locals of an idle worker are typed, and setting a field keeps them so.
LEMMA LocalsTyped ==
    /\ NoRequestLocals \in Locals
    /\ \A q \in Locals :
         /\ \A x \in Reasons : [q EXCEPT !.reason = x] \in Locals
         /\ \A x \in SessionIds : [q EXCEPT !.sid = x] \in Locals
         /\ \A x \in Orders \cup {NoOrder} : [q EXCEPT !.order = x] \in Locals
         /\ \A x \in Prices : [q EXCEPT !.price = x] \in Locals
<1>1. BadToken \in Token /\ "OK" \in Reasons
  BY DEF BadToken, Token, Reasons
<1>2. NoRequestLocals \in Locals
  BY <1>1 DEF Locals, NoRequestLocals
<1>3. ASSUME NEW q \in Locals
      PROVE  /\ \A x \in Reasons : [q EXCEPT !.reason = x] \in Locals
             /\ \A x \in SessionIds : [q EXCEPT !.sid = x] \in Locals
             /\ \A x \in Orders \cup {NoOrder} : [q EXCEPT !.order = x] \in Locals
             /\ \A x \in Prices : [q EXCEPT !.price = x] \in Locals
  BY DEF Locals
<1>. QED  BY <1>2, <1>3

\* Ending a request and recording a reason keep a worker typed.
LEMMA WorkTypedOps ==
    ASSUME WorkTyped, NEW w \in Workers
    PROVE  /\ Answer(w) => WorkTyped'
           /\ \A reason \in Reasons : FailWith(w, reason) => WorkTyped'
           /\ \A reason \in Reasons : Abort(w, reason) => WorkTyped'
           /\ \A n \in Pc : Goto(w, n) /\ UNCHANGED req => WorkTyped'
<1>1. Answer(w) => WorkTyped'
  BY LocalsTyped DEF Answer, WorkTyped, Pc
<1>2. ASSUME NEW reason \in Reasons, FailWith(w, reason) PROVE WorkTyped'
  BY <1>2, LocalsTyped DEF FailWith, WorkTyped, Pc, PayPc
<1>3. ASSUME NEW reason \in Reasons, Abort(w, reason) PROVE WorkTyped'
  BY <1>3, LocalsTyped DEF Abort, WorkTyped, Pc
<1>4. ASSUME NEW n \in Pc, Goto(w, n), UNCHANGED req PROVE WorkTyped'
  BY <1>4 DEF Goto, WorkTyped
<1>. QED  BY <1>1, <1>2, <1>3, <1>4

\* The part of TypeOK that speaks of the tables, the locks and the rest.
RowsTyped ==
    /\ users \in [Users -> [status : UserStatus, realAuth : BOOLEAN]]
    /\ orders \in [Orders -> [status : OrderStatus, price : Prices]]
    /\ accounts \in [Accounts -> AccountStatus]
    /\ sessions \in [SessionIds -> [order : Orders \cup {NoOrder},
                                    status : PaymentSessionStatus, expireAt : Nat]]
    /\ attempts \in [RequestIds -> [sid : SessionIds \cup {NoSession},
                                    result : PaymentAttemptResult, reason : Reasons]]

RestTyped ==
    /\ lock \in [Rows -> Workers \cup {NoWorker}]
    /\ now \in Nat
    /\ tokens \subseteq Token
    /\ notifyTasks \in [SessionIds -> Nat]
    /\ notified \in [SessionIds -> Nat]
    /\ paidAnswers \subseteq RequestIds
    /\ faults \in Nat

\* The type invariant is the rows' part, the workers' part and the rest.
LEMMA TypeParts == TypeOK <=> RowsTyped /\ RestTyped /\ WorkTyped
BY DEF TypeOK, RowsTyped, RestTyped, WorkTyped

\* Every step a worker takes keeps its program counter and its locals typed.
LEMMA WorkTypedStep ==
    ASSUME IInv, NEW w \in Workers, Arrive(w) \/ HandlerStep(w) \/ WorkerFault(w)
    PROVE  WorkTyped'
<1>. USE DEF Pc, ConfirmPc, InitPc, PayPc, TxnPc
<1>t. TypeOK /\ WorkTyped /\ RowsTyped /\ RequestBound(w)
  BY TypeParts DEF IInv, RequestsBound
<1>1. CASE Arrive(w)
  <2>1. ASSUME NEW u \in Users, NEW o \in Orders, StartConfirm(w, u, o) PROVE WorkTyped'
    BY <1>t, <2>1, LocalsTyped, ZenonT(60) DEF StartConfirm, Goto, WorkTyped, Locals
  <2>2. ASSUME NEW t \in tokens, NEW r \in RequestIds, StartInit(w, t, r) PROVE WorkTyped'
    <3>1. t \in Token /\ t.sid \in SessionIds
      BY <1>t DEF IInv, RowsLinked, TypeOK
    <3>2. [NoRequestLocals EXCEPT !.tok = t, !.sid = t.sid, !.rid = r] \in Locals
      BY <3>1, LocalsTyped DEF Locals
    <3>. QED  BY <1>t, <2>2, <3>2 DEF StartInit, Goto, WorkTyped
  <2>3. ASSUME NEW r \in RequestIds, NEW t \in tokens \cup {BadToken}, NEW pw \in BOOLEAN,
               StartPay(w, r, t, pw)
        PROVE  WorkTyped'
    <3>1. t \in Token
      BY <1>t DEF TypeOK, BadToken, Token
    <3>2. [NoRequestLocals EXCEPT !.tok = t, !.rid = r, !.pw = pw] \in Locals
      BY <3>1, LocalsTyped DEF Locals
    <3>. QED  BY <1>t, <2>3, <3>2 DEF StartPay, Goto, WorkTyped
  <2>. QED  BY <1>1, <2>1, <2>2, <2>3 DEF Arrive
<1>2. CASE HandlerStep(w)
  <2>1. CASE ConfirmUser(w) \/ ConfirmOrder(w) \/ ConfirmAccount(w) \/ InitOrder(w)
             \/ InitAccount(w) \/ PayAttempt(w)
    BY <1>t, <2>1, WorkTypedOps
       DEF ConfirmUser, ConfirmOrder, ConfirmAccount, InitOrder, InitAccount, PayAttempt,
           GotoOrAnswer
  <2>2. CASE ConfirmSession(w) \/ ConfirmInsert(w) \/ ConfirmToken(w) \/ InitInsert(w)
    BY <1>t, <2>2, WorkTypedOps, LocalsTyped
       DEF ConfirmSession, ConfirmInsert, ConfirmToken, InitInsert, Goto, WorkTyped
  <2>3. CASE InitSession(w)
    <3>1. sessions[req[w].sid].order \in Orders \cup {NoOrder}
      BY <1>t, <2>3 DEF InitSession, RequestBound, RowsTyped
    <3>. QED  BY <1>t, <2>3, <3>1, WorkTypedOps, LocalsTyped DEF InitSession, Goto, WorkTyped
  <2>4. CASE PayToken(w) \/ PayAccount(w) \/ PayUser(w)
    BY <1>t, <2>4, WorkTypedOps DEF PayToken, PayAccount, PayUser, Reasons
  <2>5. CASE PaySession(w)
    <3> DEFINE s == req[w].tok.sid
               q == [req[w] EXCEPT !.sid = s, !.order = sessions[s].order]
    <3>1. s \in SessionIds /\ sessions[s].order \in Orders \cup {NoOrder}
      BY <1>t, <2>5 DEF PaySession, RequestBound, RowsTyped
    <3>2. q \in Locals
      <4>1. req[w] \in Locals /\ [req[w] EXCEPT !.sid = s] \in Locals
        BY <1>t, <3>1, LocalsTyped DEF WorkTyped
      <4>2. q = [[req[w] EXCEPT !.sid = s] EXCEPT !.order = sessions[s].order]
        BY <4>1 DEF Locals
      <4>. QED  BY <3>1, <4>1, <4>2, LocalsTyped
    <3>3. CASE req' = [req EXCEPT ![w].sid = s, ![w].order = sessions[s].order]
               /\ Goto(w, "p_order")
      BY <1>t, <3>2, <3>3 DEF WorkTyped, Goto
    <3>. QED  BY <1>t, <2>5, <3>3, WorkTypedOps DEF PaySession, Reasons
  <2>6. CASE PayOrder(w)
    <3>1. CASE Goto(w, "p_account") /\ req' = [req EXCEPT ![w].price = orders[req[w].order].price]
      <4>1. orders[req[w].order].price \in Prices
        BY <1>t, <2>6 DEF PayOrder, RequestBound, RowsTyped, PayBound
      <4>. QED  BY <1>t, <3>1, <4>1, LocalsTyped DEF WorkTyped, Goto
    <3>. QED  BY <1>t, <2>6, <3>1, WorkTypedOps DEF PayOrder, Reasons
  <2>7. CASE PayFail(w) \/ PayNotify(w)
    BY <1>t, <2>7, WorkTypedOps DEF PayFail, PayNotify
  <2>8. CASE PaySuccess(w) \/ TxnCommit(w)
    BY <1>t, <2>8, WorkTypedOps DEF PaySuccess, TxnCommit
  <2>9. CASE TxnMark(w)
    BY <1>t, <2>9, WorkTypedOps DEF TxnMark, Reasons
  <2>10. CASE TxnSession(w)
    BY <1>t, <2>10, WorkTypedOps DEF TxnSession, LockAndCheck, SessionReason, Reasons
  <2>11. CASE TxnOrder(w)
    BY <1>t, <2>11, WorkTypedOps DEF TxnOrder, LockAndCheck, OrderReason, Reasons
  <2>12. CASE TxnAccount(w)
    BY <1>t, <2>12, WorkTypedOps DEF TxnAccount, LockAndCheck, Reasons
  <2>13. CASE TxnAttempt(w)
    BY <1>t, <2>13, WorkTypedOps DEF TxnAttempt, Reasons
  <2>14. CASE TxnUser(w) \/ TxnUpdate(w)
    BY <1>t, <2>14, WorkTypedOps DEF TxnUser, TxnUpdate, Reasons
  <2>. QED  BY <1>2, <2>1, <2>2, <2>3, <2>4, <2>5, <2>6, <2>7, <2>8, <2>9, <2>10, <2>11, <2>12,
               <2>13, <2>14 DEF HandlerStep
<1>3. CASE WorkerFault(w)
  <2>1. CASE HandlerThrows(w) \/ WriteReplyLost(w)
    BY <1>t, <2>1, WorkTypedOps DEF HandlerThrows, WriteReplyLost
  <2>2. CASE TxnThrows(w)
    BY <1>t, <2>2, WorkTypedOps DEF TxnThrows, Reasons
  <2>3. CASE CommitReplyLost(w)
    BY <1>t, <2>3, LocalsTyped DEF CommitReplyLost, WorkTyped, Reasons
  <2>4. CASE MarkThrows(w)
    BY <1>t, <2>4, WorkTypedOps DEF MarkThrows, Reasons
  <2>. QED  BY <1>3, <2>1, <2>2, <2>3, <2>4 DEF WorkerFault
<1>. QED  BY <1>1, <1>2, <1>3

\* What each write does to the tables keeps them typed.
LEMMA RowWritesTyped ==
    ASSUME RowsTyped, RestTyped, NEW w \in Workers, WorkTyped, RequestBound(w)
    PROVE  /\ \A s \in SessionIds : pc[w] = "c_insert" /\ InsertSession(s, req[w].order) =>
                 sessions' \in [SessionIds -> [order : Orders \cup {NoOrder},
                                               status : PaymentSessionStatus, expireAt : Nat]]
           /\ pc[w] = "t_insert" /\ InsertAttempt(w) =>
                 attempts' \in [RequestIds -> [sid : SessionIds \cup {NoSession},
                                               result : PaymentAttemptResult, reason : Reasons]]
           /\ \A r \in RequestIds, result \in PaymentAttemptResult, reason \in Reasons :
                 UpdateAttempt(r, result, reason) =>
                 attempts' \in [RequestIds -> [sid : SessionIds \cup {NoSession},
                                               result : PaymentAttemptResult, reason : Reasons]]
           /\ pc[w] = "x_commit" /\ Settle(w) => RowsTyped' /\ lock' \in [Rows -> Workers \cup {NoWorker}]
<1>. USE DEF RowsTyped, RestTyped, WorkTyped, RequestBound, Locals
<1>1. ASSUME NEW s \in SessionIds, pc[w] = "c_insert", InsertSession(s, req[w].order)
      PROVE  sessions' \in [SessionIds -> [order : Orders \cup {NoOrder},
                                           status : PaymentSessionStatus, expireAt : Nat]]
  BY <1>1 DEF InsertSession, PaymentSessionStatus, ConfirmPc
<1>2. ASSUME pc[w] = "t_insert", InsertAttempt(w)
      PROVE  attempts' \in [RequestIds -> [sid : SessionIds \cup {NoSession},
                                           result : PaymentAttemptResult, reason : Reasons]]
  BY <1>2 DEF InsertAttempt, PaymentAttemptResult, Reasons, InitPc
<1>3. ASSUME NEW r \in RequestIds, NEW result \in PaymentAttemptResult, NEW reason \in Reasons,
             UpdateAttempt(r, result, reason)
      PROVE  attempts' \in [RequestIds -> [sid : SessionIds \cup {NoSession},
                                           result : PaymentAttemptResult, reason : Reasons]]
  BY <1>3, ZenonT(60) DEF UpdateAttempt
<1>4. ASSUME pc[w] = "x_commit", Settle(w)
      PROVE  RowsTyped' /\ lock' \in [Rows -> Workers \cup {NoWorker}]
  <2>1. /\ req[w].order \in Orders /\ req[w].sid \in SessionIds /\ req[w].rid \in RequestIds
        /\ OrderAccount[req[w].order] \in Accounts
    BY <1>4 DEF PayBound, TxnPc
  <2>2. orders' \in [Orders -> [status : OrderStatus, price : Prices]]
    <3>1. [orders[req[w].order] EXCEPT !.status = "Paid"] \in [status : OrderStatus, price : Prices]
      BY <2>1 DEF OrderStatus
    <3>. QED  BY <1>4, <2>1, <3>1 DEF Settle
  <2>3. accounts' \in [Accounts -> AccountStatus]
    BY <1>4, <2>1 DEF Settle, AccountStatus
  <2>4. sessions' \in [SessionIds -> [order : Orders \cup {NoOrder},
                                      status : PaymentSessionStatus, expireAt : Nat]]
    <3>1. [sessions[req[w].sid] EXCEPT !.status = "Paid"]
             \in [order : Orders \cup {NoOrder}, status : PaymentSessionStatus, expireAt : Nat]
      <4>1. "Paid" \in PaymentSessionStatus
        BY DEF PaymentSessionStatus
      <4>2. \A v \in [order : Orders \cup {NoOrder}, status : PaymentSessionStatus, expireAt : Nat] :
              \A st \in PaymentSessionStatus : [v EXCEPT !.status = st]
                \in [order : Orders \cup {NoOrder}, status : PaymentSessionStatus, expireAt : Nat]
        OBVIOUS
      <4>. QED  BY <2>1, <4>1, <4>2
    <3>. QED  BY <1>4, <2>1, <3>1 DEF Settle
  <2>5. attempts' \in [RequestIds -> [sid : SessionIds \cup {NoSession},
                                      result : PaymentAttemptResult, reason : Reasons]]
    BY <1>4, <2>1 DEF Settle, PaymentAttemptResult, Reasons
  <2>6. lock' \in [Rows -> Workers \cup {NoWorker}]
    BY <1>4 DEF Settle, Unlocked
  <2>. QED  BY <1>4, <2>2, <2>3, <2>4, <2>5, <2>6 DEF Settle
<1>. QED  BY <1>1, <1>2, <1>3, <1>4

\* Every step of a worker keeps the tables, the locks and the counters typed.
LEMMA RestTypedStep ==
    ASSUME IInv, NEW w \in Workers, Arrive(w) \/ HandlerStep(w) \/ WorkerFault(w)
    PROVE  RowsTyped' /\ RestTyped'
<1>t. RowsTyped /\ RestTyped /\ WorkTyped /\ RequestBound(w)
  BY TypeParts DEF IInv, RequestsBound
<1>l. /\ Unlocked(w) \in [Rows -> Workers \cup {NoWorker}]
      /\ \A x \in Rows : LockRow(w, x) => lock' \in [Rows -> Workers \cup {NoWorker}]
  BY <1>t DEF RestTyped, Unlocked, LockRow
<1>r. {"Success", "Failed"} \subseteq PaymentAttemptResult /\ "OK" \in Reasons
  BY DEF PaymentAttemptResult, Reasons
<1>b. /\ pc[w] \in {"p_fail", "p_success", "p_notify", "p_attempt"} \cup TxnPc \cup {"x_mark"} =>
           req[w].rid \in RequestIds
      /\ pc[w] \in {"p_notify", "p_success"} \cup TxnPc \cup {"x_mark"} =>
           req[w].sid \in SessionIds /\ req[w].order \in Orders
      /\ req[w].reason \in Reasons
  BY <1>t DEF RequestBound, PayPc, PayBound, TxnPc, WorkTyped, Locals
<1>x. pc[w] \in TxnPc => TxnRows(w) \subseteq Rows
  BY <1>b DEF TxnRows, Rows
<1>1. CASE \/ Arrive(w) \/ ConfirmUser(w) \/ ConfirmOrder(w) \/ ConfirmAccount(w)
           \/ ConfirmSession(w) \/ InitSession(w) \/ InitOrder(w) \/ InitAccount(w)
           \/ PayToken(w) \/ PaySession(w) \/ PayOrder(w) \/ PayAccount(w) \/ PayUser(w)
  BY <1>t, <1>1 DEF Arrive, StartConfirm, StartInit, StartPay, ConfirmUser, ConfirmOrder,
     ConfirmAccount, ConfirmSession, InitSession, InitOrder, InitAccount, PayToken,
     PaySession, PayOrder, PayAccount, PayUser, RowsTyped, RestTyped, rows, notices
<1>2. CASE ConfirmInsert(w)
  BY <1>t, <1>2, RowWritesTyped DEF ConfirmInsert, RowsTyped, RestTyped, notices
<1>3. CASE ConfirmToken(w)
  <2>1. [sid |-> req[w].sid, exp |-> now + QrTtl] \in Token
    BY <1>t DEF Token, WorkTyped, Locals, RestTyped
  <2>. QED  BY <1>t, <1>3, <2>1 DEF ConfirmToken, RowsTyped, RestTyped, rows, notices
<1>4. CASE InitInsert(w)
  BY <1>t, <1>4, RowWritesTyped DEF InitInsert, RowsTyped, RestTyped, notices
<1>5. CASE PayAttempt(w)
  BY <1>t, <1>b, <1>5 DEF PayAttempt, RowsTyped, RestTyped, rows
<1>6. CASE PayFail(w) \/ PaySuccess(w) \/ TxnMark(w)
  BY <1>t, <1>b, <1>r, <1>6, RowWritesTyped
     DEF PayFail, PaySuccess, TxnMark, RowsTyped, RestTyped, notices
<1>7. CASE PayNotify(w)
  BY <1>t, <1>b, <1>7 DEF PayNotify, RowsTyped, RestTyped, rows
<1>8. CASE TxnSession(w) \/ TxnOrder(w) \/ TxnAccount(w) \/ TxnAttempt(w) \/ TxnUser(w)
           \/ TxnUpdate(w) \/ TxnThrows(w)
  <2>1. lock' \in [Rows -> Workers \cup {NoWorker}]
    <3>1. pc[w] \in TxnPc
      BY <1>8 DEF TxnSession, TxnOrder, TxnAccount, TxnAttempt, TxnUser, TxnUpdate, TxnThrows,
         TxnPc
    <3>2. {req[w].sid, req[w].order, OrderAccount[req[w].order], req[w].rid} \subseteq Rows
      BY <1>x, <3>1 DEF TxnRows
    <3>3. CASE TxnUpdate(w)
      BY <1>t, <1>l, <1>x, <3>1, <3>3 DEF TxnUpdate, Abort, RestTyped
    <3>4. CASE TxnAttempt(w)
      BY <1>t, <1>l, <3>2, <3>4 DEF TxnAttempt, Abort
    <3>. QED  BY <1>t, <1>l, <1>8, <3>2, <3>3, <3>4
              DEF TxnSession, TxnOrder, TxnAccount, TxnUser, TxnThrows, LockAndCheck, Abort,
                  RestTyped
  <2>. QED  BY <1>t, <1>8, <2>1 DEF TxnSession, TxnOrder, TxnAccount, TxnAttempt, TxnUser,
               TxnUpdate, TxnThrows, Fault, RowsTyped, RestTyped, rows, notices
<1>9. CASE TxnCommit(w) \/ CommitReplyLost(w)
  BY <1>t, <1>9, RowWritesTyped DEF TxnCommit, CommitReplyLost, Fault, RestTyped, notices
<1>10. CASE HandlerThrows(w) \/ MarkThrows(w)
  BY <1>t, <1>10 DEF HandlerThrows, MarkThrows, Fault, RowsTyped, RestTyped, rows, notices
<1>11. CASE WriteReplyLost(w)
  BY <1>t, <1>b, <1>r, <1>11, RowWritesTyped
     DEF WriteReplyLost, Fault, RowsTyped, RestTyped, notices
<1>. QED  BY <1>1, <1>2, <1>3, <1>4, <1>5, <1>6, <1>7, <1>8, <1>9, <1>10, <1>11
          DEF HandlerStep, WorkerFault

\* The steps in which no worker takes part keep TypeOK.
LEMMA OtherTypedStep ==
    ASSUME TypeOK,
           \/ \E s \in SessionIds : NotifyGateway(s) \/ NotifyFails(s)
           \/ Crash \/ Environment
    PROVE  TypeOK'
<1>1. CASE \E s \in SessionIds : NotifyGateway(s) \/ NotifyFails(s)
  BY <1>1 DEF NotifyGateway, NotifyFails, Fault, TypeOK, rows
<1>2. CASE Crash
  <2>1. WorkTyped'
    BY <1>2, LocalsTyped DEF Crash, WorkTyped, Pc
  <2>2. RowsTyped' /\ RestTyped'
    BY <1>2 DEF Crash, Fault, TypeOK, RowsTyped, RestTyped, rows
  <2>. QED  BY <2>1, <2>2, TypeParts DEF TypeOK, WorkTyped, RowsTyped, RestTyped
<1>3. CASE Environment
  <2>1. ASSUME NEW u \in Users, RealAuthComplete(u) \/ UserSystem(u) PROVE TypeOK'
    <3>1. \A v \in [status : UserStatus, realAuth : BOOLEAN] :
             /\ [v EXCEPT !.realAuth = TRUE] \in [status : UserStatus, realAuth : BOOLEAN]
             /\ \A st \in UserStatus :
                  [v EXCEPT !.status = st] \in [status : UserStatus, realAuth : BOOLEAN]
      OBVIOUS
    <3>2. users' \in [Users -> [status : UserStatus, realAuth : BOOLEAN]]
      <4>1. CASE RealAuthComplete(u)
        BY <3>1, <4>1 DEF RealAuthComplete, TypeOK
      <4>2. ASSUME NEW st \in UserStatus, users' = [users EXCEPT ![u].status = st]
            PROVE  users' \in [Users -> [status : UserStatus, realAuth : BOOLEAN]]
        BY <3>1, <4>2 DEF TypeOK
      <4>. QED  BY <2>1, <4>1, <4>2 DEF UserSystem
    <3>. QED  BY <2>1, <3>2 DEF RealAuthComplete, UserSystem, TypeOK, notices
  <2>2. ASSUME NEW o \in Orders, OrderSystem(o) PROVE TypeOK'
    <3>1. \A v \in [status : OrderStatus, price : Prices] :
             /\ \A st \in OrderStatus :
                  [v EXCEPT !.status = st] \in [status : OrderStatus, price : Prices]
             /\ \A pr \in Prices :
                  [v EXCEPT !.price = pr] \in [status : OrderStatus, price : Prices]
      OBVIOUS
    <3>2. orders' \in [Orders -> [status : OrderStatus, price : Prices]]
      <4>1. {"Cancelled", "Expired"} \subseteq OrderStatus
        BY DEF OrderStatus
      <4>. QED  BY <2>2, <3>1, <4>1 DEF OrderSystem, TypeOK
    <3>. QED  BY <2>2, <3>2 DEF OrderSystem, TypeOK, notices
  <2>3. ASSUME NEW a \in Accounts, ListingSystem(a) PROVE TypeOK'
    BY <2>3 DEF ListingSystem, TypeOK, AccountStatus, notices
  <2>4. CASE Tick
    BY <2>4 DEF Tick, TypeOK, rows, notices
  <2>. QED  BY <1>3, <2>1, <2>2, <2>3, <2>4 DEF Environment
<1>. QED  BY <1>1, <1>2, <1>3

\* TypeOK is preserved by every step.
LEMMA TypeStep ==
    ASSUME IInv, [Next]_vars
    PROVE  TypeOK'
<1>1. CASE \E w \in Workers : Arrive(w) \/ HandlerStep(w) \/ WorkerFault(w)
  <2>1. PICK w \in Workers : Arrive(w) \/ HandlerStep(w) \/ WorkerFault(w)
    BY <1>1
  <2>2. WorkTyped' /\ RowsTyped' /\ RestTyped'
    BY <2>1, WorkTypedStep, RestTypedStep
  <2>. QED  BY <2>2 DEF TypeOK, WorkTyped, RowsTyped, RestTyped
<1>2. CASE \/ \E s \in SessionIds : NotifyGateway(s) \/ NotifyFails(s)
           \/ Crash \/ Environment
  BY <1>2, OtherTypedStep DEF IInv
<1>3. CASE UNCHANGED vars
  BY <1>3 DEF IInv, TypeOK, vars
<1>. QED  BY <1>1, <1>2, <1>3 DEF Next

----------------------------------------------------------------------------
(* What a worker's step leaves alone.                                      *)

\* The program counters and locals of the other workers.
OthersWait(w) == \A v \in Workers : v # w => pc'[v] = pc[v] /\ req'[v] = req[v]

\* A worker's step changes no other worker's program counter or locals.
LEMMA OthersWaitStep ==
    ASSUME WorkTyped, NEW w \in Workers, Arrive(w) \/ HandlerStep(w) \/ WorkerFault(w)
    PROVE  OthersWait(w)
<1>. USE DEF OthersWait, WorkTyped, Goto, Answer, FailWith, GotoOrAnswer, Abort
<1>1. CASE Arrive(w)
  BY <1>1 DEF Arrive, StartConfirm, StartInit, StartPay
<1>2. CASE \/ ConfirmUser(w) \/ ConfirmOrder(w) \/ ConfirmAccount(w)
           \/ ConfirmSession(w) \/ ConfirmInsert(w) \/ ConfirmToken(w)
           \/ InitSession(w) \/ InitOrder(w) \/ InitAccount(w) \/ InitInsert(w)
  BY <1>2 DEF ConfirmUser, ConfirmOrder, ConfirmAccount, ConfirmSession, ConfirmInsert,
     ConfirmToken, InitSession, InitOrder, InitAccount, InitInsert
<1>3. CASE \/ PayAttempt(w) \/ PayToken(w) \/ PaySession(w) \/ PayOrder(w)
           \/ PayAccount(w) \/ PayUser(w) \/ PayFail(w) \/ PaySuccess(w) \/ PayNotify(w)
  BY <1>3 DEF PayAttempt, PayToken, PaySession, PayOrder, PayAccount, PayUser, PayFail,
     PaySuccess, PayNotify
<1>4. CASE \/ TxnSession(w) \/ TxnOrder(w) \/ TxnAccount(w) \/ TxnAttempt(w)
           \/ TxnUser(w) \/ TxnUpdate(w) \/ TxnCommit(w) \/ TxnMark(w)
  BY <1>4 DEF TxnSession, TxnOrder, TxnAccount, TxnAttempt, TxnUser, TxnUpdate, TxnCommit,
     TxnMark, LockAndCheck
<1>5. CASE WorkerFault(w)
  BY <1>5 DEF WorkerFault, HandlerThrows, WriteReplyLost, TxnThrows, CommitReplyLost, MarkThrows
<1>. QED  BY <1>1, <1>2, <1>3, <1>4, <1>5 DEF HandlerStep

----------------------------------------------------------------------------
(* Steps that only move a worker that holds no lock.                       *)

\* If a worker outside the transaction moves to a statement outside it, writes no
\* row and its new locals are right, then everything else still holds.
LEMMA LocalStep ==
    ASSUME IInv, TypeOK', NEW w \in Workers, OthersWait(w),
           UNCHANGED <<users, orders, accounts, sessions, attempts, lock, notifyTasks, notified>>,
           tokens \subseteq tokens',
           \A t \in tokens' \ tokens : t.sid \in SessionIds /\ sessions[t.sid].order \in Orders,
           pc[w] \notin SessionHeld, pc'[w] \notin SessionHeld \cup PaidPc,
           RequestBound(w)',
           pc'[w] \in InitPc =>
               \/ pc[w] \in InitPc /\ req'[w].rid = req[w].rid
               \/ \A v \in Workers : req[v].rid # req'[w].rid,
           PaidAnswerTrue'
    PROVE  IInv'
<1>1. RowsLinked'
  BY DEF IInv, RowsLinked
<1>2. RequestsBound'
  <2>1. ASSUME NEW v \in Workers, v # w PROVE RequestBound(v)'
    BY <2>1 DEF IInv, RequestsBound, RequestBound, OthersWait
  <2>. QED  BY <2>1 DEF RequestsBound
<1>3. FreshIds'
  BY DEF IInv, FreshIds, OthersWait
<1>4. LocksHeld'
  BY DEF IInv, LocksHeld, Holds, OthersWait, SessionHeld, OrderHeld, AccountHeld, AttemptHeld
<1>5. ChecksStand'
  BY DEF IInv, ChecksStand, AccountPayable, OthersWait, SessionHeld, OrderHeld, AccountHeld,
     AttemptHeld, TxnPc
<1>6. AboutToNotify'
  BY DEF IInv, AboutToNotify, OthersWait
<1>7. SettledTogether' /\ SoldOnce' /\ NoticeSound'
  BY DEF IInv, SettledTogether, SoldOnce, NoticeSound
<1>. QED  BY <1>1, <1>2, <1>3, <1>4, <1>5, <1>6, <1>7 DEF IInv

\* The handlers' reads and early returns, and the requests that arrive.
LEMMA LocalSteps ==
    ASSUME IInv, TypeOK', NEW w \in Workers,
           \/ Arrive(w) \/ ConfirmUser(w) \/ ConfirmOrder(w) \/ ConfirmAccount(w)
           \/ ConfirmSession(w) \/ ConfirmToken(w) \/ InitSession(w) \/ InitOrder(w)
           \/ InitAccount(w) \/ PayAttempt(w) \/ PayToken(w) \/ PaySession(w) \/ PayOrder(w)
           \/ PayAccount(w) \/ PayUser(w) \/ HandlerThrows(w) \/ MarkThrows(w)
    PROVE  IInv'
<1>. USE DEF ConfirmPc, InitPc, PayPc, TxnPc, PayBound, SessionHeld, PaidPc, rows, notices
<1>t. /\ WorkTyped /\ RowsTyped /\ RequestBound(w) /\ RowsLinked /\ PaidAnswerTrue
      /\ tokens \subseteq Token
  BY TypeParts DEF IInv, RequestsBound, TypeOK
<1>o. OthersWait(w)
  BY <1>t, OthersWaitStep DEF HandlerStep, WorkerFault
<1>1. CASE Arrive(w)
  <2>1. ASSUME NEW u \in Users, NEW o \in Orders, StartConfirm(w, u, o) PROVE IInv'
    BY <1>t, <1>o, <2>1, LocalStep
       DEF StartConfirm, Goto, WorkTyped, NoRequestLocals, RequestBound, PaidAnswerTrue
  <2>2. ASSUME NEW t \in tokens, NEW r \in RequestIds, StartInit(w, t, r) PROVE IInv'
    BY <1>t, <1>o, <2>2, LocalStep
       DEF StartInit, Goto, WorkTyped, NoRequestLocals, RequestBound, PaidAnswerTrue, RowsLinked
  <2>3. ASSUME NEW r \in RequestIds, NEW t \in tokens \cup {BadToken}, NEW pw \in BOOLEAN,
               StartPay(w, r, t, pw)
        PROVE  IInv'
    BY <1>t, <1>o, <2>3, LocalStep
       DEF StartPay, Goto, WorkTyped, NoRequestLocals, RequestBound, PaidAnswerTrue
  <2>. QED  BY <1>1, <2>1, <2>2, <2>3 DEF Arrive
<1>2. CASE ConfirmUser(w) \/ ConfirmOrder(w) \/ ConfirmAccount(w)
  BY <1>t, <1>o, <1>2, LocalStep
     DEF ConfirmUser, ConfirmOrder, ConfirmAccount, GotoOrAnswer, Goto, Answer, WorkTyped,
         RequestBound, PaidAnswerTrue
<1>3. CASE ConfirmSession(w)
  BY <1>t, <1>o, <1>3, LocalStep
     DEF ConfirmSession, ActiveSession, Goto, WorkTyped, Locals, RequestBound, PaidAnswerTrue
<1>4. CASE ConfirmToken(w)
  BY <1>t, <1>o, <1>4, LocalStep DEF ConfirmToken, Answer, WorkTyped, RequestBound, PaidAnswerTrue
<1>5. CASE InitSession(w)
  <2>1. CASE Answer(w)
    BY <1>t, <1>o, <1>5, <2>1, LocalStep
       DEF InitSession, Answer, WorkTyped, RequestBound, PaidAnswerTrue
  <2>2. CASE /\ sessions[req[w].sid].status = "WaitingPay" /\ Goto(w, "t_order")
             /\ req' = [req EXCEPT ![w].order = sessions[req[w].sid].order]
    <3>1. req'[w].sid = req[w].sid /\ req'[w].rid = req[w].rid
          /\ req'[w].order = sessions[req[w].sid].order /\ pc'[w] = "t_order"
      BY <1>t, <2>2 DEF Goto, WorkTyped, Locals
    <3>2. RequestBound(w)'
      BY <1>t, <1>5, <3>1 DEF InitSession, RequestBound
    <3>. QED  BY <1>t, <1>o, <1>5, <3>1, <3>2, LocalStep DEF InitSession, PaidAnswerTrue
  <2>. QED  BY <1>5, <2>1, <2>2 DEF InitSession
<1>6. CASE InitOrder(w) \/ InitAccount(w)
  BY <1>t, <1>o, <1>6, LocalStep
     DEF InitOrder, InitAccount, GotoOrAnswer, Goto, Answer, WorkTyped, RequestBound, PaidAnswerTrue
<1>7. CASE PayAttempt(w)
  BY <1>t, <1>o, <1>7, LocalStep
     DEF PayAttempt, GotoOrAnswer, Goto, Answer, WorkTyped, RequestBound, PaidAnswerTrue
<1>f. ASSUME NEW reason \in Reasons, FailWith(w, reason), UNCHANGED <<attempts, sessions>>,
             pc[w] \in PayPc \cup PayBound
      PROVE  RequestBound(w)' /\ pc'[w] = "p_fail"
  BY <1>t, <1>f DEF FailWith, WorkTyped, Locals, RequestBound
<1>8. CASE PayToken(w)
  <2>1. CASE FailWith(w, "INVALID_QR_TOKEN")
    BY <1>t, <1>o, <1>f, <1>8, <2>1, LocalStep DEF PayToken, PaidAnswerTrue, Reasons
  <2>2. CASE TokenValid(req[w].tok) /\ Goto(w, "p_session") /\ UNCHANGED req
    <3>1. req[w].tok.sid \in SessionIds
      BY <1>t, <2>2 DEF TokenValid, WorkTyped, Locals, Token
    <3>. QED  BY <1>t, <1>o, <1>8, <2>2, <3>1, LocalStep
              DEF PayToken, Goto, WorkTyped, RequestBound, PaidAnswerTrue
  <2>. QED  BY <1>8, <2>1, <2>2 DEF PayToken
<1>9. CASE PaySession(w)
  <2> DEFINE s == req[w].tok.sid
  <2>1. CASE FailWith(w, "SESSION_INVALID") \/ FailWith(w, "SESSION_MISMATCH")
    BY <1>t, <1>o, <1>f, <1>9, <2>1, LocalStep DEF PaySession, PaidAnswerTrue, Reasons
  <2>2. CASE /\ sessions[s].status = "WaitingPay" /\ attempts[req[w].rid].sid = s
             /\ Goto(w, "p_order")
             /\ req' = [req EXCEPT ![w].sid = s, ![w].order = sessions[s].order]
    <3>1. /\ pc'[w] = "p_order" /\ req'[w].sid = s /\ req'[w].order = sessions[s].order
          /\ req'[w].rid = req[w].rid
      BY <1>t, <2>2 DEF Goto, WorkTyped, Locals
    <3>2. s \in SessionIds /\ sessions[s].order \in Orders
      BY <1>t, <1>9, <2>2 DEF PaySession, RequestBound, RowsLinked
    <3>3. RequestBound(w)'
      BY <1>t, <1>9, <2>2, <3>1, <3>2 DEF PaySession, RequestBound
    <3>. QED  BY <1>t, <1>o, <1>9, <3>1, <3>3, LocalStep DEF PaySession, PaidAnswerTrue
  <2>. QED  BY <1>9, <2>1, <2>2 DEF PaySession
<1>10. CASE PayOrder(w)
  <2>1. CASE FailWith(w, "ORDER_NOT_PAYABLE")
    BY <1>t, <1>o, <1>f, <1>10, <2>1, LocalStep DEF PayOrder, PaidAnswerTrue, Reasons
  <2>2. CASE Goto(w, "p_account") /\ req' = [req EXCEPT ![w].price = orders[req[w].order].price]
    <3>1. /\ pc'[w] = "p_account" /\ req'[w].sid = req[w].sid /\ req'[w].order = req[w].order
          /\ req'[w].rid = req[w].rid
      BY <1>t, <2>2 DEF Goto, WorkTyped, Locals
    <3>2. RequestBound(w)'
      BY <1>t, <1>10, <3>1 DEF PayOrder, RequestBound
    <3>. QED  BY <1>t, <1>o, <1>10, <3>1, <3>2, LocalStep DEF PayOrder, PaidAnswerTrue
  <2>. QED  BY <1>10, <2>1, <2>2 DEF PayOrder
<1>11. CASE PayAccount(w) \/ PayUser(w)
  BY <1>t, <1>o, <1>11, LocalStep
     DEF PayAccount, PayUser, FailWith, Goto, WorkTyped, Locals, RequestBound, PaidAnswerTrue
<1>12. CASE HandlerThrows(w)
  BY <1>t, <1>o, <1>12, LocalStep DEF HandlerThrows, Answer, WorkTyped, RequestBound, PaidAnswerTrue
<1>13. CASE MarkThrows(w)
  BY <1>t, <1>o, <1>f, <1>13, LocalStep DEF MarkThrows, PaidAnswerTrue, Reasons
<1>. QED  BY <1>1, <1>2, <1>3, <1>4, <1>5, <1>6, <1>7, <1>8, <1>9, <1>10, <1>11, <1>12, <1>13

----------------------------------------------------------------------------
(* The statements of the transaction before its commit.                    *)

\* A rollback gives every lock back and leaves the attempt to be marked.
LEMMA Release ==
    ASSUME IInv, TypeOK', NEW w \in Workers, OthersWait(w),
           UNCHANGED <<users, orders, accounts, sessions, attempts, tokens, notices>>,
           pc[w] \in TxnPc, pc'[w] \in {"x_mark", "p_fail"},
           req'[w].sid = req[w].sid, req'[w].rid = req[w].rid, req'[w].order = req[w].order,
           lock' = Unlocked(w)
    PROVE  IInv'
<1>. USE DEF OthersWait
<1>1. RowsLinked' /\ SettledTogether' /\ SoldOnce' /\ PaidAnswerTrue' /\ NoticeSound'
  BY DEF IInv, RowsLinked, SettledTogether, SoldOnce, PaidAnswerTrue, NoticeSound, notices
<1>2. RequestsBound'
  <2>1. RequestBound(w)'
    BY DEF IInv, RequestsBound, RequestBound, ConfirmPc, InitPc, PayPc, TxnPc, PayBound
  <2>2. ASSUME NEW v \in Workers, v # w PROVE RequestBound(v)'
    BY <2>2 DEF IInv, RequestsBound, RequestBound
  <2>. QED  BY <2>1, <2>2 DEF RequestsBound
<1>3. FreshIds'
  BY DEF IInv, FreshIds, InitPc
<1>4. LocksHeld'
  BY DEF IInv, LocksHeld, Holds, Unlocked, SessionHeld, OrderHeld, AccountHeld, AttemptHeld, TxnPc
<1>5. ChecksStand'
  BY DEF IInv, ChecksStand, AccountPayable, SessionHeld, OrderHeld, AccountHeld, AttemptHeld, TxnPc
<1>6. AboutToNotify'
  BY DEF IInv, AboutToNotify, PaidPc, notices
<1>. QED  BY <1>1, <1>2, <1>3, <1>4, <1>5, <1>6 DEF IInv

\* A statement that locks a row and passes its check goes to the next one.
LEMMA Advance ==
    ASSUME IInv, TypeOK', NEW w \in Workers, OthersWait(w),
           UNCHANGED <<users, orders, accounts, sessions, attempts, tokens, notices, req>>,
           pc[w] \in TxnPc, pc'[w] \in TxnPc, LocksHeld', ChecksStand'
    PROVE  IInv'
<1>. USE DEF OthersWait
<1>1. RowsLinked' /\ SettledTogether' /\ SoldOnce' /\ PaidAnswerTrue' /\ NoticeSound'
  BY DEF IInv, RowsLinked, SettledTogether, SoldOnce, PaidAnswerTrue, NoticeSound, notices
<1>2. RequestsBound'
  <2>1. RequestBound(w)'
    BY DEF IInv, RequestsBound, RequestBound, ConfirmPc, InitPc, PayPc, TxnPc, PayBound
  <2>2. ASSUME NEW v \in Workers, v # w PROVE RequestBound(v)'
    BY <2>2 DEF IInv, RequestsBound, RequestBound
  <2>. QED  BY <2>1, <2>2 DEF RequestsBound
<1>3. FreshIds'
  BY DEF IInv, FreshIds, InitPc, TxnPc
<1>4. AboutToNotify'
  BY DEF IInv, AboutToNotify, PaidPc, TxnPc, notices
<1>. QED  BY <1>1, <1>2, <1>3, <1>4 DEF IInv

\* The locking reads, the read of the buyer and the four UPDATEs.
LEMMA TxnSteps ==
    ASSUME IInv, TypeOK', NEW w \in Workers,
           \/ TxnSession(w) \/ TxnOrder(w) \/ TxnAccount(w) \/ TxnAttempt(w) \/ TxnUser(w)
           \/ TxnUpdate(w) \/ TxnThrows(w)
    PROVE  IInv'
<1>. USE DEF TxnPc, SessionHeld, OrderHeld, AccountHeld, AttemptHeld
<1>t. WorkTyped /\ RowsTyped /\ RestTyped /\ RequestBound(w) /\ LocksHeld /\ ChecksStand
  BY TypeParts DEF IInv, RequestsBound
<1>o. OthersWait(w)
  BY <1>t, OthersWaitStep DEF HandlerStep, WorkerFault
<1>u. /\ UNCHANGED <<users, orders, accounts, sessions, attempts, tokens, notices>>
      /\ pc[w] \in TxnPc
  BY DEF TxnSession, TxnOrder, TxnAccount, TxnAttempt, TxnUser, TxnUpdate, TxnThrows, rows
<1>b. /\ req[w].order \in Orders /\ req[w].sid \in SessionIds /\ req[w].rid \in RequestIds
      /\ sessions[req[w].sid].order = req[w].order /\ attempts[req[w].rid].sid = req[w].sid
      /\ TxnRows(w) \subseteq Rows
  BY <1>t, <1>u DEF RequestBound, PayBound, TxnRows, Rows
<1>a. ASSUME NEW reason \in Reasons, Abort(w, reason) PROVE IInv'
  <2>1. /\ pc'[w] = "x_mark" /\ req'[w].sid = req[w].sid /\ req'[w].rid = req[w].rid
        /\ req'[w].order = req[w].order /\ lock' = Unlocked(w)
    BY <1>t, <1>a DEF Abort, WorkTyped, Locals
  <2>. QED  BY <1>o, <1>u, <2>1, Release
\* Taking one more lock, in the documented order, keeps LocksHeld.
<1>l. ASSUME NEW x \in Rows, lock[x] = NoWorker, LockRow(w, x), UNCHANGED req,
             \/ pc[w] = "x_session" /\ x = req[w].sid /\ Goto(w, "x_order")
             \/ pc[w] = "x_order" /\ x = req[w].order /\ Goto(w, "x_account")
             \/ pc[w] = "x_account" /\ x = OrderAccount[req[w].order] /\ Goto(w, "x_attempt")
             \/ pc[w] = "x_attempt" /\ x = req[w].rid /\ Goto(w, "x_user")
      PROVE  LocksHeld'
  BY <1>t, <1>o, <1>l DEF LockRow, Goto, LocksHeld, Holds, OthersWait, WorkTyped, RestTyped
<1>1. CASE TxnSession(w)
  <2>1. CASE SessionReason(w) # "OK"
    BY <1>1, <1>a, <2>1 DEF TxnSession, LockAndCheck, SessionReason, Reasons
  <2>2. CASE SessionReason(w) = "OK"
    <3>1. sessions[req[w].sid].status = "WaitingPay"
      BY <1>t, <1>b, <2>2 DEF SessionReason, RowsTyped, PaymentSessionStatus
    <3>2. LocksHeld' /\ pc'[w] = "x_order"
      BY <1>t, <1>b, <1>1, <1>l, <2>2 DEF TxnSession, LockAndCheck, Goto, WorkTyped, Rows
    <3>3. ChecksStand' /\ UNCHANGED req
      BY <1>t, <1>o, <1>u, <1>1, <2>2, <3>1, <3>2
         DEF TxnSession, LockAndCheck, ChecksStand, AccountPayable, OthersWait
    <3>. QED  BY <1>o, <1>u, <3>2, <3>3, Advance
  <2>. QED  BY <2>1, <2>2
<1>2. CASE TxnOrder(w)
  <2>1. CASE OrderReason(w) # "OK"
    BY <1>2, <1>a, <2>1 DEF TxnOrder, LockAndCheck, OrderReason, Reasons
  <2>2. CASE OrderReason(w) = "OK"
    <3>1. orders[req[w].order].status = "PendingPay"
      BY <1>t, <1>b, <2>2 DEF OrderReason, RowsTyped, OrderStatus
    <3>2. LocksHeld' /\ pc'[w] = "x_account"
      BY <1>t, <1>b, <1>2, <1>l, <2>2 DEF TxnOrder, LockAndCheck, Goto, WorkTyped, Rows
    <3>3. ChecksStand' /\ UNCHANGED req
      BY <1>t, <1>o, <1>u, <1>2, <2>2, <3>1, <3>2
         DEF TxnOrder, LockAndCheck, ChecksStand, AccountPayable, OthersWait
    <3>. QED  BY <1>o, <1>u, <3>2, <3>3, Advance
  <2>. QED  BY <2>1, <2>2
<1>3. CASE TxnAccount(w)
  <2> DEFINE a == OrderAccount[req[w].order]
  <2>1. CASE ~AccountPayable(a)
    BY <1>3, <1>a, <2>1 DEF TxnAccount, LockAndCheck, Reasons
  <2>2. CASE AccountPayable(a)
    <3>1. LockRow(w, a) /\ lock[a] = NoWorker /\ Goto(w, "x_attempt") /\ UNCHANGED req /\ a \in Rows
      BY <1>b, <1>3, <2>2 DEF TxnAccount, LockAndCheck, Rows
    <3>2. LocksHeld' /\ pc'[w] = "x_attempt"
      BY <1>t, <1>3, <1>l, <3>1 DEF TxnAccount, Goto, WorkTyped
    <3>3. ChecksStand'
      BY <1>t, <1>o, <1>u, <1>3, <2>2, <3>1, <3>2
         DEF TxnAccount, ChecksStand, AccountPayable, OthersWait
    <3>. QED  BY <1>o, <1>u, <3>1, <3>2, <3>3, Advance
  <2>. QED  BY <2>1, <2>2
<1>4. CASE TxnAttempt(w)
  <2> DEFINE a == attempts[req[w].rid]
  \* The session is waiting, so no attempt of it has succeeded: the branch that
  \* commits at once and returns true is never taken.
  <2>1. a.result # "Success"
    BY <1>t, <1>b, <1>4 DEF TxnAttempt, ChecksStand, IInv, PaidAnswerTrue
  <2>2. CASE a.result \in {"Failed", "Absent"}
    <3>1. FailWith(w, "FINALIZE_TXN_FAILED") /\ lock' = Unlocked(w)
      BY <1>4, <2>2 DEF TxnAttempt
    <3>2. /\ pc'[w] = "p_fail" /\ req'[w].sid = req[w].sid /\ req'[w].rid = req[w].rid
          /\ req'[w].order = req[w].order
      BY <1>t, <3>1 DEF FailWith, WorkTyped, Locals
    <3>. QED  BY <1>o, <1>u, <3>1, <3>2, Release
  <2>3. CASE a.result = "Processing"
    <3>1. LockRow(w, req[w].rid) /\ Goto(w, "x_user") /\ UNCHANGED req /\ req[w].rid \in Rows
      BY <1>b, <1>4, <2>3 DEF TxnAttempt, Rows
    <3>2. LocksHeld' /\ pc'[w] = "x_user"
      BY <1>t, <1>4, <1>l, <3>1 DEF TxnAttempt, LockRow, Goto, WorkTyped
    <3>3. ChecksStand'
      BY <1>t, <1>o, <1>u, <1>4, <2>3, <3>1, <3>2
         DEF TxnAttempt, ChecksStand, AccountPayable, OthersWait
    <3>. QED  BY <1>o, <1>u, <3>1, <3>2, <3>3, Advance
  <2>4. a.result \in PaymentAttemptResult
    BY <1>t, <1>b DEF RowsTyped
  <2>. QED  BY <2>1, <2>2, <2>3, <2>4 DEF PaymentAttemptResult
<1>5. CASE TxnUser(w)
  <2>1. CASE Abort(w, "USER_REAL_AUTH_INVALID")
    BY <1>a, <2>1 DEF Reasons
  <2>2. CASE /\ users[OrderBuyer[req[w].order]].realAuth
             /\ Goto(w, "x_update") /\ UNCHANGED <<req, lock>>
    <3>1. pc'[w] = "x_update"
      BY <1>t, <2>2 DEF Goto, WorkTyped
    <3>2. LocksHeld'
      BY <1>t, <1>o, <1>5, <2>2, <3>1 DEF TxnUser, LocksHeld, Holds, OthersWait
    <3>3. ChecksStand'
      BY <1>t, <1>o, <1>u, <1>5, <2>2, <3>1
         DEF TxnUser, ChecksStand, AccountPayable, OthersWait
    <3>. QED  BY <1>o, <1>u, <2>2, <3>1, <3>2, <3>3, Advance
  <2>. QED  BY <1>5, <2>1, <2>2 DEF TxnUser
<1>6. CASE TxnUpdate(w)
  <2>1. CASE Abort(w, "PAYMENT_STATE_UPDATE_FAILED")
    BY <1>a, <2>1 DEF Reasons
  <2>2. CASE /\ lock' = [x \in Rows |-> IF x \in TxnRows(w) THEN w ELSE lock[x]]
             /\ Goto(w, "x_commit") /\ UNCHANGED req
    <3>1. pc'[w] = "x_commit"
      BY <1>t, <2>2 DEF Goto, WorkTyped
    \* The four rows are locked already.
    <3>2. lock' = lock
      BY <1>t, <1>b, <1>6, <2>2 DEF TxnUpdate, TxnRows, LocksHeld, Holds, RestTyped
    <3>3. LocksHeld'
      BY <1>t, <1>o, <1>6, <2>2, <3>1, <3>2 DEF TxnUpdate, LocksHeld, Holds, OthersWait
    <3>4. ChecksStand'
      BY <1>t, <1>o, <1>u, <1>6, <2>2, <3>1
         DEF TxnUpdate, ChecksStand, AccountPayable, OthersWait
    <3>. QED  BY <1>o, <1>u, <2>2, <3>1, <3>3, <3>4, Advance
  <2>. QED  BY <1>6, <2>1, <2>2 DEF TxnUpdate
<1>7. CASE TxnThrows(w)
  BY <1>7, <1>a DEF TxnThrows, Reasons
<1>. QED  BY <1>1, <1>2, <1>3, <1>4, <1>5, <1>6, <1>7

----------------------------------------------------------------------------
(* The writes outside the transaction.                                     *)

\* updatePaymentAttemptResult leaves every transaction's checks standing, because
\* it waits for the attempt's lock.
LEMMA AttemptWrite ==
    ASSUME IInv, TypeOK', NEW w \in Workers, OthersWait(w),
           NEW r \in RequestIds, NEW result \in {"Success", "Failed"}, NEW reason \in Reasons,
           UpdateAttempt(r, result, reason), attempts[r].result # "Absent",
           result = "Success" => sessions[attempts[r].sid].status = "Paid",
           UNCHANGED <<users, orders, accounts, sessions, lock, tokens, notices>>,
           pc[w] \in {"p_fail", "p_success", "x_mark"},
           \/ pc'[w] = "idle"
           \/ /\ \/ pc[w] = "x_mark" /\ pc'[w] = "p_fail"
                 \/ pc[w] = "p_success" /\ pc'[w] = "p_notify"
              /\ req'[w].sid = req[w].sid /\ req'[w].rid = req[w].rid
              /\ req'[w].order = req[w].order
    PROVE  IInv'
<1>. USE DEF OthersWait, notices
<1>1. /\ \A x \in RequestIds : attempts'[x].sid = attempts[x].sid
      /\ \A x \in RequestIds : x # r => attempts'[x] = attempts[x]
      /\ attempts'[r].result = result
  BY DEF UpdateAttempt, IInv, TypeOK
<1>2. RowsLinked'
  BY <1>1 DEF IInv, RowsLinked
<1>3. RequestsBound'
  <2>1. RequestBound(w)'
    BY <1>1 DEF IInv, RequestsBound, RequestBound, ConfirmPc, InitPc, PayPc, TxnPc, PayBound
  <2>2. ASSUME NEW v \in Workers, v # w PROVE RequestBound(v)'
    BY <1>1, <2>2 DEF IInv, RequestsBound, RequestBound
  <2>. QED  BY <2>1, <2>2 DEF RequestsBound
<1>4. FreshIds'
  BY DEF IInv, FreshIds, InitPc
<1>5. LocksHeld'
  BY DEF IInv, LocksHeld, Holds, SessionHeld, OrderHeld, AccountHeld, AttemptHeld, TxnPc
<1>6. ChecksStand'
  <2>1. \A v \in Workers : pc[v] \in AttemptHeld => req[v].rid # r
    BY DEF IInv, LocksHeld, Holds, UpdateAttempt, Rows
  <2>. QED  BY <1>1, <2>1 DEF IInv, ChecksStand, AccountPayable, RequestsBound, RequestBound,
               SessionHeld, OrderHeld, AccountHeld, AttemptHeld, TxnPc, PayBound
<1>7. AboutToNotify'
  BY DEF IInv, AboutToNotify, PaidPc
<1>8. SettledTogether' /\ SoldOnce' /\ NoticeSound'
  BY DEF IInv, SettledTogether, SoldOnce, NoticeSound
<1>9. PaidAnswerTrue'
  BY <1>1 DEF IInv, PaidAnswerTrue, RowsLinked
<1>. QED  BY <1>2, <1>3, <1>4, <1>5, <1>6, <1>7, <1>8, <1>9 DEF IInv

\* The writes of an attempt's result, whether or not the reply arrives.
LEMMA AttemptWrites ==
    ASSUME IInv, TypeOK', NEW w \in Workers,
           \/ PayFail(w) \/ PaySuccess(w) \/ TxnMark(w)
           \/ WriteReplyLost(w) /\ pc[w] \in {"p_fail", "p_success"}
    PROVE  IInv'
<1>t. WorkTyped /\ RequestBound(w)
  BY TypeParts DEF IInv, RequestsBound
<1>o. OthersWait(w)
  BY <1>t, OthersWaitStep DEF HandlerStep, WorkerFault
<1>r. req[w].reason \in Reasons /\ "OK" \in Reasons
  BY <1>t DEF WorkTyped, Locals, Reasons
<1>b. pc[w] \in {"p_fail", "p_success", "x_mark"} =>
        req[w].rid \in RequestIds /\ attempts[req[w].rid].result # "Absent"
  BY <1>t DEF RequestBound, PayPc, PayBound
<1>p. pc[w] = "p_success" => sessions[attempts[req[w].rid].sid].status = "Paid"
  BY <1>t DEF RequestBound, PayBound, PaidPc, IInv, AboutToNotify
<1>1. CASE PayFail(w)
  BY <1>t, <1>o, <1>r, <1>b, <1>1, AttemptWrite DEF PayFail, Answer, WorkTyped
<1>2. CASE PaySuccess(w)
  BY <1>t, <1>o, <1>r, <1>b, <1>p, <1>2, AttemptWrite DEF PaySuccess, Goto, WorkTyped
<1>3. CASE TxnMark(w)
  <2>1. /\ pc'[w] = "p_fail" /\ req'[w].sid = req[w].sid /\ req'[w].rid = req[w].rid
        /\ req'[w].order = req[w].order
    BY <1>t, <1>3 DEF TxnMark, FailWith, WorkTyped, Locals
  <2>2. /\ pc[w] = "x_mark" /\ UpdateAttempt(req[w].rid, "Failed", req[w].reason)
        /\ UNCHANGED <<users, orders, accounts, sessions, lock, tokens, notices>>
    BY <1>3 DEF TxnMark
  <2>3. req[w].rid \in RequestIds /\ attempts[req[w].rid].result # "Absent"
    BY <1>b, <2>2
  <2>. QED  BY <1>o, <1>r, <2>1, <2>2, <2>3, AttemptWrite
<1>4. CASE WriteReplyLost(w) /\ pc[w] \in {"p_fail", "p_success"}
  <2>1. pc'[w] = "idle" /\ UNCHANGED <<users, orders, accounts, sessions, lock, tokens, notices>>
    BY <1>t, <1>4 DEF WriteReplyLost, Answer, WorkTyped
  <2>2. \/ pc[w] = "p_fail" /\ UpdateAttempt(req[w].rid, "Failed", req[w].reason)
        \/ pc[w] = "p_success" /\ UpdateAttempt(req[w].rid, "Success", "OK")
    BY <1>4 DEF WriteReplyLost
  <2>. QED  BY <1>o, <1>r, <1>b, <1>p, <2>1, <2>2, AttemptWrite
<1>. QED  BY <1>1, <1>2, <1>3, <1>4

\* A new session row: nothing refers to it yet, and its order had none.
LEMMA SessionInsert ==
    ASSUME IInv, TypeOK', NEW w \in Workers, OthersWait(w), NEW s \in SessionIds,
           pc[w] = "c_insert", SessionOf(req[w].order) = {}, sessions[s].status = "Absent",
           InsertSession(s, req[w].order),
           UNCHANGED <<users, orders, accounts, attempts, lock, tokens, notices>>,
           pc'[w] = "idle" \/ /\ pc'[w] = "c_token" /\ req'[w].sid = s
                              /\ req'[w].user = req[w].user /\ req'[w].order = req[w].order
    PROVE  IInv'
<1>. USE DEF OthersWait, notices
<1>1. /\ req[w].order \in Orders /\ req[w].user \in Users
      /\ sessions[s].order = NoOrder
      /\ sessions'[s].order = req[w].order /\ sessions'[s].status = "WaitingPay"
      /\ \A x \in SessionIds : x # s => sessions'[x] = sessions[x]
  BY DEF IInv, RequestsBound, RequestBound, ConfirmPc, RowsLinked, InsertSession, TypeOK
<1>2. \A x \in SessionIds : sessions[x].order # req[w].order
  BY <1>1 DEF SessionOf, IInv, RowsLinked
<1>3. RowsLinked'
  BY <1>1, <1>2 DEF IInv, RowsLinked
<1>4. RequestsBound'
  <2>1. RequestBound(w)'
    BY <1>1 DEF RequestBound, ConfirmPc, InitPc, PayPc, TxnPc, PayBound
  <2>2. ASSUME NEW v \in Workers, v # w PROVE RequestBound(v)'
    BY <1>1, <2>2 DEF IInv, RequestsBound, RequestBound
  <2>. QED  BY <2>1, <2>2 DEF RequestsBound
<1>5. FreshIds'
  BY DEF IInv, FreshIds, InitPc
<1>6. LocksHeld'
  BY DEF IInv, LocksHeld, Holds, SessionHeld, OrderHeld, AccountHeld, AttemptHeld, TxnPc
<1>7. ChecksStand'
  BY <1>1 DEF IInv, ChecksStand, AccountPayable, RequestsBound, RequestBound,
     SessionHeld, OrderHeld, AccountHeld, AttemptHeld, TxnPc, PayBound
<1>8. AboutToNotify'
  BY <1>1 DEF IInv, AboutToNotify, PaidPc, RequestsBound, RequestBound, PayBound
<1>9. SettledTogether' /\ SoldOnce' /\ PaidAnswerTrue' /\ NoticeSound'
  BY <1>1 DEF IInv, SettledTogether, SoldOnce, PaidAnswerTrue, NoticeSound
<1>. QED  BY <1>3, <1>4, <1>5, <1>6, <1>7, <1>8, <1>9 DEF IInv

\* createPaymentSession, whether it inserts, collides or loses its reply.
LEMMA SessionInserts ==
    ASSUME IInv, TypeOK', NEW w \in Workers,
           ConfirmInsert(w) \/ (WriteReplyLost(w) /\ pc[w] = "c_insert")
    PROVE  IInv'
<1>t. WorkTyped /\ RequestBound(w)
  BY TypeParts DEF IInv, RequestsBound
<1>o. OthersWait(w)
  BY <1>t, OthersWaitStep DEF HandlerStep, WorkerFault
<1>1. CASE ConfirmInsert(w)
  <2>1. CASE SessionOf(req[w].order) = {}
    <3>1. PICK s \in SessionIds : /\ sessions[s].status = "Absent"
                                  /\ InsertSession(s, req[w].order)
                                  /\ Goto(w, "c_token")
                                  /\ req' = [req EXCEPT ![w].sid = s]
      BY <1>1, <2>1 DEF ConfirmInsert
    <3>2. /\ pc'[w] = "c_token" /\ req'[w].sid = s /\ req'[w].user = req[w].user
          /\ req'[w].order = req[w].order
      BY <1>t, <3>1 DEF Goto, WorkTyped, Locals
    <3>. QED  BY <1>o, <1>1, <2>1, <3>1, <3>2, SessionInsert DEF ConfirmInsert
  <2>2. CASE SessionOf(req[w].order) # {}
    <3>1. /\ Answer(w) /\ pc[w] = "c_insert"
          /\ UNCHANGED <<users, orders, accounts, sessions, attempts, lock, tokens, notices>>
      BY <1>1, <2>2 DEF ConfirmInsert
    <3>2. pc'[w] = "idle" /\ RequestBound(w)'
      BY <1>t, <3>1 DEF Answer, WorkTyped, RequestBound, ConfirmPc, InitPc, PayPc, TxnPc, PayBound
    <3>3. PaidAnswerTrue'
      BY <3>1 DEF IInv, PaidAnswerTrue, notices
    <3>. QED  BY <1>o, <3>1, <3>2, <3>3, LocalStep
              DEF InitPc, TxnPc, SessionHeld, PaidPc, notices
  <2>. QED  BY <2>1, <2>2
<1>2. CASE WriteReplyLost(w) /\ pc[w] = "c_insert"
  BY <1>t, <1>o, <1>2, SessionInsert DEF WriteReplyLost, Answer, WorkTyped
<1>. QED  BY <1>1, <1>2

\* createPaymentAttemptProcessing: the request id was fresh, so no other worker
\* knows the new row.
LEMMA AttemptInserts ==
    ASSUME IInv, TypeOK', NEW w \in Workers,
           InitInsert(w) \/ (WriteReplyLost(w) /\ pc[w] = "t_insert")
    PROVE  IInv'
<1>. USE DEF OthersWait, notices
<1>t. WorkTyped /\ RequestBound(w)
  BY TypeParts DEF IInv, RequestsBound
<1>o. OthersWait(w)
  BY <1>t, OthersWaitStep DEF HandlerStep, WorkerFault
<1>u. /\ pc[w] = "t_insert" /\ pc'[w] = "idle" /\ InsertAttempt(w)
      /\ UNCHANGED <<users, orders, accounts, sessions, lock, tokens, notices>>
  BY <1>t DEF InitInsert, WriteReplyLost, Answer, WorkTyped
<1>1. /\ req[w].rid \in RequestIds /\ attempts[req[w].rid].result = "Absent"
      /\ attempts[req[w].rid].sid = NoSession
      /\ attempts'[req[w].rid].sid = req[w].sid /\ attempts'[req[w].rid].result = "Processing"
      /\ req[w].sid \in SessionIds /\ sessions[req[w].sid].order \in Orders
      /\ \A x \in RequestIds : x # req[w].rid => attempts'[x] = attempts[x]
  BY <1>t, <1>u DEF RequestBound, InitPc, IInv, RowsLinked, InsertAttempt, TypeOK
<1>2. RowsLinked'
  BY <1>u, <1>1 DEF IInv, RowsLinked
<1>3. RequestsBound'
  <2>1. RequestBound(w)'
    BY <1>u DEF RequestBound, ConfirmPc, InitPc, PayPc, TxnPc, PayBound
  <2>2. ASSUME NEW v \in Workers, v # w PROVE RequestBound(v)'
    BY <1>o, <1>u, <1>1, <2>2 DEF IInv, RequestsBound, RequestBound, FreshIds, InitPc
  <2>. QED  BY <2>1, <2>2 DEF RequestsBound
<1>4. FreshIds'
  BY <1>o, <1>u DEF IInv, FreshIds, InitPc
<1>5. LocksHeld'
  BY <1>o, <1>u DEF IInv, LocksHeld, Holds, SessionHeld, OrderHeld, AccountHeld, AttemptHeld, TxnPc
<1>6. ChecksStand'
  BY <1>o, <1>u, <1>1 DEF IInv, ChecksStand, AccountPayable, RequestsBound, RequestBound,
     SessionHeld, OrderHeld, AccountHeld, AttemptHeld, TxnPc, PayBound
<1>7. AboutToNotify'
  BY <1>o, <1>u DEF IInv, AboutToNotify, PaidPc
<1>8. SettledTogether' /\ SoldOnce' /\ NoticeSound'
  BY <1>u DEF IInv, SettledTogether, SoldOnce, NoticeSound
<1>9. PaidAnswerTrue'
  BY <1>u, <1>1 DEF IInv, PaidAnswerTrue
<1>. QED  BY <1>2, <1>3, <1>4, <1>5, <1>6, <1>7, <1>8, <1>9 DEF IInv

----------------------------------------------------------------------------
(* The commit.                                                             *)

\* COMMIT settles order, account, session and attempt at once.  The locks make the
\* checks of this transaction stand and those of every other about other rows.
LEMMA SettleStep ==
    ASSUME IInv, TypeOK', NEW w \in Workers, OthersWait(w),
           pc[w] = "x_commit", Settle(w), UNCHANGED <<tokens, notices>>,
           pc'[w] \in {"p_success", "x_mark"},
           req'[w].sid = req[w].sid, req'[w].rid = req[w].rid, req'[w].order = req[w].order
    PROVE  IInv'
<1>. USE DEF OthersWait, notices
<1> DEFINE o == req[w].order
           s == req[w].sid
           r == req[w].rid
           a == OrderAccount[o]
<1>b. /\ o \in Orders /\ s \in SessionIds /\ r \in RequestIds /\ a \in Accounts
      /\ sessions[s].order = o /\ attempts[r].sid = s
      /\ sessions[s].status = "WaitingPay" /\ orders[o].status = "PendingPay"
      /\ accounts[a] \in {"OnSale", "Trading"} /\ attempts[r].result = "Processing"
  BY DEF IInv, RequestsBound, RequestBound, ChecksStand, AccountPayable, PayBound, TxnPc,
     SessionHeld, OrderHeld, AccountHeld, AttemptHeld
<1>l. lock[s] = w /\ lock[o] = w /\ lock[a] = w /\ lock[r] = w
  BY <1>b DEF IInv, LocksHeld, Holds, Rows, TxnPc, SessionHeld, OrderHeld, AccountHeld, AttemptHeld
<1>1. /\ \A x \in Orders : orders'[x].status = IF x = o THEN "Paid" ELSE orders[x].status
      /\ \A x \in Accounts : accounts'[x] = IF x = a THEN "Sold" ELSE accounts[x]
      /\ \A x \in SessionIds : /\ sessions'[x].order = sessions[x].order
                               /\ sessions'[x].status = IF x = s THEN "Paid" ELSE sessions[x].status
      /\ \A x \in RequestIds : /\ attempts'[x].sid = attempts[x].sid
                               /\ attempts'[x].result = IF x = r THEN "Success" ELSE attempts[x].result
      /\ users' = users
  <2>1. \A x \in Orders : orders'[x].status = IF x = o THEN "Paid" ELSE orders[x].status
    BY <1>b DEF Settle, IInv, TypeOK
  <2>2. \A x \in Accounts : accounts'[x] = IF x = a THEN "Sold" ELSE accounts[x]
    BY <1>b DEF Settle, IInv, TypeOK
  <2>3. \A x \in SessionIds : /\ sessions'[x].order = sessions[x].order
                              /\ sessions'[x].status = IF x = s THEN "Paid" ELSE sessions[x].status
    BY <1>b DEF Settle, IInv, TypeOK
  <2>4. \A x \in RequestIds : /\ attempts'[x].sid = attempts[x].sid
                              /\ attempts'[x].result = IF x = r THEN "Success" ELSE attempts[x].result
    BY <1>b DEF Settle, IInv, TypeOK
  <2>. QED  BY <2>1, <2>2, <2>3, <2>4 DEF Settle
<1>2. RowsLinked'
  <2>1. \A x \in SessionIds : sessions'[x].status = "Absent" <=> sessions[x].status = "Absent"
    BY <1>b, <1>1
  <2>2. \A x \in RequestIds : attempts'[x].result = "Absent" <=> attempts[x].result = "Absent"
    BY <1>b, <1>1
  <2>. QED  BY <1>1, <2>1, <2>2 DEF IInv, RowsLinked
<1>3. RequestsBound'
  <2>1. RequestBound(w)'
    BY <1>b, <1>1 DEF RequestBound, ConfirmPc, InitPc, PayPc, TxnPc, PayBound
  <2>2. ASSUME NEW v \in Workers, v # w PROVE RequestBound(v)'
    <3>1. RequestBound(v) /\ pc'[v] = pc[v] /\ req'[v] = req[v]
      BY <2>2 DEF IInv, RequestsBound
    <3>. QED  BY <1>b, <1>1, <3>1 DEF RequestBound, PayBound
  <2>. QED  BY <2>1, <2>2 DEF RequestsBound
<1>4. FreshIds'
  BY DEF IInv, FreshIds, InitPc
<1>5. LocksHeld'
  BY DEF IInv, LocksHeld, Holds, Settle, Unlocked, SessionHeld, OrderHeld, AccountHeld,
     AttemptHeld, TxnPc
<1>6. ChecksStand'
  <2>1. ASSUME NEW v \in Workers, v # w
        PROVE  /\ pc[v] \in SessionHeld => req[v].sid # s
               /\ pc[v] \in OrderHeld => req[v].order # o
               /\ pc[v] \in AccountHeld => OrderAccount[req[v].order] # a
               /\ pc[v] \in AttemptHeld => req[v].rid # r
    BY <1>b, <1>l, <2>1 DEF IInv, LocksHeld, Holds, Rows
  <2>2. ASSUME NEW v \in Workers, v # w, pc[v] \in SessionHeld
        PROVE  /\ req[v].sid \in SessionIds /\ req[v].order \in Orders /\ req[v].rid \in RequestIds
               /\ OrderAccount[req[v].order] \in Accounts
    BY <2>2 DEF IInv, RequestsBound, RequestBound, PayBound, SessionHeld
  <2>. QED  BY <1>1, <2>1, <2>2 DEF IInv, ChecksStand, AccountPayable, SessionHeld, OrderHeld,
               AccountHeld, AttemptHeld, TxnPc
<1>7. AboutToNotify'
  <2>1. notifyTasks[s] = 0 /\ notified[s] = 0
    <3>1. notifyTasks[s] \in Nat /\ notified[s] \in Nat
      BY <1>b DEF IInv, TypeOK
    <3>2. ~(notifyTasks[s] + notified[s] > 0)
      BY <1>b DEF IInv, NoticeSound
    <3>. QED  BY <3>1, <3>2
  <2>2. \A v \in Workers : pc[v] \in PaidPc => req[v].sid \in SessionIds /\ req[v].sid # s
    BY <1>b DEF IInv, AboutToNotify, RequestsBound, RequestBound, PayBound, PaidPc
  <2>3. \A v \in Workers : pc'[v] \in PaidPc =>
          /\ sessions'[req'[v].sid].status = "Paid"
          /\ notifyTasks'[req'[v].sid] = 0 /\ notified'[req'[v].sid] = 0
    BY <1>b, <1>1, <2>1, <2>2 DEF IInv, AboutToNotify
  <2>4. \A u, v \in Workers :
          pc'[u] \in PaidPc /\ pc'[v] \in PaidPc /\ req'[u].sid = req'[v].sid => u = v
    BY <1>b, <2>2 DEF IInv, AboutToNotify
  <2>. QED  BY <2>3, <2>4 DEF AboutToNotify
<1>8. SettledTogether'
  <2>1. ASSUME NEW x \in Orders, orders'[x].status = "Paid"
        PROVE  /\ \E y \in SessionIds : sessions'[y].order = x /\ sessions'[y].status = "Paid"
               /\ accounts'[OrderAccount[x]] = "Sold"
    BY <1>b, <1>1, <2>1 DEF IInv, SettledTogether
  <2>2. ASSUME NEW y \in SessionIds, sessions'[y].status = "Paid"
        PROVE  orders'[sessions'[y].order].status = "Paid"
    <3>1. sessions[y].order \in Orders
      BY <1>b, <1>1, <2>2 DEF IInv, RowsLinked
    <3>. QED  BY <1>b, <1>1, <2>2, <3>1 DEF IInv, SettledTogether
  <2>. QED  BY <2>1, <2>2 DEF SettledTogether
\* The account was still for sale, so no other order for it was Paid.
<1>9. SoldOnce'
  <2>1. \A x \in Orders : orders[x].status = "Paid" => OrderAccount[x] # a
    BY <1>b DEF IInv, SettledTogether
  <2>. QED  BY <1>1, <2>1 DEF IInv, SoldOnce
<1>10. PaidAnswerTrue'
  BY <1>b, <1>1 DEF IInv, PaidAnswerTrue
<1>11. NoticeSound'
  BY <1>b, <1>1 DEF IInv, NoticeSound
<1>. QED  BY <1>2, <1>3, <1>4, <1>5, <1>6, <1>7, <1>8, <1>9, <1>10, <1>11 DEF IInv

\* The commit, whether or not its reply arrives.
LEMMA Commits ==
    ASSUME IInv, TypeOK', NEW w \in Workers, TxnCommit(w) \/ CommitReplyLost(w)
    PROVE  IInv'
<1>t. WorkTyped
  BY TypeParts DEF IInv
<1>o. OthersWait(w)
  BY <1>t, OthersWaitStep DEF HandlerStep, WorkerFault
<1>1. /\ pc[w] = "x_commit" /\ Settle(w) /\ UNCHANGED <<tokens, notices>>
      /\ pc'[w] \in {"p_success", "x_mark"}
  BY <1>t DEF TxnCommit, CommitReplyLost, Goto, WorkTyped
<1>2. req'[w].sid = req[w].sid /\ req'[w].rid = req[w].rid /\ req'[w].order = req[w].order
  BY <1>t DEF TxnCommit, CommitReplyLost, WorkTyped, Locals
<1>. QED  BY <1>o, <1>1, <1>2, SettleStep

----------------------------------------------------------------------------
(* The notification and the steps of the environment.                      *)

\* Submitting the notification: the session is settled and unannounced, and no
\* other worker is about to announce it.
LEMMA NotifySubmit ==
    ASSUME IInv, TypeOK', NEW w \in Workers, PayNotify(w)
    PROVE  IInv'
<1>. USE DEF OthersWait, PayNotify, rows
<1>t. WorkTyped /\ RequestBound(w)
  BY TypeParts DEF IInv, RequestsBound
<1>o. OthersWait(w)
  BY <1>t, OthersWaitStep DEF HandlerStep, WorkerFault
<1>u. pc'[w] = "idle" /\ pc[w] = "p_notify"
  BY <1>t DEF Answer, WorkTyped
<1>b. /\ req[w].sid \in SessionIds /\ req[w].rid \in RequestIds
      /\ attempts[req[w].rid].sid = req[w].sid /\ sessions[req[w].sid].status = "Paid"
      /\ notifyTasks[req[w].sid] = 0 /\ notified[req[w].sid] = 0
  BY <1>t, <1>u DEF RequestBound, PayBound, IInv, AboutToNotify, PaidPc
<1>1. notifyTasks'[req[w].sid] = 1 /\ \A x \in SessionIds : x # req[w].sid => notifyTasks'[x] = notifyTasks[x]
  BY <1>b DEF IInv, TypeOK
<1>2. RowsLinked' /\ SettledTogether' /\ SoldOnce'
  BY DEF IInv, RowsLinked, SettledTogether, SoldOnce
<1>3. RequestsBound'
  <2>1. RequestBound(w)'
    BY <1>u DEF RequestBound, ConfirmPc, InitPc, PayPc, TxnPc, PayBound
  <2>2. ASSUME NEW v \in Workers, v # w PROVE RequestBound(v)'
    BY <1>o, <2>2 DEF IInv, RequestsBound, RequestBound
  <2>. QED  BY <2>1, <2>2 DEF RequestsBound
<1>4. FreshIds'
  BY <1>o, <1>u DEF IInv, FreshIds, InitPc
<1>5. LocksHeld'
  BY <1>o, <1>u DEF IInv, LocksHeld, Holds, SessionHeld, OrderHeld, AccountHeld, AttemptHeld, TxnPc
<1>6. ChecksStand'
  BY <1>o, <1>u DEF IInv, ChecksStand, AccountPayable, SessionHeld, OrderHeld, AccountHeld,
     AttemptHeld, TxnPc
<1>7. AboutToNotify'
  <2>1. \A v \in Workers : v # w /\ pc[v] \in PaidPc =>
          req[v].sid \in SessionIds /\ req[v].sid # req[w].sid
    BY <1>u DEF IInv, AboutToNotify, PaidPc, RequestsBound, RequestBound, PayBound
  <2>. QED  BY <1>o, <1>u, <1>1, <2>1 DEF IInv, AboutToNotify, PaidPc
<1>8. PaidAnswerTrue'
  BY <1>b DEF IInv, PaidAnswerTrue
<1>9. NoticeSound'
  BY <1>b, <1>1 DEF IInv, NoticeSound, TypeOK
<1>. QED  BY <1>2, <1>3, <1>4, <1>5, <1>6, <1>7, <1>8, <1>9 DEF IInv

\* The pool thread that runs a task, and the task that fails.
LEMMA NotifySteps ==
    ASSUME IInv, TypeOK', NEW s \in SessionIds, NotifyGateway(s) \/ NotifyFails(s)
    PROVE  IInv'
<1>. USE DEF NotifyGateway, NotifyFails, rows
<1>1. /\ notifyTasks'[s] = notifyTasks[s] - 1 /\ notifyTasks[s] > 0
      /\ notified'[s] \in {notified[s], notified[s] + 1}
      /\ \A x \in SessionIds : x # s => notifyTasks'[x] = notifyTasks[x] /\ notified'[x] = notified[x]
  BY DEF IInv, TypeOK
<1>2. RowsLinked' /\ SettledTogether' /\ SoldOnce' /\ PaidAnswerTrue' /\ FreshIds'
  BY DEF IInv, RowsLinked, SettledTogether, SoldOnce, PaidAnswerTrue, FreshIds
<1>3. RequestsBound'
  BY DEF IInv, RequestsBound, RequestBound
<1>4. LocksHeld' /\ ChecksStand'
  BY DEF IInv, LocksHeld, Holds, ChecksStand, AccountPayable
<1>5. AboutToNotify'
  <2>1. \A v \in Workers : pc[v] \in PaidPc => req[v].sid \in SessionIds /\ req[v].sid # s
    BY <1>1 DEF IInv, AboutToNotify, RequestsBound, RequestBound, PaidPc, PayBound
  <2>. QED  BY <1>1, <2>1 DEF IInv, AboutToNotify
<1>6. NoticeSound'
  BY <1>1 DEF IInv, NoticeSound, TypeOK
<1>. QED  BY <1>2, <1>3, <1>4, <1>5, <1>6 DEF IInv

\* A crash forgets every worker, every lock and every queued task.
LEMMA CrashStep ==
    ASSUME IInv, TypeOK', Crash
    PROVE  IInv'
<1>. USE DEF Crash, rows
<1>1. RowsLinked' /\ SettledTogether' /\ SoldOnce' /\ PaidAnswerTrue'
  BY DEF IInv, RowsLinked, SettledTogether, SoldOnce, PaidAnswerTrue
<1>2. RequestsBound' /\ FreshIds' /\ AboutToNotify'
  BY DEF RequestsBound, RequestBound, FreshIds, AboutToNotify, ConfirmPc, InitPc, PayPc, TxnPc,
     PayBound, PaidPc
<1>3. LocksHeld' /\ ChecksStand'
  BY DEF LocksHeld, Holds, ChecksStand, TxnPc, SessionHeld, OrderHeld, AccountHeld, AttemptHeld
<1>4. NoticeSound'
  BY DEF IInv, NoticeSound, TypeOK
<1>. QED  BY <1>1, <1>2, <1>3, <1>4 DEF IInv

\* Other systems respect the row locks, never touch a sold account or a paid order,
\* and never take real_auth_completed back.
LEMMA EnvironmentStep ==
    ASSUME IInv, TypeOK', Environment
    PROVE  IInv'
<1>u. /\ UNCHANGED <<sessions, attempts, lock, tokens, pc, req, notices>>
      /\ UNCHANGED <<orders, accounts>> \/ UNCHANGED <<users, accounts>> \/ UNCHANGED <<users, orders>>
  BY DEF Environment, RealAuthComplete, UserSystem, OrderSystem, ListingSystem, Tick, rows
<1>1. RowsLinked' /\ FreshIds' /\ PaidAnswerTrue' /\ NoticeSound'
  BY <1>u DEF IInv, RowsLinked, FreshIds, PaidAnswerTrue, NoticeSound, notices
<1>2. RequestsBound' /\ LocksHeld' /\ AboutToNotify'
  BY <1>u DEF IInv, RequestsBound, RequestBound, LocksHeld, Holds, AboutToNotify, notices
<1>3. \A u \in Users : users[u].realAuth => users'[u].realAuth
  BY DEF Environment, RealAuthComplete, UserSystem, OrderSystem, ListingSystem, Tick, rows, IInv, TypeOK
<1>4. \A o \in Orders : /\ lock[o] # NoWorker => orders'[o].status = orders[o].status
                        /\ orders'[o].status = "Paid" <=> orders[o].status = "Paid"
  BY DEF Environment, RealAuthComplete, UserSystem, OrderSystem, ListingSystem, Tick, rows, IInv, TypeOK
<1>5. \A a \in Accounts : /\ lock[a] # NoWorker => accounts'[a] = accounts[a]
                          /\ accounts'[a] = "Sold" <=> accounts[a] = "Sold"
  BY DEF Environment, RealAuthComplete, UserSystem, OrderSystem, ListingSystem, Tick, rows, IInv, TypeOK
<1>6. ChecksStand'
  <2>1. ASSUME NEW w \in Workers, pc[w] \in SessionHeld
        PROVE  /\ req[w].order \in Orders /\ OrderAccount[req[w].order] \in Accounts
               /\ OrderBuyer[req[w].order] \in Users
               /\ pc[w] \in OrderHeld => lock[req[w].order] # NoWorker
               /\ pc[w] \in AccountHeld => lock[OrderAccount[req[w].order]] # NoWorker
    BY <2>1 DEF IInv, RequestsBound, RequestBound, PayBound, SessionHeld, LocksHeld, Holds, Rows
  <2>. QED  BY <1>u, <1>3, <1>4, <1>5, <2>1 DEF IInv, ChecksStand, AccountPayable, TxnPc,
               SessionHeld, OrderHeld, AccountHeld, AttemptHeld
<1>7. SettledTogether' /\ SoldOnce'
  <2>1. \A s \in SessionIds : sessions[s].status = "Paid" => sessions[s].order \in Orders
    BY DEF IInv, RowsLinked
  <2>2. SettledTogether'
    BY <1>u, <1>4, <1>5, <2>1 DEF IInv, SettledTogether
  <2>3. SoldOnce'
    BY <1>4 DEF IInv, SoldOnce
  <2>. QED  BY <2>2, <2>3
<1>. QED  BY <1>1, <1>2, <1>6, <1>7 DEF IInv

----------------------------------------------------------------------------
(* The theorems.                                                           *)

\* Every step preserves the invariant.
LEMMA StepIInv == IInv /\ [Next]_vars => IInv'
<1> SUFFICES ASSUME IInv, [Next]_vars PROVE IInv'
  OBVIOUS
<1>t. TypeOK'
  BY TypeStep
<1>1. ASSUME NEW w \in Workers, Arrive(w) \/ HandlerStep(w) \/ WorkerFault(w) PROVE IInv'
  <2>1. CASE WriteReplyLost(w)
    <3>1. pc[w] \in {"c_insert", "t_insert", "p_fail", "p_success"}
      BY <2>1 DEF WriteReplyLost
    <3>. QED  BY <1>t, <2>1, <3>1, SessionInserts, AttemptInserts, AttemptWrites
  <2>. QED  BY <1>t, <1>1, <2>1, LocalSteps, TxnSteps, Commits, SessionInserts, AttemptInserts,
               AttemptWrites, NotifySubmit
            DEF HandlerStep, WorkerFault
<1>2. ASSUME NEW s \in SessionIds, NotifyGateway(s) \/ NotifyFails(s) PROVE IInv'
  BY <1>t, <1>2, NotifySteps
<1>3. CASE UNCHANGED vars
  <2>1. RequestsBound' /\ RowsLinked' /\ FreshIds'
    BY <1>3 DEF IInv, vars, RequestsBound, RequestBound, RowsLinked, FreshIds
  <2>2. LocksHeld' /\ ChecksStand' /\ AboutToNotify'
    BY <1>3 DEF IInv, vars, LocksHeld, Holds, ChecksStand, AccountPayable, AboutToNotify
  <2>3. SettledTogether' /\ SoldOnce' /\ PaidAnswerTrue' /\ NoticeSound'
    BY <1>3 DEF IInv, vars, SettledTogether, SoldOnce, PaidAnswerTrue, NoticeSound
  <2>. QED  BY <1>t, <2>1, <2>2, <2>3 DEF IInv
<1>. QED  BY <1>t, <1>1, <1>2, <1>3, CrashStep, EnvironmentStep DEF Next

\* The invariant holds throughout every behaviour of the payment path.
THEOREM Invariance == Spec => []IInv
BY InitIInv, StepIInv, PTL DEF Spec

\* The tables, locks, workers and counters of the payment path stay typed.
THEOREM Typing == Spec => []TypeOK
<1>1. IInv => TypeOK
  BY DEF IInv
<1>. QED  BY <1>1, Invariance, PTL

\* Order, session and account are settled together, whatever fails: the promise of
\* the transaction in finalizePaymentSuccess.
THEOREM Settled == Spec => []SettledTogether
<1>1. IInv => SettledTogether
  BY DEF IInv
<1>. QED  BY <1>1, Invariance, PTL

\* No account is sold to two orders.
THEOREM OneSale == Spec => []SoldOnce
<1>1. IInv => SoldOnce
  BY DEF IInv
<1>. QED  BY <1>1, Invariance, PTL

\* No client is told PAID, by the first answer or an idempotent one, unless the
\* payment is settled.
THEOREM NoFalsePaid == Spec => []PaidAnswerTrue
<1>1. IInv => PaidAnswerTrue
  BY DEF IInv
<1>. QED  BY <1>1, Invariance, PTL

\* The gateway is told of a settled session only, and at most once.
THEOREM SoundNotices == Spec => []NoticeSound
<1>1. IInv => NoticeSound
  BY DEF IInv
<1>. QED  BY <1>1, Invariance, PTL

\* A worker that waits for a row is always behind the worker that holds it.
THEOREM NoDeadlock == Spec => []NoLockCycle
<1>1. ASSUME IInv PROVE NoLockCycle
  <2> SUFFICES ASSUME NEW w \in Workers, NEW v \in Workers, NEW x \in Rows,
                      WaitsForRow(w, x), lock[x] = v, ~(w = v /\ pc[w] = "x_update")
               PROVE  LockRank(w) < LockRank(v)
    BY DEF NoLockCycle
  <2>. USE DEF TxnPc, SessionHeld, OrderHeld, AccountHeld, AttemptHeld
  <2>1. Holds(v, x)
    BY <1>1 DEF IInv, LocksHeld
  <2>2. /\ pc[v] \in SessionHeld => /\ req[v].sid \in SessionIds /\ req[v].order \in Orders
                                   /\ OrderAccount[req[v].order] \in Accounts
                                   /\ req[v].rid \in RequestIds
        /\ RequestBound(w)
    BY <1>1 DEF IInv, RequestsBound, RequestBound, PayBound
  \* The four UPDATEs wait for nobody: their rows are the worker's own.
  <2>3. pc[w] # "x_update"
    <3>1. SUFFICES ASSUME pc[w] = "x_update" PROVE FALSE
      OBVIOUS
    <3>2. x \in TxnRows(w)
      BY <3>1 DEF WaitsForRow
    <3>3. Holds(w, x)
      BY <3>1, <3>2 DEF TxnRows, Holds
    <3>. QED  BY <1>1, <3>1, <3>3 DEF IInv, LocksHeld
  <2>4. CASE pc[w] = "x_session"
    BY <2>1, <2>4 DEF Holds, LockRank
  <2>5. CASE pc[w] = "x_order"
    <3>1. x \in Orders
      BY <2>2, <2>5 DEF WaitsForRow, RequestBound, PayBound
    <3>. QED  BY <2>1, <2>2, <2>5, <3>1, RowAssumption DEF Holds, LockRank
  <2>6. CASE pc[w] = "x_account"
    <3>1. x \in Accounts
      BY <2>2, <2>6 DEF WaitsForRow, RequestBound, PayBound
    <3>. QED  BY <2>1, <2>2, <2>6, <3>1, RowAssumption DEF Holds, LockRank
  <2>7. CASE pc[w] \in {"x_attempt", "x_mark", "p_fail", "p_success"}
    <3>1. x \in RequestIds
      BY <2>2, <2>7 DEF WaitsForRow, RequestBound, PayPc, PayBound
    <3>. QED  BY <2>1, <2>2, <2>7, <3>1, RowAssumption DEF Holds, LockRank
  <2>. QED  BY <2>3, <2>4, <2>5, <2>6, <2>7 DEF WaitsForRow
<1>. QED  BY <1>1, Invariance, PTL

----------------------------------------------------------------------------
(* What a step can do to orders, accounts and announcements.               *)

\* The kinds of step, seen from the tables the outside world reads.
LEMMA StepKinds ==
    ASSUME IInv, [Next]_vars
    PROVE  \/ \E w \in Workers : pc[w] = "x_commit" /\ Settle(w) /\ UNCHANGED notified
           \/ \E s \in SessionIds : NotifyGateway(s)
           \/ \E o \in Orders : OrderSystem(o)
           \/ \E a \in Accounts : ListingSystem(a)
           \/ /\ UNCHANGED <<orders, accounts, notified>>
              /\ \/ UNCHANGED sessions
                 \/ \E w \in Workers, s \in SessionIds :
                      sessions[s].status = "Absent" /\ InsertSession(s, req[w].order)
<1>1. ASSUME NEW w \in Workers, HandlerStep(w)
      PROVE  \/ pc[w] = "x_commit" /\ Settle(w) /\ UNCHANGED notified
             \/ UNCHANGED <<orders, accounts, notified, sessions>>
             \/ /\ UNCHANGED <<orders, accounts, notified>>
                /\ \E s \in SessionIds :
                      sessions[s].status = "Absent" /\ InsertSession(s, req[w].order)
  <2>1. CASE ConfirmInsert(w)
    BY <2>1 DEF ConfirmInsert, notices
  <2>2. CASE TxnCommit(w)
    BY <2>2 DEF TxnCommit, notices
  <2>. QED  BY <1>1, <2>1, <2>2
            DEF HandlerStep, ConfirmUser, ConfirmOrder, ConfirmAccount, ConfirmSession,
                ConfirmToken, InitSession, InitOrder, InitAccount, InitInsert, PayAttempt,
                PayToken, PaySession, PayOrder, PayAccount, PayUser, PayFail, PaySuccess,
                PayNotify, TxnSession, TxnOrder, TxnAccount, TxnAttempt, TxnUser, TxnUpdate,
                TxnMark, rows, notices
<1>2. ASSUME NEW w \in Workers, WorkerFault(w)
      PROVE  \/ pc[w] = "x_commit" /\ Settle(w) /\ UNCHANGED notified
             \/ UNCHANGED <<orders, accounts, notified, sessions>>
             \/ /\ UNCHANGED <<orders, accounts, notified>>
                /\ \E s \in SessionIds :
                      sessions[s].status = "Absent" /\ InsertSession(s, req[w].order)
  BY <1>2 DEF WorkerFault, HandlerThrows, WriteReplyLost, TxnThrows, CommitReplyLost, MarkThrows,
     rows, notices
<1>3. ASSUME NEW w \in Workers, Arrive(w) PROVE UNCHANGED <<orders, accounts, notified, sessions>>
  BY <1>3 DEF Arrive, StartConfirm, StartInit, StartPay, rows, notices
<1>4. ASSUME NEW s \in SessionIds, NotifyFails(s)
      PROVE  UNCHANGED <<orders, accounts, notified, sessions>>
  BY <1>4 DEF NotifyFails, rows
<1>5. CASE Crash
  BY <1>5 DEF Crash, rows
<1>6. CASE (\E u \in Users : RealAuthComplete(u) \/ UserSystem(u)) \/ Tick
  BY <1>6 DEF RealAuthComplete, UserSystem, Tick, rows, notices
<1>7. CASE UNCHANGED vars
  BY <1>7 DEF vars
<1>8. CASE \E w \in Workers : Arrive(w) \/ HandlerStep(w) \/ WorkerFault(w)
  BY <1>1, <1>2, <1>3, <1>8
<1>. QED  BY <1>4, <1>5, <1>6, <1>7, <1>8 DEF Next, Environment

\* What the transaction has checked is so when it commits.
LEMMA CommitChecked ==
    ASSUME IInv, NEW w \in Workers, pc[w] = "x_commit"
    PROVE  /\ req[w].order \in Orders /\ OrderAccount[req[w].order] \in Accounts
           /\ orders[req[w].order].status = "PendingPay"
           /\ accounts[OrderAccount[req[w].order]] \in {"OnSale", "Trading"}
           /\ users[OrderBuyer[req[w].order]].realAuth
           /\ req[w].sid \in SessionIds
BY DEF IInv, RequestsBound, RequestBound, ChecksStand, AccountPayable, PayBound, TxnPc,
   SessionHeld, OrderHeld, AccountHeld, AttemptHeld

\* An order is paid only out of PendingPay, with its account for sale and its buyer
\* real-name verified, and stays paid.
THEOREM OnlyPendingPaid == Spec => PaysOnlyPending
<1>1. ASSUME IInv, [Next]_vars, NEW o \in Orders
      PROVE  /\ orders[o].status = "Paid" => orders'[o].status = "Paid"
             /\ orders[o].status # "Paid" /\ orders'[o].status = "Paid" =>
                  /\ orders[o].status = "PendingPay"
                  /\ accounts[OrderAccount[o]] \in {"OnSale", "Trading"}
                  /\ users[OrderBuyer[o]].realAuth
  <2>t. orders \in [Orders -> [status : OrderStatus, price : Prices]]
    BY <1>1 DEF IInv, TypeOK
  <2>1. ASSUME NEW w \in Workers, pc[w] = "x_commit", Settle(w)
        PROVE  /\ orders[o].status = "Paid" => orders'[o].status = "Paid"
               /\ orders[o].status # "Paid" /\ orders'[o].status = "Paid" => o = req[w].order
    BY <1>1, <2>t, <2>1, CommitChecked DEF Settle
  <2>2. ASSUME NEW x \in Orders, OrderSystem(x)
        PROVE  (orders[o].status = "Paid" <=> orders'[o].status = "Paid")
    BY <2>t, <2>2 DEF OrderSystem
  <2>3. ASSUME NEW a \in Accounts, ListingSystem(a) PROVE UNCHANGED orders
    BY <2>3 DEF ListingSystem
  <2>4. ASSUME NEW s \in SessionIds, NotifyGateway(s) PROVE UNCHANGED orders
    BY <2>4 DEF NotifyGateway, rows
  <2>. QED  BY <1>1, <2>1, <2>2, <2>3, <2>4, StepKinds, CommitChecked
<1>2. IInv /\ [Next]_vars => [\A o \in Orders :
         /\ orders[o].status = "Paid" => orders'[o].status = "Paid"
         /\ orders[o].status # "Paid" /\ orders'[o].status = "Paid" =>
              /\ orders[o].status = "PendingPay"
              /\ accounts[OrderAccount[o]] \in {"OnSale", "Trading"}
              /\ users[OrderBuyer[o]].realAuth]_vars
  BY <1>1
<1>. QED  BY <1>2, Invariance, PTL DEF Spec, PaysOnlyPending

----------------------------------------------------------------------------
(* The payment path implements the abstract service.                       *)

\* The initial rows are an initial state of the abstract service.
LEMMA RefinementInit == Init => Settlement!Init
BY DEF Init, Settlement!Init, AnnouncedOrders

\* Every step of the payment path is a step of the abstract service or none.
LEMMA RefinementStep == IInv /\ [Next]_vars => [Settlement!Next]_(Settlement!vars)
<1> SUFFICES ASSUME IInv, [Next]_vars PROVE [Settlement!Next]_(Settlement!vars)
  OBVIOUS
<1> DEFINE status == [o \in Orders |-> orders[o].status]
<1>t. /\ orders \in [Orders -> [status : OrderStatus, price : Prices]]
      /\ accounts \in [Accounts -> AccountStatus]
      /\ notified \in [SessionIds -> Nat] /\ notifyTasks \in [SessionIds -> Nat]
      /\ sessions \in [SessionIds -> [order : Orders \cup {NoOrder},
                                      status : PaymentSessionStatus, expireAt : Nat]]
  BY DEF IInv, TypeOK
\* Settle(req[w].order)
<1>1. ASSUME NEW w \in Workers, pc[w] = "x_commit", Settle(w), UNCHANGED notified
      PROVE  Settlement!Next
  <2>0. PICK o \in Orders : o = req[w].order
    BY <1>1, CommitChecked
  <2>1. status[o] = "PendingPay" /\ accounts[OrderAccount[o]] \in {"OnSale", "Trading"}
    BY <1>1, <2>0, CommitChecked
  <2>2. status' = [status EXCEPT ![o] = "Paid"]
    <3>1. \A x \in Orders : orders'[x].status = IF x = o THEN "Paid" ELSE orders[x].status
      BY <1>t, <1>1, <2>0 DEF Settle
    <3>. QED  BY <3>1
  <2>3. accounts' = [accounts EXCEPT ![OrderAccount[o]] = "Sold"]
    BY <1>1, <2>0 DEF Settle
  <2>4. UNCHANGED AnnouncedOrders
    <3>1. \A s \in SessionIds : sessions'[s].order = sessions[s].order
      BY <1>t, <1>1, CommitChecked DEF Settle
    <3>. QED  BY <1>1, <3>1 DEF AnnouncedOrders
  <2>5. Settlement!Settle(o)
    BY <2>1, <2>2, <2>3, <2>4 DEF Settlement!Settle
  <2>. QED  BY <2>5 DEF Settlement!Next
\* Announce(sessions[s].order)
<1>2. ASSUME NEW s \in SessionIds, NotifyGateway(s) PROVE Settlement!Next
  <2> DEFINE o == sessions[s].order
  <2>0. /\ notifyTasks[s] \in Nat /\ notified[s] \in Nat /\ notifyTasks[s] > 0
        /\ notified[s] + notifyTasks[s] <= 1
        /\ notified[s] + notifyTasks[s] > 0 => sessions[s].status = "Paid"
    BY <1>t, <1>2 DEF NotifyGateway, IInv, NoticeSound
  <2>1. notified[s] = 0 /\ sessions[s].status = "Paid"
    BY <2>0
  <2>2. o \in Orders /\ orders[o].status = "Paid"
    BY <2>1 DEF IInv, RowsLinked, SettledTogether
  <2>3. \A x \in SessionIds : sessions[x].order = o => x = s
    BY <2>2 DEF IInv, RowsLinked
  <2>4. o \notin AnnouncedOrders
    BY <2>1, <2>3 DEF AnnouncedOrders
  <2>5. AnnouncedOrders' = AnnouncedOrders \cup {o}
    <3>1. /\ notified'[s] > 0 /\ \A x \in SessionIds : x # s => notified'[x] = notified[x]
          /\ sessions' = sessions
      BY <1>t, <1>2 DEF NotifyGateway, rows
    <3>. QED  BY <2>1, <2>2, <2>3, <3>1 DEF AnnouncedOrders
  <2>6. UNCHANGED <<status, accounts>>
    BY <1>2 DEF NotifyGateway, rows
  <2>7. Settlement!Announce(o)
    BY <2>2, <2>4, <2>5, <2>6 DEF Settlement!Announce
  <2>. QED  BY <2>2, <2>7 DEF Settlement!Next
\* Withdraw(o), or a change of price that the abstract service does not see
<1>3. ASSUME NEW o \in Orders, OrderSystem(o) PROVE [Settlement!Next]_(Settlement!vars)
  <2>1. UNCHANGED <<accounts, AnnouncedOrders>>
    BY <1>3 DEF OrderSystem, AnnouncedOrders, notices
  <2>2. ASSUME NEW st \in {"Cancelled", "Expired"}, orders' = [orders EXCEPT ![o].status = st]
        PROVE  Settlement!Next
    <3>0. \A x \in Orders : orders'[x].status = IF x = o THEN st ELSE orders[x].status
      BY <1>t, <2>2
    <3>1. status' = [status EXCEPT ![o] = st]
      BY <3>0
    <3>2. Settlement!Withdraw(o)
      BY <1>3, <2>1, <2>2, <3>1 DEF OrderSystem, Settlement!Withdraw
    <3>. QED  BY <3>2 DEF Settlement!Next
  <2>3. ASSUME NEW p \in Prices, orders' = [orders EXCEPT ![o].price = p] PROVE UNCHANGED status
    BY <1>t, <2>3
  <2>. QED  BY <1>3, <2>1, <2>2, <2>3 DEF OrderSystem, Settlement!vars
\* Relist(a)
<1>4. ASSUME NEW a \in Accounts, ListingSystem(a) PROVE Settlement!Next
  <2>1. UNCHANGED <<status, AnnouncedOrders>>
    BY <1>4 DEF ListingSystem, AnnouncedOrders, notices
  <2>2. Settlement!Relist(a)
    BY <1>4, <2>1 DEF ListingSystem, AccountStatus, Settlement!Relist
  <2>. QED  BY <2>2 DEF Settlement!Next
\* everything else: a new session has not been announced
<1>5. ASSUME UNCHANGED <<orders, accounts, notified>>,
             \/ UNCHANGED sessions
             \/ \E w \in Workers, s \in SessionIds :
                  sessions[s].status = "Absent" /\ InsertSession(s, req[w].order)
      PROVE  UNCHANGED Settlement!vars
  <2>1. UNCHANGED AnnouncedOrders
    <3>1. CASE UNCHANGED sessions
      BY <1>5, <3>1 DEF AnnouncedOrders
    <3>2. ASSUME NEW w \in Workers, NEW s \in SessionIds, sessions[s].status = "Absent",
                 InsertSession(s, req[w].order)
          PROVE  UNCHANGED AnnouncedOrders
      <4>1. ~(notified[s] > 0)
        BY <1>t, <3>2 DEF IInv, NoticeSound
      <4>2. \A x \in SessionIds : x # s => sessions'[x] = sessions[x]
        BY <1>t, <3>2 DEF InsertSession
      <4>. QED  BY <1>5, <4>1, <4>2 DEF AnnouncedOrders
    <3>. QED  BY <1>5, <3>1, <3>2
  <2>. QED  BY <1>5, <2>1 DEF Settlement!vars
<1>. QED  BY <1>1, <1>2, <1>3, <1>4, <1>5, StepKinds

\* The handlers, the transaction, the faults and the notification tasks together
\* implement the atomic sale and announcement that the service promises.
THEOREM Refinement == Spec => ImplementsSettlement
<1>1. Init => Settlement!Init
  BY RefinementInit
<1>2. IInv /\ [Next]_vars => [Settlement!Next]_(Settlement!vars)
  BY RefinementStep
<1>. QED  BY <1>1, <1>2, Invariance, PTL DEF Spec, ImplementsSettlement, Settlement!Spec
=============================================================================
