---------------------------- MODULE PaymentFlow ----------------------------
(***************************************************************************)
(* The payment path of the backend: handleConfirm, handleAttemptInit and   *)
(* handlePay (backend/payment_impl.hpp) run by the worker threads against  *)
(* the MySQL tables through MySqlPool (backend/common/mysql_pool.hpp),     *)
(* with the settlement transaction finalizePaymentSuccess at the           *)
(* granularity of its SQL statements.                                      *)
(*                                                                         *)
(* One worker runs one request at a time.  Every SQL statement, every read *)
(* of the clock and every hand-over to the pool is one step, so whatever   *)
(* another worker, the order system or a fault can do between two          *)
(* statements happens in some behaviour.  A handler's early returns end    *)
(* the request; what is answered is recorded only where a property needs   *)
(* it (the PAID answers).                                                  *)
(*                                                                         *)
(* account_id and buyer_id of an order never change, so the copies of them *)
(* in payment_sessions and payment_attempts are read from the order.       *)
(***************************************************************************)
EXTENDS Naturals

CONSTANTS
    Workers,        \* backend worker threads
    Users, Orders, Accounts,
    SessionIds,     \* values makePaymentSessionId can return
    RequestIds,     \* values makeRequestId can return
    OrderBuyer,     \* orders.buyer_id
    OrderAccount,   \* orders.account_id
    Prices,         \* values of orders.price
    SessionTtl,     \* PAYMENT_SESSION_TTL_SECONDS
    QrTtl,          \* JWT_QR_TOKEN_TTL_SECONDS
    ClockSkew,      \* JWT_CLOCK_SKEW_SECONDS
    MaxTime,        \* bound on the clock
    MaxFaults,      \* bound on failed statements, lost replies and crashes
    External,       \* which changes other systems make to the shared tables
    NoWorker, NoSession, NoOrder, NoUser, NoRequest, NoPrice

ASSUME TtlAssumption ==
    /\ SessionTtl \in Nat \ {0} /\ QrTtl \in Nat \ {0} /\ ClockSkew \in Nat
    /\ MaxTime \in Nat /\ MaxFaults \in Nat

ASSUME OrderAssumption ==
    OrderBuyer \in [Orders -> Users] /\ OrderAccount \in [Orders -> Accounts]

ASSUME NothingAssumption ==
    /\ NoWorker \notin Workers /\ NoSession \notin SessionIds
    /\ NoOrder \notin Orders /\ NoUser \notin Users /\ NoRequest \notin RequestIds
    /\ NoPrice \notin Prices

\* Rows of different tables are different rows.
ASSUME RowAssumption ==
    /\ SessionIds \cap Orders = {} /\ SessionIds \cap Accounts = {}
    /\ SessionIds \cap RequestIds = {} /\ Orders \cap Accounts = {}
    /\ Orders \cap RequestIds = {} /\ Accounts \cap RequestIds = {}

VARIABLES
    users,        \* [status, realAuth]
    orders,       \* [status, price]
    accounts,     \* accounts.status
    sessions,     \* [order, status, expireAt]; status "Absent": no such row
    attempts,     \* [sid, result, reason]; result "Absent": no such row
    lock,         \* InnoDB's exclusive row locks
    now,          \* the clock, MySQL's and the backend's
    tokens,       \* the qr_tokens issued so far
    pc,           \* the statement each worker is about to run
    req,          \* the inputs and locals of the handler a worker runs
    notifyTasks,  \* tasks in the worker pool that notify the gateway, per session
    notified,     \* notifications the gateway accepted, per session
    paidAnswers,  \* requests some handler answered PAID
    faults

rows == <<users, orders, accounts, sessions, attempts>>
notices == <<notifyTasks, notified, paidAnswers>>
vars == <<users, orders, accounts, sessions, attempts, lock, now, tokens, pc, req,
          notifyTasks, notified, paidAnswers, faults>>

----------------------------------------------------------------------------
(* Row and message types.                                                  *)

UserStatus == {"Normal", "Frozen"}
OrderStatus == {"PendingPay", "Paid", "Cancelled", "Expired"}
AccountStatus == {"OnSale", "Trading", "Sold", "Removed"}
PaymentSessionStatus == {"Absent", "WaitingPay", "Paid"}
PaymentAttemptResult == {"Absent", "Processing", "Success", "Failed"}

\* What a check answers: OK, or the fail_reason it leads to.
Reasons ==
    {"OK", "INVALID_QR_TOKEN", "SESSION_INVALID", "SESSION_MISMATCH",
     "ORDER_NOT_PAYABLE", "ACCOUNT_NOT_PAYABLE", "USER_INVALID", "PASSWORD_INVALID",
     "SESSION_NOT_FOUND", "SESSION_BINDING_MISMATCH", "SESSION_NOT_PAYABLE",
     "ORDER_ALREADY_PAID", "ORDER_SNAPSHOT_MISMATCH", "ACCOUNT_NOT_TRADABLE",
     "REQUEST_BINDING_MISMATCH", "USER_REAL_AUTH_INVALID",
     "PAYMENT_STATE_UPDATE_FAILED", "PAYMENT_INTERNAL_ERROR", "FINALIZE_TXN_FAILED"}

Rows == SessionIds \cup Orders \cup Accounts \cup RequestIds
Token == [sid : SessionIds \cup {NoSession}, exp : Nat]
\* A token that was forged or damaged: verifyToken refuses its signature.
BadToken == [sid |-> NoSession, exp |-> 0]

\* The inputs and locals of a handler; those of handlers that have none.
Locals ==
    [user : Users \cup {NoUser}, order : Orders \cup {NoOrder}, sid : SessionIds \cup {NoSession},
     rid : RequestIds \cup {NoRequest}, tok : Token, price : Prices \cup {NoPrice},
     pw : BOOLEAN, reason : Reasons]

NoRequestLocals ==
    [user |-> NoUser, order |-> NoOrder, sid |-> NoSession, rid |-> NoRequest,
     tok |-> BadToken, price |-> NoPrice, pw |-> FALSE, reason |-> "OK"]

ConfirmPc == {"c_user", "c_order", "c_account", "c_session", "c_insert", "c_token"}
InitPc == {"t_session", "t_order", "t_account", "t_insert"}
PayPc == {"p_attempt", "p_token", "p_session", "p_order", "p_account", "p_user",
          "p_fail", "p_success", "p_notify"}
\* The statements of the settlement transaction, in the order they run.
TxnPc == {"x_session", "x_order", "x_account", "x_attempt", "x_user", "x_update", "x_commit"}
Pc == {"idle", "x_mark"} \cup ConfirmPc \cup InitPc \cup PayPc \cup TxnPc

TypeOK ==
    /\ users \in [Users -> [status : UserStatus, realAuth : BOOLEAN]]
    /\ orders \in [Orders -> [status : OrderStatus, price : Prices]]
    /\ accounts \in [Accounts -> AccountStatus]
    /\ sessions \in [SessionIds -> [order : Orders \cup {NoOrder},
                                    status : PaymentSessionStatus, expireAt : Nat]]
    /\ attempts \in [RequestIds -> [sid : SessionIds \cup {NoSession},
                                    result : PaymentAttemptResult, reason : Reasons]]
    /\ lock \in [Rows -> Workers \cup {NoWorker}]
    /\ now \in Nat
    /\ tokens \subseteq Token
    /\ pc \in [Workers -> Pc]
    /\ req \in [Workers -> Locals]
    /\ notifyTasks \in [SessionIds -> Nat]
    /\ notified \in [SessionIds -> Nat]
    /\ paidAnswers \subseteq RequestIds
    /\ faults \in Nat

\* The upstream order system has created the orders; no payment has started.
Init ==
    /\ users \in [Users -> [status : {"Normal"}, realAuth : BOOLEAN]]
    /\ orders \in [Orders -> [status : {"PendingPay"}, price : Prices]]
    /\ accounts \in [Accounts -> {"OnSale", "Trading"}]
    /\ sessions = [s \in SessionIds |-> [order |-> NoOrder, status |-> "Absent", expireAt |-> 0]]
    /\ attempts = [r \in RequestIds |-> [sid |-> NoSession, result |-> "Absent", reason |-> "OK"]]
    /\ lock = [x \in Rows |-> NoWorker]
    /\ now = 0
    /\ tokens = {}
    /\ pc = [w \in Workers |-> "idle"]
    /\ req = [w \in Workers |-> NoRequestLocals]
    /\ notifyTasks = [s \in SessionIds |-> 0]
    /\ notified = [s \in SessionIds |-> 0]
    /\ paidAnswers = {}
    /\ faults = 0

----------------------------------------------------------------------------
(* Conditions the handlers share.                                          *)

\* Mutants of AccountPayable: the test written as an exclusion, one state forgotten.
AccountPayableIfNotRemoved(a) == accounts[a] # "Removed"
AccountPayableIfNotSold(a) == accounts[a] # "Sold"

\* accountPayable, and the same test inside the transaction.
AccountPayable(a) == accounts[a] \in {"OnSale", "Trading"}

\* verifyPaymentQrToken: the signature, then exp + clock_skew against the clock.
TokenValid(t) == t.sid # NoSession /\ now < t.exp + ClockSkew

\* getActivePaymentSessionByOrderSn's WHERE clause.
ActiveSession(s, o) ==
    /\ sessions[s].order = o
    /\ sessions[s].status = "WaitingPay"
    /\ now < sessions[s].expireAt

SessionOf(o) == {s \in SessionIds : sessions[s].status # "Absent" /\ sessions[s].order = o}

Goto(w, next) == pc' = [pc EXCEPT ![w] = next]

\* The handler returns its response; the worker takes another task.
Answer(w) ==
    /\ pc' = [pc EXCEPT ![w] = "idle"]
    /\ req' = [req EXCEPT ![w] = NoRequestLocals]

\* An early return of handlePay that first records the failure.
FailWith(w, reason) ==
    /\ pc' = [pc EXCEPT ![w] = "p_fail"]
    /\ req' = [req EXCEPT ![w].reason = reason]

\* A read that passes its check goes on; one that does not ends the request.
GotoOrAnswer(w, ok, next) ==
    IF ok THEN Goto(w, next) /\ UNCHANGED req ELSE Answer(w)

----------------------------------------------------------------------------
(* POST /api/payment/confirm: handleConfirm.                               *)

StartConfirm(w, u, o) ==
    /\ pc[w] = "idle"
    /\ Goto(w, "c_user")
    /\ req' = [req EXCEPT ![w] = [NoRequestLocals EXCEPT !.user = u, !.order = o]]
    /\ UNCHANGED <<rows, lock, now, tokens, notices, faults>>

ConfirmUser(w) ==
    /\ pc[w] = "c_user"
    /\ GotoOrAnswer(w, users[req[w].user].status = "Normal" /\ users[req[w].user].realAuth,
                    "c_order")
    /\ UNCHANGED <<rows, lock, now, tokens, notices, faults>>

ConfirmOrder(w) ==
    /\ pc[w] = "c_order"
    /\ GotoOrAnswer(w, /\ OrderBuyer[req[w].order] = req[w].user
                       /\ orders[req[w].order].status = "PendingPay", "c_account")
    /\ UNCHANGED <<rows, lock, now, tokens, notices, faults>>

ConfirmAccount(w) ==
    /\ pc[w] = "c_account"
    /\ GotoOrAnswer(w, AccountPayable(OrderAccount[req[w].order]), "c_session")
    /\ UNCHANGED <<rows, lock, now, tokens, notices, faults>>

\* Reuse the order's active session, or go on to create one.
ConfirmSession(w) ==
    /\ pc[w] = "c_session"
    /\ \/ \E s \in SessionIds :
            /\ ActiveSession(s, req[w].order)
            /\ Goto(w, "c_token")
            /\ req' = [req EXCEPT ![w].sid = s]
       \/ /\ \A s \in SessionIds : ~ActiveSession(s, req[w].order)
          /\ Goto(w, "c_insert")
          /\ UNCHANGED req
    /\ UNCHANGED <<rows, lock, now, tokens, notices, faults>>

\* The row createPaymentSession inserts.
InsertSession(s, o) ==
    sessions' = [sessions EXCEPT ![s] = [order |-> o, status |-> "WaitingPay",
                                         expireAt |-> now + SessionTtl]]

\* createPaymentSession; the unique key on order_sn refuses a second row for the
\* order, the exception ends in handleRequest's catch.
ConfirmInsert(w) ==
    /\ pc[w] = "c_insert"
    /\ \/ /\ SessionOf(req[w].order) = {}
          /\ \E s \in SessionIds :
               /\ sessions[s].status = "Absent"
               /\ InsertSession(s, req[w].order)
               /\ Goto(w, "c_token")
               /\ req' = [req EXCEPT ![w].sid = s]
       \/ /\ SessionOf(req[w].order) # {}
          /\ Answer(w)
          /\ UNCHANGED sessions
    /\ UNCHANGED <<users, orders, accounts, attempts, lock, now, tokens, notices, faults>>

\* issuePaymentQrToken and the 200 response that carries the token.
ConfirmToken(w) ==
    /\ pc[w] = "c_token"
    /\ tokens' = tokens \cup {[sid |-> req[w].sid, exp |-> now + QrTtl]}
    /\ Answer(w)
    /\ UNCHANGED <<rows, lock, now, notices, faults>>

----------------------------------------------------------------------------
(* POST /api/payment/attempt/init: handleAttemptInit.                      *)

\* An invalid token is answered 401 at once and changes nothing.  The request id
\* is fresh: no row has it and no other request is about to insert it.
StartInit(w, t, r) ==
    /\ pc[w] = "idle"
    /\ TokenValid(t)
    /\ attempts[r].result = "Absent"
    /\ \A v \in Workers : req[v].rid # r
    /\ Goto(w, "t_session")
    /\ req' = [req EXCEPT ![w] = [NoRequestLocals EXCEPT !.tok = t, !.sid = t.sid, !.rid = r]]
    /\ UNCHANGED <<rows, lock, now, tokens, notices, faults>>

InitSession(w) ==
    /\ pc[w] = "t_session"
    /\ IF sessions[req[w].sid].status = "WaitingPay"
         THEN /\ Goto(w, "t_order")
              /\ req' = [req EXCEPT ![w].order = sessions[req[w].sid].order]
         ELSE Answer(w)
    /\ UNCHANGED <<rows, lock, now, tokens, notices, faults>>

InitOrder(w) ==
    /\ pc[w] = "t_order"
    /\ GotoOrAnswer(w, orders[req[w].order].status = "PendingPay", "t_account")
    /\ UNCHANGED <<rows, lock, now, tokens, notices, faults>>

InitAccount(w) ==
    /\ pc[w] = "t_account"
    /\ GotoOrAnswer(w, AccountPayable(OrderAccount[req[w].order]), "t_insert")
    /\ UNCHANGED <<rows, lock, now, tokens, notices, faults>>

\* createPaymentAttemptProcessing.
InsertAttempt(w) ==
    attempts' = [attempts EXCEPT ![req[w].rid] =
                    [sid |-> req[w].sid, result |-> "Processing", reason |-> "OK"]]

InitInsert(w) ==
    /\ pc[w] = "t_insert"
    /\ InsertAttempt(w)
    /\ Answer(w)
    /\ UNCHANGED <<users, orders, accounts, sessions, lock, now, tokens, notices, faults>>

----------------------------------------------------------------------------
(* POST /api/payment/pay: handlePay up to the transaction.                 *)

\* pw: whether the password in the request is the buyer's.  An unknown request
\* id is answered 404 at once and changes nothing.
StartPay(w, r, t, pw) ==
    /\ pc[w] = "idle"
    /\ attempts[r].result # "Absent"
    /\ Goto(w, "p_attempt")
    /\ req' = [req EXCEPT ![w] = [NoRequestLocals EXCEPT !.tok = t, !.rid = r, !.pw = pw]]
    /\ UNCHANGED <<rows, lock, now, tokens, notices, faults>>

\* Mutant of PayAttempt: whatever is no longer Processing is answered PAID.
PayAttemptAnyResult(w) ==
    /\ pc[w] = "p_attempt"
    /\ GotoOrAnswer(w, attempts[req[w].rid].result = "Processing", "p_token")
    /\ paidAnswers' = paidAnswers \cup
                        {r \in {req[w].rid} : attempts[r].result # "Processing"}
    /\ UNCHANGED <<rows, lock, now, tokens, notifyTasks, notified, faults>>

\* The idempotent answers: PAID for Success, the recorded failure for Failed.
PayAttempt(w) ==
    /\ pc[w] = "p_attempt"
    /\ GotoOrAnswer(w, attempts[req[w].rid].result = "Processing", "p_token")
    /\ paidAnswers' = paidAnswers \cup
                        {r \in {req[w].rid} : attempts[r].result = "Success"}
    /\ UNCHANGED <<rows, lock, now, tokens, notifyTasks, notified, faults>>

PayToken(w) ==
    /\ pc[w] = "p_token"
    /\ IF TokenValid(req[w].tok)
         THEN Goto(w, "p_session") /\ UNCHANGED req
         ELSE FailWith(w, "INVALID_QR_TOKEN")
    /\ UNCHANGED <<rows, lock, now, tokens, notices, faults>>

\* The session the token names must be waiting and be the attempt's.
PaySession(w) ==
    LET s == req[w].tok.sid IN
    /\ pc[w] = "p_session"
    /\ IF sessions[s].status # "WaitingPay" THEN FailWith(w, "SESSION_INVALID")
       ELSE IF attempts[req[w].rid].sid # s THEN FailWith(w, "SESSION_MISMATCH")
       ELSE /\ Goto(w, "p_order")
            /\ req' = [req EXCEPT ![w].sid = s, ![w].order = sessions[s].order]
    /\ UNCHANGED <<rows, lock, now, tokens, notices, faults>>

PayOrder(w) ==
    /\ pc[w] = "p_order"
    /\ IF orders[req[w].order].status = "PendingPay"
         THEN /\ Goto(w, "p_account")
              /\ req' = [req EXCEPT ![w].price = orders[req[w].order].price]
         ELSE FailWith(w, "ORDER_NOT_PAYABLE")
    /\ UNCHANGED <<rows, lock, now, tokens, notices, faults>>

PayAccount(w) ==
    /\ pc[w] = "p_account"
    /\ IF AccountPayable(OrderAccount[req[w].order])
         THEN Goto(w, "p_user") /\ UNCHANGED req
         ELSE FailWith(w, "ACCOUNT_NOT_PAYABLE")
    /\ UNCHANGED <<rows, lock, now, tokens, notices, faults>>

\* The buyer's state and password, from one read of the row.
PayUser(w) ==
    /\ pc[w] = "p_user"
    /\ IF users[OrderBuyer[req[w].order]].status # "Normal" THEN FailWith(w, "USER_INVALID")
       ELSE IF ~req[w].pw THEN FailWith(w, "PASSWORD_INVALID")
       ELSE Goto(w, "x_session") /\ UNCHANGED req
    /\ UNCHANGED <<rows, lock, now, tokens, notices, faults>>

\* updatePaymentAttemptResult: an autocommit UPDATE without a condition on the
\* old result; it waits for the row's lock.
UpdateAttempt(r, result, reason) ==
    /\ lock[r] = NoWorker
    /\ attempts' = [attempts EXCEPT ![r].result = result, ![r].reason = reason]

PayFail(w) ==
    /\ pc[w] = "p_fail"
    /\ UpdateAttempt(req[w].rid, "Failed", req[w].reason)
    /\ Answer(w)
    /\ UNCHANGED <<users, orders, accounts, sessions, lock, now, tokens, notices, faults>>

----------------------------------------------------------------------------
(* finalizePaymentSuccess.                                                 *)

\* SELECT ... FOR UPDATE.
LockRow(w, x) ==
    /\ lock[x] = NoWorker
    /\ lock' = [lock EXCEPT ![x] = w]

\* Mutant of Unlocked: the connection goes back to the pool with its transaction open.
UnlockedNever(w) == lock

\* COMMIT and ROLLBACK release every lock of the transaction.
Unlocked(w) == [x \in Rows |-> IF lock[x] = w THEN NoWorker ELSE lock[x]]

\* Mutant of Abort: the attempt is marked before the ROLLBACK.
AbortLater(w, reason) ==
    /\ pc' = [pc EXCEPT ![w] = "x_mark"]
    /\ req' = [req EXCEPT ![w].reason = reason]
    /\ UNCHANGED lock

\* Rolled back: record the reason through a second connection, return false.
Abort(w, reason) ==
    /\ pc' = [pc EXCEPT ![w] = "x_mark"]
    /\ req' = [req EXCEPT ![w].reason = reason]
    /\ lock' = Unlocked(w)

\* Lock x; its row passes the check and the next statement runs, or the
\* transaction is rolled back.
LockAndCheck(w, x, reason, next) ==
    /\ lock[x] = NoWorker
    /\ IF reason = "OK"
         THEN LockRow(w, x) /\ Goto(w, next) /\ UNCHANGED req
         ELSE Abort(w, reason)

SessionReason(w) ==
    LET s == sessions[req[w].sid] IN
    CASE s.status = "Absent" -> "SESSION_NOT_FOUND"
      [] s.status # "Absent" /\ s.order # req[w].order -> "SESSION_BINDING_MISMATCH"
      [] s.order = req[w].order /\ s.status = "Paid" -> "SESSION_NOT_PAYABLE"
      [] OTHER -> "OK"

TxnSession(w) ==
    /\ pc[w] = "x_session"
    /\ LockAndCheck(w, req[w].sid, SessionReason(w), "x_order")
    /\ UNCHANGED <<rows, now, tokens, notices, faults>>

OrderReason(w) ==
    LET o == orders[req[w].order] IN
    CASE o.status = "Paid" -> "ORDER_ALREADY_PAID"
      [] o.status \in {"Cancelled", "Expired"} -> "ORDER_NOT_PAYABLE"
      [] o.status = "PendingPay" /\ o.price # req[w].price -> "ORDER_SNAPSHOT_MISMATCH"
      [] OTHER -> "OK"

TxnOrder(w) ==
    /\ pc[w] = "x_order"
    /\ LockAndCheck(w, req[w].order, OrderReason(w), "x_account")
    /\ UNCHANGED <<rows, now, tokens, notices, faults>>

TxnAccount(w) ==
    /\ pc[w] = "x_account"
    /\ LockAndCheck(w, OrderAccount[req[w].order],
                    IF AccountPayable(OrderAccount[req[w].order])
                      THEN "OK" ELSE "ACCOUNT_NOT_TRADABLE", "x_attempt")
    /\ UNCHANGED <<rows, now, tokens, notices, faults>>

\* Success: commit and return true.  Failed (or no row): roll back and return
\* false, the recorded reason stays.
TxnAttempt(w) ==
    LET a == attempts[req[w].rid] IN
    /\ pc[w] = "x_attempt"
    /\ lock[req[w].rid] = NoWorker
    /\ CASE a.result = "Success" ->
              /\ Goto(w, "p_success") /\ UNCHANGED req
              /\ lock' = Unlocked(w)
         [] a.result \in {"Failed", "Absent"} ->
              /\ FailWith(w, "FINALIZE_TXN_FAILED")
              /\ lock' = Unlocked(w)
         [] a.result = "Processing" /\ a.sid # req[w].sid ->
              Abort(w, "REQUEST_BINDING_MISMATCH")
         [] OTHER -> LockRow(w, req[w].rid) /\ Goto(w, "x_user") /\ UNCHANGED req
    /\ UNCHANGED <<rows, now, tokens, notices, faults>>

\* A plain read: the buyer's row is not locked.
TxnUser(w) ==
    LET u == users[OrderBuyer[req[w].order]] IN
    /\ pc[w] = "x_user"
    /\ IF u.status = "Normal" /\ u.realAuth
         THEN Goto(w, "x_update") /\ UNCHANGED <<req, lock>>
         ELSE Abort(w, "USER_REAL_AUTH_INVALID")
    /\ UNCHANGED <<rows, now, tokens, notices, faults>>

\* The rows one settlement writes.
TxnRows(w) == {req[w].sid, req[w].order, OrderAccount[req[w].order], req[w].rid}

\* The four UPDATEs, each with its WHERE on the old state: all affect one row, or
\* the transaction is rolled back.  Nobody sees their effect before the commit.
AllAffected(w) ==
    /\ orders[req[w].order].status = "PendingPay"
    /\ AccountPayable(OrderAccount[req[w].order])
    /\ sessions[req[w].sid].status = "WaitingPay"
    /\ attempts[req[w].rid].result = "Processing"

TxnUpdate(w) ==
    /\ pc[w] = "x_update"
    /\ \A x \in TxnRows(w) : lock[x] \in {NoWorker, w}
    /\ IF AllAffected(w)
         THEN /\ lock' = [x \in Rows |-> IF x \in TxnRows(w) THEN w ELSE lock[x]]
              /\ Goto(w, "x_commit") /\ UNCHANGED req
         ELSE Abort(w, "PAYMENT_STATE_UPDATE_FAILED")
    /\ UNCHANGED <<rows, now, tokens, notices, faults>>

\* Mutant of Settle: the UPDATE of payment_sessions is forgotten.
SettleWithoutSession(w) ==
    /\ orders' = [orders EXCEPT ![req[w].order].status = "Paid"]
    /\ accounts' = [accounts EXCEPT ![OrderAccount[req[w].order]] = "Sold"]
    /\ attempts' = [attempts EXCEPT ![req[w].rid].result = "Success",
                                    ![req[w].rid].reason = "OK"]
    /\ lock' = Unlocked(w)
    /\ UNCHANGED <<users, sessions>>

\* What COMMIT makes visible, and the locks it releases.
Settle(w) ==
    /\ orders' = [orders EXCEPT ![req[w].order].status = "Paid"]
    /\ accounts' = [accounts EXCEPT ![OrderAccount[req[w].order]] = "Sold"]
    /\ sessions' = [sessions EXCEPT ![req[w].sid].status = "Paid"]
    /\ attempts' = [attempts EXCEPT ![req[w].rid].result = "Success",
                                    ![req[w].rid].reason = "OK"]
    /\ lock' = Unlocked(w)
    /\ UNCHANGED users

TxnCommit(w) ==
    /\ pc[w] = "x_commit"
    /\ Settle(w)
    /\ Goto(w, "p_success")
    /\ UNCHANGED <<req, now, tokens, notices, faults>>

\* markAttemptFailedNoThrow; handlePay then records its own reason over it.
TxnMark(w) ==
    /\ pc[w] = "x_mark"
    /\ UpdateAttempt(req[w].rid, "Failed", req[w].reason)
    /\ FailWith(w, "FINALIZE_TXN_FAILED")
    /\ UNCHANGED <<users, orders, accounts, sessions, lock, now, tokens, notices, faults>>

----------------------------------------------------------------------------
(* handlePay after the transaction.                                        *)

\* Mutant of PaySuccess: the handler answers without submitting the notification.
PaySuccessSilently(w) ==
    /\ pc[w] = "p_success"
    /\ UpdateAttempt(req[w].rid, "Success", "OK")
    /\ Answer(w)
    /\ UNCHANGED <<users, orders, accounts, sessions, lock, now, tokens, notices, faults>>

\* updatePaymentAttemptResult(request_id, Success), again without a condition.
PaySuccess(w) ==
    /\ pc[w] = "p_success"
    /\ UpdateAttempt(req[w].rid, "Success", "OK")
    /\ Goto(w, "p_notify")
    /\ UNCHANGED <<users, orders, accounts, sessions, lock, now, tokens, req, notices, faults>>

\* Submit the notification to the worker pool and answer PAID.
PayNotify(w) ==
    /\ pc[w] = "p_notify"
    /\ notifyTasks' = [notifyTasks EXCEPT ![req[w].sid] = @ + 1]
    /\ paidAnswers' = paidAnswers \cup {req[w].rid}
    /\ Answer(w)
    /\ UNCHANGED <<rows, lock, now, tokens, notified, faults>>

\* Mutant of NotifyGateway: the task stays in the queue after it ran.
NotifyGatewayAgain(s) ==
    /\ notifyTasks[s] > 0
    /\ notified[s] < 2
    /\ notified' = [notified EXCEPT ![s] = @ + 1]
    /\ UNCHANGED <<rows, lock, now, tokens, pc, req, notifyTasks, paidAnswers, faults>>

\* A pool thread runs notifyPaymentResult and the gateway accepts it.
NotifyGateway(s) ==
    /\ notifyTasks[s] > 0
    /\ notifyTasks' = [notifyTasks EXCEPT ![s] = @ - 1]
    /\ notified' = [notified EXCEPT ![s] = @ + 1]
    /\ UNCHANGED <<rows, lock, now, tokens, pc, req, paidAnswers, faults>>

----------------------------------------------------------------------------
(* Faults: a statement fails or its reply is lost, the gateway does not    *)
(* accept a notification, the process dies.                                *)

Fault == faults < MaxFaults /\ faults' = faults + 1

\* The statement throws outside the transaction's try block: handleRequest
\* answers 500.  At x_session it is MySqlPool::acquire that throws.
HandlerThrows(w) ==
    /\ Fault
    /\ pc[w] \in (ConfirmPc \ {"c_token"}) \cup InitPc \cup
                 (PayPc \ {"p_token", "p_notify"}) \cup {"x_session"}
    /\ Answer(w)
    /\ UNCHANGED <<rows, lock, now, tokens, notices>>

\* An autocommit write took effect but its reply was lost: 500 as well.
WriteReplyLost(w) ==
    /\ Fault
    /\ \/ /\ pc[w] = "c_insert" /\ SessionOf(req[w].order) = {}
          /\ \E s \in SessionIds : sessions[s].status = "Absent" /\ InsertSession(s, req[w].order)
          /\ UNCHANGED attempts
       \/ pc[w] = "t_insert" /\ InsertAttempt(w) /\ UNCHANGED sessions
       \/ /\ pc[w] = "p_fail" /\ UpdateAttempt(req[w].rid, "Failed", req[w].reason)
          /\ UNCHANGED sessions
       \/ /\ pc[w] = "p_success" /\ UpdateAttempt(req[w].rid, "Success", "OK")
          /\ UNCHANGED sessions
    /\ Answer(w)
    /\ UNCHANGED <<users, orders, accounts, lock, now, tokens, notices>>

\* A statement of the transaction throws: the catch block rolls back.
TxnThrows(w) ==
    /\ Fault
    /\ pc[w] \in TxnPc
    /\ Abort(w, "PAYMENT_INTERNAL_ERROR")
    /\ UNCHANGED <<rows, now, tokens, notices>>

\* COMMIT took effect but its reply was lost: the catch block runs as if not.
CommitReplyLost(w) ==
    /\ Fault
    /\ pc[w] = "x_commit"
    /\ Settle(w)
    /\ pc' = [pc EXCEPT ![w] = "x_mark"]
    /\ req' = [req EXCEPT ![w].reason = "PAYMENT_INTERNAL_ERROR"]
    /\ UNCHANGED <<now, tokens, notices>>

\* markAttemptFailedNoThrow swallows its exception.
MarkThrows(w) ==
    /\ Fault
    /\ pc[w] = "x_mark"
    /\ FailWith(w, "FINALIZE_TXN_FAILED")
    /\ UNCHANGED <<rows, lock, now, tokens, notices>>

\* Mutant of NotifyFails: a task is dropped that was never queued.
NotifyFailsUnqueued(s) ==
    /\ Fault
    /\ notifyTasks' = [notifyTasks EXCEPT ![s] = @ - 1]
    /\ UNCHANGED <<rows, lock, now, tokens, pc, req, notified, paidAnswers>>

\* notifyPaymentResult fails: it logs and returns, nobody retries.
NotifyFails(s) ==
    /\ Fault
    /\ notifyTasks[s] > 0
    /\ notifyTasks' = [notifyTasks EXCEPT ![s] = @ - 1]
    /\ UNCHANGED <<rows, lock, now, tokens, pc, req, notified, paidAnswers>>

\* The backend dies and restarts: MySQL rolls open transactions back, queued
\* tasks are gone, the tables and the tokens the clients hold remain.
Crash ==
    /\ Fault
    /\ lock' = [x \in Rows |-> NoWorker]
    /\ pc' = [w \in Workers |-> "idle"]
    /\ req' = [w \in Workers |-> NoRequestLocals]
    /\ notifyTasks' = [s \in SessionIds |-> 0]
    /\ UNCHANGED <<rows, now, tokens, notified, paidAnswers>>

----------------------------------------------------------------------------
(* The other systems that write the shared tables, and the clock.          *)

\* handleRealAuthComplete: one autocommit UPDATE.
RealAuthComplete(u) ==
    /\ ~users[u].realAuth
    /\ users' = [users EXCEPT ![u].realAuth = TRUE]
    /\ UNCHANGED <<orders, accounts, sessions, attempts, lock, now, tokens, pc, req, notices, faults>>

\* The order system cancels, expires or reprices an order that is not paid.
OrderSystem(o) ==
    /\ lock[o] = NoWorker
    /\ orders[o].status = "PendingPay"
    /\ \/ /\ "cancel" \in External
          /\ \E st \in {"Cancelled", "Expired"} : orders' = [orders EXCEPT ![o].status = st]
       \/ /\ "reprice" \in External
          /\ \E p \in Prices : orders' = [orders EXCEPT ![o].price = p]
    /\ UNCHANGED <<users, accounts, sessions, attempts, lock, now, tokens, pc, req, notices, faults>>

\* The listing system moves an account that is not sold.
ListingSystem(a) ==
    /\ "listing" \in External
    /\ lock[a] = NoWorker
    /\ accounts[a] # "Sold"
    /\ \E st \in AccountStatus \ {"Sold"} : accounts' = [accounts EXCEPT ![a] = st]
    /\ UNCHANGED <<users, orders, sessions, attempts, lock, now, tokens, pc, req, notices, faults>>

\* The platform freezes a user or lifts the freeze.
UserSystem(u) ==
    /\ "freeze" \in External
    /\ \E st \in UserStatus : users' = [users EXCEPT ![u].status = st]
    /\ UNCHANGED <<orders, accounts, sessions, attempts, lock, now, tokens, pc, req, notices, faults>>

Tick ==
    /\ now < MaxTime
    /\ now' = now + 1
    /\ UNCHANGED <<rows, lock, tokens, pc, req, notices, faults>>

----------------------------------------------------------------------------

Arrive(w) ==
    \/ \E u \in Users, o \in Orders : StartConfirm(w, u, o)
    \/ \E t \in tokens, r \in RequestIds : StartInit(w, t, r)
    \/ \E r \in RequestIds, t \in tokens \cup {BadToken}, pw \in BOOLEAN : StartPay(w, r, t, pw)

HandlerStep(w) ==
    \/ ConfirmUser(w) \/ ConfirmOrder(w) \/ ConfirmAccount(w)
    \/ ConfirmSession(w) \/ ConfirmInsert(w) \/ ConfirmToken(w)
    \/ InitSession(w) \/ InitOrder(w) \/ InitAccount(w) \/ InitInsert(w)
    \/ PayAttempt(w) \/ PayToken(w) \/ PaySession(w) \/ PayOrder(w)
    \/ PayAccount(w) \/ PayUser(w) \/ PayFail(w) \/ PaySuccess(w) \/ PayNotify(w)
    \/ TxnSession(w) \/ TxnOrder(w) \/ TxnAccount(w) \/ TxnAttempt(w)
    \/ TxnUser(w) \/ TxnUpdate(w) \/ TxnCommit(w) \/ TxnMark(w)

WorkerFault(w) ==
    \/ HandlerThrows(w) \/ WriteReplyLost(w) \/ TxnThrows(w)
    \/ CommitReplyLost(w) \/ MarkThrows(w)

Environment ==
    \/ \E u \in Users : RealAuthComplete(u) \/ UserSystem(u)
    \/ \E o \in Orders : OrderSystem(o)
    \/ \E a \in Accounts : ListingSystem(a)
    \/ Tick

Next ==
    \/ \E w \in Workers : Arrive(w) \/ HandlerStep(w) \/ WorkerFault(w)
    \/ \E s \in SessionIds : NotifyGateway(s) \/ NotifyFails(s)
    \/ Crash
    \/ Environment

Spec == Init /\ [][Next]_vars

\* A worker thread keeps running its handler, a pool thread the queued tasks.
Fairness ==
    /\ \A w \in Workers : WF_vars(HandlerStep(w))
    /\ \A s \in SessionIds : WF_vars(NotifyGateway(s))

FairSpec == Spec /\ Fairness
----------------------------------------------------------------------------
(* What the payment path promises.                                         *)

\* An order is Paid exactly when its session is, and then its account is Sold:
\* the transaction of finalizePaymentSuccess settles all of them or none, whatever
\* fails, crashes or runs beside it.
SettledTogether ==
    /\ \A o \in Orders :
         orders[o].status = "Paid" =>
             /\ \E s \in SessionIds : sessions[s].order = o /\ sessions[s].status = "Paid"
             /\ accounts[OrderAccount[o]] = "Sold"
    /\ \A s \in SessionIds :
         sessions[s].status = "Paid" => orders[sessions[s].order].status = "Paid"

\* Two orders for the same account are never both Paid: the account row, locked
\* after the order row, serialises settlements of different orders.
SoldOnce ==
    \A o1, o2 \in Orders :
        /\ orders[o1].status = "Paid" /\ orders[o2].status = "Paid"
        /\ OrderAccount[o1] = OrderAccount[o2]
        => o1 = o2

\* A PAID answer, first or idempotent, is only ever given for an attempt whose
\* session has been settled, and an attempt recorded as Success is such an attempt.
PaidAnswerTrue ==
    \A r \in RequestIds :
        r \in paidAnswers \/ attempts[r].result = "Success" =>
            /\ attempts[r].sid \in SessionIds
            /\ sessions[attempts[r].sid].status = "Paid"

\* Page A's gateway is told of a payment at most once per session, and only of a
\* session that is settled (submit at the end of handlePay).
NoticeSound ==
    \A s \in SessionIds :
        /\ notifyTasks[s] + notified[s] <= 1
        /\ notifyTasks[s] + notified[s] > 0 => sessions[s].status = "Paid"

\* The row a worker's next statement must lock, if it needs one.
WaitsForRow(w, x) ==
    \/ pc[w] = "x_session" /\ x = req[w].sid
    \/ pc[w] = "x_order" /\ x = req[w].order
    \/ pc[w] = "x_account" /\ x = OrderAccount[req[w].order]
    \/ pc[w] \in {"x_attempt", "x_mark", "p_fail", "p_success"} /\ x = req[w].rid
    \/ pc[w] = "x_update" /\ x \in TxnRows(w)

\* How many of the four locks of the documented order a worker is past; a worker
\* that is to write an attempt outside the transaction counts as past the first three.
LockRank(w) ==
    CASE pc[w] = "x_session" -> 0
      [] pc[w] = "x_order" -> 1
      [] pc[w] = "x_account" -> 2
      [] pc[w] \in {"x_attempt", "x_mark", "p_fail", "p_success"} -> 3
      [] OTHER -> 4

\* The lock order payment_sessions, orders, accounts, payment_attempts excludes
\* deadlock: whoever waits for a row is behind the worker that holds it, so there
\* is no cycle, and markAttemptFailedNoThrow's second connection never waits for
\* the worker's own transaction.
NoLockCycle ==
    \A w, v \in Workers : \A x \in Rows :
        WaitsForRow(w, x) /\ lock[x] = v /\ ~(w = v /\ pc[w] = "x_update")
            => LockRank(w) < LockRank(v)

\* An order becomes Paid only out of PendingPay while its account is for sale, and
\* never leaves Paid: what is cancelled, expired or taken off sale between
\* handlePay's checks and the transaction is not sold.
PaysOnlyPending ==
    [][\A o \in Orders :
         /\ orders[o].status = "Paid" => orders'[o].status = "Paid"
         /\ orders[o].status # "Paid" /\ orders'[o].status = "Paid" =>
              /\ orders[o].status = "PendingPay"
              /\ accounts[OrderAccount[o]] \in {"OnSale", "Trading"}
              /\ users[OrderBuyer[o]].realAuth]_vars

\* Every request a worker takes is answered: no handler waits forever.
EveryRequestAnswered == \A w \in Workers : pc[w] # "idle" ~> pc[w] = "idle"

\* A settled payment is announced to the gateway.
PaidIsAnnounced ==
    \A s \in SessionIds : sessions[s].status = "Paid" ~> notified[s] > 0

\* An attempt recorded as Success stays one, so that a repeated request_id is
\* answered with its success.
SuccessIsFinal ==
    [][\A r \in RequestIds :
         attempts[r].result = "Success" => attempts'[r].result = "Success"]_vars

\* A pay request whose session is past its expire_at when handlePay reads the row
\* is refused: the handler does not go on to the order.
ExpiredSessionRefused ==
    [][\A w \in Workers :
         /\ pc[w] = "p_session"
         /\ sessions[req[w].tok.sid].expireAt <= now
         => pc'[w] # "p_order"]_vars

\* The orders whose payment the gateway was told of.
AnnouncedOrders ==
    {o \in Orders : \E s \in SessionIds : sessions[s].order = o /\ notified[s] > 0}

Settlement == INSTANCE PaymentSettlement WITH
    status <- [o \in Orders |-> orders[o].status],
    stock <- accounts,
    announced <- AnnouncedOrders

\* Seen from outside, the handlers, the transaction and the notification tasks are
\* the abstract service: one atomic, single sale of the account per order and one
\* announcement of it.
ImplementsSettlement == Settlement!Spec

----------------------------------------------------------------------------
(* The inductive invariant behind the safety properties.                   *)

\* The statements a worker runs while it holds the session's lock, and so on.
SessionHeld == TxnPc \ {"x_session"}
OrderHeld == SessionHeld \ {"x_order"}
AccountHeld == OrderHeld \ {"x_account"}
AttemptHeld == AccountHeld \ {"x_attempt"}
\* handlePay has found the session the token and the attempt name.
PayBound == {"p_order", "p_account", "p_user", "p_success", "p_notify", "x_mark"} \cup TxnPc
PaidPc == {"p_success", "p_notify"}

\* A session belongs to one order and an order has one session; attempts and
\* tokens name sessions that exist.
RowsLinked ==
    /\ \A s \in SessionIds :
         IF sessions[s].status = "Absent" THEN sessions[s].order = NoOrder
                                          ELSE sessions[s].order \in Orders
    /\ \A s1, s2 \in SessionIds :
         sessions[s1].order \in Orders /\ sessions[s1].order = sessions[s2].order => s1 = s2
    /\ \A r \in RequestIds :
         IF attempts[r].result = "Absent" THEN attempts[r].sid = NoSession
         ELSE attempts[r].sid \in SessionIds /\ sessions[attempts[r].sid].order \in Orders
    /\ \A t \in tokens : t.sid \in SessionIds /\ sessions[t.sid].order \in Orders

\* What a handler's locals are known to be at each statement.
RequestBound(w) ==
    /\ pc[w] \in ConfirmPc => req[w].user \in Users /\ req[w].order \in Orders
    /\ pc[w] = "c_token" =>
         req[w].sid \in SessionIds /\ sessions[req[w].sid].order \in Orders
    /\ pc[w] \in InitPc =>
         /\ req[w].sid \in SessionIds /\ sessions[req[w].sid].order \in Orders
         /\ req[w].rid \in RequestIds /\ attempts[req[w].rid].result = "Absent"
    /\ pc[w] \in InitPc \ {"t_session"} => req[w].order = sessions[req[w].sid].order
    /\ pc[w] \in PayPc \cup PayBound =>
         req[w].rid \in RequestIds /\ attempts[req[w].rid].result # "Absent"
    /\ pc[w] = "p_session" => req[w].tok.sid \in SessionIds
    /\ pc[w] \in PayBound =>
         /\ req[w].order \in Orders
         /\ req[w].sid \in SessionIds
         /\ sessions[req[w].sid].order = req[w].order
         /\ attempts[req[w].rid].sid = req[w].sid

RequestsBound == \A w \in Workers : RequestBound(w)

\* No two handleAttemptInit requests hold the same fresh request id.
FreshIds ==
    \A w, v \in Workers :
        pc[w] \in InitPc /\ pc[v] \in InitPc /\ req[w].rid = req[v].rid => w = v

\* A worker holds exactly the locks of the statements it is past.
Holds(w, x) ==
    \/ pc[w] \in SessionHeld /\ x = req[w].sid
    \/ pc[w] \in OrderHeld /\ x = req[w].order
    \/ pc[w] \in AccountHeld /\ x = OrderAccount[req[w].order]
    \/ pc[w] \in AttemptHeld /\ x = req[w].rid

LocksHeld == \A w \in Workers, x \in Rows : lock[x] = w <=> Holds(w, x)

\* What the transaction checked under a lock is still so.
ChecksStand ==
    \A w \in Workers :
        /\ pc[w] \in SessionHeld => sessions[req[w].sid].status = "WaitingPay"
        /\ pc[w] \in OrderHeld => orders[req[w].order].status = "PendingPay"
        /\ pc[w] \in AccountHeld => AccountPayable(OrderAccount[req[w].order])
        /\ pc[w] \in AttemptHeld => attempts[req[w].rid].result = "Processing"
        /\ pc[w] \in {"x_update", "x_commit"} => users[OrderBuyer[req[w].order]].realAuth

\* Between the commit and the submit a worker is the only one to have settled its
\* session, and nobody has announced it.
AboutToNotify ==
    /\ \A w \in Workers : pc[w] \in PaidPc =>
         /\ sessions[req[w].sid].status = "Paid"
         /\ notifyTasks[req[w].sid] = 0 /\ notified[req[w].sid] = 0
    /\ \A w, v \in Workers :
         pc[w] \in PaidPc /\ pc[v] \in PaidPc /\ req[w].sid = req[v].sid => w = v

\* The inductive invariant: SoldOnce, NoLockCycle and the rest follow from it.
IInv ==
    /\ TypeOK
    /\ RowsLinked
    /\ RequestsBound
    /\ FreshIds
    /\ LocksHeld
    /\ ChecksStand
    /\ AboutToNotify
    /\ SettledTogether
    /\ SoldOnce
    /\ PaidAnswerTrue
    /\ NoticeSound
=============================================================================
