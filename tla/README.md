# Verification of paid_server

TLA+ models of the payment server (backend, gateway, MySQL tables, WebSocket push), the TLC
configurations that check them and TLAPS proofs of the results that matter most.
`PROJECT.json` lists runs, theorems, mutants, hazards, and for every definition the source
lines it stands for.

## The system

| Component | State | Operations | Talks to |
|---|---|---|---|
| Payment handlers (`backend/payment_impl.hpp`) | none of their own | confirm, attempt/init, pay, real-auth, login, logout, order and page look-ups | MySQL pool, Redis pool, worker pool |
| Settlement (`finalizePaymentSuccess`, `mysql_pool.hpp`) | rows of `orders`, `accounts`, `payment_sessions`, `payment_attempts`, InnoDB row locks | lock and check four rows, read the buyer, four conditional updates, commit or roll back, mark the attempt | MySQL |
| QR token (`jwt.hpp`) | none; the token carries session and expiry | issue, verify | handlers |
| Notification (`gateway_notify.hpp`) | a task in the backend's pool | one blocking POST to the gateway | gateway HTTP |
| HTTP server and worker pool (`http_server.hpp`, `thread_pool.hpp`, one copy per process) | connection slots, task queue, workers, stop flag | accept, refuse, submit, run, close, stop | both processes |
| Gateway (`gateway_impl.hpp`, `http_forwarder.hpp`) | none | check the origin, route, authenticate, forward (blocking), `/internal/payment/result` | backend HTTP, Redis, registry |
| Login sessions (`payment_impl.hpp`, `redis_pool.hpp`, `session_store.hpp`) | keys in Redis with a TTL, a cookie in the browser | login saves, every request looks up, logout removes | Redis, MySQL |
| Configuration (`config.hpp`, one copy per process) | the key/value pairs of one `.env` file | load, read and check a section | both `main`s and the handlers |
| WebSocket side (`gateway/main.cpp`, `ws_registry.hpp`) | one thread per page A, two maps session/descriptor, connection count | accept, handshake, bind, read loop, unbind, close, push | page A, gateway handler |
| Connection pools (`mysql_pool.hpp`, `redis_pool.hpp`, `session_store.hpp`) | queue of connections | acquire with timeout, ping, reconnect, release, shutdown | MySQL, Redis |

A payment runs through all of them: page A confirms an order (a session row and a QR token)
and opens a WebSocket; page B scans the token, creates an attempt and pays; the backend settles
in one transaction, answers page B and submits a task that tells the gateway, which pushes the
result to page A.

What is hard here: workers race for the same order, account, session or request id between
any two SQL statements; other systems change orders, accounts and users meanwhile; a statement
may fail, or succeed and lose its reply; the process may die after the commit; two pools of
blocking workers call each other; descriptor numbers are closed under a thread and reused; one
browser logs out and in while its requests are under way; Redis fails in the middle of a login or a
logout; sections of the configuration are read for the first time when money is about to move.
`hazards` in `PROJECT.json` lists each of these at its line.

What makes the parts correct: settlement is all or nothing, an account is sold once, PAID is
only said of what is settled, page A is told once and only the truth, requests end; slots,
queues and counters are exact; a push reaches the page that asked for it; a request acts for the user
its cookie was issued to, and for nobody once that user has logged out.

## Modules

| Module | Models | Built on |
|---|---|---|
| `PaymentFlow` | confirm, attempt/init, pay, the settlement transaction, notification tasks, faults, crashes, other writers of the tables, the clock | |
| `PaymentSettlement` | abstract specification: an order and its account are settled in one step, a settled order is announced at most once | implemented by `PaymentFlow` |
| `MCPaymentFlow` | model values and symmetry for TLC | `PaymentFlow` |
| `PaymentFlowProofs` | theorems about `PaymentFlow` | `PaymentFlow` |
| `HttpServer` | accept loop, slots, pool queue, workers, shutdown, restart | |
| `GatewayBackend` | two `HttpServer` instances whose handlers call each other | `HttpServer` |
| `HttpServerProofs` | what each step of one server does to slots, queue and workers | `HttpServer` |
| `GatewayBackendProofs` | the two pools do not block each other below a bound; slots and queues of both servers are exact | `GatewayBackend`, two instances of `HttpServerProofs` |
| `ConnectionPool` | `MySqlPool`, `RedisPool` and `SessionStore` as pools: init, acquire, ping, reconnect, release, shutdown, outages | |
| `ConnectionPoolProofs` | no wake-up is lost, a connection has one owner, none is lost or left open | `ConnectionPool` |
| `CountingLemmas` | sizes of finite sets that elements join and leave | used by the proofs |
| `WsRegistry`, `MCWsRegistry` | the WebSocket accept loop, threads, registry, descriptor table, the gateway's start and death | |
| `WsRegistryProofs` | the counter is exact; results reach their page when no two pages share a session | `WsRegistry` |
| `Config` | what every section of both processes accepts, when it is read, what addresses mean to the processes | |
| `LoginSession` | the gateway's `handleRequest`, login, logout, real-auth, order look-up, sessions in Redis, the browser's cookie | `Config` |
| `LoginSessionProofs` | requests act for the right user, logged-out sessions stay out, people are unique | `LoginSession` |
| `PaymentResult`, `MCPaymentResult` | from the QR code on page A to the result on page A, through both processes | `WsRegistry`, `Config`; implements `PaymentSettlement` |
| `PaymentResultProofs` | pages tell the truth, money moves only with a right configuration, the refinement | `PaymentResult`, `WsRegistryProofs` |

### PaymentFlow

`pc[w]` is the statement worker `w` is about to run, `req[w]` the inputs and locals of its handler.
The prefixes follow the code: `c_` handleConfirm, `t_` handleAttemptInit, `p_` handlePay, `x_`
finalizePaymentSuccess. One action is one SQL statement, one token operation or one submit,
because that is what another worker can come between. `lock` holds InnoDB's exclusive row locks:
`FOR UPDATE` and every UPDATE wait for them, COMMIT and ROLLBACK release them. The four updates
of the settlement become visible at COMMIT, so `TxnUpdate` only takes locks and decides, and
`Settle` writes. In InnoDB a locking read sees the latest committed row and the transaction's
first plain read (the buyer) takes the snapshot, so both read the current row here.

Abstractions: `account_id` and `buyer_id` of an order do not change, so their copies in sessions
and attempts are read from the order; Cancelled and RiskLimited users behave as Frozen; a token is
its session and expiry, or a bad token; a password is right or wrong; rejected requests that change
nothing (bad JSON, missing fields, a bad token at attempt/init, an unknown request id) are not
steps; generated ids are fresh. Orders, accounts and users exist. The session states Invalid and
Expired are not reachable: nothing in the program writes them, `expireTimeoutPaymentSessions` has
no caller.

Faults (`MaxFaults` bounds them): a statement throws (`HandlerThrows`, `TxnThrows`), a write took
effect but its reply was lost (`WriteReplyLost`, `CommitReplyLost`), marking the attempt fails
(`MarkThrows`), the notification fails (`NotifyFails`), the process dies (`Crash`).

### HttpServer and GatewayBackend

A job is a connection or a submitted task: in the kernel's backlog, queued, running, replied,
closed, or refused. A worker is busy with a job from the pop to the end of the task. `phase`
follows SIGTERM, the return of `run`, and `~WorkerPool`, which lets the workers empty the queue.
`GatewayBackend` gives the handlers their content: a gateway worker that forwards is blocked until
the backend job has replied or is gone; a notification task is blocked until the gateway's job is. On either side a request that cannot be read
is dropped with its connection.

The properties of one server are stated of both (`ServersSlotsExact`, `ServersQueueExact`), so that
they are checked with handlers that block, not only with handlers that return.

### WsRegistry

Threads and registry know numbers, the kernel's table `socket` says which connection a number
denotes; `reads[c]` is the connection a thread's blocked `read()` works on. Closing and reusing a
number under a thread is therefore an ordinary behaviour. `bind` and the write of BIND_SUCCESS are two
steps, because the lock is given up between them. `Die` is the end of the process for any reason: the
threads are detached, so `main` does not wait for them; `SigPipe` is a write to a page that has reset its
connection, which ends the process because nothing ignores SIGPIPE.

### Config

Both processes read one file. A value is a class (absent, empty, a word, a negative number, zero, a
positive number, 127.0.0.1, "localhost", ...); `Accepts` says which classes each getter takes, `BackendNeeds` and
`GatewayNeeds` which keys a section reads with which getter, `BackendStart` and `GatewayStart` which
sections `main` reads before it serves. The other sections throw in the middle of a request. `Origin`
and `NotifyOutcome` are what the configured addresses make of a browser's request and of the backend's
notification, when all processes run on one machine, as `run_all.sh` starts them. `Envs` are a file that
is right and every file that differs from it in one key, or in the addresses of backend and Nginx;
`.env.test` and `.env.example` are among them. Addresses of further network interfaces are not a
class of their own: for the backend they behave as "localhost" does (reachable, but not equal to the
peer's address), for the gateway as a name does (the notification fails).

### LoginSession

`req[q]` is a request on its way: looked up by the gateway, at the backend, about to save its session,
or answered with a Set-Cookie header the browser has not taken yet. What a request carries is fixed
when the browser sends it, so that cookies change under requests that are under way. `store` and `ttl`
are the keys `payment:session:<id>`. An action of the server is one access to Redis or one UPDATE.
Generated ids are fresh: `makeLoginSessionId` takes one nobody knows, and an id is used again only when
it is neither in Redis nor in a cookie nor in a request. A person's data is typed in the normal form or
in another one, and `HashIdentity` is what normalising and hashing make of it. `owner` and
`ended` are history for the properties. Redis comes back from a failure with all keys or with none; that
it restores an older snapshot is left out.

### PaymentResult

The backend is reduced to what `PaymentFlow` is shown to implement (an order is settled in one step)
and what happens to the notification after that; the gateway's WebSocket side is `WsRegistry`. Page A
shows nothing, is connecting, shows the QR code (on BIND_SUCCESS, whatever it showed before) or the
result; it neither reconnects nor asks again. `conf` is what one file of `Config` makes of the
deployment. Both processes may die at any time and be started again. A page has a payment session of
its own here; two pages with one session are the run `ws_wrong_page`.

### ConnectionPool

One behaviour is about one pool (`kind`), because the three differ only in what `acquire` does with a
connection that does not answer. A thread is out of the pool, waits, pings what it popped, makes a new
connection, or uses one; `stack` holds its guards (two only for `MySqlPool`, where
`markAttemptFailedNoThrow` acquires under the guard of `finalizePaymentSuccess`). `woken` are the waiters
a notify has reached; they look at the predicate again and may find the queue empty. `MySqlPool` pings
and reconnects with the mutex held, so nobody else enters meanwhile. The pools are statics made before
`WorkerPool`, so `shutdown` runs when the workers have been joined; the branch of `acquire` that wakes up
in a shutdown is never taken. As many addresses as connections plus one are enough: a connection is made
only in place of a closed one. `createConnection` throws while the server is down, and may throw while it is
up (`CreateThrows`: refused, timed out, wrong credentials).

## Runs

| Run | Question | Bounds |
|---|---|---|
| `pay_two_orders` | Is settlement atomic and truthful through a fault, an account sold once, is there no lock cycle, does the whole implement `PaymentSettlement`? | two workers, two orders for one account, a session and a request id for each, one fault of any kind at any statement |
| `pay_external` | Can anything but a pending order for an account on sale be paid? Is the invariant of the proofs one? | two workers, one order, two prices, every external change, a clock of two ticks (before and after expiry) |
| `pay_live` | Is every request answered and every settled payment announced (no faults)? | two workers, one order, two attempts, accounts relisted |
| `servers` | Are slots and queues exact, do the processes never block each other, does every call end, is what was accepted served, also when requests cannot be read and both are stopped and restarted? | two requests with their notifications, pools of one and two workers (one request fewer than the workers), connection limits of three and one; connections are refused on both sides, and each pool is at times all waiting for the other |
| `login` | Does a request act for the user its cookie was issued to, is what was logged out refused, does a cookie work, are people unique, do a frozen user's sessions end? | two users, one browser with two requests under way, two session ids, a lifetime of two ticks, one fault (a lost reply or a failure of Redis), every file of `Config` with which both processes start |
| `payment_result` | Is a QR code shown only with a binding, does a result reach its own page, is what pages say true, is a waiting page told, does late configuration stop a payment in time, does the whole implement `PaymentSettlement`? | two pages with a session each, two descriptor numbers, a limit of one (overshot by the race of accept loop and thread), every file of `Config`, any number of deaths and restarts |
| `pools` | Does a connection have one owner, is no wake-up lost, is a connection lost only to a connect that failed, is all closed at the end, does every acquire end? | three threads for two connections (so that two wait while one holds both), three faults (outages, dropped connections, refused connects), each of the three pools |

Two workers are enough for the payment runs because every interaction goes through one row or one
lock; the theorems hold for any number. Deadlock is checked in every run. `IdSymmetry` permutes
workers, orders, session ids and request ids and is used only in runs without
liveness. In `login`, two
requests are enough because a request meets another one only through one Redis key or through the cookie,
and two ids because the browser keeps one while the other is issued.

Runs that disagree with the documents (details and quotes under `findings`):

| Run | What TLC finds |
|---|---|
| `attempt_overwritten` | of two concurrent pay requests with one request id, the loser overwrites the winner's Success with Failed |
| `paid_after_expiry` | a token issued late lets handlePay go on after the session's `expire_at` |
| `pools_deadlock` | with as many requests under way as both pools have workers (40 by default), gateway and backend wait for each other forever |
| `ws_wrong_page` | a page that reconnects leaves a thread with a reused number; a result is written to the page of another session |
| `redis_pool_shrinks` | after a restart of Redis, every acquire of `RedisPool` loses the connection it popped; the pool runs empty |

Also visible in the models, without a run: an expired session is neither reused nor replaced, so that
confirming its order hits the unique key for good (`ConfirmSession`, `ConfirmInsert`); the specific failure reason is replaced by
`FINALIZE_TXN_FAILED` (`TxnMark`, then `PayFail`); `WS_MAX_CONNECTIONS` is tested before the new
thread has counted itself (`Accept`, `Start`); a notification lost to a fault or a crash after the
commit is never repeated (`NotifyFails`, `Crash`); BIND_SUCCESS can arrive after PAYMENT_RESULT and the
page then shows the QR code of a paid order (`Bind`, `NotifyPush`, `SendBound`); with
`PAYMENT_BACKEND_IP=localhost`, as in `.env.example:49`, payments work and every notification is refused
with 403 (`NotifyOutcome`); a missing `PAYMENT_GATEWAY_IP` is noticed only after the first payment and
ends the backend (`NotifyThrows`); the answer to a logout can clear the cookie of a newer login
(`Receive`); submitting the same real-auth data again is answered 500, because the UPDATE affects no row
(`RealAuthComplete`); an `acquire` of `MySqlPool` or `SessionStore` whose reconnect fails takes a connection from
the pool for good (`ReconnectFails`); a user frozen after the settlement read the status still pays (`TxnUser`).

## Fairness

`PaymentFlow!FairSpec`: a worker keeps running its handler (an OS thread; row-lock waits are granted
because a lock, once free, is free until someone takes it, and the lock order excludes cycles) and a
pool thread runs queued tasks. Requests need not arrive. `GatewayBackend!FairSpec`: the accept loops
and the workers go on, handlers return (reads have `HTTP_READ_TIMEOUT_SECONDS`), but
a handler blocked in a read of the other process has no step until that process answers: these reads
have no timeout in the code. Nothing is assumed of browsers, of stop signals or of a shutdown. `LoginSession!Spec`: workers run, answers
that are not lost arrive, time passes. `PaymentResult!Spec`: WebSocket threads and the worker with the
notification run; pages and people do what they like, and a thread that waits for the upgrade request of
a page that is there may wait for ever, as in the code. `ConnectionPool!Spec`: calls to a
server end (they have timeouts), and a thread whose `wait_for` is over gets the mutex at some time (strong
fairness of `Timeout`, because others come between); statements need not end.

## Proofs

`PaymentFlowProofs` proves, for any sets of workers, users, orders, accounts, ids and prices, any
TTLs and any number of faults, from the four named assumptions of `PaymentFlow` (TTLs are positive,
orders have a buyer and an account, the "no value" constants are not values, rows of different
tables differ):

* `Invariance`, `Typing`: the inductive invariant `IInv` and the types;
* `Settled`, `OneSale`, `NoFalsePaid`, `SoundNotices`, `NoDeadlock`: the safety properties;
* `OnlyPendingPaid`: the action property;
* `Refinement`: `PaymentFlow` implements `PaymentSettlement`.

The properties are not inductive alone. `SoldOnce` needs that what a transaction checked still
stands at COMMIT (`ChecksStand`), which needs that a worker holds exactly the locks of the statements
it is past (`LocksHeld`), which needs that its locals name the rows it locked and that those belong
together (`RequestsBound`, `RowsLinked`: one session per order, attempts and tokens name existing
sessions). `NoticeSound` needs that between COMMIT and submit a worker is the only one to have
settled its session (`AboutToNotify`). Each action is shown to preserve each part; `IInv` is also an
invariant of the run `pay_external`.

`GatewayBackendProofs` proves `QueueInvariance` (`PoolsInv` is an invariant of both processes, for any
limits, thread counts, stops and restarts) and from it `PoolsDoNotBlock`: with fewer requests under way than both pools have
workers together, `NoMutualWait` always holds, whatever the limits and stops. The argument: a
notification exists only once its request has left the backend's queue (`PoolsInv`), so the
requests a blocked gateway waits for and those whose notifications block the backend are disjoint
sets; to block both pools they must be at least as many as there are workers. `pools_deadlock` shows
that the bound is tight.

The same module proves `ServersTyping`, `SlotsNeverLeak` and `QueuesExact`: counters and queues of both
processes are exact, for any numbers of requests, workers and connections. `HttpServerProofs` shows for one
server that each of its actions keeps types, slots and queue together (`ServerInv`, which is inductive);
`GatewayBackendProofs` instantiates it for gateway and backend, and shows that every step of the
composition is a step of one, of both, or of neither. A step of both is a handler that submits
a task to its own pool or connects to the other process.

`ConnectionPoolProofs` proves, for any threads, addresses, `PoolSize` and faults and for each of the three
kinds of pool:

* `WakeUps`: while a thread sleeps unnotified there are at least as many notified threads as connections
  in the queue. A release that adds a connection also notifies a sleeper, and a notified thread leaves the
  set only with a connection or when there is none; this needs the types, that a thread using a connection
  has a guard, and that nobody waits before `init` is done;
* `OneOwnerEach`, `PoolTyping`, `NoneLeftOpen`, `NoneLost`, from the inductive invariant `OwnerInv`
  (`OwnersClear`). `OneOwner` alone is not inductive: a release could push a connection that is a second
  time on the same stack, a dead connection could be in a hand that is not pinging, and a reconnect could
  open an address that is still in use. `OwnerInv` adds that a hand is full exactly during the ping
  (`HandsFull`), that neither queue nor stack names a connection twice (`NoneTwice`), that `MySqlPool` and
  `SessionStore` know of every open connection (`NoneForgotten`) and that queue, threads and replacements
  under way are together at most `PoolSize` (`Sized`). Each step moves, closes or opens one connection, and
  the sum is followed with `CountingLemmas`. `NoneLost` says that a connection
  is lost exactly when a `createConnection` throws, and then one. `RedisPool` is exempt from `NoneForgotten` and `NoneLost`:
  `redis_pool_shrinks` shows what it does instead.

`LoginSessionProofs` proves the safety properties of `LoginSession` for any users, browsers, requests under
way, session ids, lifetimes, faults and files of `Config`, from `LoginAssumption` (requests and
ids are finitely many, a lifetime is positive, "no value" is not a value). The inductive invariant `LoginInv` adds to the properties
what the place of a request says about its contents (`RequestsShaped`), that a session id somebody
knows is in Redis with its owner or recorded as ended, and one nobody knows has no history
(`SessionsRecorded`; without it a session id used again could inherit another user's history), that
there is an unknown id for every login under way (`IdsLeft`, by counting) and that completed profiles hold
normalised data (`ProfilesUnique`, which `PeopleUnique` needs: the unique keys compare hashes, not people).

`WsRegistryProofs` proves `CountIsExact` for any pages, sessions and descriptor numbers, and
`ResultsGoHome`: if no two pages wait for one session (`OneSessionPerPage`), a result is written only to the
connection of its page, although numbers are closed and reused under the threads. The invariant `PagesInv`
says that a thread's number denotes its connection until it closes it (`OwnNumber`), that a thread
reads its own connection (`OwnReads`) and that the two maps hold exactly the bindings of threads between
`bind` and `unbind` (`MapsExact`). The hypothesis is needed: `ws_wrong_page` violates the property with two pages
of one session, because the second `bind` of a session closes the number of the first under its thread.

`PaymentResultProofs` lifts both to the composition (every step of `PaymentResult` is a step of `WsNext` or leaves
the WebSocket side alone), where they hold through deaths and restarts of both processes, and proves for
every configuration of `Config`: `ResultTyping`, `ResultSlots`, `ConfigBeforeMoney` (a page past handleConfirm and a
phone that scanned are evidence of the sections read so far: `ConfigKept`), `ResultRefinement`
(`PaymentResult` implements `PaymentSettlement`; it needs that what is announced was settled first, `SettledFirst`),
and with `OneSessionPerPage`, which the instance of the run `payment_result` satisfies, `ResultsReachTheirPage`,
`PagesTellTheTruth` and `QrCanBeAnswered`.

The inductive invariants `OwnerInv`, `LoginInv`, `PagesInv`, `ResultInv` and `DisplayInv` were found with TLC on
the instances of the runs before they were proved.

Only model-checked: the liveness properties (`EveryRequestAnswered`, `PaidIsAnnounced`, `EveryCallAnswered`,
`AcceptedIsServed`, `FrozenFadesOut`, `WaitingPageIsTold`, `GoneIsForgotten`, `AcquireEnds`) and the absence of
deadlock: fairness and ENABLED are out of the prover's reach. Every invariant and every other action
property of a passing run is a theorem. What the five violation runs show are counterexamples, so there is
nothing to prove of them but the conditions under which the property does hold (`PoolsDoNotBlock`,
`ResultsGoHome`, `NoneLost`).

## Not modelled, and the plan

Not modelled: logging (output only), HMAC, Base64 and JSON (library code: a token, a password or an
identity is right or wrong, equal or different), masks, the text of the configuration's lines, forms and
wording of the browser pages, scripts and tests. `PaymentFlow` and `ConnectionPool` are not composed: a
connection on which ROLLBACK fails is one that MySQL has lost, so the server ends its transaction and
the next `acquire` replaces it, and nothing passes from one use to the next. What a task does to the `Server`
object after `main` has returned is undefined behaviour without a state to speak of.

Next, proofs: what `pay_external`'s clock decides (a condition on the lifetimes of token and session under
which `ExpiredSessionRefused` holds), and a condition on requests under which `SuccessIsFinal` holds.
