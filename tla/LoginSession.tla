---------------------------- MODULE LoginSession ----------------------------
(***************************************************************************)
(* Logging in, acting as the logged-in user and logging out: the gateway's *)
(* handleRequest (gateway_impl.hpp) with its origin check, routing and     *)
(* session look-up (common/session_store.hpp), the backend's handlers of   *)
(* these requests (payment_impl.hpp) and the sessions in Redis             *)
(* (common/redis_pool.hpp), with a browser that keeps the session_id in    *)
(* its cookie jar and has several requests under way.                      *)
(*                                                                         *)
(* What a request asks for beyond its route (which user, which order, a    *)
(* right or a wrong password) is chosen where the handler reads it.        *)
(***************************************************************************)
EXTENDS Naturals, FiniteSets, Config

CONSTANTS
    Users,        \* rows of the users table
    Browsers,
    Requests,     \* requests under way at once
    Sids,         \* session ids in use at once; randomHex never repeats one
    Identities,   \* people: an e-mail address and an id card
    Freezable,    \* users the platform freezes
    Ttl,          \* LOGIN_SESSION_TTL_SECONDS
    MaxFaults,    \* calls whose reply is lost and failures of Redis
    None

ASSUME LoginAssumption ==
    /\ Ttl \in Nat \ {0} /\ MaxFaults \in Nat
    /\ Freezable \subseteq Users
    /\ IsFiniteSet(Requests) /\ IsFiniteSet(Sids)
    /\ None \notin Users \cup Sids \cup Identities

VARIABLES
    conf,      \* what the configuration makes of this deployment
    store,     \* Redis: payment:session:<id> -> user_id
    ttl,       \* Redis: the time left of each key
    redisUp,
    faults,
    status,    \* users.status
    profile,   \* users: e-mail and id card hashes, real_auth_completed
    jar,       \* the session_id cookie of each browser
    req,       \* the requests under way
    owner,     \* the user a session id was issued to, as long as somebody knows the id
    ended      \* "no"; "gone": expired or lost; "loggedOut": a logout was answered 200

redis == <<store, ttl, redisUp>>
users == <<status, profile>>
\* What the actions determine; the history variables follow, see Record.
state == <<conf, redis, faults, users, jar, req>>
vars == <<state, owner, ended>>

\* order: GET orders/<sn> and POST confirm; page: the three routes of page B; outside:
\* every other path.
Routes == {"login", "logout", "order", "real_auth", "page", "outside"}

\* set: the session_id of a Set-Cookie header; None clears it.
Idle == [pc |-> "idle", route |-> "outside", browser |-> None, cookie |-> None,
         user |-> None, set |-> None]

\* E-mail address and id card as they are typed: as normalised, or with spaces around
\* them or letters of the other case.
Typed == [person : Identities, form : {"normal", "other"}]

TypeOK ==
    /\ store \in [Sids -> Users \cup {None}]
    /\ ttl \in [Sids -> 0..Ttl]
    /\ \A s \in Sids : store[s] # None <=> ttl[s] > 0
    /\ redisUp \in BOOLEAN /\ faults \in 0..MaxFaults
    /\ status \in [Users -> {"Normal", "Frozen"}]
    /\ profile \in [Users -> [id : Typed \cup {None}, done : BOOLEAN]]
    /\ jar \in [Browsers -> Sids \cup {None}]
    /\ req \in [Requests -> [pc : {"idle", "lookup", "backend", "save", "answered"},
                             route : Routes, browser : Browsers \cup {None},
                             cookie : Sids \cup {None}, user : Users \cup {None},
                             set : Sids \cup {None}]]
    /\ owner \in [Sids -> Users \cup {None}]
    /\ ended \in [Sids -> {"no", "gone", "loggedOut"}]

----------------------------------------------------------------------------
(* The configuration, as far as these requests meet it.                    *)

ConfOf(d) ==
    [origin |-> Origin(d), reach |-> Connects(d.backendIp),
     bad |-> d.backendBad \cap {"passwordHash", "runtime", "hash"}, emptyPool |-> d.emptyPool]

Init ==
    /\ conf \in {ConfOf(Deployment(env)) : env \in ServingEnvs}
    /\ store = [s \in Sids |-> None]
    /\ ttl = [s \in Sids |-> 0]
    /\ redisUp = TRUE /\ faults = 0
    /\ status = [u \in Users |-> "Normal"]
    /\ profile = [u \in Users |-> [id |-> None, done |-> FALSE]]
    /\ jar = [b \in Browsers |-> None]
    /\ req = [q \in Requests |-> Idle]
    /\ owner = [s \in Sids |-> None]
    /\ ended = [s \in Sids |-> "no"]

Fault == faults < MaxFaults /\ faults' = faults + 1
NoFault == UNCHANGED faults

\* An answer without a Set-Cookie header leaves the browser as it is: the request is
\* over.  One with the header is still on its way.
Answer(q, code) == req' = [req EXCEPT ![q] = Idle]
AnswerSetting(q, code, s) == req' = [req EXCEPT ![q].pc = "answered", ![q].set = s]

Known(s) ==
    \/ store[s] # None
    \/ \E b \in Browsers : jar[b] = s
    \/ \E q \in Requests : s \in {req[q].cookie, req[q].set}

\* The bound Sids: a login begins only while there is an id left for it.
IdLeft ==
    Cardinality({q \in Requests : req[q].route = "login" /\ req[q].pc # "answered"})
        < Cardinality({s \in Sids : ~Known(s)})

----------------------------------------------------------------------------
(* The gateway's handleRequest.                                            *)

requiresAuth == {"order", "real_auth"}

isForwardApi == Routes \ {"outside"}

\* The other handlers do not look at the cookie.
ReadsCookie == requiresAuth \cup {"logout"}

\* forwardToBackend, with the X-User-Id header when there is a user.
Forward(r, u) == [r EXCEPT !.pc = "backend", !.user = u]

\* Refused at once: the origin (403, or closed when the section cannot be read), the
\* path (404), a request without the cookie (401), the backend out of reach (502).
RefuseRequest(q, b, route) ==
    /\ req[q].pc = "idle"
    /\ \/ conf.origin # "accepted"
       \/ route \notin isForwardApi
       \/ route \in requiresAuth /\ jar[b] = None
       \/ route \notin requiresAuth /\ ~conf.reach
    /\ UNCHANGED state

\* A browser's request, with the cookie its jar holds now, up to the session look-up.
HandleRequest(q, b, route) ==
    LET s == IF route \in ReadsCookie THEN jar[b] ELSE None
        r == [Idle EXCEPT !.route = route, !.browser = b, !.cookie = s]
    IN
    /\ req[q].pc = "idle"
    /\ conf.origin = "accepted"
    /\ route \in isForwardApi
    /\ route = "login" => IdLeft
    /\ IF route \in requiresAuth
         THEN r.cookie # None /\ req' = [req EXCEPT ![q] = [r EXCEPT !.pc = "lookup"]]
         ELSE conf.reach /\ req' = [req EXCEPT ![q] = Forward(r, None)]
    /\ UNCHANGED <<conf, redis, faults, users, jar>>

\* Mutant of UserIdOf: a look-up renews the session.
UserIdOfRenewing(q) ==
    LET u == store[req[q].cookie] IN
    /\ req[q].pc = "lookup" /\ redisUp
    /\ IF u = None \/ ~conf.reach THEN Answer(q, IF u = None THEN 401 ELSE 502)
                                  ELSE req' = [req EXCEPT ![q] = Forward(@, u)]
    /\ ttl' = [ttl EXCEPT ![req[q].cookie] = IF u = None THEN 0 ELSE Ttl]
    /\ UNCHANGED <<conf, store, redisUp, faults, users, jar>>

\* SessionStore::userIdOf: GET, which does not touch the key's time to live; then
\* forwardRequest.
UserIdOf(q) ==
    LET u == store[req[q].cookie] IN
    /\ req[q].pc = "lookup" /\ redisUp
    /\ IF u = None \/ ~conf.reach THEN Answer(q, IF u = None THEN 401 ELSE 502)
                                  ELSE req' = [req EXCEPT ![q] = Forward(@, u)]
    /\ UNCHANGED <<conf, redis, faults, users, jar>>

\* The catch around it: no connection, no reply.
UserIdOfThrows(q) ==
    /\ req[q].pc = "lookup"
    /\ IF redisUp THEN Fault ELSE NoFault
    /\ Answer(q, 503)
    /\ UNCHANGED <<conf, redis, users, jar>>

----------------------------------------------------------------------------
(* The answer on its way to the browser.                                   *)

\* Answers to requests of one browser may overtake each other.
Receive(q) ==
    /\ req[q].pc = "answered"
    /\ jar' = [jar EXCEPT ![req[q].browser] = req[q].set]
    /\ req' = [req EXCEPT ![q] = Idle]
    /\ UNCHANGED <<conf, redis, faults, users>>

\* The backend's reply is cut off: forwardToBackend makes it a 502 without its headers.
ReplyLost(q) ==
    /\ req[q].pc = "answered"
    /\ Fault
    /\ Answer(q, 502)
    /\ UNCHANGED <<conf, redis, users, jar>>

----------------------------------------------------------------------------
(* The backend's handleLogin.                                              *)

\* Mutant of LoginUser: a missing row is taken for a user.
LoginUserMissingToo(q) ==
    /\ req[q].pc = "backend" /\ req[q].route = "login"
    /\ \E u \in Users \cup {None} : req' = [req EXCEPT ![q].pc = "save", ![q].user = u]
    /\ UNCHANGED <<conf, redis, faults, users, jar>>

\* getUserByUsername finds a normal user, the password is right, and the sections with
\* the secret and the session's lifetime can be read.
LoginUser(q) ==
    /\ req[q].pc = "backend" /\ req[q].route = "login"
    /\ ~conf.emptyPool /\ conf.bad \cap {"passwordHash", "runtime"} = {}
    /\ \E u \in Users :
         /\ status[u] = "Normal"
         /\ req' = [req EXCEPT ![q].pc = "save", ![q].user = u]
    /\ UNCHANGED <<conf, redis, faults, users, jar>>

\* No such user or a frozen one (404), a wrong password (401), bad JSON (400), or no
\* connection and no configuration (500).
LoginRefused(q) ==
    /\ req[q].pc = "backend" /\ req[q].route = "login"
    /\ \E code \in {400, 401, 404, 500} : Answer(q, code)
    /\ UNCHANGED <<conf, redis, faults, users, jar>>

\* Mutant of makeLoginSessionId: a cookie the browser already has is used again.
makeLoginSessionIdFromCookie(q) ==
    IF jar[req[q].browser] # None THEN jar[req[q].browser] ELSE CHOOSE s \in Sids : ~Known(s)

\* An id nobody knows; which one makes no difference.
makeLoginSessionId(q) == CHOOSE s \in Sids : ~Known(s)

\* saveSession: SET EX; when only its reply is lost the session is there all the same.
LoginSave(q) ==
    LET s == makeLoginSessionId(q) IN
    /\ req[q].pc = "save" /\ redisUp
    /\ store' = [store EXCEPT ![s] = req[q].user]
    /\ ttl' = [ttl EXCEPT ![s] = Ttl]
    /\ \/ NoFault /\ AnswerSetting(q, 200, s)
       \/ Fault /\ Answer(q, 500)
    /\ UNCHANGED <<conf, redisUp, users, jar>>

\* Mutant of LoginSaveThrows: the result of saveSession is not looked at.
LoginSaveIgnored(q) ==
    /\ req[q].pc = "save"
    /\ IF redisUp THEN Fault ELSE NoFault
    /\ AnswerSetting(q, 200, makeLoginSessionId(q))
    /\ UNCHANGED <<conf, redis, users, jar>>

\* Redis is not there, or acquire throws although it is (see ConnectionPool):
\* nothing was saved.
LoginSaveThrows(q) ==
    /\ req[q].pc = "save"
    /\ IF redisUp THEN Fault ELSE NoFault
    /\ Answer(q, 500)
    /\ UNCHANGED <<conf, redis, users, jar>>

----------------------------------------------------------------------------
(* The backend's handleLogout.                                             *)

\* removeSession; when only its reply is lost the session is gone all the same.
Logout(q) ==
    LET s == req[q].cookie IN
    /\ req[q].pc = "backend" /\ req[q].route = "logout"
    /\ s # None /\ redisUp
    /\ store' = [store EXCEPT ![s] = None]
    /\ ttl' = [ttl EXCEPT ![s] = 0]
    /\ \/ NoFault /\ AnswerSetting(q, 200, None)
       \/ Fault /\ Answer(q, 500)
    /\ UNCHANGED <<conf, redisUp, users, jar>>

\* Mutant of LogoutThrows: a failed removal is swallowed.
LogoutSwallows(q) ==
    /\ req[q].pc = "backend" /\ req[q].route = "logout"
    /\ req[q].cookie # None
    /\ IF redisUp THEN Fault ELSE NoFault
    /\ AnswerSetting(q, 200, None)
    /\ UNCHANGED <<conf, redis, users, jar>>

\* removeSession throws before anything is removed.
LogoutThrows(q) ==
    /\ req[q].pc = "backend" /\ req[q].route = "logout"
    /\ req[q].cookie # None
    /\ IF redisUp THEN Fault ELSE NoFault
    /\ Answer(q, 500)
    /\ UNCHANGED <<conf, redis, users, jar>>

LogoutWithoutCookie(q) ==
    /\ req[q].pc = "backend" /\ req[q].route = "logout"
    /\ req[q].cookie = None
    /\ AnswerSetting(q, 200, None)
    /\ UNCHANGED <<conf, redis, faults, users, jar>>

----------------------------------------------------------------------------
(* Handlers that act for the user in X-User-Id, and the public ones.       *)

\* Mutant of HashIdentity: what is hashed is not normalised.
HashIdentityAsTyped(t) == t

\* hashEmail and hashIdCard: equal for equal people.
HashIdentity(t) == [t EXCEPT !.form = "normal"]

\* handleRealAuthComplete with data it refuses: fields missing, no hash configured, an
\* address or id card of the wrong form, one that is another user's.
RealAuthRefused(q) ==
    /\ req[q].pc = "backend" /\ req[q].route = "real_auth"
    /\ Answer(q, 400)
    /\ UNCHANGED <<conf, redis, faults, users, jar>>

CompletedProfile(i) == [id |-> i, done |-> TRUE]

\* updateUserRealAuthProfile: one affected row is success (200), none an error (500),
\* although the profile is complete then; a lost reply is caught and answered like bad
\* data (400).
RealAuthComplete(q) ==
    LET u == req[q].user IN
    /\ req[q].pc = "backend" /\ req[q].route = "real_auth"
    /\ u # None /\ ~conf.emptyPool /\ "hash" \notin conf.bad
    /\ \E t \in Typed :
         /\ \A v \in Users \ {u} : profile[v].id # HashIdentity(t)
         /\ profile' = [profile EXCEPT ![u] = CompletedProfile(HashIdentity(t))]
    /\ \/ NoFault /\ Answer(q, IF profile' = profile THEN 500 ELSE 200)
       \/ Fault /\ Answer(q, 400)
    /\ UNCHANGED <<conf, redis, status, jar>>

\* handleGetOrder: an order that is not the user's own is not there.
GetOrder(q) ==
    /\ req[q].pc = "backend" /\ req[q].route = "order"
    /\ \E buyer \in Users :
         Answer(q, CASE req[q].user = None -> 400
                     [] req[q].user # None /\ conf.emptyPool -> 500
                     [] req[q].user # None /\ ~conf.emptyPool ->
                          IF buyer = req[q].user THEN 200 ELSE 404)
    /\ UNCHANGED <<conf, redis, faults, users, jar>>

\* handleConfirm and the handlers of page B, whose own steps are PaymentFlow's: no
\* effect on sessions or profiles.
OtherHandler(q) ==
    /\ req[q].pc = "backend" /\ req[q].route \in {"order", "page"}
    /\ \E code \in {200, 400, 404, 409, 500} : Answer(q, code)
    /\ UNCHANGED <<conf, redis, faults, users, jar>>

----------------------------------------------------------------------------
(* Time, Redis and the platform that owns the users.                       *)

Tick ==
    /\ \E s \in Sids : ttl[s] > 0
    /\ ttl' = [s \in Sids |-> IF ttl[s] > 0 THEN ttl[s] - 1 ELSE 0]
    /\ store' = [s \in Sids |-> IF ttl'[s] > 0 THEN store[s] ELSE None]
    /\ UNCHANGED <<conf, redisUp, faults, users, jar, req>>

RedisFails ==
    /\ redisUp /\ Fault
    /\ redisUp' = FALSE
    /\ UNCHANGED <<conf, store, ttl, users, jar, req>>

\* It comes back with its data or with none.
RedisReturns ==
    /\ ~redisUp /\ redisUp' = TRUE
    /\ \/ UNCHANGED <<store, ttl>>
       \/ store' = [s \in Sids |-> None] /\ ttl' = [s \in Sids |-> 0]
    /\ UNCHANGED <<conf, faults, users, jar, req>>

Freeze(u) ==
    /\ status[u] = "Normal"
    /\ status' = [status EXCEPT ![u] = "Frozen"]
    /\ UNCHANGED <<conf, redis, faults, profile, jar, req>>

----------------------------------------------------------------------------

\* The history of the session ids somebody knows.
LogoutAnswered(s) ==
    \E q \in Requests : /\ req[q].pc = "backend" /\ req[q].route = "logout" /\ req[q].cookie = s
                        /\ req'[q].pc = "answered"

Record ==
    /\ owner' = [s \in Sids |-> CASE ~Known(s)' -> None
                                  [] Known(s)' /\ store'[s] # None -> store'[s]
                                  [] OTHER -> owner[s]]
    /\ ended' = [s \in Sids |-> CASE ~Known(s)' -> "no"
                                  [] Known(s)' /\ LogoutAnswered(s) -> "loggedOut"
                                  [] Known(s)' /\ ~LogoutAnswered(s) ->
                                       IF store[s] # None /\ store'[s] = None THEN "gone"
                                                                              ELSE ended[s]]

ServerStep(q) ==
    \/ UserIdOf(q) \/ UserIdOfThrows(q)
    \/ LoginUser(q) \/ LoginRefused(q) \/ LoginSave(q) \/ LoginSaveThrows(q)
    \/ Logout(q) \/ LogoutThrows(q) \/ LogoutWithoutCookie(q)
    \/ RealAuthRefused(q) \/ RealAuthComplete(q) \/ GetOrder(q) \/ OtherHandler(q)

Step ==
    \/ \E q \in Requests, b \in Browsers, route \in Routes :
         HandleRequest(q, b, route) \/ RefuseRequest(q, b, route)
    \/ \E q \in Requests : ServerStep(q) \/ Receive(q) \/ ReplyLost(q)
    \/ Tick \/ RedisFails \/ RedisReturns
    \/ \E u \in Freezable : Freeze(u)

Next == Step /\ Record

\* Workers run and time passes.
Fairness ==
    /\ \A q \in Requests : WF_vars(ServerStep(q) /\ Record) /\ WF_vars(Receive(q) /\ Record)
    /\ WF_vars(Tick /\ Record)

Spec == Init /\ [][Next]_vars /\ Fairness

----------------------------------------------------------------------------

\* The backend's handlers that read X-User-Id.
ActsForUser == {"order", "real_auth"}

\* A handler that acts for a user gets one from the gateway, and it is the user the
\* cookie of the request was issued to: also while the same browser logs out and in as
\* somebody else, and whatever Redis loses.
ActsForItsUser ==
    \A q \in Requests :
        req[q].pc = "backend" /\ req[q].route \in ActsForUser =>
            req[q].user # None /\ owner[req[q].cookie] = req[q].user

\* Once a logout has been answered 200, or the session has expired, no request with its
\* cookie gets past the gateway's look-up any more, also one that was sent before.
LoggedOutRefused ==
    [][\A q \in Requests :
         req[q].pc = "lookup" /\ req'[q].pc = "backend" => ended[req[q].cookie] = "no"]_vars

\* A cookie the browser holds names a session, unless that session has expired, been
\* lost with Redis or been logged out.
CookieWorks ==
    \A b \in Browsers : jar[b] # None => store[jar[b]] # None \/ ended[jar[b]] # "no"

\* Two users never complete real-auth as the same person, however the data is typed:
\* the unique keys are on the hashes, so the hashes must be of normalised data.
OneUserPerPerson ==
    \A u, v \in Users :
        u # v /\ profile[u].done /\ profile[v].done => profile[u].id.person # profile[v].id.person

\* A user who is frozen has no session left after a while, for good: handleLogin
\* refuses new ones, and the look-up does not prolong the old ones.
FrozenFadesOut ==
    \A u \in Freezable : status[u] = "Frozen" ~> [](\A s \in Sids : store[s] # u)
=============================================================================
