------------------------- MODULE LoginSessionProofs -------------------------
(***************************************************************************)
(* Proofs about LoginSession for any users, browsers, requests under way,  *)
(* session ids, lifetimes and faults.                                      *)
(***************************************************************************)
EXTENDS LoginSession, CountingLemmas, TLAPS

USE LoginAssumption

\* Logins that will still need a session id, and the ids left for them.
Pending == {q \in Requests : req[q].route = "login" /\ req[q].pc # "answered"}
Unknown == {s \in Sids : ~Known(s)}

\* A session id nobody knows is there for every login under way.
IdsLeft == Cardinality(Pending) <= Cardinality(Unknown)

\* What the place of a request says about its contents.
RequestShape(r) ==
    /\ r.pc = "idle" => r = Idle
    /\ r.pc = "lookup" => r.route \in requiresAuth /\ r.cookie # None
    /\ r.pc = "backend" /\ r.route \in ActsForUser => r.cookie # None /\ r.user # None
    /\ r.pc = "save" => r.route = "login" /\ r.user # None
RequestsShaped == \A q \in Requests : RequestShape(req[q])

\* A known session is in Redis, with its owner, or recorded as ended; an unknown one
\* has no history.
SessionsRecorded ==
    \A s \in Sids :
        /\ Known(s) => (store[s] # None <=> ended[s] = "no")
        /\ store[s] # None => owner[s] = store[s]
        /\ ~Known(s) => ended[s] = "no"

\* A completed profile holds normalised data, and no two hold the same.
ProfilesUnique ==
    \A u \in Users : profile[u].done =>
        /\ profile[u].id \in Typed /\ profile[u].id.form = "normal"
        /\ \A v \in Users \ {u} : profile[v].done => profile[v].id # profile[u].id

LoginInv ==
    /\ TypeOK /\ IdsLeft /\ RequestsShaped /\ SessionsRecorded
    /\ ActsForItsUser /\ ProfilesUnique

----------------------------------------------------------------------------
(* What one step does to requests and session ids.                         *)

ReqType ==
    [pc : {"idle", "lookup", "backend", "save", "answered"}, route : Routes,
     browser : Browsers \cup {None}, cookie : Sids \cup {None}, user : Users \cup {None},
     set : Sids \cup {None}]

\* A request the gateway forwards for a user is a request.
LEMMA ForwardType ==
    ASSUME NEW r \in ReqType, NEW u \in Users \cup {None}
    PROVE  Forward(r, u) \in ReqType
BY DEF Forward, ReqType

\* So is one whose login is about to save its session ...
LEMMA SavingType ==
    ASSUME NEW r \in ReqType, NEW u \in Users
    PROVE  [r EXCEPT !.pc = "save", !.user = u] \in ReqType
BY DEF ReqType

\* ... and one that is answered with a cookie to set.
LEMMA AnsweredType ==
    ASSUME NEW r \in ReqType, NEW s \in Sids \cup {None}
    PROVE  [r EXCEPT !.pc = "answered", !.set = s] \in ReqType
BY DEF ReqType

\* Sessions appear in Redis only under ids nobody knew, an id becomes known only that
\* way, and a logout is answered only when its session is gone.
SessionEffect ==
    \A s \in Sids :
        /\ store'[s] # None /\ store'[s] # store[s] => ~Known(s)
        /\ Known(s)' /\ ~Known(s) => store'[s] # None
        /\ LogoutAnswered(s) => store'[s] = None

\* A request reaches a handler that acts for a user only with the user its session has,
\* and passes the look-up only with a session.
UserEffect ==
    \A q \in Requests :
        LET r == req'[q] IN
        /\ r.pc = "backend" /\ r.route \in ActsForUser => r = req[q] \/ r.user = store[r.cookie]
        /\ req[q].pc = "lookup" /\ r.pc = "backend" => store[req[q].cookie] # None

RequestEffect == req' \in [Requests -> ReqType] /\ RequestsShaped'

Effects == RequestEffect /\ SessionEffect /\ UserEffect /\ IdsLeft'

\* Pending logins and unknown ids can be counted, and what is added to or taken from
\* them changes the count accordingly.
LEMMA Counting ==
    ASSUME NEW P \in SUBSET Requests, NEW U \in SUBSET Sids
    PROVE  /\ Cardinality(P) \in Nat /\ Cardinality(U) \in Nat
           /\ \A Q \in SUBSET P : Cardinality(Q) <= Cardinality(P)
           /\ \A V \in SUBSET U : Cardinality(V) <= Cardinality(U)
           /\ \A q \in Requests : Cardinality(P \cup {q}) <= Cardinality(P) + 1
           /\ \A q \in P : Cardinality(P \ {q}) = Cardinality(P) - 1
           /\ \A s \in Sids : Cardinality(U \ {s}) >= Cardinality(U) - 1
<1>1. IsFiniteSet(P) /\ IsFiniteSet(U) /\ Cardinality(P) \in Nat /\ Cardinality(U) \in Nat
  BY CountSubset
<1>2. \A Q \in SUBSET P : Cardinality(Q) <= Cardinality(P)
  BY <1>1, CountSubset
<1>3. \A V \in SUBSET U : Cardinality(V) <= Cardinality(U)
  BY <1>1, CountSubset
<1>4. ASSUME NEW q \in Requests PROVE Cardinality(P \cup {q}) <= Cardinality(P) + 1
  BY <1>1, CountAdd
<1>5. ASSUME NEW q \in P PROVE Cardinality(P \ {q}) = Cardinality(P) - 1
  BY <1>1, CountRemove
<1>6. ASSUME NEW s \in Sids PROVE Cardinality(U \ {s}) >= Cardinality(U) - 1
  BY <1>1, CountRemove
<1>. QED  BY <1>1, <1>2, <1>3, <1>4, <1>5, <1>6

\* No login is added and no id becomes known: there are still ids enough.
LEMMA IdsKept ==
    ASSUME IdsLeft, Pending' \subseteq Pending, Unknown \subseteq Unknown'
    PROVE  IdsLeft'
<1>1. Pending \in SUBSET Requests /\ Unknown' \in SUBSET Sids
  BY DEF Pending, Unknown
<1>2. Pending' \in SUBSET Pending /\ Unknown \in SUBSET Unknown'
  OBVIOUS
<1>3. Cardinality(Pending') <= Cardinality(Pending) /\ Cardinality(Unknown) <= Cardinality(Unknown')
  BY <1>1, <1>2, Counting
<1>4. /\ Cardinality(Pending) \in Nat /\ Cardinality(Pending') \in Nat
      /\ Cardinality(Unknown) \in Nat /\ Cardinality(Unknown') \in Nat
  BY <1>1, <1>2, Counting
<1>. QED  BY <1>3, <1>4 DEF IdsLeft

\* A step that touches no request and no cookie, and at most removes sessions.
LEMMA EnvStep ==
    ASSUME LoginInv, UNCHANGED <<req, jar>>, \A s \in Sids : store'[s] \in {store[s], None}
    PROVE  Effects
<1>1. \A s \in Sids : Known(s)' => Known(s)
  BY DEF Known
<1>2. RequestEffect /\ UserEffect
  BY DEF RequestEffect, UserEffect, LoginInv, TypeOK, ReqType, RequestsShaped, RequestShape
<1>3. SessionEffect
  BY <1>1 DEF SessionEffect, LogoutAnswered
<1>4. IdsLeft'
  BY <1>1, IdsKept DEF LoginInv, Pending, Unknown
<1>. QED  BY <1>2, <1>3, <1>4 DEF Effects

\* A step of one request that makes no session: the ids it handles were known before.
LEMMA QuietStep ==
    ASSUME LoginInv, NEW q \in Requests, NEW r \in ReqType, RequestShape(r),
           req' = [req EXCEPT ![q] = r],
           \A s \in Sids : store'[s] \in {store[s], None},
           \A b \in Browsers : jar'[b] \in {None, jar[b], req[q].set},
           r.cookie = None \/ r.cookie = req[q].cookie \/ \E b \in Browsers : r.cookie = jar[b],
           r.set \in {None, req[q].set},
           req[q].pc = "backend" /\ r.pc = "answered" /\ req[q].cookie # None
               => store'[req[q].cookie] = None,
           r.pc = "backend" /\ r.route \in ActsForUser => r.user = store[r.cookie],
           req[q].pc = "lookup" /\ r.pc = "backend" => store[req[q].cookie] # None,
           r.route = "login" /\ r.pc # "answered" => q \in Pending \/ IdLeft
    PROVE  Effects
<1>t. req \in [Requests -> ReqType] /\ RequestsShaped /\ IdsLeft
  BY DEF LoginInv, TypeOK, ReqType
<1>0. req'[q] = r /\ \A p \in Requests : p # q => req'[p] = req[p]
  BY <1>t
<1>1. ASSUME NEW s \in Sids, Known(s)' PROVE Known(s)
  BY <1>0, <1>1 DEF Known
<1>2. RequestEffect
  BY <1>t, <1>0 DEF RequestEffect, RequestsShaped, RequestShape
<1>3. UserEffect
  BY <1>0 DEF UserEffect
<1>4. SessionEffect
  <2>1. ASSUME NEW s \in Sids, LogoutAnswered(s) PROVE store'[s] = None
    BY <1>0, <2>1 DEF LogoutAnswered
  <2>. QED  BY <1>1, <2>1 DEF SessionEffect
<1>5. IdsLeft'
  <2>1. Unknown \subseteq Unknown'
    BY <1>1 DEF Unknown
  <2>2. CASE r.route = "login" /\ r.pc # "answered" /\ IdLeft
    <3>1. Pending' \subseteq Pending \cup {q}
      BY <1>0 DEF Pending
    <3>2. Cardinality(Pending) < Cardinality(Unknown)
      BY <2>2 DEF IdLeft, Pending, Unknown
    <3>3. /\ Pending \in SUBSET Requests /\ Pending \cup {q} \in SUBSET Requests
          /\ Unknown' \in SUBSET Sids /\ Unknown \in SUBSET Unknown'
          /\ Pending' \in SUBSET (Pending \cup {q})
      BY <2>1, <3>1 DEF Pending, Unknown
    <3>4. /\ Cardinality(Pending') <= Cardinality(Pending \cup {q})
          /\ Cardinality(Pending \cup {q}) <= Cardinality(Pending) + 1
          /\ Cardinality(Unknown) <= Cardinality(Unknown')
      BY <3>3, Counting
    <3>5. /\ Cardinality(Pending) \in Nat /\ Cardinality(Pending') \in Nat
          /\ Cardinality(Pending \cup {q}) \in Nat
          /\ Cardinality(Unknown) \in Nat /\ Cardinality(Unknown') \in Nat
      BY <3>3, Counting
    <3>. QED  BY <3>2, <3>4, <3>5 DEF IdsLeft
  <2>3. CASE ~(r.route = "login" /\ r.pc # "answered" /\ IdLeft)
    <3>1. Pending' \subseteq Pending
      BY <1>0, <2>3 DEF Pending
    <3>. QED  BY <1>t, <2>1, <3>1, IdsKept
  <2>. QED  BY <2>2, <2>3
<1>. QED  BY <1>2, <1>3, <1>4, <1>5 DEF Effects

\* The record of a request that is over.
LEMMA IdleFacts ==
    /\ Idle \in ReqType /\ RequestShape(Idle)
    /\ Idle.cookie = None /\ Idle.set = None /\ Idle.pc = "idle" /\ Idle.route = "outside"
BY DEF Idle, ReqType, Routes, RequestShape

\* A request that is over, with what happened to the session it named.
LEMMA AnswerStep ==
    ASSUME LoginInv, NEW q \in Requests, req' = [req EXCEPT ![q] = Idle], UNCHANGED jar,
           \A s \in Sids : store'[s] \in {store[s], None}
    PROVE  Effects
BY IdleFacts, QuietStep

\* While a login waits to save its session there is an id for it.
LEMMA FreshId ==
    ASSUME LoginInv, NEW q \in Requests, req[q].pc = "save"
    PROVE  makeLoginSessionId(q) \in Sids /\ ~Known(makeLoginSessionId(q))
<1>1. q \in Pending
  BY DEF LoginInv, RequestsShaped, RequestShape, Pending
<1>2. Pending \in SUBSET Requests /\ Unknown \in SUBSET Sids
  BY DEF Pending, Unknown
<1>3. Cardinality(Pending \ {q}) = Cardinality(Pending) - 1 /\ Pending \ {q} \in SUBSET Requests
  BY <1>1, <1>2, Counting
<1>4. Cardinality(Unknown) > 0
  <2>1. /\ Cardinality(Pending \ {q}) \in Nat /\ Cardinality(Pending) \in Nat
        /\ Cardinality(Unknown) \in Nat
    BY <1>2, <1>3, Counting
  <2>. QED  BY <1>3, <2>1 DEF LoginInv, IdsLeft
<1>5. Unknown # {}
  BY <1>4, FS_EmptySet
<1>6. \E s \in Sids : ~Known(s)
  BY <1>5 DEF Unknown
<1>. QED  BY <1>6 DEF makeLoginSessionId

\* saveSession uses up one id and one login.
LEMMA SaveStep ==
    ASSUME LoginInv, NEW q \in Requests, LoginSave(q)
    PROVE  Effects
<1>. DEFINE s == makeLoginSessionId(q)
<1>t. req \in [Requests -> ReqType] /\ store \in [Sids -> Users \cup {None}] /\ RequestsShaped
  BY DEF LoginInv, TypeOK, ReqType
<1>0. s \in Sids /\ ~Known(s)
  BY FreshId DEF LoginSave
<1>1. /\ req[q].pc = "save" /\ req[q].route = "login" /\ req[q].user # None
      /\ store' = [store EXCEPT ![s] = req[q].user] /\ jar' = jar
  BY <1>t DEF LoginSave, RequestsShaped, RequestShape
<1>. HIDE DEF s
<1>2. PICK r \in ReqType :
        /\ req' = [req EXCEPT ![q] = r] /\ RequestShape(r)
        /\ r.pc \in {"idle", "answered"} /\ r.route \in {"outside", "login"}
        /\ r.pc = "idle" => r.route = "outside"
        /\ r.cookie \in {None, req[q].cookie} /\ r.set \in {None, s}
  <2>1. CASE Answer(q, 500)
    BY <2>1, IdleFacts DEF Answer
  <2>2. CASE AnswerSetting(q, 200, s)
    <3>. DEFINE r == [req[q] EXCEPT !.pc = "answered", !.set = s]
    <3>1. r \in ReqType
      BY <1>t, <1>0 DEF ReqType
    <3>2. /\ r.pc = "answered" /\ r.route = "login" /\ r.cookie = req[q].cookie /\ r.set = s
      BY <1>t, <1>1 DEF ReqType
    <3>3. req' = [req EXCEPT ![q] = r]
      BY <1>t, <2>2 DEF AnswerSetting
    <3>. HIDE DEF r
    <3>. QED  BY <3>1, <3>2, <3>3 DEF RequestShape
  <2>. QED  BY <2>1, <2>2 DEF LoginSave, s
<1>3. req'[q] = r /\ \A p \in Requests : p # q => req'[p] = req[p]
  BY <1>t, <1>2
<1>4. store'[s] = req[q].user /\ \A x \in Sids : x # s => store'[x] = store[x]
  BY <1>t, <1>0, <1>1
<1>5. ASSUME NEW x \in Sids, Known(x)', x # s PROVE Known(x)
  BY <1>1, <1>2, <1>3, <1>4, <1>5 DEF Known
<1>6. RequestEffect
  BY <1>t, <1>2, <1>3 DEF RequestEffect, RequestsShaped, RequestShape
<1>7. UserEffect
  BY <1>1, <1>2, <1>3 DEF UserEffect
<1>8. SessionEffect
  <2>1. ASSUME NEW x \in Sids PROVE ~LogoutAnswered(x)
    BY <1>1, <1>3 DEF LogoutAnswered
  <2>. QED  BY <1>0, <1>1, <1>4, <1>5, <2>1 DEF SessionEffect
<1>9. IdsLeft'
  <2>1. q \in Pending /\ Pending' \subseteq Pending \ {q}
    BY <1>1, <1>2, <1>3 DEF Pending
  <2>2. Unknown \ {s} \subseteq Unknown'
    BY <1>5 DEF Unknown
  <2>3. /\ Pending \in SUBSET Requests /\ Pending \ {q} \in SUBSET Requests
        /\ Pending' \in SUBSET (Pending \ {q})
        /\ Unknown \in SUBSET Sids /\ Unknown' \in SUBSET Sids
        /\ Unknown \ {s} \in SUBSET Unknown' /\ Unknown \ {s} \in SUBSET Sids
    BY <2>1, <2>2 DEF Pending, Unknown
  <2>4. /\ Cardinality(Pending') <= Cardinality(Pending \ {q})
        /\ Cardinality(Pending \ {q}) = Cardinality(Pending) - 1
        /\ Cardinality(Unknown \ {s}) <= Cardinality(Unknown')
        /\ Cardinality(Unknown \ {s}) >= Cardinality(Unknown) - 1
    BY <1>0, <2>1, <2>3, Counting
  <2>5. /\ Cardinality(Pending) \in Nat /\ Cardinality(Pending') \in Nat
        /\ Cardinality(Pending \ {q}) \in Nat /\ Cardinality(Unknown \ {s}) \in Nat
        /\ Cardinality(Unknown) \in Nat /\ Cardinality(Unknown') \in Nat
    BY <2>3, Counting
  <2>. QED  BY <2>4, <2>5 DEF LoginInv, IdsLeft
<1>. QED  BY <1>6, <1>7, <1>8, <1>9 DEF Effects

\* Every step has these effects: one case per action.
LEMMA StepEffects == LoginInv /\ Step => Effects
<1>. SUFFICES ASSUME LoginInv, Step PROVE Effects
  OBVIOUS
<1>t. /\ req \in [Requests -> ReqType] /\ store \in [Sids -> Users \cup {None}]
      /\ jar \in [Browsers -> Sids \cup {None}] /\ RequestsShaped
  BY DEF LoginInv, TypeOK, ReqType
<1>s. UNCHANGED store => \A s \in Sids : store'[s] \in {store[s], None}
  OBVIOUS
<1>1. ASSUME NEW q \in Requests, NEW b \in Browsers, NEW route \in Routes,
             HandleRequest(q, b, route)
      PROVE  Effects
  <2>. DEFINE c == IF route \in ReadsCookie THEN jar[b] ELSE None
              r0 == [Idle EXCEPT !.route = route, !.browser = b, !.cookie = c]
              r == IF route \in requiresAuth THEN [r0 EXCEPT !.pc = "lookup"] ELSE Forward(r0, None)
  <2>1. /\ r.pc = IF route \in requiresAuth THEN "lookup" ELSE "backend"
        /\ r.route = route /\ r.cookie = c /\ r.set = None /\ r.user = None
    BY DEF Forward, Idle
  <2>2. r \in ReqType
    BY <1>t DEF Forward, Idle, ReqType
  <2>3. req' = [req EXCEPT ![q] = r] /\ (route \in requiresAuth => c # None)
    BY <1>1 DEF HandleRequest, Idle
  <2>4. UNCHANGED <<store, jar>> /\ req[q].pc = "idle" /\ (route = "login" => IdLeft)
    BY <1>1 DEF HandleRequest, redis
  <2>5. c = None \/ \E x \in Browsers : c = jar[x]
    OBVIOUS
  <2>. HIDE DEF c, r0, r
  <2>6. RequestShape(r)
    BY <2>1, <2>3 DEF RequestShape, requiresAuth, ActsForUser
  <2>7. ~(r.pc = "backend" /\ r.route \in ActsForUser)
    BY <2>1 DEF requiresAuth, ActsForUser
  <2>. QED  BY <1>s, <2>1, <2>2, <2>3, <2>4, <2>5, <2>6, <2>7, QuietStep
<1>2. ASSUME NEW q \in Requests, NEW b \in Browsers, NEW route \in Routes,
             RefuseRequest(q, b, route)
      PROVE  Effects
  BY <1>2, <1>s, EnvStep DEF RefuseRequest, state, redis
<1>3. ASSUME NEW q \in Requests, UserIdOf(q) PROVE Effects
  <2>. DEFINE u == store[req[q].cookie]
  <2>1. req[q].pc = "lookup" /\ UNCHANGED <<store, jar>>
    BY <1>3 DEF UserIdOf, redis
  <2>2. req[q].cookie \in Sids /\ u \in Users \cup {None} /\ req[q].route \in requiresAuth
    BY <1>t, <2>1 DEF RequestsShaped, RequestShape, ReqType
  <2>3. CASE Answer(q, IF u = None THEN 401 ELSE 502)
    BY <1>s, <2>1, <2>3, AnswerStep DEF Answer
  <2>4. CASE u # None /\ req' = [req EXCEPT ![q] = Forward(@, u)]
    <3>. DEFINE r == Forward(req[q], u)
    <3>1. /\ r.pc = "backend" /\ r.route = req[q].route /\ r.cookie = req[q].cookie
          /\ r.set = req[q].set /\ r.user = u
      BY <1>t DEF Forward, ReqType
    <3>2. r \in ReqType
      BY <1>t, <2>2, ForwardType
    <3>3. req' = [req EXCEPT ![q] = r]
      BY <1>t, <2>4
    <3>. HIDE DEF r
    <3>4. RequestShape(r)
      BY <2>2, <2>4, <3>1 DEF RequestShape
    <3>5. r.route # "login"
      BY <2>2, <3>1 DEF requiresAuth
    <3>6. r.user = store[r.cookie] /\ store[req[q].cookie] # None
      BY <2>4, <3>1
    <3>. QED  BY <1>s, <2>1, <3>1, <3>2, <3>3, <3>4, <3>5, <3>6, QuietStep
  <2>. QED  BY <1>3, <2>3, <2>4 DEF UserIdOf
<1>4. ASSUME NEW q \in Requests,
             \/ UserIdOfThrows(q) \/ LoginRefused(q) \/ LoginSaveThrows(q) \/ LogoutThrows(q)
             \/ RealAuthRefused(q) \/ RealAuthComplete(q) \/ GetOrder(q) \/ OtherHandler(q)
             \/ ReplyLost(q)
      PROVE  Effects
  <2>1. req' = [req EXCEPT ![q] = Idle] /\ UNCHANGED <<store, jar>>
    BY <1>4 DEF UserIdOfThrows, LoginRefused, LoginSaveThrows, LogoutThrows, RealAuthRefused,
                RealAuthComplete, GetOrder, OtherHandler, ReplyLost, Answer, redis
  <2>. QED  BY <1>s, <2>1, AnswerStep
<1>5. ASSUME NEW q \in Requests, LoginUser(q) PROVE Effects
  <2>0. req[q].pc = "backend" /\ req[q].route = "login" /\ UNCHANGED <<store, jar>>
    BY <1>5 DEF LoginUser, redis
  <2>1. PICK u \in Users : req' = [req EXCEPT ![q].pc = "save", ![q].user = u]
    BY <1>5 DEF LoginUser
  <2>. DEFINE r == [req[q] EXCEPT !.pc = "save", !.user = u]
  <2>2. /\ r.pc = "save" /\ r.route = "login" /\ r.cookie = req[q].cookie
        /\ r.set = req[q].set /\ r.user = u
    BY <1>t, <2>0 DEF ReqType
  <2>3. r \in ReqType
    BY <1>t, SavingType
  <2>4. req' = [req EXCEPT ![q] = r]
    BY <1>t, <2>1
  <2>. HIDE DEF r
  <2>5. RequestShape(r)
    BY <2>2 DEF RequestShape
  <2>6. q \in Pending
    BY <2>0 DEF Pending
  <2>. QED  BY <1>s, <2>0, <2>2, <2>3, <2>4, <2>5, <2>6, QuietStep
<1>6. ASSUME NEW q \in Requests, Logout(q) \/ LogoutWithoutCookie(q) PROVE Effects
  <2>0. req[q].pc = "backend" /\ req[q].route = "logout" /\ UNCHANGED jar
    BY <1>6 DEF Logout, LogoutWithoutCookie
  <2>1. /\ \A s \in Sids : store'[s] \in {store[s], None}
        /\ req[q].cookie # None => store'[req[q].cookie] = None
    BY <1>t, <1>6 DEF Logout, LogoutWithoutCookie, ReqType, redis
  <2>2. CASE Answer(q, 500)
    BY <2>0, <2>1, <2>2, AnswerStep DEF Answer
  <2>3. CASE AnswerSetting(q, 200, None)
    <3>. DEFINE r == [req[q] EXCEPT !.pc = "answered", !.set = None]
    <3>1. r.pc = "answered" /\ r.cookie = req[q].cookie /\ r.set = None
      BY <1>t DEF ReqType
    <3>2. r \in ReqType
      BY <1>t, AnsweredType
    <3>3. req' = [req EXCEPT ![q] = r]
      BY <1>t, <2>3 DEF AnswerSetting
    <3>. HIDE DEF r
    <3>4. RequestShape(r)
      BY <3>1 DEF RequestShape
    <3>. QED  BY <2>0, <2>1, <3>1, <3>2, <3>3, <3>4, QuietStep
  <2>. QED  BY <1>6, <2>2, <2>3 DEF Logout, LogoutWithoutCookie
<1>7. ASSUME NEW q \in Requests, Receive(q) PROVE Effects
  <2>1. /\ req' = [req EXCEPT ![q] = Idle] /\ UNCHANGED store
        /\ \A b \in Browsers : jar'[b] \in {None, jar[b], req[q].set}
        /\ req[q].pc = "answered"
    BY <1>t, <1>7 DEF Receive, redis
  <2>. QED  BY <1>s, <2>1, IdleFacts, QuietStep
<1>8. CASE Tick \/ RedisFails \/ RedisReturns \/ \E u \in Freezable : Freeze(u)
  <2>1. UNCHANGED <<req, jar>> /\ \A s \in Sids : store'[s] \in {store[s], None}
    BY <1>t, <1>8 DEF Tick, RedisFails, RedisReturns, Freeze, redis
  <2>. QED  BY <2>1, EnvStep
<1>9. ASSUME NEW q \in Requests, ServerStep(q) PROVE Effects
  BY <1>3, <1>4, <1>5, <1>6, <1>9, SaveStep DEF ServerStep
<1>. QED  BY <1>1, <1>2, <1>4, <1>7, <1>8, <1>9 DEF Step

----------------------------------------------------------------------------
(* The invariant.                                                          *)

\* What Record makes of the history of one id.
LEMMA RecordFacts ==
    ASSUME Record, NEW s \in Sids
    PROVE  /\ ~Known(s)' => owner'[s] = None /\ ended'[s] = "no"
           /\ Known(s)' => owner'[s] = IF store'[s] # None THEN store'[s] ELSE owner[s]
           /\ Known(s)' /\ LogoutAnswered(s) => ended'[s] = "loggedOut"
           /\ Known(s)' /\ ~LogoutAnswered(s) =>
                ended'[s] = IF store[s] # None /\ store'[s] = None THEN "gone" ELSE ended[s]
BY DEF Record

\* Redis, the users and the cookies keep their types.
LEMMA StateTyped ==
    ASSUME LoginInv, Step, Effects
    PROVE  /\ store' \in [Sids -> Users \cup {None}] /\ ttl' \in [Sids -> 0..Ttl]
           /\ \A s \in Sids : store'[s] # None <=> ttl'[s] > 0
           /\ redisUp' \in BOOLEAN /\ faults' \in 0..MaxFaults
           /\ status' \in [Users -> {"Normal", "Frozen"}]
           /\ profile' \in [Users -> [id : Typed \cup {None}, done : BOOLEAN]]
           /\ jar' \in [Browsers -> Sids \cup {None}]
<1>. DEFINE RedisTyped == /\ store \in [Sids -> Users \cup {None}] /\ ttl \in [Sids -> 0..Ttl]
                          /\ \A s \in Sids : store[s] # None <=> ttl[s] > 0
            FlagsTyped == redisUp \in BOOLEAN /\ faults \in 0..MaxFaults
            UsersTyped == /\ status \in [Users -> {"Normal", "Frozen"}]
                          /\ profile \in [Users -> [id : Typed \cup {None}, done : BOOLEAN]]
            JarTyped == jar \in [Browsers -> Sids \cup {None}]
<1>t. RedisTyped /\ FlagsTyped /\ UsersTyped /\ JarTyped /\ req \in [Requests -> ReqType]
  BY DEF LoginInv, TypeOK, ReqType
<1>f. Fault \/ NoFault => faults' \in 0..MaxFaults
  BY <1>t DEF Fault, NoFault
\* SET and DEL of one key
<1>r. ASSUME NEW s, NEW u \in Users \cup {None}, NEW n \in 0..Ttl, u # None <=> n > 0,
             store' = [store EXCEPT ![s] = u], ttl' = [ttl EXCEPT ![s] = n]
      PROVE  RedisTyped'
  <2>1. store' \in [Sids -> Users \cup {None}] /\ ttl' \in [Sids -> 0..Ttl]
    BY <1>t, <1>r
  <2>2. \A x \in Sids : /\ store'[x] = IF x = s THEN u ELSE store[x]
                        /\ ttl'[x] = IF x = s THEN n ELSE ttl[x]
    BY <1>t, <1>r
  <2>3. \A x \in Sids : store'[x] # None <=> ttl'[x] > 0
    BY <1>t, <1>r, <2>2
  <2>. QED  BY <2>1, <2>3
<1>1. ASSUME NEW q \in Requests, NEW b \in Browsers, NEW route \in Routes,
             HandleRequest(q, b, route) \/ RefuseRequest(q, b, route)
      PROVE  RedisTyped' /\ FlagsTyped' /\ UsersTyped' /\ JarTyped'
  BY <1>t, <1>1 DEF HandleRequest, RefuseRequest, state, redis, users
<1>2. ASSUME NEW q \in Requests,
             \/ UserIdOf(q) \/ LoginUser(q) \/ LoginRefused(q) \/ LogoutWithoutCookie(q)
             \/ RealAuthRefused(q) \/ GetOrder(q) \/ OtherHandler(q)
      PROVE  RedisTyped' /\ FlagsTyped' /\ UsersTyped' /\ JarTyped'
  <2>1. UNCHANGED <<redis, faults, users, jar>>
    BY <1>2 DEF UserIdOf, LoginUser, LoginRefused, LogoutWithoutCookie, RealAuthRefused,
                GetOrder, OtherHandler
  <2>. QED  BY <1>t, <2>1 DEF redis, users
<1>3. ASSUME NEW q \in Requests,
             UserIdOfThrows(q) \/ LoginSaveThrows(q) \/ LogoutThrows(q) \/ ReplyLost(q)
      PROVE  RedisTyped' /\ FlagsTyped' /\ UsersTyped' /\ JarTyped'
  <2>1. (Fault \/ NoFault) /\ UNCHANGED <<redis, users, jar>>
    BY <1>3 DEF UserIdOfThrows, LoginSaveThrows, LogoutThrows, ReplyLost
  <2>. QED  BY <1>t, <1>f, <2>1 DEF redis, users
<1>4. ASSUME NEW q \in Requests, LoginSave(q)
      PROVE  RedisTyped' /\ FlagsTyped' /\ UsersTyped' /\ JarTyped'
  <2>1. req[q].user \in Users
    BY <1>t, <1>4 DEF LoginSave, LoginInv, RequestsShaped, RequestShape, ReqType
  <2>2. /\ store' = [store EXCEPT ![makeLoginSessionId(q)] = req[q].user]
        /\ ttl' = [ttl EXCEPT ![makeLoginSessionId(q)] = Ttl]
        /\ Fault \/ NoFault
        /\ UNCHANGED <<redisUp, users, jar>>
    BY <1>4 DEF LoginSave
  <2>3. /\ Ttl \in 0..Ttl /\ req[q].user \in Users \cup {None}
        /\ req[q].user # None <=> Ttl > 0
    BY <2>1
  <2>4. RedisTyped'
    BY <1>r, <2>2, <2>3, Zenon
  <2>. QED  BY <1>t, <1>f, <2>2, <2>4 DEF users
<1>5. ASSUME NEW q \in Requests, Logout(q)
      PROVE  RedisTyped' /\ FlagsTyped' /\ UsersTyped' /\ JarTyped'
  <2>1. /\ store' = [store EXCEPT ![req[q].cookie] = None]
        /\ ttl' = [ttl EXCEPT ![req[q].cookie] = 0]
        /\ Fault \/ NoFault
        /\ UNCHANGED <<redisUp, users, jar>>
    BY <1>5 DEF Logout
  <2>2. /\ 0 \in 0..Ttl /\ None \in Users \cup {None} /\ (None # None <=> 0 > 0)
    OBVIOUS
  <2>3. RedisTyped'
    BY <1>r, <2>1, <2>2, Zenon
  <2>. QED  BY <1>t, <1>f, <2>1, <2>3 DEF users
<1>6. ASSUME NEW q \in Requests, RealAuthComplete(q)
      PROVE  RedisTyped' /\ FlagsTyped' /\ UsersTyped' /\ JarTyped'
  <2>0. req[q].user \in Users
    BY <1>t, <1>6 DEF RealAuthComplete, ReqType
  <2>1. PICK t \in Typed :
          profile' = [profile EXCEPT ![req[q].user] = CompletedProfile(HashIdentity(t))]
    BY <1>6 DEF RealAuthComplete
  <2>2. CompletedProfile(HashIdentity(t)) \in [id : Typed \cup {None}, done : BOOLEAN]
    BY DEF CompletedProfile, HashIdentity, Typed
  <2>3. (Fault \/ NoFault) /\ UNCHANGED <<redis, status, jar>>
    BY <1>6 DEF RealAuthComplete
  <2>. QED  BY <1>t, <1>f, <2>1, <2>2, <2>3 DEF redis
<1>7. ASSUME NEW q \in Requests, Receive(q)
      PROVE  RedisTyped' /\ FlagsTyped' /\ UsersTyped' /\ JarTyped'
  BY <1>t, <1>7 DEF Receive, redis, users, ReqType
<1>8. CASE Tick
  BY <1>t, <1>8 DEF Tick, users
<1>9. CASE RedisFails \/ RedisReturns
  <2>1. /\ \/ UNCHANGED <<store, ttl>>
           \/ store' = [s \in Sids |-> None] /\ ttl' = [s \in Sids |-> 0]
        /\ redisUp' \in BOOLEAN /\ (Fault \/ NoFault)
        /\ UNCHANGED <<users, jar>>
    BY <1>9 DEF RedisFails, RedisReturns, NoFault
  <2>2. RedisTyped'
    BY <1>t, <2>1
  <2>. QED  BY <1>t, <1>f, <2>1, <2>2 DEF users
<1>10. ASSUME NEW u \in Freezable, Freeze(u)
       PROVE  RedisTyped' /\ FlagsTyped' /\ UsersTyped' /\ JarTyped'
  BY <1>t, <1>10 DEF Freeze, redis
<1>. QED
  BY <1>1, <1>2, <1>3, <1>4, <1>5, <1>6, <1>7, <1>8, <1>9, <1>10 DEF Step, ServerStep

\* A profile is completed with normalised data nobody else has.
LEMMA ProfileStep ==
    ASSUME LoginInv, Step PROVE ProfilesUnique'
<1>t. /\ profile \in [Users -> [id : Typed \cup {None}, done : BOOLEAN]] /\ ProfilesUnique
  BY DEF LoginInv, TypeOK
<1>1. ASSUME NEW q \in Requests, RealAuthComplete(q) PROVE ProfilesUnique'
  <2>. DEFINE u == req[q].user
  <2>0. u \in Users
    BY <1>1 DEF RealAuthComplete, LoginInv, TypeOK
  <2>1. PICK t \in Typed :
          /\ \A v \in Users \ {u} : profile[v].id # HashIdentity(t)
          /\ profile' = [profile EXCEPT ![u] = CompletedProfile(HashIdentity(t))]
    BY <1>1 DEF RealAuthComplete
  <2>. HIDE DEF u
  <2>2. HashIdentity(t) \in Typed /\ HashIdentity(t).form = "normal"
    BY DEF HashIdentity, Typed
  <2>3. /\ profile'[u].id = HashIdentity(t) /\ profile'[u].done
        /\ \A v \in Users \ {u} : profile'[v] = profile[v]
    BY <1>t, <2>0, <2>1 DEF CompletedProfile
  <2>. QED  BY <1>t, <2>0, <2>1, <2>2, <2>3 DEF ProfilesUnique
<1>2. CASE UNCHANGED profile
  BY <1>t, <1>2 DEF ProfilesUnique
<1>. QED
  BY <1>1, <1>2, ZenonT(60) DEF Step, ServerStep, HandleRequest, RefuseRequest, UserIdOf, UserIdOfThrows,
     LoginUser, LoginRefused, LoginSave, LoginSaveThrows, Logout, LogoutThrows,
     LogoutWithoutCookie, RealAuthRefused, GetOrder, OtherHandler, Receive, ReplyLost, Tick,
     RedisFails, RedisReturns, Freeze, users, state

\* The invariant holds at the start.
LEMMA LoginInit == Init => LoginInv
<1>. SUFFICES ASSUME Init PROVE LoginInv
  OBVIOUS
<1>1. TypeOK
  BY IdleFacts DEF Init, TypeOK, ReqType, Typed
<1>2. Pending = {}
  BY IdleFacts DEF Init, Pending
<1>3. IdsLeft
  <2>1. Unknown \in SUBSET Sids
    BY DEF Unknown
  <2>2. Cardinality(Unknown) \in Nat /\ Cardinality(Pending) = 0
    BY <1>2, <2>1, Counting, FS_EmptySet
  <2>. QED  BY <2>2 DEF IdsLeft
<1>4. RequestsShaped /\ ActsForItsUser
  BY IdleFacts DEF Init, RequestsShaped, ActsForItsUser
<1>5. SessionsRecorded
  BY IdleFacts DEF Init, SessionsRecorded, Known
<1>6. ProfilesUnique
  BY DEF Init, ProfilesUnique
<1>. QED  BY <1>1, <1>3, <1>4, <1>5, <1>6 DEF LoginInv

\* Every step preserves it.
LEMMA LoginStep == LoginInv /\ [Next]_vars => LoginInv'
<1>1. ASSUME LoginInv, Step, Record PROVE LoginInv'
  <2>0. Effects
    BY <1>1, StepEffects
  <2>1. ASSUME NEW s \in Sids
        PROVE  /\ Known(s)' => (store'[s] # None <=> ended'[s] = "no")
               /\ store'[s] # None => owner'[s] = store'[s] /\ Known(s)'
               /\ ~Known(s)' => ended'[s] = "no"
    <3>1. store'[s] # None => Known(s)'
      BY DEF Known
    <3>2. /\ store'[s] # None /\ store'[s] # store[s] => ~Known(s)
          /\ Known(s)' /\ ~Known(s) => store'[s] # None
          /\ LogoutAnswered(s) => store'[s] = None
      BY <2>0 DEF Effects, SessionEffect
    <3>3. /\ Known(s) => (store[s] # None <=> ended[s] = "no")
          /\ ~Known(s) => ended[s] = "no"
          /\ store[s] # None => Known(s)
      BY <1>1 DEF LoginInv, SessionsRecorded, Known
    <3>. QED  BY <1>1, <3>1, <3>2, <3>3, RecordFacts
  <2>2. SessionsRecorded'
    BY <2>1 DEF SessionsRecorded
  <2>3. ActsForItsUser'
    <3>. SUFFICES ASSUME NEW q \in Requests, req'[q].pc = "backend",
                         req'[q].route \in ActsForUser
                  PROVE  req'[q].user # None /\ owner'[req'[q].cookie] = req'[q].user
      BY DEF ActsForItsUser
    <3>0. req'[q].user # None /\ req'[q].cookie \in Sids
      BY <2>0 DEF Effects, RequestEffect, RequestsShaped, RequestShape, ReqType
    <3>1. PICK c \in Sids : c = req'[q].cookie
      BY <3>0
    <3>2. Known(c)'
      BY <3>1 DEF Known
    <3>3. owner[c] = req'[q].user /\ Known(c)
      <4>1. CASE req'[q] = req[q]
        BY <1>1, <3>1, <4>1 DEF LoginInv, ActsForItsUser, Known
      <4>2. CASE req'[q].user = store[c]
        BY <1>1, <3>0, <3>1, <4>2 DEF LoginInv, SessionsRecorded, Known
      <4>. QED  BY <2>0, <3>1, <4>1, <4>2 DEF Effects, UserEffect
    <3>4. store'[c] # None => store'[c] = store[c]
      BY <2>0, <3>1, <3>3 DEF Effects, SessionEffect
    <3>5. store[c] # None => owner[c] = store[c]
      BY <1>1, <3>1 DEF LoginInv, SessionsRecorded
    <3>6. owner'[c] = IF store'[c] # None THEN store'[c] ELSE owner[c]
      BY <1>1, <3>1, <3>2, RecordFacts
    <3>. QED  BY <3>0, <3>1, <3>3, <3>4, <3>5, <3>6
  <2>4. TypeOK'
    <3>1. req' \in [Requests -> ReqType]
      BY <2>0 DEF Effects, RequestEffect
    <3>2. \A s \in Sids : owner'[s] \in Users \cup {None} /\ ended'[s] \in {"no", "gone", "loggedOut"}
      <4>1. store' \in [Sids -> Users \cup {None}]
        BY <1>1, <2>0, StateTyped
      <4>2. /\ owner \in [Sids -> Users \cup {None}]
            /\ ended \in [Sids -> {"no", "gone", "loggedOut"}]
        BY <1>1 DEF LoginInv, TypeOK
      <4>. QED  BY <1>1, <4>1, <4>2, RecordFacts
    <3>3. owner' = [s \in Sids |-> owner'[s]] /\ ended' = [s \in Sids |-> ended'[s]]
      BY <1>1 DEF Record
    <3>4. /\ owner' \in [Sids -> Users \cup {None}]
          /\ ended' \in [Sids -> {"no", "gone", "loggedOut"}]
      BY <3>2, <3>3
    <3>. QED  BY <1>1, <2>0, <3>1, <3>4, StateTyped DEF TypeOK, ReqType
  <2>5. ProfilesUnique'
    BY <1>1, ProfileStep
  <2>. QED  BY <2>0, <2>2, <2>3, <2>4, <2>5 DEF LoginInv, Effects, RequestEffect
<1>2. ASSUME LoginInv, UNCHANGED vars PROVE LoginInv'
  BY <1>2 DEF vars, state, redis, users, LoginInv, TypeOK, IdsLeft, Pending, Unknown, Known,
     RequestsShaped, SessionsRecorded, ActsForItsUser, ProfilesUnique
<1>. QED  BY <1>1, <1>2 DEF Next

\* The invariant, for any number of users, browsers, requests, ids and faults.
THEOREM LoginInvariance == Spec => []LoginInv
BY LoginInit, LoginStep, PTL DEF Spec

\* Redis, the tables, the cookies and the requests keep their types; in particular a
\* session in Redis has time left and one without time is gone.
THEOREM LoginTyping == Spec => []TypeOK
<1>1. LoginInv => TypeOK
  BY DEF LoginInv
<1>. QED  BY <1>1, LoginInvariance, PTL

\* A handler that acts for a user acts for the one the request's cookie was issued to.
THEOREM RightUser == Spec => []ActsForItsUser
<1>1. LoginInv => ActsForItsUser
  BY DEF LoginInv
<1>. QED  BY <1>1, LoginInvariance, PTL

\* A cookie in a browser names a session in Redis, or one that has ended.
THEOREM CookiesWork == Spec => []CookieWorks
<1>1. LoginInv => CookieWorks
  BY DEF LoginInv, TypeOK, SessionsRecorded, CookieWorks, Known
<1>. QED  BY <1>1, LoginInvariance, PTL

\* No two users complete real-auth as one person, however the data is typed.
THEOREM PeopleUnique == Spec => []OneUserPerPerson
<1>1. LoginInv => OneUserPerPerson
  BY DEF LoginInv, ProfilesUnique, OneUserPerPerson, Typed
<1>. QED  BY <1>1, LoginInvariance, PTL

\* A request whose session was logged out or has ended is not let through.
THEOREM LoggedOutStaysOut == Spec => LoggedOutRefused
<1>1. ASSUME LoginInv, [Next]_vars, NEW q \in Requests,
             req[q].pc = "lookup", req'[q].pc = "backend"
      PROVE  ended[req[q].cookie] = "no"
  <2>1. req[q].cookie \in Sids /\ req[q].route \in ActsForUser
    BY <1>1 DEF LoginInv, TypeOK, RequestsShaped, RequestShape, requiresAuth, ActsForUser
  <2>2. store[req[q].cookie] # None
    <3>1. CASE Step
      BY <1>1, <3>1, StepEffects DEF Effects, UserEffect
    <3>2. CASE UNCHANGED vars
      BY <1>1, <3>2 DEF vars, state
    <3>. QED  BY <1>1, <3>1, <3>2 DEF Next
  <2>. QED  BY <1>1, <2>1, <2>2 DEF LoginInv, SessionsRecorded, Known
<1>2. LoginInv /\ [Next]_vars =>
        [\A q \in Requests : req[q].pc = "lookup" /\ req'[q].pc = "backend"
                               => ended[req[q].cookie] = "no"]_vars
  BY <1>1
<1>. QED  BY <1>2, LoginInvariance, PTL DEF Spec, LoggedOutRefused
=============================================================================
