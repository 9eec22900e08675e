------------------------ MODULE ConnectionPoolProofs ------------------------
(***************************************************************************)
(* For any number of threads and connections: notifying one waiter at each *)
(* release is enough for every pool, a connection has one owner, none is   *)
(* left open at the end and none is lost while the server answers.         *)
(***************************************************************************)
EXTENDS ConnectionPool, CountingLemmas, SequenceTheorems, TLAPS

\* Types, and what a thread's place says about its guards and its popped connection.
PoolTyped ==
    /\ connections \in Seq(Conns)
    /\ pc \in [Threads -> {"out", "use"} \cup InAcquire]
    /\ hand \in [Threads -> Conns \cup {NoConn}]
    /\ stack \in [Threads -> Seq(Conns)]
    /\ woken \subseteq {t \in Threads : pc[t] = "wait"}
    /\ \A t \in Threads : pc[t] = "use" => stack[t] # <<>>
    /\ \A t \in Threads : pc[t] = "ping" => hand[t] \in Conns
    /\ phase # "running" => \A t \in Threads : pc[t] = "out"

WakeInv == PoolTyped /\ NoLostWakeup

\* Notified threads can be counted: they are finitely many, and one joining or
\* leaving them changes the count by one.
LEMMA WokenCount ==
    ASSUME NEW W \in SUBSET Threads
    PROVE  /\ IsFiniteSet(W) /\ Cardinality(W) \in Nat
           /\ \A t \in W : Cardinality(W \ {t}) = Cardinality(W) - 1
           /\ \A t \in Threads \ W : Cardinality(W \cup {t}) = Cardinality(W) + 1
<1>1. IsFiniteSet(W)
  BY PoolAssumption, FS_Subset
<1>2. Cardinality(W) \in Nat
  BY <1>1, FS_CardinalityType
<1>3. ASSUME NEW t \in W PROVE Cardinality(W \ {t}) = Cardinality(W) - 1
  BY <1>1, FS_RemoveElement
<1>4. ASSUME NEW t \in Threads \ W PROVE Cardinality(W \cup {t}) = Cardinality(W) + 1
  BY <1>1, FS_AddElement
<1>. QED  BY <1>1, <1>2, <1>3, <1>4

\* A thread that pops one connection: the queue is shorter by one.
LEMMA PopFacts ==
    ASSUME connections \in Seq(Conns), connections # <<>>
    PROVE  /\ Head(connections) \in Conns /\ Tail(connections) \in Seq(Conns)
           /\ Len(Tail(connections)) = Len(connections) - 1
           /\ Len(connections) \in Nat \ {0}
  OBVIOUS

\* A prefix of a sequence of connections is one, of the length asked for.
LEMMA PrefixFacts ==
    ASSUME NEW q \in Seq(Conns), NEW n \in 0..Len(q)
    PROVE  /\ SubSeq(q, 1, n) \in Seq(Conns) /\ Len(SubSeq(q, 1, n)) = n
           /\ \A i \in 1..n : SubSeq(q, 1, n)[i] = q[i]
  OBVIOUS

\* A thread's guards after the innermost has gone.
LEMMA StackFacts ==
    ASSUME NEW q \in Seq(Conns), q # <<>>
    PROVE  /\ Len(q) \in Nat \ {0} /\ q[Len(q)] \in Conns
           /\ SubSeq(q, 1, Len(q) - 1) \in Seq(Conns)
           /\ Len(q) # 1 => SubSeq(q, 1, Len(q) - 1) # <<>>
<1>1. Len(q) \in Nat \ {0} /\ q[Len(q)] \in Conns /\ Len(q) - 1 \in 0..Len(q)
  OBVIOUS
<1>. DEFINE p == SubSeq(q, 1, Len(q) - 1)
<1>2. p \in Seq(Conns) /\ Len(p) = Len(q) - 1
  BY <1>1, PrefixFacts, Zenon
<1>. HIDE DEF p
<1>3. Len(q) # 1 => p # <<>>
  BY <1>1, <1>2
<1>. QED  BY <1>1, <1>2, <1>3 DEF p

\* The types hold at the start and every step of Next keeps them.
LEMMA TypedStep == PoolTyped /\ [Next]_vars => PoolTyped'
<1>. SUFFICES ASSUME PoolTyped, [Next]_vars PROVE PoolTyped'
  OBVIOUS
<1>. USE DEF PoolTyped, InAcquire
<1>1. ASSUME NEW c \in Conns, InitPool(c) PROVE PoolTyped'
  BY <1>1 DEF InitPool
<1>2. ASSUME NEW c \in Conns, ConnectionDrops(c) PROVE PoolTyped'
  BY <1>2 DEF ConnectionDrops
<1>3. CASE InitFails
  BY <1>3 DEF InitFails, CloseIdle
<1>4. CASE Shutdown
  BY <1>4 DEF Shutdown, CloseIdle
<1>5. CASE Restart
  BY <1>5 DEF Restart
<1>6. ASSUME NEW t \in Threads, Acquire(t) PROVE PoolTyped'
  <2>1. CASE connections # <<>>
    BY <1>6, <2>1, PopFacts DEF Acquire, Pop
  <2>2. CASE connections = <<>>
    BY <1>6, <2>2 DEF Acquire
  <2>. QED  BY <2>1, <2>2
<1>7. ASSUME NEW t \in Threads, Wake(t) PROVE PoolTyped'
  <2>1. CASE connections # <<>>
    BY <1>7, <2>1, PopFacts DEF Wake, Pop
  <2>2. CASE connections = <<>>
    BY <1>7, <2>2 DEF Wake
  <2>. QED  BY <2>1, <2>2
<1>8. ASSUME NEW t \in Threads, Timeout(t) PROVE PoolTyped'
  <2>1. CASE connections # <<>>
    BY <1>8, <2>1, PopFacts DEF Timeout, Pop
  <2>2. CASE connections = <<>>
    BY <1>8, <2>2 DEF Timeout, Throw
  <2>. QED  BY <2>1, <2>2
<1>9. ASSUME NEW t \in Threads, CheckConnection(t) PROVE PoolTyped'
  <2>1. ASSUME NEW c \in Conns, Return(t, c), connections' = connections,
               woken' = woken, phase' = phase, pc[t] \in {"ping", "create"}
        PROVE  PoolTyped'
    <3>1. Append(stack[t], c) \in Seq(Conns) /\ Append(stack[t], c) # <<>>
      BY AppendProperties
    <3>. QED  BY <2>1, <3>1 DEF Return
  <2>2. CASE PingAnswered(t)
    BY <2>1, <2>2 DEF PingAnswered
  <2>3. CASE MySqlPingFails(t) \/ StorePingFails(t)
    BY <2>3 DEF MySqlPingFails, StorePingFails, Replace
  <2>4. CASE RedisPingThrows(t)
    BY <2>4 DEF RedisPingThrows, Throw
  <2>5. CASE Reconnect(t)
    BY <2>1, <2>5 DEF Reconnect
  <2>6. CASE ReconnectFails(t)
    BY <2>6 DEF ReconnectFails, Throw
  <2>. QED  BY <1>9, <2>2, <2>3, <2>4, <2>5, <2>6 DEF CheckConnection
<1>10. ASSUME NEW t \in Threads, Release(t) PROVE PoolTyped'
  <2>. DEFINE last == Len(stack[t])
              rest == SubSeq(stack[t], 1, last - 1)
  <2>1. stack[t] \in Seq(Conns) /\ stack[t] # <<>>
    BY <1>10 DEF Release
  <2>2. /\ last \in Nat \ {0} /\ stack[t][last] \in Conns
        /\ rest \in Seq(Conns) /\ (last # 1 => rest # <<>>)
    BY <2>1, StackFacts, Zenon
  <2>3. /\ connections' = Append(connections, stack[t][last])
        /\ stack' = [stack EXCEPT ![t] = rest]
        /\ pc' = [pc EXCEPT ![t] = IF last = 1 THEN "out" ELSE "use"]
        /\ hand' = hand /\ phase' = phase /\ pc[t] = "use"
    BY <1>10 DEF Release
  <2>4. woken' \subseteq {v \in Threads : pc'[v] = "wait"}
    BY <1>10 DEF Release, NotifyOne, Sleeping
  <2>. HIDE DEF last, rest
  <2>5. connections' \in Seq(Conns)
    BY <2>2, <2>3
  <2>6. /\ stack' \in [Threads -> Seq(Conns)]
        /\ \A v \in Threads : pc'[v] = "use" => stack'[v] # <<>>
    BY <2>2, <2>3
  <2>. QED  BY <2>3, <2>4, <2>5, <2>6
<1>11. CASE Outage
  BY <1>11 DEF Outage
<1>12. CASE Recover
  BY <1>12 DEF Recover
<1>13. CASE UNCHANGED vars
  BY <1>13 DEF vars
<1>. QED
  BY <1>1, <1>2, <1>3, <1>4, <1>5, <1>6, <1>7, <1>8, <1>9, <1>10, <1>11, <1>12, <1>13 DEF Next

\* While a thread sleeps, each step that adds a connection to the queue also notifies
\* a thread, and a notified thread only leaves with a connection or finds none.
LEMMA WakeStep == WakeInv /\ [Next]_vars => NoLostWakeup'
<1>. SUFFICES ASSUME PoolTyped, NoLostWakeup, [Next]_vars, Sleeping' # {}
              PROVE  Len(connections') <= Cardinality(woken')
  BY DEF WakeInv, NoLostWakeup
<1>. USE DEF PoolTyped, InAcquire
<1>0. /\ woken \in SUBSET Threads /\ Cardinality(woken) \in Nat
      /\ Len(connections) \in Nat
  BY WokenCount
<1>1. ASSUME connections' = connections, woken' = woken,
             \A t \in Threads : pc'[t] = "wait" => pc[t] = "wait"
      PROVE  Len(connections') <= Cardinality(woken')
  BY <1>1 DEF Sleeping, NoLostWakeup
\* The queue is empty afterwards.
<1>2. ASSUME connections' = <<>> PROVE Len(connections') <= Cardinality(woken')
  <2>1. woken' \in SUBSET Threads
    BY TypedStep
  <2>2. Cardinality(woken') \in Nat
    BY <2>1, WokenCount
  <2>. QED  BY <1>2, <2>2
\* A thread that slept, notified or not, pops a connection.
<1>3. ASSUME NEW t \in Threads, pc[t] = "wait", woken' = woken \ {t},
             connections # <<>>, Pop(t)
      PROVE  Len(connections') <= Cardinality(woken')
  <2>1. Len(connections') = Len(connections) - 1
    BY <1>3, PopFacts DEF Pop
  <2>2. Sleeping' \subseteq Sleeping
    BY <1>3 DEF Sleeping, Pop
  <2>3. Len(connections) <= Cardinality(woken)
    BY <2>2 DEF NoLostWakeup
  <2>4. Cardinality(woken') >= Cardinality(woken) - 1
    <3>1. CASE t \in woken
      <4>1. Cardinality(woken \ {t}) = Cardinality(woken) - 1
        BY <1>0, <3>1, WokenCount
      <4>. QED  BY <1>0, <1>3, <4>1
    <3>2. CASE t \notin woken
      <4>1. woken' = woken
        BY <1>3, <3>2
      <4>. QED  BY <1>0, <4>1
    <3>. QED  BY <3>1, <3>2
  <2>5. Cardinality(woken') \in Nat
    BY <1>0, <1>3, WokenCount
  <2>. QED  BY <1>0, <2>1, <2>3, <2>4, <2>5
<1>4. ASSUME NEW c \in Conns, InitPool(c) PROVE Len(connections') <= Cardinality(woken')
  <2>1. Sleeping' = {}
    BY <1>4 DEF InitPool, Sleeping
  <2>. QED  BY <2>1
<1>5. ASSUME NEW c \in Conns, ConnectionDrops(c)
      PROVE  Len(connections') <= Cardinality(woken')
  BY <1>1, <1>5 DEF ConnectionDrops
<1>6. CASE InitFails \/ Shutdown
  BY <1>2, <1>6 DEF InitFails, Shutdown, CloseIdle
<1>7. CASE Restart
  BY <1>1, <1>7 DEF Restart
<1>8. ASSUME NEW t \in Threads, Acquire(t) PROVE Len(connections') <= Cardinality(woken')
  <2>1. CASE connections # <<>>
    <3>1. Len(connections') = Len(connections) - 1
      BY <1>8, <2>1, PopFacts DEF Acquire, Pop
    <3>2. Sleeping' = Sleeping /\ woken' = woken
      BY <1>8, <2>1 DEF Acquire, Pop, Sleeping
    <3>. QED  BY <1>0, <3>1, <3>2 DEF NoLostWakeup
  <2>2. CASE connections = <<>>
    BY <1>2, <1>8, <2>2 DEF Acquire
  <2>. QED  BY <2>1, <2>2
<1>9. ASSUME NEW t \in Threads, Wake(t) PROVE Len(connections') <= Cardinality(woken')
  <2>1. CASE connections # <<>>
    BY <1>3, <1>9, <2>1 DEF Wake
  <2>2. CASE connections = <<>>
    BY <1>2, <1>9, <2>2 DEF Wake
  <2>. QED  BY <2>1, <2>2
<1>10. ASSUME NEW t \in Threads, Timeout(t) PROVE Len(connections') <= Cardinality(woken')
  <2>1. CASE connections # <<>>
    BY <1>3, <1>10, <2>1 DEF Timeout
  <2>2. CASE connections = <<>>
    BY <1>2, <1>10, <2>2 DEF Timeout
  <2>. QED  BY <2>1, <2>2
<1>11. ASSUME NEW t \in Threads, CheckConnection(t)
       PROVE  Len(connections') <= Cardinality(woken')
  <2>1. CASE PingAnswered(t)
    BY <1>1, <2>1 DEF PingAnswered, Return
  <2>2. CASE MySqlPingFails(t) \/ StorePingFails(t)
    BY <1>1, <2>2 DEF MySqlPingFails, StorePingFails, Replace
  <2>3. CASE RedisPingThrows(t)
    BY <1>1, <2>3 DEF RedisPingThrows, Throw
  <2>4. CASE Reconnect(t)
    BY <1>1, <2>4 DEF Reconnect, Return
  <2>5. CASE ReconnectFails(t)
    BY <1>1, <2>5 DEF ReconnectFails, Throw
  <2>. QED  BY <1>11, <2>1, <2>2, <2>3, <2>4, <2>5 DEF CheckConnection
<1>12. ASSUME NEW t \in Threads, Release(t) PROVE Len(connections') <= Cardinality(woken')
  <2>1. stack[t][Len(stack[t])] \in Conns
    BY <1>12 DEF Release
  <2>2. Len(connections') = Len(connections) + 1
    BY <1>12, <2>1 DEF Release
  <2>3. Sleeping # {}
    BY <1>12 DEF Release, NotifyOne, Sleeping
  <2>4. PICK v \in Sleeping : woken' = woken \cup {v}
    BY <1>12, <2>3 DEF Release, NotifyOne
  <2>5. Cardinality(woken') = Cardinality(woken) + 1
    BY <1>0, <2>4, WokenCount DEF Sleeping
  <2>. QED  BY <1>0, <2>2, <2>3, <2>5 DEF NoLostWakeup
<1>13. CASE Outage
  BY <1>1, <1>13 DEF Outage
<1>14. CASE Recover
  BY <1>1, <1>14 DEF Recover
<1>15. CASE UNCHANGED vars
  BY <1>1, <1>15 DEF vars
<1>. QED
  BY <1>4, <1>5, <1>6, <1>7, <1>8, <1>9, <1>10, <1>11, <1>12, <1>13, <1>14, <1>15 DEF Next

\* No wake-up is lost in any of the pools, for any number of threads, connections and
\* faults: release's notify_one never leaves a connection idle beside a sleeper.
THEOREM WakeUps == Spec => []NoLostWakeup
<1>1. Init => WakeInv
  BY DEF Init, WakeInv, PoolTyped, NoLostWakeup, Sleeping
<1>2. WakeInv /\ [Next]_vars => WakeInv'
  BY TypedStep, WakeStep DEF WakeInv
<1>3. WakeInv => NoLostWakeup
  BY DEF WakeInv
<1>. QED  BY <1>1, <1>2, <1>3, PTL DEF Spec

----------------------------------------------------------------------------
(* Owners of connections.                                                  *)

\* The connections threads hold, and the threads that replace one.
Owned == UNION {Guarded(t) : t \in Threads}
Creating == {t \in Threads : pc[t] = "create"}

\* acquire has a connection in hand only during the ping; a thread that is out of the
\* pool has no guards.
HandsFull ==
    \A t \in Threads : /\ hand[t] # NoConn <=> pc[t] = "ping"
                       /\ pc[t] = "out" => stack[t] = <<>>

\* Neither the queue nor a thread's guards name a connection twice.
NoneTwice ==
    /\ \A i, k \in 1..Len(connections) : connections[i] = connections[k] => i = k
    /\ \A t \in Threads :
         /\ \A i, k \in 1..Len(stack[t]) : stack[t][i] = stack[t][k] => i = k
         /\ \A i \in 1..Len(stack[t]) : stack[t][i] # hand[t]

\* The queue and the threads share no connection, and what they have is not closed.
Apart ==
    /\ \A t \in Threads : Guarded(t) \cap Idle = {}
    /\ \A t, u \in Threads : t # u => Guarded(t) \cap Guarded(u) = {}
    /\ \A c \in Idle \cup Owned : state[c] # "none"

\* MySqlPool and SessionStore forget no open connection.
NoneForgotten == kind # "RedisPool" => \A c \in Conns : state[c] # "none" => c \in Idle \cup Owned

\* The pool never has more connections than init made.
Sized ==
    /\ Population \in Nat /\ Population <= PoolSize
    /\ phase = "starting" => Len(connections) < PoolSize
    /\ phase = "exited" => connections = <<>>

\* The rest of TypeOK.
ServerTyped ==
    /\ kind \in Kinds /\ phase \in {"starting", "running", "exited"}
    /\ state \in [Conns -> {"none", "open", "broken"}]
    /\ serverUp \in BOOLEAN /\ faults \in 0..MaxFaults

\* The inductive invariant of the owners.
OwnerInv ==
    /\ PoolTyped /\ ServerTyped /\ HandsFull /\ NoneTwice /\ Apart /\ NoneForgotten /\ Sized

\* Only t's connections change.
OnlyOf(t) == \A u \in Threads : u # t => Guarded(u)' = Guarded(u)

\* Queue and threads in one step: t takes c from the queue ...
LEMMA Taken ==
    ASSUME Apart, NoneForgotten, NEW t \in Threads, NEW c \in Idle, OnlyOf(t),
           Idle' = Idle \ {c}, Guarded(t)' = Guarded(t) \cup {c}, UNCHANGED <<state, kind>>
    PROVE  Apart' /\ NoneForgotten' /\ Owned' = Owned \cup {c} /\ c \notin Owned
<1>1. Owned' = Owned \cup {c} /\ c \notin Owned
  BY DEF Owned, OnlyOf, Apart
<1>2. Apart'
  BY <1>1 DEF Apart, OnlyOf
<1>3. NoneForgotten'
  BY <1>1 DEF NoneForgotten
<1>. QED  BY <1>1, <1>2, <1>3

\* ... or gives it back ...
LEMMA GivenBack ==
    ASSUME Apart, NoneForgotten, NEW t \in Threads, NEW c \in Guarded(t), OnlyOf(t),
           Idle' = Idle \cup {c}, Guarded(t)' = Guarded(t) \ {c}, UNCHANGED <<state, kind>>
    PROVE  Apart' /\ NoneForgotten' /\ Owned' = Owned \ {c} /\ c \in Owned
<1>1. Owned' = Owned \ {c} /\ c \in Owned
  BY DEF Owned, OnlyOf, Apart
<1>2. Apart'
  BY <1>1 DEF Apart, OnlyOf
<1>3. NoneForgotten'
  BY <1>1 DEF NoneForgotten
<1>. QED  BY <1>1, <1>2, <1>3

\* ... or closes it; RedisPool only forgets it ...
LEMMA Dropped ==
    ASSUME Apart, NoneForgotten, NEW t \in Threads, NEW c \in Guarded(t), OnlyOf(t),
           UNCHANGED <<Idle, kind>>, Guarded(t)' = Guarded(t) \ {c},
           \A d \in Conns : d # c => state'[d] = state[d],
           state'[c] = "none" \/ (kind = "RedisPool" /\ state'[c] = state[c]),
           Idle \subseteq Conns, Owned \subseteq Conns
    PROVE  Apart' /\ NoneForgotten' /\ Owned' = Owned \ {c} /\ c \in Owned
<1>1. Owned' = Owned \ {c} /\ c \in Owned
  BY DEF Owned, OnlyOf, Apart
<1>2. Apart'
  BY <1>1 DEF Apart, OnlyOf, Owned
<1>3. NoneForgotten'
  BY <1>1 DEF NoneForgotten
<1>. QED  BY <1>1, <1>2, <1>3

\* ... or opens another one.
LEMMA Opened ==
    ASSUME Apart, NoneForgotten, NEW t \in Threads, NEW c \in Conns, OnlyOf(t),
           state[c] = "none", state'[c] = "open",
           UNCHANGED <<Idle, kind>>, Guarded(t)' = Guarded(t) \cup {c},
           \A d \in Conns : d # c => state'[d] = state[d],
           Idle \subseteq Conns, Owned \subseteq Conns
    PROVE  Apart' /\ NoneForgotten' /\ Owned' = Owned \cup {c} /\ c \notin Owned
<1>0. c \notin Idle /\ c \notin Owned
  BY DEF Apart
<1>1. Owned' = Owned \cup {c}
  BY DEF Owned, OnlyOf
<1>2. Apart'
  BY <1>0, <1>1 DEF Apart, OnlyOf, Owned
<1>3. NoneForgotten'
  BY <1>1 DEF NoneForgotten
<1>. QED  BY <1>0, <1>1, <1>2, <1>3

\* A step after which everybody has what he had.
LEMMA NoneMoved ==
    ASSUME Apart, NoneForgotten, UNCHANGED <<Idle, kind>>,
           \A u \in Threads : Guarded(u)' = Guarded(u),
           \A d \in Conns : state'[d] = "none" <=> state[d] = "none",
           Idle \subseteq Conns, Owned \subseteq Conns
    PROVE  Apart' /\ NoneForgotten' /\ Owned' = Owned
<1>1. Owned' = Owned
  BY DEF Owned
<1>2. Apart'
  BY <1>1 DEF Apart
<1>3. NoneForgotten'
  BY <1>1 DEF NoneForgotten
<1>. QED  BY <1>1, <1>2, <1>3

\* The sets the queue and the guards name.
LEMMA OwnerSets ==
    ASSUME PoolTyped
    PROVE  /\ Idle \subseteq Conns /\ Owned \subseteq Conns /\ Creating \subseteq Threads
           /\ Idle = {connections[i] : i \in 1..Len(connections)}
           /\ \A t \in Threads : /\ Guarded(t) \subseteq Conns
                                 /\ Guarded(t) = {stack[t][i] : i \in 1..Len(stack[t])}
                                                   \cup ({hand[t]} \ {NoConn})
<1>1. connections \in Seq(Conns) /\ DOMAIN connections = 1..Len(connections)
  BY DEF PoolTyped
<1>2. \A t \in Threads : stack[t] \in Seq(Conns) /\ DOMAIN stack[t] = 1..Len(stack[t])
                         /\ hand[t] \in Conns \cup {NoConn}
  BY DEF PoolTyped
<1>3. \A t \in Threads : /\ Guarded(t) \subseteq Conns
                         /\ Guarded(t) = {stack[t][i] : i \in 1..Len(stack[t])}
                                           \cup ({hand[t]} \ {NoConn})
  BY <1>2 DEF Guarded
<1>. QED  BY <1>1, <1>3 DEF Idle, Owned, Creating

\* How many connections the pool has, by owner.
LEMMA Counts ==
    ASSUME PoolTyped
    PROVE  /\ IsFiniteSet(Owned) /\ IsFiniteSet(Creating)
           /\ Cardinality(Owned) \in Nat /\ Cardinality(Creating) \in Nat
           /\ Len(connections) \in Nat
           /\ Population = Len(connections) + Cardinality(Owned) + Cardinality(Creating)
<1>1. Owned \in SUBSET Conns /\ Creating \in SUBSET Threads
  BY OwnerSets
<1>2. Population = Len(connections) + Cardinality(Owned) + Cardinality(Creating)
  BY DEF Population, Owned, Creating
<1>3. Len(connections) \in Nat
  BY DEF PoolTyped
<1>. QED  BY <1>1, <1>2, <1>3, CountSubset, PoolAssumption

\* What a sequence of connections names, and that it names nothing twice.
Names(q) == {q[i] : i \in 1..Len(q)}
Once(q) == \A i, k \in 1..Len(q) : q[i] = q[k] => i = k

\* A connection behind others it is not among.
LEMMA AppendOnce ==
    ASSUME NEW q \in Seq(Conns), NEW c \in Conns, Once(q), c \notin Names(q)
    PROVE  /\ Append(q, c) \in Seq(Conns) /\ Len(Append(q, c)) = Len(q) + 1
           /\ Once(Append(q, c)) /\ Names(Append(q, c)) = Names(q) \cup {c}
<1> DEFINE p == Append(q, c)
<1>1. /\ p \in Seq(Conns) /\ Len(q) \in Nat /\ Len(p) = Len(q) + 1
      /\ p[Len(q) + 1] = c /\ \A i \in 1..Len(q) : p[i] = q[i]
  OBVIOUS
<1>. HIDE DEF p
<1>2. Once(p)
  BY <1>1 DEF Once, Names
<1>3. Names(p) = Names(q) \cup {c}
  BY <1>1 DEF Names
<1>. QED  BY <1>1, <1>2, <1>3 DEF p

\* All but the last of the connections.
LEMMA FrontOnce ==
    ASSUME NEW q \in Seq(Conns), q # <<>>, Once(q)
    PROVE  LET p == SubSeq(q, 1, Len(q) - 1) IN
           /\ p \in Seq(Conns) /\ Once(p) /\ Names(p) = Names(q) \ {q[Len(q)]}
           /\ q[Len(q)] \in Names(q) /\ Len(q) \in Nat \ {0} /\ (Len(q) = 1 => p = <<>>)
<1> DEFINE n == Len(q)
           p == SubSeq(q, 1, n - 1)
<1>1. n \in Nat \ {0} /\ n - 1 \in 0..n
  OBVIOUS
<1>2. p \in Seq(Conns) /\ Len(p) = n - 1 /\ \A i \in 1..(n - 1) : p[i] = q[i]
  BY <1>1, PrefixFacts, Zenon
<1>3. \A i, k \in 1..n : q[i] = q[k] => i = k
  BY DEF Once
<1>4. q[n] \in Names(q) /\ Names(q) = {q[i] : i \in 1..n}
  BY <1>1 DEF Names
<1>. HIDE DEF p, n
<1>5. Once(p)
  BY <1>1, <1>2, <1>3 DEF Once
<1>6. Names(p) = {q[i] : i \in 1..(n - 1)}
  BY <1>1, <1>2 DEF Names
<1>7. {q[i] : i \in 1..(n - 1)} = {q[i] : i \in 1..n} \ {q[n]}
  <2>1. \A i \in 1..n : i # n => q[i] # q[n] /\ i \in 1..(n - 1)
    BY <1>1, <1>3
  <2>2. \A i \in 1..(n - 1) : i \in 1..n /\ i # n
    BY <1>1
  <2>. QED  BY <2>1, <2>2
<1>8. n = 1 => p = <<>>
  BY <1>2
<1>. QED  BY <1>1, <1>2, <1>4, <1>5, <1>6, <1>7, <1>8 DEF p, n

\* All but the first.
LEMMA TailOnce ==
    ASSUME NEW q \in Seq(Conns), q # <<>>, Once(q)
    PROVE  /\ Tail(q) \in Seq(Conns) /\ Len(Tail(q)) = Len(q) - 1 /\ Once(Tail(q))
           /\ Head(q) \in Names(q) /\ Names(Tail(q)) = Names(q) \ {Head(q)} /\ Head(q) \in Conns
<1> DEFINE p == Tail(q)
<1>1. /\ Len(q) \in Nat \ {0} /\ Head(q) = q[1] /\ q[1] \in Conns /\ p \in Seq(Conns)
      /\ Len(p) = Len(q) - 1 /\ \A i \in 1..(Len(q) - 1) : p[i] = q[i + 1]
  OBVIOUS
<1>. HIDE DEF p
<1>2. \A i, k \in 1..Len(q) : q[i] = q[k] => i = k
  BY DEF Once
<1>3. Once(p)
  BY <1>1, <1>2 DEF Once
<1>4. q[1] \in Names(q) /\ q[1] \notin Names(p) /\ Names(p) \subseteq Names(q)
  BY <1>1, <1>2 DEF Names
<1>5. ASSUME NEW d \in Names(q), d # q[1] PROVE d \in Names(p)
  <2>1. PICK i \in 1..Len(q) : d = q[i]
    BY DEF Names
  <2>2. i # 1 /\ i - 1 \in 1..Len(p) /\ p[i - 1] = d
    BY <1>1, <1>5, <2>1
  <2>. QED  BY <2>2 DEF Names
<1>. QED  BY <1>1, <1>3, <1>4, <1>5 DEF p

\* The invariant in terms of what queue and guards name.
LEMMA OwnerNames ==
    ASSUME OwnerInv
    PROVE  /\ connections \in Seq(Conns) /\ Idle = Names(connections) /\ Once(connections)
           /\ NoConn \notin Conns
           /\ \A t \in Threads :
                /\ stack[t] \in Seq(Conns) /\ Once(stack[t]) /\ hand[t] \notin Names(stack[t])
                /\ hand[t] \in Conns \cup {NoConn}
                /\ Guarded(t) = Names(stack[t]) \cup ({hand[t]} \ {NoConn})
                /\ NoConn \notin Names(stack[t]) /\ Guarded(t) \cap Idle = {}
BY OwnerSets, PoolAssumption DEF OwnerInv, PoolTyped, NoneTwice, Apart, Once, Names

\* What one thread's change of queue, hand and guards means to the sets.
LEMMA NamesAfter ==
    ASSUME OwnerInv, NEW t \in Threads, NEW q \in Seq(Conns), NEW p \in Seq(Conns),
           NEW h \in Conns \cup {NoConn},
           connections' = q, stack' = [stack EXCEPT ![t] = p], hand' = [hand EXCEPT ![t] = h],
           Once(q), Once(p), h \notin Names(p)
    PROVE  /\ Idle' = Names(q) /\ Guarded(t)' = Names(p) \cup ({h} \ {NoConn}) /\ OnlyOf(t)
           /\ NoneTwice'
<1>t. hand \in [Threads -> Conns \cup {NoConn}] /\ stack \in [Threads -> Seq(Conns)]
  BY DEF OwnerInv, PoolTyped
<1>1. /\ stack'[t] = p /\ hand'[t] = h
      /\ \A u \in Threads : u # t => stack'[u] = stack[u] /\ hand'[u] = hand[u]
  BY <1>t
<1>2. OnlyOf(t)
  BY <1>1 DEF OnlyOf, Guarded
<1>3. DOMAIN q = 1..Len(q) /\ DOMAIN p = 1..Len(p)
  OBVIOUS
<1>4. Idle' = Names(q)
  BY <1>3 DEF Idle, Names
<1>5. Guarded(t)' = Names(p) \cup ({h} \ {NoConn})
  BY <1>1, <1>3 DEF Guarded, Names
<1>6. \A u \in Threads : u # t => Once(stack[u]) /\ hand[u] \notin Names(stack[u])
  BY OwnerNames
<1>7. NoneTwice'
  BY <1>1, <1>6 DEF NoneTwice, Once, Names
<1>. QED  BY <1>2, <1>4, <1>5, <1>7

\* A thread pops the head of the queue.
LEMMA PopSets ==
    ASSUME OwnerInv, NEW t \in Threads, connections # <<>>, Pop(t), hand[t] = NoConn,
           UNCHANGED stack
    PROVE  /\ Head(connections) \in Idle /\ Idle' = Idle \ {Head(connections)}
           /\ Guarded(t)' = Guarded(t) \cup {Head(connections)} /\ OnlyOf(t)
           /\ NoneTwice' /\ Len(connections') = Len(connections) - 1
<1> DEFINE c == Head(connections)
           q == Tail(connections)
<1>1. /\ q \in Seq(Conns) /\ Len(q) = Len(connections) - 1 /\ Once(q)
      /\ c \in Idle /\ Names(q) = Idle \ {c} /\ c \in Conns
  BY OwnerNames, TailOnce
<1>2. connections' = q /\ hand' = [hand EXCEPT ![t] = c]
  BY DEF Pop
<1>3. stack' = [stack EXCEPT ![t] = stack[t]]
  BY DEF OwnerInv, PoolTyped
<1>4. c \notin Names(stack[t]) /\ c # NoConn
  BY <1>1, OwnerNames
<1>. HIDE DEF c, q
<1>5. /\ Idle' = Names(q) /\ Guarded(t)' = Names(stack[t]) \cup ({c} \ {NoConn}) /\ OnlyOf(t)
      /\ NoneTwice'
  BY <1>1, <1>2, <1>3, <1>4, OwnerNames, NamesAfter
<1>6. Guarded(t)' = Guarded(t) \cup {c}
  BY <1>4, <1>5, OwnerNames
<1>. QED  BY <1>1, <1>2, <1>5, <1>6 DEF c, q

\* acquire returns with c: a new guard of t has it.
LEMMA ReturnSets ==
    ASSUME OwnerInv, NEW t \in Threads, NEW c \in Conns, Return(t, c), UNCHANGED connections,
           c \notin Names(stack[t])
    PROVE  /\ Guarded(t)' = (Guarded(t) \ {hand[t]}) \cup {c} /\ OnlyOf(t) /\ UNCHANGED Idle
           /\ NoneTwice'
<1> DEFINE p == Append(stack[t], c)
<1>1. p \in Seq(Conns) /\ Once(p) /\ Names(p) = Names(stack[t]) \cup {c} /\ NoConn \notin Names(p)
  BY OwnerNames, AppendOnce
<1>2. /\ stack' = [stack EXCEPT ![t] = p] /\ hand' = [hand EXCEPT ![t] = NoConn]
      /\ connections' = connections
  BY DEF Return
<1>. HIDE DEF p
<1>3. /\ Idle' = Names(connections) /\ Guarded(t)' = Names(p) \cup ({NoConn} \ {NoConn})
      /\ OnlyOf(t) /\ NoneTwice'
  <2>1. /\ connections \in Seq(Conns) /\ Once(connections) /\ NoConn \in Conns \cup {NoConn}
    BY OwnerNames
  <2>. QED  BY <1>1, <1>2, <2>1, NamesAfter, Zenon
<1>. QED  BY <1>1, <1>3, OwnerNames

\* acquire puts down what it had in its hand.
LEMMA HandSets ==
    ASSUME OwnerInv, NEW t \in Threads, hand' = [hand EXCEPT ![t] = NoConn],
           UNCHANGED <<connections, stack>>
    PROVE  /\ Guarded(t)' = Guarded(t) \ {hand[t]} /\ OnlyOf(t) /\ UNCHANGED Idle
           /\ NoneTwice'
<1>1. stack' = [stack EXCEPT ![t] = stack[t]] /\ connections' = connections
  BY DEF OwnerInv, PoolTyped
<1>2. /\ Idle' = Names(connections) /\ Guarded(t)' = Names(stack[t]) \cup ({NoConn} \ {NoConn})
      /\ OnlyOf(t) /\ NoneTwice'
  <2>1. /\ connections \in Seq(Conns) /\ Once(connections) /\ NoConn \in Conns \cup {NoConn}
        /\ stack[t] \in Seq(Conns) /\ Once(stack[t]) /\ NoConn \notin Names(stack[t])
    BY OwnerNames
  <2>. QED  BY <1>1, <2>1, NamesAfter, Zenon
<1>. QED  BY <1>2, OwnerNames

\* The innermost guard of t gives its connection back.
LEMMA ReleaseSets ==
    ASSUME OwnerInv, NEW t \in Threads, Release(t)
    PROVE  LET c == stack[t][Len(stack[t])] IN
           /\ c \in Guarded(t) /\ Idle' = Idle \cup {c}
           /\ Guarded(t)' = Guarded(t) \ {c} /\ OnlyOf(t)
           /\ NoneTwice' /\ Len(connections') = Len(connections) + 1
           /\ Len(stack[t]) = 1 => stack'[t] = <<>>
<1> DEFINE n == Len(stack[t])
           c == stack[t][n]
           p == SubSeq(stack[t], 1, n - 1)
           q == Append(connections, c)
<1>0. stack[t] # <<>> /\ hand[t] = NoConn /\ stack \in [Threads -> Seq(Conns)]
      /\ hand' = [hand EXCEPT ![t] = NoConn]
  BY DEF OwnerInv, PoolTyped, HandsFull, Release
<1>1. /\ p \in Seq(Conns) /\ Once(p) /\ Names(p) = Names(stack[t]) \ {c} /\ c \in Names(stack[t])
      /\ n = 1 => p = <<>>
  BY <1>0, OwnerNames, FrontOnce
<1>2. connections' = q /\ stack' = [stack EXCEPT ![t] = p]
  BY DEF Release
<1>. HIDE DEF c, p, n
<1>3. c \in Guarded(t) /\ c \in Conns /\ c \notin Idle /\ NoConn \notin Names(p)
  BY <1>1, OwnerNames, OwnerSets DEF OwnerInv
<1>4. /\ q \in Seq(Conns) /\ Len(q) = Len(connections) + 1 /\ Once(q)
      /\ Names(q) = Idle \cup {c}
  BY <1>3, OwnerNames, AppendOnce
<1>. HIDE DEF q
<1>5. /\ Idle' = Names(q) /\ Guarded(t)' = Names(p) \cup ({NoConn} \ {NoConn}) /\ OnlyOf(t)
      /\ NoneTwice'
  <2>1. /\ q \in Seq(Conns) /\ p \in Seq(Conns) /\ NoConn \in Conns \cup {NoConn}
        /\ connections' = q /\ stack' = [stack EXCEPT ![t] = p]
        /\ hand' = [hand EXCEPT ![t] = NoConn]
        /\ Once(q) /\ Once(p) /\ NoConn \notin Names(p)
    BY <1>0, <1>1, <1>2, <1>3, <1>4
  <2>. QED  BY <2>1, NamesAfter, Zenon
<1>6. Guarded(t)' = Guarded(t) \ {c}
  BY <1>0, <1>1, <1>5, OwnerNames
<1>7. stack'[t] = p
  BY <1>0, <1>2
<1>. QED  BY <1>1, <1>2, <1>3, <1>4, <1>5, <1>6, <1>7 DEF c, n

\* What the steps of a running pool leave alone, and the types afterwards.
Running ==
    /\ OwnerInv /\ PoolTyped' /\ ServerTyped' /\ phase = "running" /\ phase' = "running"

\* A step of a running pool that gains no connection.
LEMMA RunningStep ==
    ASSUME Running, HandsFull', NoneTwice', Apart', NoneForgotten',
           Population' \in Nat, Population' <= Population
    PROVE  OwnerInv'
<1>1. Sized'
  BY PoolAssumption DEF Running, OwnerInv, Sized
<1>. QED  BY <1>1 DEF Running, OwnerInv

\* The sum after a step.
LEMMA Balance ==
    Population' = Len(connections') + Cardinality(Owned') + Cardinality(Creating')
BY DEF Population, Owned, Creating

\* acquire pops a connection.
LEMMA PopKeeps ==
    ASSUME Running, NEW t \in Threads, connections # <<>>, Pop(t), pc[t] \notin {"ping", "create"},
           UNCHANGED <<stack, state, kind>>
    PROVE  OwnerInv' /\ Population' = Population
<1> DEFINE c == Head(connections)
<1>0. OwnerInv /\ PoolTyped /\ HandsFull /\ Apart /\ NoneForgotten
      /\ pc \in [Threads -> {"out", "use"} \cup InAcquire]
      /\ hand \in [Threads -> Conns \cup {NoConn}] /\ hand[t] = NoConn
  BY DEF Running, OwnerInv, PoolTyped, HandsFull
<1>1. /\ c \in Idle /\ Idle' = Idle \ {c} /\ Guarded(t)' = Guarded(t) \cup {c} /\ OnlyOf(t)
      /\ NoneTwice' /\ Len(connections') = Len(connections) - 1
  BY <1>0, PopSets
<1>2. Apart' /\ NoneForgotten' /\ Owned' = Owned \cup {c} /\ c \notin Owned
  BY <1>0, <1>1, Taken
<1>3. HandsFull'
  <2>1. c \in Conns /\ NoConn \notin Conns
    BY <1>0, <1>1, OwnerSets, PoolAssumption
  <2>. QED  BY <1>0, <2>1 DEF HandsFull, Pop
<1>4. Creating' = Creating
  BY <1>0 DEF Creating, Pop
<1>5. Cardinality(Owned') = Cardinality(Owned) + 1 /\ Cardinality(Creating') = Cardinality(Creating)
  BY <1>0, <1>2, <1>4, Counts, CountAdd, Zenon
<1>6. Population' = Population /\ Population \in Nat
  BY <1>0, <1>1, <1>5, Counts, Balance DEF OwnerInv, Sized
<1>. QED  BY <1>1, <1>2, <1>3, <1>6, RunningStep

\* release puts one back.
LEMMA ReleaseKeeps ==
    ASSUME Running, NEW t \in Threads, Release(t)
    PROVE  OwnerInv' /\ Population' = Population
<1> DEFINE c == stack[t][Len(stack[t])]
<1>0. OwnerInv /\ PoolTyped /\ HandsFull /\ Apart /\ NoneForgotten
      /\ pc \in [Threads -> {"out", "use"} \cup InAcquire]
      /\ stack \in [Threads -> Seq(Conns)]
  BY DEF Running, OwnerInv, PoolTyped
<1>1. /\ c \in Guarded(t) /\ Idle' = Idle \cup {c} /\ Guarded(t)' = Guarded(t) \ {c} /\ OnlyOf(t)
      /\ NoneTwice' /\ Len(connections') = Len(connections) + 1
      /\ Len(stack[t]) = 1 => stack'[t] = <<>>
  BY <1>0, ReleaseSets
<1>2. UNCHANGED <<state, kind, hand>>
  BY DEF Release
<1>. HIDE DEF c
<1>3. Apart' /\ NoneForgotten' /\ Owned' = Owned \ {c} /\ c \in Owned
  BY <1>0, <1>1, <1>2, GivenBack
<1>4. /\ pc[t] = "use" /\ pc' = [pc EXCEPT ![t] = IF Len(stack[t]) = 1 THEN "out" ELSE "use"]
      /\ \A u \in Threads : u # t => stack'[u] = stack[u]
  BY <1>0 DEF Release
<1>5. HandsFull'
  BY <1>0, <1>1, <1>2, <1>4 DEF HandsFull
<1>6. Creating' = Creating
  BY <1>0, <1>4 DEF Creating
<1>7. Cardinality(Owned') = Cardinality(Owned) - 1 /\ Cardinality(Creating') = Cardinality(Creating)
  BY <1>0, <1>3, <1>6, Counts, CountRemove, Zenon
<1>8. Population' = Population /\ Population \in Nat
  BY <1>0, <1>1, <1>7, Counts, Balance DEF OwnerInv, Sized
<1>. QED  BY <1>1, <1>3, <1>5, <1>8, RunningStep

\* The ping is answered: the connection goes from the hand to a guard.
LEMMA PingKeeps ==
    ASSUME Running, NEW t \in Threads, PingAnswered(t)
    PROVE  OwnerInv' /\ Population' = Population
<1>0. /\ OwnerInv /\ PoolTyped /\ HandsFull /\ Apart /\ NoneForgotten
      /\ pc \in [Threads -> {"out", "use"} \cup InAcquire]
      /\ hand \in [Threads -> Conns \cup {NoConn}] /\ stack \in [Threads -> Seq(Conns)]
      /\ pc[t] = "ping" /\ hand[t] \in Conns /\ UNCHANGED <<state, kind, connections>>
  BY DEF Running, OwnerInv, PoolTyped, PingAnswered
<1>1. hand[t] \notin Names(stack[t]) /\ hand[t] \in Guarded(t)
  BY <1>0, OwnerNames
<1>2. Return(t, hand[t])
  BY DEF PingAnswered
<1>3. /\ Guarded(t)' = (Guarded(t) \ {hand[t]}) \cup {hand[t]} /\ OnlyOf(t) /\ UNCHANGED Idle
      /\ NoneTwice'
  BY <1>0, <1>1, <1>2, ReturnSets
<1>4. \A u \in Threads : Guarded(u)' = Guarded(u)
  BY <1>1, <1>3 DEF OnlyOf
<1>5. Apart' /\ NoneForgotten' /\ Owned' = Owned
  BY <1>0, <1>3, <1>4, NoneMoved, OwnerSets
<1>6. HandsFull' /\ Creating' = Creating
  BY <1>0, <1>2 DEF HandsFull, Return, Creating
<1>7. Cardinality(Owned') = Cardinality(Owned) /\ Cardinality(Creating') = Cardinality(Creating)
  BY <1>5, <1>6, Zenon
<1>8. Population' = Population /\ Population \in Nat
  BY <1>0, <1>7, Counts, Balance DEF OwnerInv, Sized
<1>. QED  BY <1>3, <1>5, <1>6, <1>8, RunningStep

\* A dead connection is closed and is to be replaced.
LEMMA ReplaceKeeps ==
    ASSUME Running, NEW t \in Threads, pc[t] = "ping", Replace(t)
    PROVE  OwnerInv' /\ Population' = Population
<1>0. /\ OwnerInv /\ PoolTyped /\ HandsFull /\ Apart /\ NoneForgotten
      /\ pc \in [Threads -> {"out", "use"} \cup InAcquire]
      /\ state \in [Conns -> {"none", "open", "broken"}]
      /\ hand \in [Threads -> Conns \cup {NoConn}]
      /\ hand[t] \in Conns /\ UNCHANGED <<kind, connections, stack>>
      /\ hand' = [hand EXCEPT ![t] = NoConn]
  BY DEF Running, OwnerInv, PoolTyped, ServerTyped, Replace
<1>1. hand[t] \in Guarded(t)
  BY <1>0, OwnerNames
<1>2. Guarded(t)' = Guarded(t) \ {hand[t]} /\ OnlyOf(t) /\ UNCHANGED Idle /\ NoneTwice'
  BY <1>0, HandSets
<1>3. state'[hand[t]] = "none" /\ \A d \in Conns : d # hand[t] => state'[d] = state[d]
  BY <1>0 DEF Replace
<1>4. Apart' /\ NoneForgotten' /\ Owned' = Owned \ {hand[t]} /\ hand[t] \in Owned
  BY <1>0, <1>1, <1>2, <1>3, Dropped, OwnerSets
<1>5. HandsFull' /\ Creating' = Creating \cup {t} /\ t \notin Creating
  BY <1>0 DEF HandsFull, Replace, Creating
<1>6. /\ Cardinality(Owned') = Cardinality(Owned) - 1
      /\ Cardinality(Creating') = Cardinality(Creating) + 1
  BY <1>0, <1>4, <1>5, Counts, CountRemove, CountAdd, Zenon
<1>7. Population' = Population /\ Population \in Nat
  BY <1>0, <1>6, Counts, Balance DEF OwnerInv, Sized
<1>. QED  BY <1>2, <1>4, <1>5, <1>7, RunningStep

\* The replacement is made.
LEMMA ReconnectKeeps ==
    ASSUME Running, NEW t \in Threads, Reconnect(t)
    PROVE  OwnerInv' /\ Population' = Population
<1>1. PICK c \in Conns : CreateConnection(c) /\ Return(t, c)
  BY DEF Reconnect
<1>0. /\ OwnerInv /\ PoolTyped /\ HandsFull /\ Apart /\ NoneForgotten
      /\ pc \in [Threads -> {"out", "use"} \cup InAcquire]
      /\ state \in [Conns -> {"none", "open", "broken"}]
      /\ hand \in [Threads -> Conns \cup {NoConn}] /\ stack \in [Threads -> Seq(Conns)]
      /\ pc[t] = "create" /\ hand[t] = NoConn /\ UNCHANGED <<kind, connections>>
  BY DEF Running, OwnerInv, PoolTyped, ServerTyped, HandsFull, Reconnect
<1>2. /\ state[c] = "none" /\ state'[c] = "open"
      /\ \A d \in Conns : d # c => state'[d] = state[d]
  BY <1>0, <1>1 DEF CreateConnection
<1>3. c \notin Guarded(t)
  BY <1>0, <1>2 DEF Apart, Owned
<1>4. c \notin Names(stack[t]) /\ NoConn \notin Guarded(t)
  BY <1>0, <1>3, OwnerNames
<1>5. /\ Guarded(t)' = (Guarded(t) \ {hand[t]}) \cup {c} /\ OnlyOf(t) /\ UNCHANGED Idle
      /\ NoneTwice'
  BY <1>0, <1>1, <1>4, ReturnSets
<1>6. Guarded(t)' = Guarded(t) \cup {c}
  BY <1>0, <1>4, <1>5
<1>7. Apart' /\ NoneForgotten' /\ Owned' = Owned \cup {c} /\ c \notin Owned
  BY <1>0, <1>2, <1>5, <1>6, Opened, OwnerSets
<1>8. HandsFull' /\ Creating' = Creating \ {t} /\ t \in Creating
  BY <1>0, <1>1 DEF HandsFull, Return, Creating
<1>9. /\ Cardinality(Owned') = Cardinality(Owned) + 1
      /\ Cardinality(Creating') = Cardinality(Creating) - 1
  BY <1>0, <1>7, <1>8, Counts, CountRemove, CountAdd, Zenon
<1>10. Population' = Population /\ Population \in Nat
  BY <1>0, <1>9, Counts, Balance DEF OwnerInv, Sized
<1>. QED  BY <1>5, <1>7, <1>8, <1>10, RunningStep

\* A step, in any phase, after which everybody has what he had and what was open is.
LEMMA StillKeeps ==
    ASSUME OwnerInv, PoolTyped', ServerTyped', HandsFull', Creating' = Creating,
           UNCHANGED <<phase, kind, connections, hand, stack>>,
           \A d \in Conns : state'[d] = "none" <=> state[d] = "none"
    PROVE  OwnerInv' /\ Population' = Population
<1>0. PoolTyped /\ Apart /\ NoneForgotten /\ NoneTwice /\ Sized
  BY DEF OwnerInv
<1>1. UNCHANGED Idle /\ \A u \in Threads : Guarded(u)' = Guarded(u)
  BY DEF Idle, Guarded
<1>2. Apart' /\ NoneForgotten' /\ Owned' = Owned
  BY <1>0, <1>1, NoneMoved, OwnerSets
<1>3. NoneTwice'
  BY <1>0 DEF NoneTwice
<1>4. Cardinality(Owned') = Cardinality(Owned) /\ Cardinality(Creating') = Cardinality(Creating)
  BY <1>2, Zenon
<1>5. Population' = Population
  BY <1>0, <1>4, Counts, Balance
<1>6. Sized'
  BY <1>0, <1>5 DEF Sized
<1>. QED  BY <1>2, <1>3, <1>5, <1>6 DEF OwnerInv

\* RedisPool's ping throws: the pool has one connection less.
LEMMA RedisThrowKeeps ==
    ASSUME Running, NEW t \in Threads, RedisPingThrows(t)
    PROVE  OwnerInv'
<1>0. /\ OwnerInv /\ PoolTyped /\ HandsFull /\ Apart /\ NoneForgotten
      /\ pc \in [Threads -> {"out", "use"} \cup InAcquire]
      /\ hand \in [Threads -> Conns \cup {NoConn}] /\ pc[t] = "ping"
      /\ hand[t] \in Conns /\ UNCHANGED <<kind, connections, stack, state>>
      /\ hand' = [hand EXCEPT ![t] = NoConn] /\ kind = "RedisPool"
      /\ pc' = [pc EXCEPT ![t] = IF stack[t] = <<>> THEN "out" ELSE "use"]
  BY DEF Running, OwnerInv, PoolTyped, RedisPingThrows, Throw
<1>1. hand[t] \in Guarded(t)
  BY <1>0, OwnerNames
<1>2. Guarded(t)' = Guarded(t) \ {hand[t]} /\ OnlyOf(t) /\ UNCHANGED Idle /\ NoneTwice'
  BY <1>0, HandSets
<1>3. Apart' /\ NoneForgotten' /\ Owned' = Owned \ {hand[t]} /\ hand[t] \in Owned
  BY <1>0, <1>1, <1>2, Dropped, OwnerSets
<1>4. HandsFull' /\ Creating' = Creating
  BY <1>0 DEF HandsFull, Creating
<1>5. /\ Cardinality(Owned') = Cardinality(Owned) - 1 /\ Cardinality(Owned) > 0
      /\ Cardinality(Creating') = Cardinality(Creating)
  BY <1>0, <1>3, <1>4, Counts, CountRemove, Zenon
<1>6. Population' <= Population /\ Population' \in Nat
  BY <1>0, <1>5, Counts, Balance
<1>. QED  BY <1>2, <1>3, <1>4, <1>6, RunningStep

\* The replacement cannot be made: the pool has one connection less.
LEMMA FailKeeps ==
    ASSUME Running, NEW t \in Threads, ReconnectFails(t)
    PROVE  OwnerInv' /\ Population' = Population - 1 /\ GivesUp(t)
<1>0. /\ OwnerInv /\ PoolTyped /\ HandsFull /\ Apart /\ NoneForgotten
      /\ pc \in [Threads -> {"out", "use"} \cup InAcquire]
      /\ hand \in [Threads -> Conns \cup {NoConn}] /\ pc[t] = "create"
      /\ UNCHANGED <<kind, connections, stack, state>>
      /\ hand' = [hand EXCEPT ![t] = NoConn]
      /\ pc' = [pc EXCEPT ![t] = IF stack[t] = <<>> THEN "out" ELSE "use"]
  BY DEF Running, OwnerInv, PoolTyped, ReconnectFails, Throw
<1>1. hand[t] = NoConn /\ NoConn \notin Guarded(t)
  BY <1>0, OwnerNames DEF HandsFull
<1>2. Guarded(t)' = Guarded(t) \ {hand[t]} /\ OnlyOf(t) /\ UNCHANGED Idle /\ NoneTwice'
  BY <1>0, HandSets
<1>3. \A u \in Threads : Guarded(u)' = Guarded(u)
  BY <1>1, <1>2 DEF OnlyOf
<1>4. Apart' /\ NoneForgotten' /\ Owned' = Owned
  BY <1>0, <1>2, <1>3, NoneMoved, OwnerSets
<1>5. HandsFull' /\ Creating' = Creating \ {t} /\ t \in Creating
  BY <1>0 DEF HandsFull, Creating
<1>6. /\ Cardinality(Owned') = Cardinality(Owned) /\ Cardinality(Creating) > 0
      /\ Cardinality(Creating') = Cardinality(Creating) - 1
  BY <1>0, <1>4, <1>5, Counts, CountRemove, Zenon
<1>7. Population' = Population - 1 /\ Population' <= Population /\ Population' \in Nat
  BY <1>0, <1>6, Counts, Balance
<1>8. GivesUp(t)
  BY <1>0 DEF GivesUp
<1>. QED  BY <1>2, <1>4, <1>5, <1>7, <1>8, RunningStep

\* Only a thread whose createConnection threw leaves acquire with nothing.
LEMMA WhoGivesUp ==
    ASSUME PoolTyped, [Next]_vars, NEW u \in Threads, GivesUp(u)
    PROVE  ReconnectFails(u)
<1>0. /\ pc \in [Threads -> {"out", "use"} \cup InAcquire]
      /\ stack \in [Threads -> Seq(Conns)] /\ pc[u] = "create" /\ pc'[u] # "create"
      /\ stack'[u] = stack[u]
  BY DEF PoolTyped, GivesUp
<1>1. ASSUME NEW t \in Threads,
             Acquire(t) \/ Wake(t) \/ Timeout(t) \/ CheckConnection(t) \/ Release(t)
      PROVE  ReconnectFails(u)
  <2>1. CASE Acquire(t) \/ Wake(t) \/ Timeout(t) \/ Release(t)
    BY <1>0, <2>1 DEF Acquire, Wake, Timeout, Release, Pop, Throw
  <2>2. CASE PingAnswered(t) \/ MySqlPingFails(t) \/ StorePingFails(t) \/ RedisPingThrows(t)
    BY <1>0, <2>2 DEF PingAnswered, Return, MySqlPingFails, StorePingFails, Replace,
                      RedisPingThrows, Throw
  <2>3. CASE Reconnect(t)
    <3>1. PICK c \in Conns : Return(t, c)
      BY <2>3 DEF Reconnect
    <3>2. t = u
      BY <1>0, <3>1 DEF Return
    <3>3. stack'[u] = Append(stack[u], c)
      BY <1>0, <3>1, <3>2 DEF Return
    <3>. QED  BY <1>0, <3>3, AppendProperties
  <2>4. CASE ReconnectFails(t)
    <3>1. t = u
      BY <1>0, <2>4 DEF ReconnectFails, Throw
    <3>. QED  BY <2>4, <3>1
  <2>. QED  BY <1>1, <2>1, <2>2, <2>3, <2>4 DEF CheckConnection
<1>2. ASSUME NEW c \in Conns, InitPool(c) \/ ConnectionDrops(c) PROVE FALSE
  BY <1>0, <1>2 DEF InitPool, ConnectionDrops
<1>3. CASE InitFails \/ Shutdown \/ Restart \/ Outage \/ Recover \/ UNCHANGED vars
  BY <1>0, <1>3 DEF InitFails, Shutdown, Restart, Outage, Recover, vars
<1>. QED  BY <1>1, <1>2, <1>3 DEF Next

\* The types of the rest of the state are kept by every step.
LEMMA ServerTypedStep == ServerTyped /\ [Next]_vars => ServerTyped'
<1>. SUFFICES ASSUME ServerTyped, [Next]_vars PROVE ServerTyped'
  OBVIOUS
<1>. USE DEF ServerTyped
<1>1. ASSUME NEW c \in Conns, InitPool(c) \/ ConnectionDrops(c) PROVE ServerTyped'
  BY <1>1, PoolAssumption DEF InitPool, CreateConnection, ConnectionDrops, Fault
<1>2. CASE InitFails \/ Shutdown \/ Restart
  BY <1>2, PoolAssumption DEF InitFails, CreateThrows, Fault, Shutdown, CloseIdle, Restart
<1>3. ASSUME NEW t \in Threads, Acquire(t) \/ Wake(t) \/ Timeout(t) \/ Release(t)
      PROVE  ServerTyped'
  BY <1>3 DEF Acquire, Wake, Timeout, Release
<1>4. ASSUME NEW t \in Threads, CheckConnection(t) PROVE ServerTyped'
  <2>1. CASE PingAnswered(t) \/ RedisPingThrows(t) \/ ReconnectFails(t)
    BY <2>1, PoolAssumption
       DEF PingAnswered, RedisPingThrows, ReconnectFails, CreateThrows, Fault
  <2>2. CASE MySqlPingFails(t) \/ StorePingFails(t)
    BY <2>2 DEF MySqlPingFails, StorePingFails, Replace
  <2>3. CASE Reconnect(t)
    BY <2>3 DEF Reconnect, CreateConnection
  <2>. QED  BY <1>4, <2>1, <2>2, <2>3 DEF CheckConnection
<1>5. CASE Outage \/ Recover
  <2>1. serverUp' \in BOOLEAN
    BY <1>5, Zenon DEF Outage, Recover
  <2>2. /\ kind' \in Kinds /\ phase' \in {"starting", "running", "exited"}
        /\ state' \in [Conns -> {"none", "open", "broken"}] /\ faults' \in 0..MaxFaults
    <3>1. CASE Outage
      BY <3>1, PoolAssumption DEF Outage, Fault
    <3>2. CASE Recover
      BY <3>2 DEF Recover
    <3>. QED  BY <1>5, <3>1, <3>2
  <2>. QED  BY <2>1, <2>2
<1>6. CASE UNCHANGED vars
  BY <1>6 DEF vars
<1>. QED  BY <1>1, <1>2, <1>3, <1>4, <1>5, <1>6 DEF Next

\* Each step of a thread: who owns what stays clear, and a pool other than RedisPool
\* keeps its connections unless a connection cannot be made.
LEMMA ThreadKeeps ==
    ASSUME OwnerInv, PoolTyped', ServerTyped', NEW t \in Threads,
           Acquire(t) \/ Wake(t) \/ Timeout(t) \/ CheckConnection(t) \/ Release(t)
    PROVE  /\ OwnerInv'
           /\ kind # "RedisPool"
                => \/ Population' = Population
                   \/ (Population' = Population - 1 /\ GivesUp(t))
<1>0. /\ PoolTyped /\ HandsFull /\ pc \in [Threads -> {"out", "use"} \cup InAcquire]
      /\ hand \in [Threads -> Conns \cup {NoConn}]
  BY DEF OwnerInv, PoolTyped
<1>1. Running
  <2>1. phase' = phase
    BY DEF Acquire, Wake, Timeout, CheckConnection, Release, PingAnswered, MySqlPingFails,
           StorePingFails, Replace, RedisPingThrows, Reconnect, ReconnectFails
  <2>2. phase = "running" \/ pc[t] # "out"
    BY DEF Acquire, Wake, Timeout, CheckConnection, Release, PingAnswered, MySqlPingFails,
           StorePingFails, RedisPingThrows, Reconnect, ReconnectFails
  <2>. QED  BY <1>0, <2>1, <2>2 DEF Running, PoolTyped
<1>2. CASE Acquire(t)
  <2>1. CASE connections # <<>>
    BY <1>1, <1>2, <2>1, PopKeeps DEF Acquire
  <2>2. CASE connections = <<>>
    <3>1. /\ pc' = [pc EXCEPT ![t] = "wait"] /\ pc[t] \in {"out", "use"}
          /\ UNCHANGED <<hand, connections, stack, state, kind, phase>>
      BY <1>2, <2>2 DEF Acquire
    <3>2. HandsFull' /\ Creating' = Creating
      BY <1>0, <3>1 DEF HandsFull, Creating
    <3>. QED  BY <3>1, <3>2, StillKeeps
  <2>. QED  BY <2>1, <2>2
<1>3. CASE Wake(t)
  <2>1. CASE connections # <<>>
    BY <1>1, <1>3, <2>1, PopKeeps DEF Wake
  <2>2. CASE connections = <<>>
    <3>1. UNCHANGED <<pc, hand, connections, stack, state, kind, phase>>
      BY <1>3, <2>2 DEF Wake
    <3>2. HandsFull' /\ Creating' = Creating
      BY <1>0, <3>1 DEF HandsFull, Creating
    <3>. QED  BY <3>1, <3>2, StillKeeps
  <2>. QED  BY <2>1, <2>2
<1>4. CASE Timeout(t)
  <2>1. CASE connections # <<>>
    BY <1>1, <1>4, <2>1, PopKeeps DEF Timeout
  <2>2. CASE connections = <<>>
    <3>1. /\ pc' = [pc EXCEPT ![t] = IF stack[t] = <<>> THEN "out" ELSE "use"]
          /\ pc[t] = "wait" /\ hand' = [hand EXCEPT ![t] = NoConn]
          /\ UNCHANGED <<connections, stack, state, kind, phase>>
      BY <1>4, <2>2 DEF Timeout, Throw
    <3>2. hand[t] = NoConn
      BY <1>0, <3>1 DEF HandsFull
    <3>3. hand' = hand
      BY <1>0, <3>1, <3>2
    <3>4. HandsFull' /\ Creating' = Creating
      BY <1>0, <3>1, <3>3 DEF HandsFull, Creating
    <3>. QED  BY <3>1, <3>3, <3>4, StillKeeps
  <2>. QED  BY <2>1, <2>2
<1>5. CASE CheckConnection(t)
  <2>1. CASE PingAnswered(t)
    BY <1>1, <2>1, PingKeeps
  <2>2. CASE MySqlPingFails(t) \/ StorePingFails(t)
    BY <1>1, <2>2, ReplaceKeeps DEF MySqlPingFails, StorePingFails
  <2>3. CASE RedisPingThrows(t)
    BY <1>1, <2>3, RedisThrowKeeps DEF RedisPingThrows
  <2>4. CASE Reconnect(t)
    BY <1>1, <2>4, ReconnectKeeps
  <2>5. CASE ReconnectFails(t)
    BY <1>1, <2>5, FailKeeps
  <2>. QED  BY <1>5, <2>1, <2>2, <2>3, <2>4, <2>5 DEF CheckConnection
<1>6. CASE Release(t)
  BY <1>1, <1>6, ReleaseKeeps
<1>. QED  BY <1>2, <1>3, <1>4, <1>5, <1>6

\* While no thread is in the pool, threads own nothing.
LEMMA OutOwns ==
    ASSUME OwnerInv, \A u \in Threads : pc[u] = "out"
    PROVE  /\ Owned = {} /\ Creating = {} /\ \A u \in Threads : Guarded(u) = {}
           /\ \A u \in Threads : hand[u] = NoConn /\ stack[u] = <<>>
<1>1. \A u \in Threads : hand[u] = NoConn /\ stack[u] = <<>>
  BY DEF OwnerInv, HandsFull
<1>2. \A u \in Threads : Guarded(u) = {}
  BY <1>1 DEF Guarded
<1>. QED  BY <1>1, <1>2 DEF Owned, Creating

\* A step at the start or the end of the process, when the threads own nothing.
LEMMA QuietStep ==
    ASSUME OwnerInv, PoolTyped', ServerTyped', \A u \in Threads : pc[u] = "out",
           UNCHANGED <<pc, hand, stack>>, Once(connections'),
           \A d \in Idle' : state'[d] # "none",
           kind' # "RedisPool" => \A d \in Conns : state'[d] # "none" => d \in Idle',
           Len(connections') <= PoolSize,
           phase' = "starting" => Len(connections') < PoolSize,
           phase' = "exited" => connections' = <<>>
    PROVE  OwnerInv'
<1>1. \A u \in Threads : hand'[u] = NoConn /\ stack'[u] = <<>> /\ pc'[u] = "out"
  BY OutOwns
<1>2. \A u \in Threads : Guarded(u)' = {}
  BY <1>1 DEF Guarded
<1>3. Owned' = {} /\ Creating' = {}
  BY <1>1, <1>2 DEF Owned, Creating
<1>4. HandsFull' /\ NoneTwice' /\ Apart' /\ NoneForgotten'
  <2>1. HandsFull'
    BY <1>1 DEF HandsFull
  <2>2. NoneTwice'
    BY <1>1 DEF NoneTwice, Once
  <2>3. Apart' /\ NoneForgotten'
    BY <1>2, <1>3 DEF Apart, NoneForgotten
  <2>. QED  BY <2>1, <2>2, <2>3
<1>5. Cardinality(Owned') = 0 /\ Cardinality(Creating') = 0
  BY <1>3, FS_EmptySet, Zenon
<1>6. Len(connections') \in Nat
  BY DEF PoolTyped
<1>7. Population' = Len(connections')
  BY <1>5, <1>6, Balance
<1>8. Sized'
  BY <1>6, <1>7 DEF Sized
<1>. QED  BY <1>4, <1>8 DEF OwnerInv

\* One round of init's loop.
LEMMA InitKeeps ==
    ASSUME OwnerInv, PoolTyped', ServerTyped', NEW c \in Conns, InitPool(c)
    PROVE  OwnerInv'
<1>0. /\ PoolTyped /\ Apart /\ NoneForgotten /\ Sized /\ connections \in Seq(Conns)
      /\ state \in [Conns -> {"none", "open", "broken"}]
      /\ \A u \in Threads : pc[u] = "out"
  BY DEF OwnerInv, PoolTyped, ServerTyped, InitPool
<1>1. /\ UNCHANGED <<kind, pc, hand, stack>> /\ connections' = Append(connections, c)
      /\ phase = "starting"
      /\ phase' = IF Len(connections) + 1 = PoolSize THEN "running" ELSE "starting"
      /\ state[c] = "none" /\ state' = [state EXCEPT ![c] = "open"]
  BY DEF InitPool, CreateConnection
<1>2. c \notin Idle /\ Idle = Names(connections) /\ Once(connections)
  BY <1>0, <1>1, OwnerNames DEF Apart
<1>3. /\ Len(connections') = Len(connections) + 1 /\ Once(connections')
      /\ Names(connections') = Idle \cup {c} /\ connections' \in Seq(Conns)
  BY <1>0, <1>1, <1>2, AppendOnce
<1>4. Idle' = Idle \cup {c}
  <2>1. DOMAIN connections' = 1..Len(connections')
    BY <1>3
  <2>2. Idle' = Names(connections')
    BY <2>1 DEF Idle, Names
  <2>. QED  BY <1>3, <2>2
<1>5. \A d \in Idle' : state'[d] # "none"
  BY <1>0, <1>1, <1>4, OwnerSets DEF Apart
<1>6. kind' # "RedisPool" => \A d \in Conns : state'[d] # "none" => d \in Idle'
  BY <1>0, <1>1, <1>4, OutOwns DEF NoneForgotten
<1>7. /\ Len(connections') <= PoolSize /\ phase' # "exited"
      /\ phase' = "starting" => Len(connections') < PoolSize
  <2>1. Len(connections) \in Nat /\ Len(connections) < PoolSize /\ PoolSize \in Nat
    BY <1>0, <1>1, PoolAssumption DEF Sized
  <2>. QED  BY <1>1, <1>3, <2>1
<1>. QED  BY <1>0, <1>1, <1>3, <1>5, <1>6, <1>7, QuietStep

\* The end of the process: what was open and not forgotten was in the queue.
LEMMA CloseKeeps ==
    ASSUME OwnerInv, PoolTyped', ServerTyped', InitFails \/ Shutdown
    PROVE  OwnerInv'
<1>0. /\ PoolTyped /\ NoneForgotten /\ connections \in Seq(Conns)
      /\ \A u \in Threads : pc[u] = "out"
  BY DEF OwnerInv, PoolTyped, InitFails, Shutdown
<1>1. /\ UNCHANGED <<kind, pc, hand, stack>> /\ connections' = <<>> /\ phase' = "exited"
      /\ state' = [c \in Conns |->
                     IF \E i \in DOMAIN connections : connections[i] = c THEN "none" ELSE state[c]]
  BY DEF InitFails, Shutdown, CloseIdle
<1>2. Idle' = {} /\ Once(connections')
  BY <1>1 DEF Idle, Once
<1>3. kind' # "RedisPool" => \A d \in Conns : state'[d] # "none" => d \in Idle'
  <2>1. kind # "RedisPool" => \A d \in Conns : state[d] # "none" => d \in Idle
    BY <1>0, OutOwns DEF NoneForgotten
  <2>. QED  BY <1>1, <2>1 DEF Idle
<1>4. Len(connections') <= PoolSize
  BY <1>1, PoolAssumption
<1>. QED  BY <1>0, <1>1, <1>2, <1>3, <1>4, QuietStep

\* A new process.
LEMMA RestartKeeps ==
    ASSUME OwnerInv, PoolTyped', ServerTyped', Restart
    PROVE  OwnerInv'
<1>1. /\ UNCHANGED <<kind, pc, hand, stack>> /\ connections' = <<>> /\ phase' = "starting"
      /\ state' = [c \in Conns |-> "none"] /\ \A u \in Threads : pc[u] = "out"
  BY DEF OwnerInv, PoolTyped, Sized, Restart
<1>2. Idle' = {} /\ Once(connections')
  BY <1>1 DEF Idle, Once
<1>3. kind' # "RedisPool" => \A d \in Conns : state'[d] # "none" => d \in Idle'
  BY <1>1
<1>4. Len(connections') < PoolSize /\ Len(connections') <= PoolSize
  BY <1>1, PoolAssumption
<1>. QED  BY <1>1, <1>2, <1>3, <1>4, QuietStep

\* Every step keeps the owners clear; while a pool other than RedisPool runs, every
\* step also keeps the number of connections unless a connection cannot be made.
LEMMA OwnerStep ==
    ASSUME OwnerInv, [Next]_vars
    PROVE  /\ OwnerInv'
           /\ kind # "RedisPool" /\ phase = "running" /\ phase' = "running"
                => \/ Population' = Population
                   \/ (Population' = Population - 1 /\ \E t \in Threads : GivesUp(t))
<1>0. /\ PoolTyped' /\ ServerTyped' /\ HandsFull /\ state \in [Conns -> {"none", "open", "broken"}]
  BY TypedStep, ServerTypedStep DEF OwnerInv, ServerTyped
<1>1. ASSUME NEW c \in Conns, InitPool(c) PROVE OwnerInv' /\ phase # "running"
  BY <1>0, <1>1, InitKeeps DEF InitPool
<1>2. ASSUME InitFails \/ Shutdown PROVE OwnerInv' /\ phase' # "running"
  BY <1>0, <1>2, CloseKeeps DEF InitFails, Shutdown
<1>3. ASSUME Restart PROVE OwnerInv' /\ phase # "running"
  BY <1>0, <1>3, RestartKeeps DEF Restart
<1>4. ASSUME UNCHANGED <<phase, kind, connections, pc, hand, stack>>,
             \A d \in Conns : state'[d] = "none" <=> state[d] = "none"
      PROVE  OwnerInv' /\ Population' = Population
  <2>1. HandsFull' /\ Creating' = Creating
    BY <1>0, <1>4 DEF HandsFull, Creating
  <2>. QED  BY <1>0, <1>4, <2>1, StillKeeps
<1>5. ASSUME NEW c \in Conns, ConnectionDrops(c) PROVE OwnerInv' /\ Population' = Population
  BY <1>0, <1>4, <1>5 DEF ConnectionDrops
<1>6. ASSUME Outage \/ Recover PROVE OwnerInv' /\ Population' = Population
  BY <1>0, <1>4, <1>6 DEF Outage, Recover
<1>7. ASSUME UNCHANGED vars PROVE OwnerInv' /\ Population' = Population
  BY <1>4, <1>7 DEF vars
<1>8. ASSUME NEW t \in Threads,
             Acquire(t) \/ Wake(t) \/ Timeout(t) \/ CheckConnection(t) \/ Release(t)
      PROVE  /\ OwnerInv'
             /\ kind # "RedisPool"
                  => \/ Population' = Population
                     \/ (Population' = Population - 1 /\ GivesUp(t))
  BY <1>0, <1>8, ThreadKeeps
<1>. QED  BY <1>1, <1>2, <1>3, <1>5, <1>6, <1>7, <1>8 DEF Next

\* The first state.
LEMMA OwnerInit == Init => OwnerInv
<1>. SUFFICES ASSUME Init PROVE OwnerInv
  OBVIOUS
<1>1. PoolTyped /\ HandsFull /\ NoneTwice
  BY DEF Init, PoolTyped, HandsFull, NoneTwice
<1>2. ServerTyped
  BY PoolAssumption DEF Init, ServerTyped
<1>3. Idle = {} /\ \A u \in Threads : Guarded(u) = {}
  BY DEF Init, Idle, Guarded
<1>4. Owned = {} /\ Creating = {}
  BY <1>3 DEF Init, Owned, Creating
<1>5. Apart /\ NoneForgotten
  BY <1>3, <1>4 DEF Apart, NoneForgotten, Init
<1>6. Cardinality(Owned) = 0 /\ Cardinality(Creating) = 0
  BY <1>4, FS_EmptySet, Zenon
<1>7. Population = 0
  BY <1>1, <1>6, Counts DEF Init
<1>8. Sized
  BY <1>7, PoolAssumption DEF Sized, Init
<1>. QED  BY <1>1, <1>2, <1>5, <1>8 DEF OwnerInv

\* A sequence that names nothing twice names as many connections as it is long.
LEMMA NamesCount ==
    ASSUME NEW q \in Seq(Conns), Once(q)
    PROVE  Cardinality(Names(q)) = Len(q)
<1> DEFINE f == [i \in 1..Len(q) |-> q[i]]
<1>1. f \in [1..Len(q) -> Names(q)]
  BY DEF Names
<1>2. f \in Bijection(1..Len(q), Names(q))
  BY <1>1 DEF Names, Once, Bijection, Injection, IsInjective, Surjection
<1>3. ExistsBijection(1..Len(q), Names(q)) /\ Len(q) \in Nat
  BY <1>2 DEF ExistsBijection
<1>. QED  BY <1>3, FS_CountingElements

----------------------------------------------------------------------------

\* The inductive invariant of the three pools holds in every state.
THEOREM OwnersClear == Spec => []OwnerInv
<1>1. OwnerInv /\ [Next]_vars => OwnerInv'
  BY OwnerStep
<1>. QED  BY <1>1, OwnerInit, PTL DEF Spec

\* Every variable of a pool keeps its type, and the queue never holds more connections
\* than init made: release pushes back only what acquire took out or replaced.
THEOREM PoolTyping == Spec => []TypeOK
<1>1. OwnerInv => TypeOK
  <2>. SUFFICES ASSUME OwnerInv PROVE TypeOK
    OBVIOUS
  <2>1. PoolTyped /\ ServerTyped /\ Population \in Nat /\ Population <= PoolSize
    BY DEF OwnerInv, Sized
  <2>2. Len(connections) <= PoolSize
    BY <2>1, Counts, PoolAssumption
  <2>. QED  BY <2>1, <2>2, Zenon DEF TypeOK, PoolTyped, ServerTyped
<1>. QED  BY <1>1, OwnersClear, PTL

\* No connection is in the queue twice, in the queue and with a thread, or with two
\* threads, and none of those was closed: two threads never talk on one connection,
\* whatever pings fail and reconnections happen in acquire.
THEOREM OneOwnerEach == Spec => []OneOwner
<1>1. OwnerInv => OneOwner
  <2>. SUFFICES ASSUME OwnerInv PROVE OneOwner
    OBVIOUS
  <2>1. Cardinality(Names(connections)) = Len(connections) /\ Idle = Names(connections)
    BY OwnerNames, NamesCount
  <2>2. Cardinality(Idle) = Len(connections)
    BY <2>1, Zenon
  <2>. QED  BY <2>2 DEF OwnerInv, Apart, OneOwner, Owned
<1>. QED  BY <1>1, OwnersClear, PTL

\* MySqlPool and SessionStore leave no connection open behind them when the process
\* ends, after a normal run or in the middle of init.
THEOREM NoneLeftOpen == Spec => []ExitClosesAll
<1>1. OwnerInv => ExitClosesAll
  <2>. SUFFICES ASSUME OwnerInv, phase = "exited", kind # "RedisPool",
                       NEW c \in Conns, state[c] # "none"
                PROVE  FALSE
    BY DEF ExitClosesAll
  <2>1. connections = <<>> /\ \A u \in Threads : pc[u] = "out"
    BY DEF OwnerInv, Sized, PoolTyped
  <2>2. Idle = {} /\ Owned = {}
    BY <2>1, OutOwns DEF Idle
  <2>. QED  BY <2>2 DEF OwnerInv, NoneForgotten
<1>. QED  BY <1>1, OwnersClear, PTL

\* A running MySqlPool or SessionStore loses a connection exactly when a createConnection
\* throws, and then one: whatever else happens in acquire or release, and whether or not
\* the server can be reached, every connection is in the queue, with a thread or about
\* to be made again.
THEOREM NoneLost == Spec => LostOnlyToFailedConnect
<1>1. OwnerInv /\ [Next]_vars
        => [kind # "RedisPool" /\ phase = "running" /\ phase' = "running"
              => IF \E t \in Threads : GivesUp(t)
                   THEN Population' = Population - 1
                   ELSE Population' = Population]_vars
  <2>. SUFFICES ASSUME OwnerInv, [Next]_vars, kind # "RedisPool", phase = "running",
                       phase' = "running"
                PROVE  IF \E t \in Threads : GivesUp(t)
                         THEN Population' = Population - 1
                         ELSE Population' = Population
    OBVIOUS
  <2>1. CASE \E t \in Threads : GivesUp(t)
    <3>1. PICK t \in Threads : GivesUp(t)
      BY <2>1
    <3>2. ReconnectFails(t)
      BY <3>1, WhoGivesUp DEF OwnerInv
    <3>3. Running
      BY TypedStep, ServerTypedStep DEF Running, OwnerInv
    <3>. QED  BY <2>1, <3>2, <3>3, FailKeeps
  <2>2. CASE ~ \E t \in Threads : GivesUp(t)
    BY <2>2, OwnerStep
  <2>. QED  BY <2>1, <2>2
<1>. QED  BY <1>1, OwnersClear, PTL DEF Spec, LostOnlyToFailedConnect
=============================================================================
