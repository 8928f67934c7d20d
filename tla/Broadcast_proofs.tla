--------------------------- MODULE Broadcast_proofs ---------------------------
(***************************************************************************)
(* Proofs about clients that keep one another up to date over a channel,   *)
(* for any number of clients and keys, any capacity and any setups.        *)
(***************************************************************************)
EXTENDS Broadcast, FiniteSetTheorems, FunctionTheorems, SequenceTheorems, TLAPS

-----------------------------------------------------------------------------
(***************************************************************************)
(* Who has a receiver can be reached                                       *)
(***************************************************************************)

\* The subscribers are on the bus of the registry, which has one as soon as
\* anybody subscribes.
ReachInv ==
  /\ sub \in [Clients -> Nat] /\ registry \in Nat /\ made \in Nat
  /\ SubscriberReachable

\* What a client has at first: the buses are those of the subscribers of the
\* setup.
LEMMA ReachInvInit == Init => ReachInv
<1> SUFFICES ASSUME Init PROVE ReachInv
  OBVIOUS
<1>1. sub \in [Clients -> Nat] /\ registry \in Nat /\ made \in Nat
  BY DEF Init
<1>2. ASSUME NEW c \in Clients, sub[c] # 0 PROVE registry = sub[c]
  <2>1. c \in setup.subscribed
    BY <1>2 DEF Init
  <2> QED BY <2>1 DEF Init
<1> QED BY <1>1, <1>2 DEF ReachInv, SubscriberReachable

\* Only publish_state and broadcast_query_client make a bus, which they do when
\* the registry has none; and only the last receiver takes it out.
LEMMA ReachInvNext == ReachInv /\ [Next]_vars => ReachInv'
<1> SUFFICES ASSUME ReachInv, [Next]_vars PROVE ReachInv'
  OBVIOUS
<1> USE DEF ReachInv, SubscriberReachable
<1>1. CASE UNCHANGED busVars
  BY <1>1 DEF busVars
<1>2. ASSUME NEW c \in Clients, Lookup(c) PROVE ReachInv'
  BY <1>2 DEF Lookup
<1>3. ASSUME NEW c \in Clients, Subscribe(c) PROVE ReachInv'
  BY <1>3 DEF Subscribe
<1>4. ASSUME NEW c \in Clients, sub' = [sub EXCEPT ![c] = 0], UNCHANGED <<registry, made>> PROVE ReachInv'
  BY <1>4
<1>5. ASSUME NEW c \in Clients, maybe_remove_channel(c) PROVE ReachInv'
  BY <1>5 DEF maybe_remove_channel, Receivers
<1>6. CASE UNCHANGED <<registry, made, sub>>
  BY <1>6
<1>7. ASSUME NEW c \in Clients, Operation(c) PROVE ReachInv'
  <2>1. CASE \E k \in Keys, op \in {"write", "opaque"} : Write(c, k, op)
    BY <2>1, <1>1 DEF Write
  <2>2. CASE \E k \in Keys : Invalidate(c, k)
    BY <2>2, <1>1 DEF Invalidate
  <2>3. CASE \E k \in Keys : RemoveKey(c, k)
    BY <2>3, <1>6 DEF RemoveKey
  <2>4. CASE Publish(c)
    BY <2>4, <1>1 DEF Publish
  <2>5. CASE Unsubscribe(c)
    BY <2>5, <1>1 DEF Unsubscribe
  <2>6. CASE Abort(c)
    BY <2>6, <1>4 DEF Abort
  <2> QED BY <1>7, <1>3, <2>1, <2>2, <2>3, <2>4, <2>5, <2>6 DEF Operation
<1>8. ASSUME NEW c \in Clients, AppStep(c) PROVE ReachInv'
  BY <1>8, <1>1, <1>2, <1>6 DEF AppStep, CountReceivers, SendState, SendStop
<1>9. ASSUME NEW c \in Clients, LoopStep(c) PROVE ReachInv'
  <2>1. CASE Woken(c) \/ PollStop(c) \/ RecvPends(c) \/ CheckFlag(c)
    BY <2>1, <1>1 DEF Woken, PollStop, RecvPends, CheckFlag
  <2>2. CASE Decide(c) \/ SetData(c) \/ RestoreStaleness(c) \/ Applied(c)
    BY <2>2, <1>1 DEF Decide, SetData, RestoreStaleness, Applied
  <2>3. CASE RecvLagged(c) \/ RecvState(c)
    BY <2>3, <1>6 DEF RecvLagged, RecvState
  <2>4. CASE DropReceiver(c)
    BY <2>4, <1>4 DEF DropReceiver
  <2> QED BY <1>9, <1>5, <2>1, <2>2, <2>3, <2>4 DEF LoopStep
<1>10. CASE Tick
  BY <1>10, <1>1 DEF Tick
<1>11. CASE UNCHANGED vars
  BY <1>11, <1>1 DEF vars, busVars
<1> QED BY <1>7, <1>8, <1>9, <1>10, <1>11 DEF Next

\* Whoever has a receiver is on the bus that the registry hands out, so that a
\* later publish_state reaches it, however the ends of loops, aborts,
\* subscriptions and publishes interleave (src/broadcast.rs, channel_entry and
\* maybe_remove_channel).
THEOREM PublishReachesAll == Spec => []SubscriberReachable
<1>1. ReachInv => SubscriberReachable
  BY DEF ReachInv
<1> QED BY <1>1, ReachInvInit, ReachInvNext, PTL DEF Spec

-----------------------------------------------------------------------------
(***************************************************************************)
(* The newest message is applied                                           *)
(***************************************************************************)

\* A sequence, of whatever it holds.
IsSeq(s) == s \in Seq({s[i] : i \in DOMAIN s})

\* A message has a sequence of queries; a queue, messages.
IsMessage(m) ==
  /\ m = [state |-> [dehydrated_at_ms |-> m.state.dehydrated_at_ms, queries |-> m.state.queries],
          ticks |-> m.ticks, src |-> m.src]
  /\ IsSeq(m.state.queries)
IsQueue(q) == IsSeq(q) /\ \A i \in DOMAIN q : IsMessage(q[i])

\* What the client, its receiver, its loop and its application thread hold.
Shaped(ca, q, l, a) ==
  /\ IsFiniteSet(DOMAIN ca)
  /\ IsQueue(q)
  /\ l = LoopAt(l.at, l.msg) /\ IsMessage(l.msg)
  /\ a = AppAt(a.at, a.msg, a.bus) /\ IsMessage(a.msg)

KeysOf(queries) == {queries[i].key : i \in DOMAIN queries}

\* The queries the loop has yet to set in the cache.
LeftToSet(l) == IF l.at = "restore" THEN Tail(l.msg.state.queries) ELSE l.msg.state.queries

\* Where a loop has a message in hand, and where it is over.
Applying == {"check", "apply", "set", "restore"}
Leaving == {"none", "break", "remove", "ended", "aborted"}

\* What is owed to the client of a loop that goes on is in the newest message of
\* the queue, or with an empty queue in the cache or yet to be set in it.
Due(ca, q, l, o) ==
  /\ l.at \notin Applying \cup Leaving => l.msg.state.queries = <<>>
  /\ l.at \in {"set", "restore"} => l.msg.state.queries # <<>>
  /\ l.at \notin Leaving =>
       IF q = <<>> THEN o \subseteq DOMAIN ca \cup KeysOf(LeftToSet(l))
                   ELSE o \subseteq KeysOf(q[Len(q)].state.queries)

NewestInv ==
  /\ DOMAIN cache = Clients /\ DOMAIN queue = Clients /\ DOMAIN loop = Clients
  /\ DOMAIN app = Clients /\ DOMAIN owed = Clients
  /\ \A c \in Clients : /\ Shaped(cache[c], queue[c], loop[c], app[c])
                        /\ Due(cache[c], queue[c], loop[c], owed[c])

\* Sequences grow by Append and shrink by Tail.
LEMMA SeqIsSeq == ASSUME NEW S, NEW s \in Seq(S) PROVE IsSeq(s)
  BY DEF IsSeq

LEMMA EmptyIsSeq == IsSeq(<<>>)
<1>1. <<>> \in Seq({})
  OBVIOUS
<1> QED BY <1>1, SeqIsSeq

LEMMA AppendIsSeq ==
  ASSUME NEW s, IsSeq(s), NEW v
  PROVE  /\ IsSeq(Append(s, v)) /\ Append(s, v) # <<>>
         /\ Append(s, v)[Len(Append(s, v))] = v
         /\ \A i \in DOMAIN Append(s, v) : Append(s, v)[i] = v \/ \E j \in DOMAIN s : Append(s, v)[i] = s[j]
<1> DEFINE S == {s[i] : i \in DOMAIN s} \cup {v}
<1>1. s \in Seq(S)
  BY DEF IsSeq
<1>2. v \in S
  OBVIOUS
<1> HIDE DEF S
<1>3. Append(s, v) \in Seq(S) /\ Len(Append(s, v)) = Len(s) + 1 /\ Append(s, v)[Len(s) + 1] = v
  BY <1>1, <1>2, AppendProperties
<1>4. \A i \in 1 .. Len(s) : Append(s, v)[i] = s[i]
  BY <1>1, <1>2, AppendProperties
<1>5. PICK n \in Nat : n = Len(s) /\ DOMAIN s = 1 .. n
  BY <1>1
<1>6. DOMAIN Append(s, v) = 1 .. n + 1
  BY <1>3, <1>5
<1>7. Append(s, v) # <<>>
  BY <1>3, <1>5, EmptySeq
<1>8. IsSeq(Append(s, v))
  BY <1>3, SeqIsSeq
<1>9. \A i \in 1 .. n + 1 : i = n + 1 \/ i \in 1 .. n
  OBVIOUS
<1> QED BY <1>3, <1>4, <1>5, <1>6, <1>7, <1>8, <1>9

LEMMA TailIsSeq ==
  ASSUME NEW s, IsSeq(s), s # <<>>
  PROVE  /\ IsSeq(Tail(s))
         /\ Head(s) = s[1] /\ 1 \in DOMAIN s
         /\ \A i \in DOMAIN Tail(s) : i + 1 \in DOMAIN s /\ Tail(s)[i] = s[i + 1]
         /\ \A i \in DOMAIN s : i = 1 \/ (i - 1 \in DOMAIN Tail(s) /\ Tail(s)[i - 1] = s[i])
         /\ Tail(s) = <<>> => s[Len(s)] = Head(s)
         /\ Tail(s) # <<>> => s[Len(s)] = Tail(s)[Len(Tail(s))]
<1> DEFINE S == {s[i] : i \in DOMAIN s}
<1>1. s \in Seq(S)
  BY DEF IsSeq
<1> HIDE DEF S
<1>2. Head(s) = s[1] /\ Tail(s) \in Seq(S) /\ Len(Tail(s)) = Len(s) - 1
  BY <1>1, HeadTailProperties
<1>3. \A i \in 1 .. Len(Tail(s)) : Tail(s)[i] = s[i + 1]
  BY <1>1, HeadTailProperties
<1>4. PICK n \in Nat : n = Len(s)
  BY <1>1
<1>5. n # 0
  BY <1>1, <1>4, EmptySeq
<1>6. DOMAIN s = 1 .. n /\ DOMAIN Tail(s) = 1 .. n - 1 /\ Len(Tail(s)) = n - 1
  BY <1>1, <1>2, <1>4
<1>7. Tail(s) = <<>> => n = 1
  BY <1>6
<1>8. Tail(s) # <<>> => n # 1
  <2>1. n = 1 => Len(Tail(s)) = 0
    BY <1>6
  <2> QED BY <2>1, <1>2, EmptySeq
<1>9. IsSeq(Tail(s))
  BY <1>2, SeqIsSeq
<1>10. Tail(s) # <<>> => s[n] = Tail(s)[n - 1]
  BY <1>3, <1>5, <1>6, <1>8
<1> QED BY <1>2, <1>3, <1>4, <1>5, <1>6, <1>7, <1>9, <1>10

\* A send leaves a queue whose newest message is what was sent, even when the
\* queue was full (src/bus.rs, Sender::send).
LEMMA QueuedIsQueue ==
  ASSUME NEW q, IsQueue(q), NEW m, IsMessage(m)
  PROVE  IsQueue(Queued(q, m)) /\ Queued(q, m) # <<>> /\ Queued(q, m)[Len(Queued(q, m))] = m
<1> DEFINE p == IF Len(q) >= Cap THEN Tail(q) ELSE q
<1>1. Cap \in Nat \ {0}
  BY CapacityAssumption DEF Cap
<1>2. IsQueue(p)
  <2>1. CASE q = <<>>
    BY <2>1, <1>1, IsQueue(q)
  <2>2. CASE q # <<>>
    <3>1. IsSeq(Tail(q)) /\ \A i \in DOMAIN Tail(q) : i + 1 \in DOMAIN q /\ Tail(q)[i] = q[i + 1]
      BY <2>2, TailIsSeq DEF IsQueue
    <3>2. IsQueue(Tail(q))
      BY <3>1 DEF IsQueue
    <3> QED BY <3>2
  <2> QED BY <2>1, <2>2
<1>3. Queued(q, m) = Append(p, m)
  BY DEF Queued
<1> HIDE DEF p
<1> QED BY <1>2, <1>3, AppendIsSeq DEF IsQueue

LEMMA TailIsQueue ==
  ASSUME NEW q, IsQueue(q), q # <<>>
  PROVE  IsQueue(Tail(q)) /\ IsMessage(Head(q))
  BY TailIsSeq DEF IsQueue

\* What is captured is a message, and so is the placeholder of a loop without one.
LEMMA DehydratedIsMessage ==
  ASSUME NEW ca, IsFiniteSet(DOMAIN ca), NEW t, NEW src
  PROVE  IsMessage([state |-> dehydrate_state(ca, t), ticks |-> t, src |-> src])
<1> DEFINE kept == {k \in DOMAIN ca : default_should_dehydrate_query(ca[k])}
           n == Cardinality(kept)
           order == Sorted(kept)
           qs == [i \in DOMAIN order |-> dehydrate_cache_entry(order[i], ca[order[i]], t)]
<1>1. n \in Nat
  BY FS_Subset, FS_CardinalityType
<1>2. dehydrate_state(ca, t) = [dehydrated_at_ms |-> Ms(t), queries |-> qs]
  BY DEF dehydrate_state
<1>3. DOMAIN qs = 1 .. n
  BY DEF Sorted
<1>4. qs = [i \in DOMAIN qs |-> qs[i]]
  OBVIOUS
<1> HIDE DEF qs, n
<1>5. qs \in [1 .. n -> {qs[i] : i \in DOMAIN qs}]
  BY <1>3, <1>4
<1>6. IsSeq(qs)
  <2>1. qs \in Seq({qs[i] : i \in DOMAIN qs})
    BY <1>1, <1>5
  <2> QED BY <2>1 DEF IsSeq
<1> QED BY <1>2, <1>6 DEF IsMessage

LEMMA NoMessageIsMessage == IsMessage(NoMessage) /\ NoMessage.state.queries = <<>>
  BY EmptyIsSeq DEF IsMessage, NoMessage

\* The key of the current query is not needed of the others.
LEMMA KeysOfTail ==
  ASSUME NEW s, IsSeq(s), s # <<>>
  PROVE  KeysOf(s) \subseteq KeysOf(Tail(s)) \cup {Head(s).key}
<1> SUFFICES ASSUME NEW i \in DOMAIN s PROVE s[i].key \in KeysOf(Tail(s)) \cup {Head(s).key}
  BY DEF KeysOf
<1>1. i = 1 \/ (i - 1 \in DOMAIN Tail(s) /\ Tail(s)[i - 1] = s[i])
  BY TailIsSeq
<1>2. Head(s) = s[1]
  BY TailIsSeq
<1> QED BY <1>1, <1>2 DEF KeysOf

\* The message without its first query.
Shortened(m) ==
  [state |-> [dehydrated_at_ms |-> m.state.dehydrated_at_ms, queries |-> Tail(m.state.queries)],
   ticks |-> m.ticks, src |-> m.src]

LEMMA ShortenedIsMessage ==
  ASSUME NEW m, IsMessage(m), m.state.queries # <<>>
  PROVE  IsMessage(Shortened(m)) /\ Shortened(m).state.queries = Tail(m.state.queries)
<1>1. IsSeq(Tail(m.state.queries))
  BY TailIsSeq DEF IsMessage
<1>2. Shortened(m).state.queries = Tail(m.state.queries)
  BY DEF Shortened
<1> QED BY <1>1, <1>2 DEF IsMessage, Shortened

\* What an assignment to one field makes of a record.
LEMMA StateFields ==
  ASSUME NEW st, st = [dehydrated_at_ms |-> st.dehydrated_at_ms, queries |-> st.queries], NEW qs
  PROVE  [st EXCEPT !.queries = qs] = [dehydrated_at_ms |-> st.dehydrated_at_ms, queries |-> qs]
  OBVIOUS

LEMMA MessageFields ==
  ASSUME NEW m, m = [state |-> m.state, ticks |-> m.ticks, src |-> m.src], NEW st
  PROVE  [m EXCEPT !.state = st] = [state |-> st, ticks |-> m.ticks, src |-> m.src]
  OBVIOUS

\* The assignment of NextQuery.
LEMMA AppliedNext ==
  ASSUME NEW l, l = LoopAt(l.at, l.msg), IsMessage(l.msg)
  PROVE  [l EXCEPT !.at = "apply", !.msg.state.queries = Tail(@)] = LoopAt("apply", Shortened(l.msg))
<1>1. PICK m : m = l.msg
  OBVIOUS
<1>2. PICK st : st = m.state
  OBVIOUS
<1>3. PICK qs : qs = Tail(st.queries)
  OBVIOUS
<1>4. st = [dehydrated_at_ms |-> st.dehydrated_at_ms, queries |-> st.queries]
  BY <1>1, <1>2 DEF IsMessage
<1>5. m = [state |-> m.state, ticks |-> m.ticks, src |-> m.src]
  BY <1>1 DEF IsMessage
<1>6. PICK st2 : st2 = [st EXCEPT !.queries = qs]
  OBVIOUS
<1>7. PICK m2 : m2 = [m EXCEPT !.state = st2]
  OBVIOUS
<1>8. st2 = [dehydrated_at_ms |-> st.dehydrated_at_ms, queries |-> qs]
  BY <1>4, <1>6, StateFields
<1>9. m2 = [state |-> st2, ticks |-> m.ticks, src |-> m.src]
  BY <1>5, <1>7, MessageFields
<1>10. m2 = Shortened(m)
  BY <1>2, <1>3, <1>8, <1>9 DEF Shortened
<1>11. [l EXCEPT !.at = "apply", !.msg.state.queries = Tail(@)] = [l EXCEPT !.at = "apply", !.msg = m2]
  BY <1>1, <1>2, <1>3, <1>6, <1>7
<1>12. [l EXCEPT !.at = "apply", !.msg = m2] = LoopAt("apply", m2)
  <2>1. ASSUME NEW k, k = LoopAt(k.at, k.msg) PROVE [k EXCEPT !.msg = m2] = LoopAt(k.at, m2)
    BY <2>1 DEF LoopAt
  <2>2. PICK k : k = [l EXCEPT !.at = "apply"]
    OBVIOUS
  <2>3. [l EXCEPT !.at = "apply", !.msg = m2] = [k EXCEPT !.msg = m2]
    BY <2>2
  <2>4. k = LoopAt("apply", l.msg)
    BY <2>2 DEF LoopAt
  <2>5. k = LoopAt(k.at, k.msg) /\ k.at = "apply"
    BY <2>4 DEF LoopAt
  <2> QED BY <2>1, <2>3, <2>5
<1> QED BY <1>1, <1>10, <1>11, <1>12

\* It suffices to look at one client, when an action changes nothing of the others.
LEMMA OneClient ==
  ASSUME NewestInv, NEW c \in Clients,
         DOMAIN cache' = Clients, DOMAIN queue' = Clients, DOMAIN loop' = Clients,
         DOMAIN app' = Clients, DOMAIN owed' = Clients,
         \A d \in Clients \ {c} : /\ cache'[d] = cache[d] /\ queue'[d] = queue[d] /\ loop'[d] = loop[d]
                                  /\ app'[d] = app[d] /\ owed'[d] = owed[d],
         Shaped(cache'[c], queue'[c], loop'[c], app'[c]),
         Due(cache'[c], queue'[c], loop'[c], owed'[c])
  PROVE  NewestInv'
<1>1. ASSUME NEW d \in Clients
      PROVE  Shaped(cache'[d], queue'[d], loop'[d], app'[d]) /\ Due(cache'[d], queue'[d], loop'[d], owed'[d])
  BY DEF NewestInv
<1> QED BY <1>1 DEF NewestInv

LEMMA LoopMoves ==
  ASSUME NewestInv, NEW c \in Clients, NEW place, NEW m, IsMessage(m),
         loop' = [loop EXCEPT ![c] = LoopAt(place, m)],
         UNCHANGED <<cache, queue, app, owed>>,
         Due(cache[c], queue[c], LoopAt(place, m), owed[c])
  PROVE  NewestInv'
<1> DEFINE l == LoopAt(place, m)
<1>1. l = LoopAt(l.at, l.msg) /\ IsMessage(l.msg)
  BY DEF LoopAt
<1>2. Shaped(cache[c], queue[c], loop[c], app[c])
  BY DEF NewestInv
<1>3. Shaped(cache[c], queue[c], l, app[c])
  BY <1>1, <1>2 DEF Shaped
<1>4. loop'[c] = l /\ DOMAIN loop' = Clients /\ \A d \in Clients \ {c} : loop'[d] = loop[d]
  BY DEF NewestInv
<1> HIDE DEF l
<1>5. Due(cache[c], queue[c], l, owed[c])
  BY DEF l
<1> QED BY <1>3, <1>4, <1>5, OneClient DEF NewestInv

LEMMA AppMoves ==
  ASSUME NewestInv, NEW c \in Clients, NEW place, NEW m, NEW b, IsMessage(m),
         app' = [app EXCEPT ![c] = AppAt(place, m, b)],
         UNCHANGED <<cache, queue, loop, owed>>
  PROVE  NewestInv'
<1> DEFINE a == AppAt(place, m, b)
<1>1. a = AppAt(a.at, a.msg, a.bus) /\ IsMessage(a.msg)
  BY DEF AppAt
<1>2. Shaped(cache[c], queue[c], loop[c], app[c]) /\ Due(cache[c], queue[c], loop[c], owed[c])
  BY DEF NewestInv
<1>3. Shaped(cache[c], queue[c], loop[c], a)
  BY <1>1, <1>2 DEF Shaped
<1>4. app'[c] = a /\ DOMAIN app' = Clients /\ \A d \in Clients \ {c} : app'[d] = app[d]
  BY DEF NewestInv
<1> HIDE DEF a
<1> QED BY <1>2, <1>3, <1>4, OneClient DEF NewestInv

LEMMA Unchanging ==
  ASSUME NewestInv, UNCHANGED <<cache, queue, loop, app, owed>>
  PROVE  NewestInv'
  BY DEF NewestInv

LEMMA CacheMoves ==
  ASSUME NewestInv, NEW c \in Clients,
         DOMAIN cache' = Clients, DOMAIN owed' = Clients,
         \A d \in Clients \ {c} : cache'[d] = cache[d] /\ owed'[d] = owed[d],
         UNCHANGED <<queue, loop, app>>,
         IsFiniteSet(DOMAIN cache'[c]),
         \A k : k \in owed'[c] => k \in owed[c] /\ (k \in DOMAIN cache[c] => k \in DOMAIN cache'[c])
  PROVE  NewestInv'
<1>1. Shaped(cache[c], queue[c], loop[c], app[c]) /\ Due(cache[c], queue[c], loop[c], owed[c])
  BY DEF NewestInv
<1>2. Shaped(cache'[c], queue[c], loop[c], app[c])
  BY <1>1 DEF Shaped
<1>3. Due(cache'[c], queue[c], loop[c], owed'[c])
  BY <1>1 DEF Due
<1> QED BY <1>2, <1>3, OneClient DEF NewestInv

\* A loop only stands where it has to, with what it is given.
LEMMA NewestInvInit == Init => NewestInv
<1> SUFFICES ASSUME Init PROVE NewestInv
  OBVIOUS
<1>1. /\ DOMAIN cache = Clients /\ DOMAIN queue = Clients /\ DOMAIN loop = Clients
      /\ DOMAIN app = Clients /\ DOMAIN owed = Clients
  BY DEF Init
<1>2. ASSUME NEW c \in Clients
      PROVE  Shaped(cache[c], queue[c], loop[c], app[c]) /\ Due(cache[c], queue[c], loop[c], owed[c])
  <2>1. cache[c] = NoCache /\ queue[c] = <<>> /\ app[c] = Idle /\ owed[c] = {}
    BY DEF Init
  <2>2. loop[c] = LoopAt("start", NoMessage) \/ loop[c] = Unused
    BY DEF Init
  <2>3. IsFiniteSet(DOMAIN NoCache)
    BY FS_EmptySet DEF NoCache
  <2>4. IsQueue(<<>>)
    BY EmptyIsSeq DEF IsQueue
  <2>5. PICK place \in {"none", "start"} : loop[c] = LoopAt(place, NoMessage)
    BY <2>2 DEF Unused
  <2>6. loop[c] = LoopAt(loop[c].at, loop[c].msg) /\ loop[c].at = place /\ loop[c].msg = NoMessage
    BY <2>5 DEF LoopAt
  <2>7. app[c] = AppAt(app[c].at, app[c].msg, app[c].bus) /\ app[c].msg = NoMessage
    BY <2>1 DEF AppAt, Idle
  <2>8. Shaped(cache[c], queue[c], loop[c], app[c])
    BY <2>1, <2>3, <2>4, <2>6, <2>7, NoMessageIsMessage DEF Shaped
  <2>9. Due(cache[c], queue[c], loop[c], owed[c])
    BY <2>1, <2>6, NoMessageIsMessage DEF Due
  <2> QED BY <2>8, <2>9
<1> QED BY <1>1, <1>2 DEF NewestInv

\* The application writes and removes what it likes; what it removes is not owed.
LEMMA NewestInvWrites ==
  ASSUME NewestInv, NEW c \in Clients, NEW k \in Keys,
         Write(c, k, "write") \/ Write(c, k, "opaque") \/ Invalidate(c, k) \/ RemoveKey(c, k)
  PROVE  NewestInv'
<1>1. IsFiniteSet(DOMAIN cache[c])
  BY DEF NewestInv, Shaped
<1>2. ASSUME NEW op, Write(c, k, op) PROVE NewestInv'
  <2> DEFINE e == NewEntry(IF op = "write" THEN Len(born) + 1 ELSE Opaque, 0, now)
  <2>1. /\ cache' = [cache EXCEPT ![c] = Put(cache[c], k, e)]
        /\ UNCHANGED <<queue, loop, app, owed>>
    BY <1>2 DEF Write, busVars
  <2> HIDE DEF e
  <2>2. DOMAIN Put(cache[c], k, e) = DOMAIN cache[c] \cup {k}
    BY DEF Put
  <2>3. IsFiniteSet(DOMAIN cache[c] \cup {k})
    BY <1>1, FS_AddElement
  <2> QED BY <2>1, <2>2, <2>3, CacheMoves DEF NewestInv
<1>3. ASSUME Invalidate(c, k) PROVE NewestInv'
  <2>1. cache' = [cache EXCEPT ![c][k].stale = TRUE] /\ UNCHANGED <<queue, loop, app, owed>>
    BY <1>3 DEF Invalidate, busVars
  <2>2. DOMAIN cache' = Clients /\ DOMAIN cache'[c] = DOMAIN cache[c]
    BY <2>1 DEF NewestInv
  <2>3. \A d \in Clients \ {c} : cache'[d] = cache[d]
    BY <2>1 DEF NewestInv
  <2> QED BY <1>1, <2>1, <2>2, <2>3, CacheMoves DEF NewestInv
<1>4. ASSUME RemoveKey(c, k) PROVE NewestInv'
  <2>1. /\ cache' = [cache EXCEPT ![c] = Without(cache[c], {k})]
        /\ owed' = [owed EXCEPT ![c] = owed[c] \ {k}]
        /\ UNCHANGED <<queue, loop, app>>
    BY <1>4 DEF RemoveKey
  <2>2. DOMAIN Without(cache[c], {k}) = DOMAIN cache[c] \ {k}
    BY DEF Without
  <2>3. IsFiniteSet(DOMAIN cache[c] \ {k})
    BY <1>1, FS_RemoveElement
  <2>4. /\ cache'[c] = Without(cache[c], {k}) /\ owed'[c] = owed[c] \ {k}
        /\ DOMAIN cache' = Clients /\ DOMAIN owed' = Clients
        /\ \A d \in Clients \ {c} : cache'[d] = cache[d] /\ owed'[d] = owed[d]
    BY <2>1 DEF NewestInv
  <2> QED BY <2>1, <2>2, <2>3, <2>4, CacheMoves
<1> QED BY <1>2, <1>3, <1>4

\* A call of the application prepares a message, or ends a loop, or starts one
\* that is owed nothing.
LEMMA NewestInvCalls ==
  ASSUME NewestInv, NEW c \in Clients,
         Publish(c) \/ Subscribe(c) \/ Unsubscribe(c) \/ Abort(c)
  PROVE  NewestInv'
<1>1. Shaped(cache[c], queue[c], loop[c], app[c])
  BY DEF NewestInv
<1>2. CASE Publish(c)
  <2> DEFINE src == [k \in DOMAIN cache[c] |-> cache[c][k].fetched]
             m == [state |-> dehydrate_state(cache[c], now), ticks |-> now, src |-> src]
  <2>1. app' = [app EXCEPT ![c] = AppAt("lookup", m, 0)] /\ UNCHANGED <<cache, queue, loop, owed>>
    BY <1>2 DEF Publish, busVars
  <2>2. IsFiniteSet(DOMAIN cache[c])
    BY <1>1 DEF Shaped
  <2> HIDE DEF src
  <2>3. IsMessage(m)
    BY <2>2, DehydratedIsMessage
  <2> HIDE DEF m
  <2> QED BY <2>1, <2>3, AppMoves
<1>3. CASE Unsubscribe(c)
  <2>1. app' = [app EXCEPT ![c] = AppAt("signal", NoMessage, 0)] /\ UNCHANGED <<cache, queue, loop, owed>>
    BY <1>3 DEF Unsubscribe, busVars
  <2> QED BY <2>1, NoMessageIsMessage, AppMoves
<1>4. ASSUME NEW place \in {"start", "aborted"},
             loop' = [loop EXCEPT ![c] = LoopAt(place, NoMessage)],
             queue' = [queue EXCEPT ![c] = <<>>],
             place = "start" => owed' = [owed EXCEPT ![c] = {}],
             place = "aborted" => owed' = owed,
             UNCHANGED <<cache, app>>
      PROVE  NewestInv'
  <2> DEFINE l == LoopAt(place, NoMessage)
  <2>1. l.at = place /\ l.msg = NoMessage /\ l = LoopAt(l.at, l.msg)
    BY DEF LoopAt
  <2>2. loop'[c] = l /\ queue'[c] = <<>> /\ DOMAIN loop' = Clients /\ DOMAIN queue' = Clients
    BY <1>4 DEF NewestInv
  <2>3. \A d \in Clients \ {c} : loop'[d] = loop[d] /\ queue'[d] = queue[d] /\ owed'[d] = owed[d]
    BY <1>4 DEF NewestInv
  <2>4. DOMAIN owed' = Clients /\ (place = "start" => owed'[c] = {})
    BY <1>4 DEF NewestInv
  <2> HIDE DEF l
  <2>5. Shaped(cache[c], <<>>, l, app[c])
    BY <1>1, <2>1, EmptyIsSeq, NoMessageIsMessage DEF Shaped, IsQueue
  <2>6. Due(cache[c], <<>>, l, owed'[c])
    BY <2>1, <2>4, NoMessageIsMessage DEF Due, Leaving
  <2> QED BY <1>4, <2>2, <2>3, <2>4, <2>5, <2>6, OneClient DEF NewestInv
<1>5. CASE Subscribe(c)
  BY <1>4, <1>5 DEF Subscribe
<1>6. CASE Abort(c)
  BY <1>4, <1>6 DEF Abort
<1> QED BY <1>2, <1>3, <1>5, <1>6

\* The message reaches all receivers of the bus together.
LEMMA NewestInvSend ==
  ASSUME NewestInv, NEW c \in Clients, AppStep(c)
  PROVE  NewestInv'
<1>1. Shaped(cache[c], queue[c], loop[c], app[c])
  BY DEF NewestInv
<1>2. CASE Lookup(c)
  <2>1. /\ app' = [app EXCEPT ![c] = AppAt("count", app[c].msg, registry')]
        /\ UNCHANGED <<cache, queue, loop, owed>>
    BY <1>2 DEF Lookup
  <2>2. PICK b : app' = [app EXCEPT ![c] = AppAt("count", app[c].msg, b)]
    BY <2>1
  <2>3. PICK m : m = app[c].msg
    OBVIOUS
  <2>4. IsMessage(m) /\ app' = [app EXCEPT ![c] = AppAt("count", m, b)]
    BY <1>1, <2>2, <2>3 DEF Shaped
  <2> QED BY <2>1, <2>4, AppMoves
<1>3. CASE CountReceivers(c)
  <2>1. /\ UNCHANGED <<cache, queue, loop, owed>>
        /\ \/ app' = [app EXCEPT ![c] = AppAt("idle", NoMessage, 0)]
           \/ app' = [app EXCEPT ![c] = [app[c] EXCEPT !.at = "send"]]
    BY <1>3 DEF CountReceivers, Idle, busVars
  <2>2. [app[c] EXCEPT !.at = "send"] = AppAt("send", app[c].msg, app[c].bus)
    BY <1>1 DEF Shaped, AppAt
  <2>3. IsMessage(app[c].msg)
    BY <1>1 DEF Shaped
  <2> QED BY <2>1, <2>2, <2>3, NoMessageIsMessage, AppMoves
<1>4. CASE SendStop(c)
  <2>1. app' = [app EXCEPT ![c] = AppAt("idle", NoMessage, 0)] /\ UNCHANGED <<cache, queue, loop, owed>>
    BY <1>4 DEF SendStop, Idle, busVars
  <2> QED BY <2>1, NoMessageIsMessage, AppMoves
<1>5. CASE SendState(c)
  <2>1. PICK to : to = Receivers(app[c].bus)
    OBVIOUS
  <2>2. PICK m : m = app[c].msg
    OBVIOUS
  <2>3. /\ queue' = [d \in Clients |-> IF d \in to THEN Queued(queue[d], m) ELSE queue[d]]
        /\ owed' = [d \in Clients |-> IF d \in to THEN KeysOf(m.state.queries) ELSE owed[d]]
        /\ app' = [app EXCEPT ![c] = Idle]
        /\ UNCHANGED <<cache, loop>>
    BY <1>5, <2>1, <2>2 DEF SendState, KeysOf
  <2>4. IsMessage(m)
    BY <1>1, <2>2 DEF Shaped
  <2>5. /\ DOMAIN cache' = Clients /\ DOMAIN queue' = Clients /\ DOMAIN loop' = Clients
        /\ DOMAIN app' = Clients /\ DOMAIN owed' = Clients
    BY <2>3 DEF NewestInv
  <2>6. ASSUME NEW d \in Clients
        PROVE  Shaped(cache'[d], queue'[d], loop'[d], app'[d]) /\ Due(cache'[d], queue'[d], loop'[d], owed'[d])
    <3>1. Shaped(cache[d], queue[d], loop[d], app[d]) /\ Due(cache[d], queue[d], loop[d], owed[d])
      BY DEF NewestInv
    <3>2. app'[d] = app[d] \/ app'[d] = Idle
      BY <2>3 DEF NewestInv
    <3>3. Idle = AppAt(Idle.at, Idle.msg, Idle.bus) /\ Idle.msg = NoMessage
      BY DEF Idle, AppAt
    <3>4. app'[d] = AppAt(app'[d].at, app'[d].msg, app'[d].bus) /\ IsMessage(app'[d].msg)
      BY <3>1, <3>2, <3>3, NoMessageIsMessage DEF Shaped
    <3>5. Shaped(cache[d], queue[d], loop[d], app'[d])
      BY <3>1, <3>4 DEF Shaped
    <3>6. CASE d \in to
      <4>1. IsQueue(queue[d])
        BY <3>1 DEF Shaped
      <4>2. queue'[d] = Queued(queue[d], m) /\ owed'[d] = KeysOf(m.state.queries)
        BY <2>3, <3>6
      <4>3. IsQueue(queue'[d]) /\ queue'[d] # <<>> /\ queue'[d][Len(queue'[d])] = m
        BY <2>4, <4>1, <4>2, QueuedIsQueue
      <4>4. Shaped(cache[d], queue'[d], loop[d], app'[d])
        BY <3>5, <4>3 DEF Shaped
      <4>5. Due(cache[d], queue'[d], loop[d], owed'[d])
        BY <3>1, <4>2, <4>3 DEF Due
      <4> QED BY <2>3, <4>4, <4>5
    <3>7. CASE d \notin to
      BY <2>3, <3>1, <3>5, <3>7
    <3> QED BY <3>6, <3>7
  <2> QED BY <2>5, <2>6 DEF NewestInv
<1> QED BY <1>2, <1>3, <1>4, <1>5 DEF AppStep

\* The loop moves on: what is owed stays in the queue, or passes from the queue
\* to the message in hand and from there to the cache.
LEMMA NewestInvLoop ==
  ASSUME NewestInv, NEW c \in Clients, LoopStep(c)
  PROVE  NewestInv'
<1> PICK l : l = loop[c]
  OBVIOUS
<1> PICK qs : qs = l.msg.state.queries
  OBVIOUS
<1>1. Shaped(cache[c], queue[c], l, app[c]) /\ Due(cache[c], queue[c], l, owed[c])
  BY DEF NewestInv
<1>2. l = LoopAt(l.at, l.msg) /\ IsMessage(l.msg) /\ IsSeq(qs) /\ IsQueue(queue[c]) /\ IsFiniteSet(DOMAIN cache[c])
  BY <1>1 DEF Shaped, IsMessage
<1>3. ASSUME NEW place \in {"select", "recv", "waiting", "break", "ended"},
             Goes(c, place), UNCHANGED <<cache, queue, app, owed>>,
             place \in Leaving \/ (l.at \notin Leaving /\ qs = <<>> /\ l.at # "restore")
      PROVE  NewestInv'
  <2> DEFINE m == LoopAt(place, NoMessage)
  <2>1. m.at = place /\ m.msg.state.queries = <<>>
    BY NoMessageIsMessage DEF LoopAt
  <2>2. LeftToSet(m) = <<>>
    BY <2>1 DEF LeftToSet
  <2>3. LeftToSet(l) = qs \/ place \in Leaving
    BY <1>3 DEF LeftToSet
  <2> HIDE DEF m
  <2>4. Due(cache[c], queue[c], m, owed[c])
    BY <1>1, <1>3, <2>1, <2>2, <2>3 DEF Due, Leaving
  <2> QED BY <1>3, <2>4, NoMessageIsMessage, LoopMoves DEF Goes, m
<1>4. l.at \notin Applying \cup Leaving => qs = <<>>
  BY <1>1 DEF Due
<1>5. CASE Woken(c) \/ PollStop(c) \/ RecvLagged(c) \/ RecvPends(c)
  <2>1. /\ l.at \in {"start", "waiting", "select", "recv"}
        /\ \E place \in {"select", "recv", "waiting", "break"} : Goes(c, place)
        /\ UNCHANGED <<cache, queue, app, owed>>
    BY <1>5 DEF Woken, PollStop, RecvLagged, RecvPends, LoopRuns, busVars
  <2>2. qs = <<>> /\ l.at \notin Leaving /\ l.at # "restore"
    BY <1>4, <2>1 DEF Applying, Leaving
  <2> QED BY <1>3, <2>1, <2>2
<1>6. CASE maybe_remove_channel(c)
  BY <1>3, <1>6 DEF maybe_remove_channel, LoopRuns, Leaving
<1>7. CASE Applied(c)
  <2>1. l.at = "apply" /\ qs = <<>> /\ Goes(c, "select") /\ UNCHANGED <<cache, queue, app, owed>>
    BY <1>7 DEF Applied, LoopRuns, busVars
  <2> QED BY <1>3, <2>1 DEF Leaving
<1>8. CASE CheckFlag(c)
  <2>1. PICK place \in {"break", "apply"} : loop' = [loop EXCEPT ![c].at = place]
    BY <1>8 DEF CheckFlag
  <2>2. l.at = "check" /\ UNCHANGED <<cache, queue, app, owed>>
    BY <1>8 DEF CheckFlag, LoopRuns, busVars
  <2>3. [l EXCEPT !.at = place] = LoopAt(place, l.msg)
    BY <1>2 DEF LoopAt
  <2>4. loop' = [loop EXCEPT ![c] = LoopAt(place, l.msg)]
    BY <2>1, <2>3
  <2> DEFINE m == LoopAt(place, l.msg)
  <2>5. m.at = place /\ m.msg = l.msg
    BY DEF LoopAt
  <2> HIDE DEF m
  <2>6. Due(cache[c], queue[c], m, owed[c])
    BY <1>1, <2>2, <2>5 DEF Due, LeftToSet, Leaving, Applying
  <2> QED BY <1>2, <2>2, <2>4, <2>6, LoopMoves DEF m
<1>9. CASE RecvState(c)
  <2>1. /\ queue[c] # <<>> /\ l.at = "recv"
        /\ queue' = [queue EXCEPT ![c] = Tail(queue[c])]
        /\ loop' = [loop EXCEPT ![c] = LoopAt("check", Head(queue[c]))]
        /\ UNCHANGED <<cache, app, owed>>
    BY <1>9 DEF RecvState, LoopRuns
  <2> DEFINE m == LoopAt("check", Head(queue[c]))
  <2>2. m.at = "check" /\ m.msg = Head(queue[c]) /\ m = LoopAt(m.at, m.msg)
    BY DEF LoopAt
  <2>3. /\ queue'[c] = Tail(queue[c]) /\ DOMAIN queue' = Clients /\ DOMAIN loop' = Clients
        /\ loop'[c] = m
        /\ \A d \in Clients \ {c} : queue'[d] = queue[d] /\ loop'[d] = loop[d]
    BY <2>1 DEF NewestInv
  <2> HIDE DEF m
  <2>4. IsQueue(Tail(queue[c])) /\ IsMessage(m.msg)
    BY <1>2, <2>1, <2>2, TailIsQueue
  <2>5. Shaped(cache[c], queue'[c], m, app[c])
    BY <1>1, <2>2, <2>3, <2>4 DEF Shaped
  <2>6. owed[c] \subseteq KeysOf(queue[c][Len(queue[c])].state.queries)
    BY <1>1, <2>1 DEF Due, Leaving
  <2>7. IsSeq(queue[c])
    BY <1>2 DEF IsQueue
  <2>8. Due(cache[c], queue'[c], m, owed[c])
    <3>1. CASE Tail(queue[c]) = <<>>
      <4>1. owed[c] \subseteq KeysOf(m.msg.state.queries)
        BY <2>1, <2>2, <2>6, <2>7, <3>1, TailIsSeq
      <4> QED BY <2>2, <2>3, <3>1, <4>1 DEF Due, LeftToSet, Applying, Leaving
    <3>2. CASE Tail(queue[c]) # <<>>
      <4>1. owed[c] \subseteq KeysOf(Tail(queue[c])[Len(Tail(queue[c]))].state.queries)
        BY <2>1, <2>6, <2>7, <3>2, TailIsSeq
      <4> QED BY <2>2, <2>3, <3>2, <4>1 DEF Due, LeftToSet, Applying, Leaving
    <3> QED BY <3>1, <3>2
  <2> QED BY <2>1, <2>3, <2>5, <2>8, OneClient DEF NewestInv
<1>10. CASE DropReceiver(c)
  <2>1. /\ queue' = [queue EXCEPT ![c] = <<>>]
        /\ loop' = [loop EXCEPT ![c] = LoopAt("remove", NoMessage)]
        /\ UNCHANGED <<cache, app, owed>>
    BY <1>10 DEF DropReceiver, LoopRuns, Goes
  <2> DEFINE m == LoopAt("remove", NoMessage)
  <2>2. m.at = "remove" /\ m.msg = NoMessage /\ m = LoopAt(m.at, m.msg)
    BY DEF LoopAt
  <2>3. /\ queue'[c] = <<>> /\ DOMAIN queue' = Clients /\ DOMAIN loop' = Clients /\ loop'[c] = m
        /\ \A d \in Clients \ {c} : queue'[d] = queue[d] /\ loop'[d] = loop[d]
    BY <2>1 DEF NewestInv
  <2> HIDE DEF m
  <2>4. Shaped(cache[c], queue'[c], m, app[c])
    BY <1>1, <2>2, <2>3, EmptyIsSeq, NoMessageIsMessage DEF Shaped, IsQueue
  <2>5. Due(cache[c], queue'[c], m, owed[c])
    BY <2>2 DEF Due, Leaving
  <2> QED BY <2>1, <2>3, <2>4, <2>5, OneClient DEF NewestInv
<1>11. ASSUME NextQuery(c), l.at \in {"apply", "restore"}, qs # <<>>,
              l.at = "apply" => Head(qs).key \in DOMAIN cache[c],
              DOMAIN cache' = Clients, DOMAIN cache'[c] = DOMAIN cache[c],
              \A d \in Clients \ {c} : cache'[d] = cache[d],
              UNCHANGED <<queue, app, owed>>
       PROVE  NewestInv'
  <2> DEFINE m == LoopAt("apply", Shortened(l.msg))
  <2>1. [l EXCEPT !.at = "apply", !.msg.state.queries = Tail(@)] = m
    BY <1>2, AppliedNext
  <2>2. loop' = [loop EXCEPT ![c] = [l EXCEPT !.at = "apply", !.msg.state.queries = Tail(@)]]
    BY <1>11 DEF NextQuery
  <2>3. m.at = "apply" /\ m.msg = Shortened(l.msg) /\ m = LoopAt(m.at, m.msg)
    BY DEF LoopAt
  <2> HIDE DEF m
  <2>4. loop'[c] = m /\ DOMAIN loop' = Clients /\ \A d \in Clients \ {c} : loop'[d] = loop[d]
    BY <2>1, <2>2 DEF NewestInv
  <2>5. IsMessage(m.msg) /\ m.msg.state.queries = Tail(qs)
    BY <1>2, <1>11, <2>3, ShortenedIsMessage
  <2>6. Shaped(cache'[c], queue[c], m, app[c])
    BY <1>1, <1>11, <2>3, <2>5 DEF Shaped
  <2>7. LeftToSet(m) = Tail(qs)
    BY <2>3, <2>5 DEF LeftToSet
  <2>8. KeysOf(qs) \subseteq KeysOf(Tail(qs)) \cup {Head(qs).key}
    BY <1>2, <1>11, KeysOfTail
  <2>9. KeysOf(LeftToSet(l)) \subseteq KeysOf(Tail(qs)) \cup DOMAIN cache[c]
    <3>1. CASE l.at = "apply"
      BY <1>11, <2>8, <3>1 DEF LeftToSet
    <3>2. CASE l.at = "restore"
      BY <3>2 DEF LeftToSet
    <3> QED BY <1>11, <3>1, <3>2
  <2>10. Due(cache'[c], queue[c], m, owed[c])
    BY <1>1, <1>11, <2>3, <2>7, <2>9 DEF Due, Applying, Leaving
  <2> QED BY <1>11, <2>4, <2>6, <2>10, OneClient DEF NewestInv
<1>12. CASE Decide(c)
  <2>1. l.at = "apply" /\ qs # <<>> /\ Current(c) = Head(qs) /\ UNCHANGED <<cache, queue, app, owed>>
    BY <1>12 DEF Decide, LoopRuns, busVars, Current
  <2>2. CASE loop' = [loop EXCEPT ![c].at = "set"]
    <3> DEFINE m == LoopAt("set", l.msg)
    <3>1. [l EXCEPT !.at = "set"] = m
      BY <1>2 DEF LoopAt
    <3>2. loop' = [loop EXCEPT ![c] = m]
      BY <2>2, <3>1
    <3>3. m.at = "set" /\ m.msg = l.msg
      BY DEF LoopAt
    <3> HIDE DEF m
    <3>4. Due(cache[c], queue[c], m, owed[c])
      BY <1>1, <2>1, <3>3 DEF Due, LeftToSet, Applying, Leaving
    <3> QED BY <1>2, <2>1, <3>2, <3>4, LoopMoves DEF m
  <2>3. CASE /\ ~payload_wins(cache[c], l.msg.state.dehydrated_at_ms, Head(qs), TRUE, now)
             /\ NextQuery(c)
    <3>1. Head(qs).key \in DOMAIN cache[c]
      BY <2>3 DEF payload_wins
    <3> QED BY <1>11, <2>1, <2>3, <3>1 DEF NewestInv
  <2> QED BY <1>12, <2>1, <2>2, <2>3 DEF Decide
<1>13. CASE SetData(c)
  <2>1. PICK e : e = NewEntry(deserialize_entry_data(Head(qs).data_json), Head(qs).stale_time_ms, now)
    OBVIOUS
  <2>2. /\ l.at = "set"
        /\ cache' = [cache EXCEPT ![c] = Put(cache[c], Head(qs).key, e)]
        /\ loop' = [loop EXCEPT ![c].at = "restore"]
        /\ UNCHANGED <<queue, app, owed>>
    BY <1>13, <2>1 DEF SetData, LoopRuns, busVars, Current, Hydrated
  <2>3. qs # <<>>
    BY <1>1, <2>2 DEF Due
  <2>4. /\ DOMAIN cache' = Clients /\ DOMAIN cache'[c] = DOMAIN cache[c] \cup {Head(qs).key}
        /\ \A d \in Clients \ {c} : cache'[d] = cache[d]
    BY <2>2 DEF NewestInv, Put
  <2>5. IsFiniteSet(DOMAIN cache'[c])
    BY <1>2, <2>4, FS_AddElement
  <2> DEFINE m == LoopAt("restore", l.msg)
  <2>6. [l EXCEPT !.at = "restore"] = m
    BY <1>2 DEF LoopAt
  <2>7. loop' = [loop EXCEPT ![c] = m]
    BY <2>2, <2>6
  <2>8. m.at = "restore" /\ m.msg = l.msg /\ m = LoopAt(m.at, m.msg)
    BY DEF LoopAt
  <2> HIDE DEF m
  <2>9. loop'[c] = m /\ DOMAIN loop' = Clients /\ \A d \in Clients \ {c} : loop'[d] = loop[d]
    BY <2>7 DEF NewestInv
  <2>10. Shaped(cache'[c], queue[c], m, app[c])
    BY <1>1, <2>5, <2>8 DEF Shaped
  <2>11. LeftToSet(l) = qs /\ LeftToSet(m) = Tail(qs)
    BY <2>2, <2>8 DEF LeftToSet
  <2>12. KeysOf(qs) \subseteq KeysOf(Tail(qs)) \cup DOMAIN cache'[c]
    BY <1>2, <2>3, <2>4, KeysOfTail
  <2>13. Due(cache'[c], queue[c], m, owed[c])
    BY <1>1, <2>2, <2>3, <2>4, <2>8, <2>11, <2>12 DEF Due, Applying, Leaving
  <2> QED BY <2>2, <2>4, <2>9, <2>10, <2>13, OneClient DEF NewestInv
<1>14. CASE RestoreStaleness(c)
  <2>1. PICK f : f = restore_entry_staleness(cache[c], l.msg.state.dehydrated_at_ms, Head(qs), now, 0)
    OBVIOUS
  <2>2. /\ l.at = "restore" /\ cache' = [cache EXCEPT ![c] = f] /\ NextQuery(c)
        /\ UNCHANGED <<queue, app, owed>>
    BY <1>14, <2>1 DEF RestoreStaleness, LoopRuns, busVars, Current
  <2>3. qs # <<>>
    BY <1>1, <2>2 DEF Due
  <2>4. DOMAIN f = DOMAIN cache[c]
    BY <2>1 DEF restore_entry_staleness
  <2>5. /\ DOMAIN cache' = Clients /\ DOMAIN cache'[c] = DOMAIN cache[c]
        /\ \A d \in Clients \ {c} : cache'[d] = cache[d]
    BY <2>2, <2>4 DEF NewestInv
  <2> QED BY <1>11, <2>2, <2>3, <2>5
<1> QED BY <1>5, <1>6, <1>7, <1>8, <1>9, <1>10, <1>12, <1>13, <1>14 DEF LoopStep

LEMMA NewestInvNext == NewestInv /\ [Next]_vars => NewestInv'
<1> SUFFICES ASSUME NewestInv, [Next]_vars PROVE NewestInv'
  OBVIOUS
<1>1. CASE Tick
  BY <1>1, Unchanging DEF Tick, busVars
<1>2. CASE UNCHANGED vars
  BY <1>2, Unchanging DEF vars, busVars
<1>3. ASSUME NEW c \in Clients, Operation(c) PROVE NewestInv'
  BY <1>3, NewestInvWrites, NewestInvCalls DEF Operation
<1> QED BY <1>1, <1>2, <1>3, NewestInvSend, NewestInvLoop DEF Next

\* A loop that has drained its queue has every key of the newest message sent to
\* it in its cache, lags included, unless the client removed the key itself: the
\* channel keeps the newest value and the loop passes over no query that the
\* cache does not have (src/broadcast.rs, broadcast_loop; src/hydration.rs,
\* hydrate_query).
THEOREM NewestIsApplied == Spec => []NewestApplied
<1>1. NewestInv => NewestApplied
  <2> SUFFICES ASSUME NewestInv, NEW c \in Clients, loop[c].at = "waiting", queue[c] = <<>>
               PROVE  owed[c] \subseteq DOMAIN cache[c]
    BY DEF NewestApplied
  <2>1. Due(cache[c], queue[c], loop[c], owed[c])
    BY DEF NewestInv
  <2>2. LeftToSet(loop[c]) = <<>>
    BY <2>1 DEF Due, LeftToSet, Applying, Leaving
  <2>3. KeysOf(<<>>) = {}
    BY DEF KeysOf
  <2> QED BY <2>1, <2>2, <2>3 DEF Due, Leaving
<1> QED BY <1>1, NewestInvInit, NewestInvNext, PTL DEF Spec

-----------------------------------------------------------------------------
(***************************************************************************)
(* Milliseconds and ages                                                   *)
(***************************************************************************)

LEMMA PerMsFact == PerMs \in Nat \ {0} /\ Keys \subseteq Nat /\ IsFiniteSet(Keys)
  BY BroadcastAssumption

\* A number of ticks is less than a millisecond above its milliseconds.
LEMMA MsBounds ==
  ASSUME NEW x \in Nat
  PROVE  /\ Ms(x) \in Nat /\ PerMs * Ms(x) \in Nat
         /\ PerMs * Ms(x) <= x /\ x < PerMs * Ms(x) + PerMs
<1>1. PICK p \in Nat \ {0} : p = PerMs
  BY PerMsFact
<1>2. x \div p \in Nat /\ p * (x \div p) <= x /\ x < p * (x \div p) + p
  OBVIOUS
<1> QED BY <1>1, <1>2 DEF Ms

LEMMA MsMonotone ==
  ASSUME NEW x \in Nat, NEW y \in Nat, x <= y
  PROVE  Ms(x) <= Ms(y)
<1>1. PICK p \in Nat \ {0} : p = PerMs
  BY PerMsFact
<1>2. PICK a \in Nat, b \in Nat : a = Ms(x) /\ b = Ms(y)
  BY MsBounds
<1>3. p * a <= x /\ y < p * b + p
  BY <1>1, <1>2, MsBounds
<1>4. ASSUME a > b PROVE FALSE
  <2>1. PICK c \in Nat : a = b + 1 + c
    <3>1. a - b - 1 \in Nat /\ a = b + 1 + (a - b - 1)
      BY <1>4
    <3> QED BY <3>1
  <2>2. p * a = p * b + p + p * c /\ p * c \in Nat /\ p * b \in Nat
    BY <2>1
  <2> QED BY <1>3, <2>2
<1> QED BY <1>2, <1>4

\* Put on the wall clock and read back, an age is that of the entry captured, in
\* whole milliseconds (src/hydration.rs, dehydrate_cache_entry and
\* dehydrated_age_ms).
LEMMA AgeOf ==
  ASSUME NEW t \in Nat, NEW s \in 0 .. t
  PROVE  /\ Monus(Ms(t), Ms(t - s)) \in Nat
         /\ dehydrated_age_ms(Ms(t), Monus(Ms(t), Ms(t - s))) = Ms(t - s)
<1>1. PICK a \in Nat, b \in Nat : a = Ms(t) /\ b = Ms(t - s)
  BY MsBounds
<1>2. b <= a
  BY <1>1, MsMonotone
<1> QED BY <1>1, <1>2 DEF Monus, dehydrated_age_ms, NoTime

-----------------------------------------------------------------------------
(***************************************************************************)
(* The order of the queries in a message                                   *)
(***************************************************************************)

Below(S, k) == {x \in S : x < k}
Rank(S, k) == Cardinality(Below(S, k))

\* Of a finite set of numbers, exactly one has a given number of others below it.
LEMMA EveryRank ==
  ASSUME NEW S \in SUBSET Nat, IsFiniteSet(S), NEW i \in 1 .. Cardinality(S)
  PROVE  \E k \in S : Rank(S, k) = i - 1
<1> DEFINE n == Cardinality(S)
           D == 0 .. (n - 1)
           f == [k \in S |-> Rank(S, k)]
<1>1. n \in Nat
  BY FS_CardinalityType
<1>2. ASSUME NEW k \in S
      PROVE  IsFiniteSet(Below(S, k)) /\ Rank(S, k) \in Nat /\ Rank(S, k) < n
  <2>1. Below(S, k) \in SUBSET S /\ Below(S, k) # S
    BY DEF Below
  <2> QED BY <2>1, <1>1, FS_Subset, FS_CardinalityType DEF Rank
<1>3. ASSUME NEW k \in S, NEW h \in S, k < h PROVE Rank(S, k) < Rank(S, h)
  <2>1. Below(S, k) \in SUBSET Below(S, h) /\ Below(S, k) # Below(S, h)
    <3>1. k \in Nat /\ h \in Nat
      OBVIOUS
    <3>2. ASSUME NEW x \in Below(S, k) PROVE x \in Below(S, h)
      <4>1. x \in Nat /\ x \in S /\ x < k
        BY DEF Below
      <4> QED BY <1>3, <3>1, <4>1 DEF Below
    <3>3. k \in Below(S, h) /\ k \notin Below(S, k)
      BY <1>3, <3>1 DEF Below
    <3> QED BY <3>2, <3>3
  <2>2. IsFiniteSet(Below(S, h))
    BY <1>2
  <2>3. Rank(S, k) <= Rank(S, h) /\ Rank(S, k) # Rank(S, h)
    BY <2>1, <2>2, FS_Subset DEF Rank
  <2>4. Rank(S, k) \in Nat /\ Rank(S, h) \in Nat
    BY <1>2
  <2> QED BY ONLY <2>3, <2>4
<1>4. f \in [S -> D]
  BY <1>1, <1>2
<1>5. ASSUME NEW k \in S, NEW h \in S, f[k] = f[h] PROVE k = h
  <2>1. Rank(S, k) = Rank(S, h) /\ Rank(S, k) \in Nat /\ Rank(S, h) \in Nat
    BY <1>2, <1>5
  <2>2. ~(k < h) /\ ~(h < k)
    BY <1>3, <2>1
  <2>3. k \in Int /\ h \in Int
    OBVIOUS
  <2> QED BY ONLY <2>2, <2>3
<1>6. IsFiniteSet(D) /\ Cardinality(D) = n
  <2> HIDE DEF n
  <2>1. 0 \in Int /\ n - 1 \in Int
    BY <1>1
  <2>2. IsFiniteSet(D) /\ Cardinality(D) = IF 0 > n - 1 THEN 0 ELSE (n - 1) - 0 + 1
    BY ONLY <2>1, FS_Interval
  <2> HIDE DEF D
  <2> QED BY <1>1, <2>2
<1> HIDE DEF f, D
<1>7. f \in Injection(S, D)
  BY ONLY <1>4, <1>5, Fun_IsInj
<1>8. f \in Surjection(S, D)
  BY <1>6, <1>7, FS_Injection
<1>9. i - 1 \in D
  BY <1>1 DEF D
<1>10. PICK k \in S : f[k] = i - 1
  BY <1>8, <1>9 DEF Surjection
<1> QED BY <1>10 DEF f

-----------------------------------------------------------------------------
(***************************************************************************)
(* Entries and messages that tell the truth                                *)
(***************************************************************************)

\* An entry at time n, when the data was born at the times b.
IsEntry(e, n, b, pool) ==
  /\ e = [data |-> e.data, fetched |-> e.fetched, stale |-> e.stale, life |-> e.life]
  /\ e.data \in 0 .. Len(b) /\ e.fetched \in 0 .. n /\ e.stale \in BOOLEAN /\ e.life \in Nat
  /\ ~pool /\ e.data # Opaque => b[e.data] <= e.fetched

IsAgedCache(ca, n, b, pool) ==
  DOMAIN ca \subseteq Keys /\ \A k \in DOMAIN ca : IsEntry(ca[k], n, b, pool)

\* A query of a message has what the entry had that it was captured from, and
\* the age of it.
IsQuery(q, m, b, pool) ==
  /\ q.key \in Keys /\ q.key \in DOMAIN m.src /\ m.src[q.key] \in 0 .. m.ticks
  /\ deserialize_entry_data(q.data_json) \in 1 .. Len(b)
  /\ q.fetched_at_ms = Monus(Ms(m.ticks), Ms(m.ticks - m.src[q.key]))
  /\ q.is_stale \in BOOLEAN /\ q.stale_time_ms \in Nat
  /\ ~pool => b[deserialize_entry_data(q.data_json)] <= m.src[q.key]

IsHonest(m, n, b, pool) ==
  /\ m.ticks \in 0 .. n /\ m.state.dehydrated_at_ms = Ms(m.ticks)
  /\ \A i \in DOMAIN m.state.queries : IsQuery(m.state.queries[i], m, b, pool)

\* What a client has.  On one thread nothing but time comes between the steps of
\* hydrate_query: what the loop decided on still holds when it sets the data, and
\* the data it set is there when it restores the age.
Aged(ca, q, l, a, n, b, pool) ==
  LET current == Head(l.msg.state.queries)
      at == l.msg.state.dehydrated_at_ms
  IN /\ IsAgedCache(ca, n, b, pool)
     /\ \A i \in DOMAIN q : IsHonest(q[i], n, b, pool)
     /\ IsHonest(l.msg, n, b, pool) /\ IsHonest(a.msg, n, b, pool)
     /\ ~pool /\ l.at = "set" /\ current.key \in DOMAIN ca =>
          dehydrated_is_newer(ca[current.key].fetched, at, current, n)
     /\ ~pool /\ l.at = "restore" =>
          /\ current.key \in DOMAIN ca
          /\ ca[current.key].data = deserialize_entry_data(current.data_json)

AgesInv ==
  /\ setup \in Setups /\ now \in 0 .. setup.ticks
  /\ born \in Seq(Nat) /\ \A d \in 1 .. Len(born) : born[d] <= now
  /\ \A c \in Clients : Aged(cache[c], queue[c], loop[c], app[c], now, born, setup.pool)

LEMMA SetupFacts ==
  ASSUME AgesInv
  PROVE  /\ setup.pool \in BOOLEAN /\ setup.budget \in 0 .. MaxOps /\ setup.ticks \in 0 .. MaxNow
         /\ now \in Nat /\ MaxNow \in Nat /\ MaxOps \in Nat /\ Len(born) \in Nat
<1>1. setup \in AllSetups /\ MaxNow \in Nat /\ MaxOps \in Nat
  BY BroadcastAssumption DEF AgesInv
<1> QED BY <1>1 DEF AgesInv, AllSetups

\* What holds of the current query of a message.
LEMMA CurrentQuery ==
  ASSUME NEW m, NEW n, NEW b, NEW pool, IsMessage(m), m.state.queries # <<>>, IsHonest(m, n, b, pool)
  PROVE  IsQuery(Head(m.state.queries), m, b, pool) /\ IsHonest(Shortened(m), n, b, pool)
<1> DEFINE qs == m.state.queries
           s == Shortened(m)
<1>1. IsSeq(qs)
  BY DEF IsMessage
<1> HIDE DEF qs
<1>2. /\ Head(qs) = qs[1] /\ 1 \in DOMAIN qs
      /\ \A i \in DOMAIN Tail(qs) : i + 1 \in DOMAIN qs /\ Tail(qs)[i] = qs[i + 1]
  BY <1>1, TailIsSeq DEF qs
<1>3. /\ s.ticks = m.ticks /\ s.src = m.src /\ s.state.dehydrated_at_ms = m.state.dehydrated_at_ms
      /\ s.state.queries = Tail(qs)
  BY DEF Shortened, qs
<1>4. \A i \in DOMAIN qs : IsQuery(qs[i], m, b, pool)
  BY DEF IsHonest, qs
<1> HIDE DEF s
<1>5. ASSUME NEW i \in DOMAIN Tail(qs) PROVE IsQuery(Tail(qs)[i], s, b, pool)
  <2>1. IsQuery(Tail(qs)[i], m, b, pool)
    BY <1>2, <1>4
  <2> QED BY <1>3, <2>1 DEF IsQuery
<1>6. IsHonest(s, n, b, pool)
  BY <1>3, <1>5 DEF IsHonest
<1> QED BY <1>2, <1>4, <1>6 DEF s, qs

\* Time goes on, and new data is born: what was true stays so.
LEMMA AgedLater ==
  ASSUME NEW n \in Nat, NEW b \in Seq(Nat), NEW n2 \in Nat, NEW b2 \in Seq(Nat), NEW pool,
         n <= n2, Len(b) <= Len(b2), \A d \in 1 .. Len(b) : b2[d] = b[d],
         NEW ca, NEW q, NEW l, NEW a, Aged(ca, q, l, a, n, b, pool),
         l.at = "set" => IsMessage(l.msg) /\ l.msg.state.queries # <<>>
  PROVE  Aged(ca, q, l, a, n2, b2, pool)
<1>1. PICK z \in Nat, z2 \in Nat : z = Len(b) /\ z2 = Len(b2)
  OBVIOUS
<1>2. ASSUME NEW e, IsEntry(e, n, b, pool) PROVE IsEntry(e, n2, b2, pool)
  <2>1. e.data \in 0 .. z /\ e.fetched \in 0 .. n
    BY <1>1, <1>2 DEF IsEntry
  <2>2. e.data \in 0 .. z2 /\ e.fetched \in 0 .. n2
    BY <1>1, <2>1
  <2>3. e.data # Opaque => b2[e.data] = b[e.data]
    BY <1>1, <2>1 DEF Opaque
  <2> QED BY <1>1, <1>2, <2>2, <2>3 DEF IsEntry
<1>3. IsAgedCache(ca, n2, b2, pool)
  BY <1>2 DEF Aged, IsAgedCache
<1>4. ASSUME NEW m, IsHonest(m, n, b, pool) PROVE IsHonest(m, n2, b2, pool)
  <2>1. ASSUME NEW x, IsQuery(x, m, b, pool) PROVE IsQuery(x, m, b2, pool)
    <3>1. deserialize_entry_data(x.data_json) \in 1 .. z
      BY <1>1, <2>1 DEF IsQuery
    <3>2. /\ deserialize_entry_data(x.data_json) \in 1 .. z2
          /\ b2[deserialize_entry_data(x.data_json)] = b[deserialize_entry_data(x.data_json)]
      BY <1>1, <3>1
    <3> QED BY <1>1, <2>1, <3>2 DEF IsQuery
  <2>2. m.ticks \in 0 .. n2
    BY <1>4 DEF IsHonest
  <2> QED BY <1>4, <2>1, <2>2 DEF IsHonest
<1>5. /\ \A i \in DOMAIN q : IsHonest(q[i], n2, b2, pool)
      /\ IsHonest(l.msg, n2, b2, pool) /\ IsHonest(a.msg, n2, b2, pool)
  BY <1>4 DEF Aged
<1> DEFINE current == Head(l.msg.state.queries)
           at == l.msg.state.dehydrated_at_ms
<1>6. ASSUME ~pool, l.at = "set", current.key \in DOMAIN ca
      PROVE  dehydrated_is_newer(ca[current.key].fetched, at, current, n2)
  <2>1. dehydrated_is_newer(ca[current.key].fetched, at, current, n)
    BY <1>6 DEF Aged
  <2>2. ca[current.key].fetched \in 0 .. n
    BY <1>6 DEF Aged, IsAgedCache, IsEntry
  <2>3. IsQuery(current, l.msg, b, pool) /\ at = Ms(l.msg.ticks) /\ l.msg.ticks \in 0 .. n
    BY <1>6, CurrentQuery DEF Aged, IsHonest
  <2>4. PICK t \in Nat : t = l.msg.ticks
    BY <2>3
  <2>5. PICK s \in 0 .. t : s = l.msg.src[current.key]
    BY <2>3, <2>4 DEF IsQuery
  <2>6. current.fetched_at_ms = Monus(Ms(t), Ms(t - s)) /\ at = Ms(t)
    BY <2>3, <2>4, <2>5 DEF IsQuery
  <2>7. dehydrated_age_ms(at, current.fetched_at_ms) = Ms(t - s) /\ t - s \in Nat
    <3>1. dehydrated_age_ms(Ms(t), Monus(Ms(t), Ms(t - s))) = Ms(t - s)
      BY AgeOf
    <3>2. t - s \in Nat
      OBVIOUS
    <3> QED BY <2>6, <3>1, <3>2
  <2>8. PICK x \in Nat : x = PerMs * dehydrated_age_ms(at, current.fetched_at_ms)
    BY <2>7, MsBounds
  <2>9. PICK f \in Nat : f = ca[current.key].fetched
    BY <2>2
  <2>10. n - f > x
    BY <2>1, <2>8, <2>9 DEF dehydrated_is_newer
  <2>11. n2 - f > x
    BY <2>10
  <2> QED BY <2>8, <2>9, <2>11 DEF dehydrated_is_newer
<1>7. ~pool /\ l.at = "restore" =>
        /\ current.key \in DOMAIN ca
        /\ ca[current.key].data = deserialize_entry_data(current.data_json)
  BY DEF Aged
<1> QED BY <1>3, <1>5, <1>6, <1>7 DEF Aged

\* publish_state captures the truth: a cache that is aged right gives an honest
\* message.
LEMMA CapturedIsHonest ==
  ASSUME NEW n \in Nat, NEW b \in Seq(Nat), NEW pool, NEW ca, IsAgedCache(ca, n, b, pool)
  PROVE  IsHonest([state |-> dehydrate_state(ca, n), ticks |-> n,
                   src |-> [k \in DOMAIN ca |-> ca[k].fetched]], n, b, pool)
<1> DEFINE kept == {k \in DOMAIN ca : default_should_dehydrate_query(ca[k])}
           order == Sorted(kept)
           qs == [i \in DOMAIN order |-> dehydrate_cache_entry(order[i], ca[order[i]], n)]
           src == [k \in DOMAIN ca |-> ca[k].fetched]
           m == [state |-> dehydrate_state(ca, n), ticks |-> n, src |-> src]
<1>1. kept \in SUBSET Nat /\ IsFiniteSet(kept)
  <2>1. kept \in SUBSET Keys
    BY DEF IsAgedCache
  <2> HIDE DEF kept
  <2> QED BY <2>1, PerMsFact, FS_Subset
<1>2. \A i \in 1 .. Cardinality(kept) : order[i] \in kept
  <2> HIDE DEF kept
  <2> TAKE i \in 1 .. Cardinality(kept)
  <2>1. \E k \in kept : Cardinality({x \in kept : x < k}) = i - 1
    BY <1>1, EveryRank DEF Rank, Below
  <2> QED BY <2>1 DEF Sorted
<1>3. /\ m.state.dehydrated_at_ms = Ms(n) /\ m.state.queries = qs
      /\ m.ticks = n /\ m.src = src
  BY DEF dehydrate_state
<1>4. DOMAIN qs = 1 .. Cardinality(kept)
  BY DEF Sorted
<1>5. ASSUME NEW i \in 1 .. Cardinality(kept)
      PROVE  qs[i] = dehydrate_cache_entry(order[i], ca[order[i]], n)
  BY <1>4
<1>6. ASSUME NEW k \in kept PROVE IsQuery(dehydrate_cache_entry(k, ca[k], n), m, b, pool)
  <2>1. k \in DOMAIN ca /\ ca[k].data # Opaque /\ IsEntry(ca[k], n, b, pool) /\ k \in Keys
    BY DEF default_should_dehydrate_query, IsAgedCache
  <2> DEFINE q == dehydrate_cache_entry(k, ca[k], n)
  <2>2. /\ q.key = k /\ deserialize_entry_data(q.data_json) = ca[k].data
        /\ q.fetched_at_ms = Monus(Ms(n), Ms(n - ca[k].fetched))
        /\ q.is_stale = ca[k].stale /\ q.stale_time_ms = ca[k].life
    BY DEF dehydrate_cache_entry, serialize_entry_data, deserialize_entry_data
  <2>3. src[k] = ca[k].fetched /\ k \in DOMAIN src
    BY <2>1
  <2>4. ca[k].data \in 1 .. Len(b)
    BY <2>1 DEF IsEntry, Opaque
  <2> HIDE DEF q, m, src
  <2>5. IsQuery(q, m, b, pool)
    BY <1>3, <2>1, <2>2, <2>3, <2>4 DEF IsQuery, IsEntry
  <2> QED BY <2>5 DEF q
<1>7. n \in 0 .. n
  OBVIOUS
<1> HIDE DEF qs, m, order, kept
<1>8. \A i \in DOMAIN m.state.queries : IsQuery(m.state.queries[i], m, b, pool)
  BY <1>2, <1>3, <1>4, <1>5, <1>6
<1>9. IsHonest(m, n, b, pool)
  BY <1>3, <1>7, <1>8 DEF IsHonest
<1> QED BY <1>9 DEF m

-----------------------------------------------------------------------------
(***************************************************************************)
(* What is exchanged stays true                                            *)
(***************************************************************************)

LEMMA NoMessageIsHonest ==
  ASSUME NEW n \in Nat, NEW b, NEW pool
  PROVE  IsHonest(NoMessage, n, b, pool)
<1>1. Ms(0) = 0
  <2>1. PICK p \in Nat \ {0}, x \in Nat : p = PerMs /\ x = Ms(0)
    BY PerMsFact, MsBounds
  <2>2. p * x <= 0
    BY <2>1, MsBounds
  <2> QED BY <2>1, <2>2
<1>2. NoMessage.ticks = 0 /\ NoMessage.state.dehydrated_at_ms = 0 /\ NoMessage.state.queries = <<>>
  BY DEF NoMessage
<1>3. DOMAIN <<>> = {}
  OBVIOUS
<1> QED BY <1>1, <1>2, <1>3 DEF IsHonest

\* A queue after a send holds what was sent and what it held, and no more than
\* the channel allows.
LEMMA QueuedHolds ==
  ASSUME NEW q, IsQueue(q), NEW m
  PROVE  /\ \A i \in DOMAIN Queued(q, m) : Queued(q, m)[i] = m \/ \E j \in DOMAIN q : Queued(q, m)[i] = q[j]
         /\ Len(q) <= Cap => Len(Queued(q, m)) <= Cap
<1> DEFINE p == IF Len(q) >= Cap THEN Tail(q) ELSE q
           S == {q[i] : i \in DOMAIN q} \cup {m}
<1>1. Cap \in Nat \ {0}
  BY CapacityAssumption DEF Cap
<1>2. q \in Seq(S)
  BY DEF IsQueue, IsSeq
<1>3. PICK n \in Nat : n = Len(q)
  BY <1>2
<1>4. /\ IsSeq(p) /\ p \in Seq(S) /\ (n <= Cap => Len(p) < Cap)
      /\ \A i \in DOMAIN p : \E j \in DOMAIN q : p[i] = q[j]
  <2>1. CASE n >= Cap
    <3>1. q # <<>> /\ p = Tail(q)
      BY <1>1, <1>3, <2>1, EmptySeq
    <3>2. Tail(q) \in Seq(S) /\ Len(Tail(q)) = n - 1
      BY <1>2, <1>3, <3>1, HeadTailProperties
    <3>3. IsSeq(Tail(q)) /\ \A i \in DOMAIN Tail(q) : i + 1 \in DOMAIN q /\ Tail(q)[i] = q[i + 1]
      BY <3>1, TailIsSeq DEF IsQueue
    <3> QED BY <1>1, <1>3, <2>1, <3>1, <3>2, <3>3
  <2>2. CASE n < Cap
    <3>1. p = q
      BY <1>1, <1>3, <2>2
    <3> QED BY <1>2, <1>3, <2>2, <3>1 DEF IsQueue
  <2> QED BY <1>1, <1>3, <2>1, <2>2
<1>5. Queued(q, m) = Append(p, m) /\ m \in S
  BY DEF Queued
<1> HIDE DEF p, S
<1>6. Len(Append(p, m)) = Len(p) + 1 /\ Len(p) \in Nat
  BY <1>4, <1>5, AppendProperties
<1>7. \A i \in DOMAIN Append(p, m) : Append(p, m)[i] = m \/ \E j \in DOMAIN p : Append(p, m)[i] = p[j]
  BY <1>4, AppendIsSeq
<1> QED BY <1>1, <1>3, <1>4, <1>5, <1>6, <1>7

\* It suffices to look at one client.
LEMMA OneAged ==
  ASSUME AgesInv, NEW c \in Clients, UNCHANGED <<setup, now, born>>,
         \A d \in Clients \ {c} : /\ cache'[d] = cache[d] /\ queue'[d] = queue[d]
                                  /\ loop'[d] = loop[d] /\ app'[d] = app[d],
         Aged(cache'[c], queue'[c], loop'[c], app'[c], now, born, setup.pool)
  PROVE  AgesInv'
<1>1. ASSUME NEW d \in Clients PROVE Aged(cache'[d], queue'[d], loop'[d], app'[d], now, born, setup.pool)
  BY DEF AgesInv
<1> QED BY <1>1 DEF AgesInv

LEMMA AllUnchanged ==
  ASSUME AgesInv, UNCHANGED <<setup, now, born, cache, queue, loop, app>>
  PROVE  AgesInv'
  BY DEF AgesInv

\* A loop that goes to a place where it holds no decision.
LEMMA LoopAged ==
  ASSUME NewestInv, AgesInv, NEW c \in Clients, NEW place, NEW m,
         place \notin {"set", "restore"}, IsHonest(m, now, born, setup.pool),
         loop' = [loop EXCEPT ![c] = LoopAt(place, m)],
         UNCHANGED <<setup, now, born, cache, app>>,
         \A d \in Clients \ {c} : queue'[d] = queue[d],
         \A i \in DOMAIN queue'[c] : IsHonest(queue'[c][i], now, born, setup.pool)
  PROVE  AgesInv'
<1>1. loop'[c] = LoopAt(place, m) /\ \A d \in Clients \ {c} : loop'[d] = loop[d]
  BY DEF NewestInv
<1>2. LoopAt(place, m).at = place /\ LoopAt(place, m).msg = m
  BY DEF LoopAt
<1>3. Aged(cache[c], queue[c], loop[c], app[c], now, born, setup.pool)
  BY DEF AgesInv
<1>4. Aged(cache[c], queue'[c], loop'[c], app[c], now, born, setup.pool)
  BY <1>1, <1>2, <1>3 DEF Aged
<1> QED BY <1>1, <1>4, OneAged

LEMMA AppAged ==
  ASSUME NewestInv, AgesInv, NEW c \in Clients, NEW place, NEW m, NEW b,
         IsHonest(m, now, born, setup.pool),
         app' = [app EXCEPT ![c] = AppAt(place, m, b)],
         UNCHANGED <<setup, now, born, cache, queue, loop>>
  PROVE  AgesInv'
<1>1. app'[c].msg = m /\ \A d \in Clients \ {c} : app'[d] = app[d]
  BY DEF NewestInv, AppAt
<1>2. Aged(cache[c], queue[c], loop[c], app[c], now, born, setup.pool)
  BY DEF AgesInv
<1>3. Aged(cache[c], queue[c], loop[c], app'[c], now, born, setup.pool)
  BY <1>1, <1>2 DEF Aged
<1> QED BY <1>1, <1>3, OneAged

LEMMA AgesInvInit == Init => AgesInv
<1> SUFFICES ASSUME Init PROVE AgesInv
  OBVIOUS
<1>1. setup \in Setups /\ now = 0 /\ born = <<>>
  BY DEF Init
<1>2. now \in 0 .. setup.ticks
  BY <1>1, BroadcastAssumption DEF AllSetups
<1>3. born \in Seq(Nat) /\ Len(born) = 0
  BY <1>1, EmptySeq
<1>4. ASSUME NEW c \in Clients PROVE Aged(cache[c], queue[c], loop[c], app[c], now, born, setup.pool)
  <2>1. cache[c] = NoCache /\ queue[c] = <<>> /\ app[c] = Idle
    BY DEF Init
  <2>2. loop[c] = LoopAt("start", NoMessage) \/ loop[c] = LoopAt("none", NoMessage)
    BY DEF Init, Unused
  <2>3. loop[c].msg = NoMessage /\ loop[c].at \in {"start", "none"} /\ app[c].msg = NoMessage
    BY <2>1, <2>2 DEF LoopAt, AppAt, Idle
  <2>4. DOMAIN NoCache = {} /\ DOMAIN <<>> = {}
    BY DEF NoCache
  <2>5. IsAgedCache(cache[c], now, born, setup.pool)
    BY <2>1, <2>4 DEF IsAgedCache
  <2>6. IsHonest(NoMessage, now, born, setup.pool)
    BY <1>1, NoMessageIsHonest
  <2> QED BY <2>1, <2>3, <2>4, <2>5, <2>6 DEF Aged
<1> QED BY <1>1, <1>2, <1>3, <1>4 DEF AgesInv

LEMMA AgesInvTick ==
  ASSUME NewestInv, AgesInv, Tick
  PROVE  AgesInv'
<1>1. now' = now + 1 /\ now < setup.ticks /\ UNCHANGED <<setup, born, cache, queue, loop, app>>
  BY DEF Tick, busVars
<1>2. now \in Nat /\ setup.ticks \in Nat /\ born \in Seq(Nat) /\ Len(born) \in Nat
  BY SetupFacts DEF AgesInv
<1>3. now' \in 0 .. setup'.ticks /\ now <= now' /\ now' \in Nat
  BY <1>1, <1>2
<1>4. \A d \in 1 .. Len(born) : born[d] <= now'
  BY <1>1, <1>2 DEF AgesInv
<1>5. ASSUME NEW c \in Clients PROVE Aged(cache[c], queue[c], loop[c], app[c], now', born, setup.pool)
  <2>1. loop[c].at = "set" => IsMessage(loop[c].msg) /\ loop[c].msg.state.queries # <<>>
    BY DEF NewestInv, Shaped, Due
  <2>2. Aged(cache[c], queue[c], loop[c], app[c], now, born, setup.pool)
    BY DEF AgesInv
  <2>3. Len(born) <= Len(born) /\ \A d \in 1 .. Len(born) : born[d] = born[d]
    BY <1>2
  <2> QED BY <1>2, <1>3, <2>1, <2>2, <2>3, AgedLater
<1> QED BY <1>1, <1>3, <1>4, <1>5 DEF AgesInv

\* On one thread the loop of a client is at rest while its application writes.
LEMMA LoopAtRest ==
  ASSUME NEW c \in Clients, MayRun("app", c), ~setup.pool
  PROVE  loop[c].at \notin {"set", "restore"}
  BY DEF MayRun, LoopRests

LEMMA PutIsAged ==
  ASSUME NEW n, NEW b, NEW pool, NEW ca, IsAgedCache(ca, n, b, pool),
         NEW k \in Keys, NEW e, IsEntry(e, n, b, pool)
  PROVE  IsAgedCache(Put(ca, k, e), n, b, pool)
<1>1. DOMAIN Put(ca, k, e) = DOMAIN ca \cup {k}
  BY DEF Put
<1>2. \A x \in DOMAIN ca \cup {k} : Put(ca, k, e)[x] = IF x = k THEN e ELSE ca[x]
  BY DEF Put
<1> QED BY <1>1, <1>2 DEF IsAgedCache

\* Only the cache of a client whose loop holds no decision changes.
LEMMA CacheAged ==
  ASSUME NewestInv, AgesInv, NEW c \in Clients, MayRun("app", c), NEW ca,
         cache' = [cache EXCEPT ![c] = ca], IsAgedCache(ca, now, born, setup.pool),
         UNCHANGED <<setup, now, born, queue, loop, app>>
  PROVE  AgesInv'
<1>1. cache'[c] = ca /\ \A d \in Clients \ {c} : cache'[d] = cache[d]
  BY DEF NewestInv
<1>2. Aged(cache[c], queue[c], loop[c], app[c], now, born, setup.pool)
  BY DEF AgesInv
<1>3. ~setup.pool => loop[c].at \notin {"set", "restore"}
  BY LoopAtRest
<1>4. Aged(cache'[c], queue[c], loop[c], app[c], now, born, setup.pool)
  BY <1>1, <1>2, <1>3 DEF Aged
<1> QED BY <1>1, <1>4, OneAged

LEMMA AgesInvWrite ==
  ASSUME NewestInv, AgesInv, NEW c \in Clients, NEW k \in Keys, NEW op, Write(c, k, op)
  PROVE  AgesInv'
<1> DEFINE e == NewEntry(IF op = "write" THEN Len(born) + 1 ELSE Opaque, 0, now)
<1>1. /\ MayRun("app", c) /\ UNCHANGED <<setup, now, queue, loop, app>>
      /\ born' = IF op = "write" THEN Append(born, now) ELSE born
      /\ cache' = [cache EXCEPT ![c] = Put(cache[c], k, e)]
  BY DEF Write, Begin, busVars
<1>2. now \in Nat /\ born \in Seq(Nat)
  BY SetupFacts DEF AgesInv
<1>3. PICK z \in Nat : z = Len(born)
  BY <1>2
<1>4. /\ born' \in Seq(Nat) /\ z <= Len(born') /\ \A d \in 1 .. z : born'[d] = born[d]
      /\ \A d \in 1 .. Len(born') : born'[d] <= now
      /\ op = "write" => Len(born') = z + 1 /\ born'[z + 1] = now
  <2>1. CASE op = "write"
    <3>1. born' = Append(born, now)
      BY <1>1, <2>1
    <3>2. /\ born' \in Seq(Nat) /\ Len(born') = z + 1 /\ born'[z + 1] = now
          /\ \A d \in 1 .. z : born'[d] = born[d]
      BY <1>2, <1>3, <3>1, AppendProperties
    <3>3. \A d \in 1 .. z : born[d] <= now
      BY <1>3 DEF AgesInv
    <3>4. \A d \in 1 .. (z + 1) : born'[d] <= now
      BY <1>2, <3>2, <3>3
    <3> QED BY <3>2, <3>4
  <2>2. CASE op # "write"
    BY <1>1, <1>2, <1>3, <2>2 DEF AgesInv
  <2> QED BY <2>1, <2>2
<1>5. ASSUME NEW d \in Clients PROVE Aged(cache[d], queue[d], loop[d], app[d], now, born', setup.pool)
  <2>1. loop[d].at = "set" => IsMessage(loop[d].msg) /\ loop[d].msg.state.queries # <<>>
    BY DEF NewestInv, Shaped, Due
  <2>2. Aged(cache[d], queue[d], loop[d], app[d], now, born, setup.pool) /\ now <= now
    BY <1>2 DEF AgesInv
  <2> QED BY <1>2, <1>3, <1>4, <2>1, <2>2, AgedLater
<1>6. IsEntry(e, now, born', setup.pool)
  <2>1. /\ e = [data |-> e.data, fetched |-> e.fetched, stale |-> e.stale, life |-> e.life]
        /\ e.data = (IF op = "write" THEN z + 1 ELSE 0) /\ e.fetched = now /\ e.stale = FALSE /\ e.life = 0
    BY <1>3 DEF NewEntry, Opaque
  <2> HIDE DEF e
  <2>2. PICK y \in Nat : y = Len(born')
    BY <1>4
  <2>3. e.data \in 0 .. y /\ (e.data # 0 => born'[e.data] = now)
    BY <1>3, <1>4, <2>1, <2>2
  <2>4. now \in 0 .. now /\ now <= now
    BY <1>2
  <2>5. e.data \in 0 .. Len(born') /\ e.fetched \in 0 .. now /\ e.stale \in BOOLEAN /\ e.life \in Nat
    <3>1. e.data \in 0 .. Len(born')
      BY <2>2, <2>3
    <3>2. e.fetched \in 0 .. now
      BY <2>1, <2>4
    <3>3. e.stale \in BOOLEAN
      BY <2>1
    <3>4. e.life \in Nat
      BY <2>1
    <3> QED BY <3>1, <3>2, <3>3, <3>4
  <2>6. e.data # Opaque => born'[e.data] <= e.fetched
    BY <2>1, <2>3, <2>4 DEF Opaque
  <2>7. e = [data |-> e.data, fetched |-> e.fetched, stale |-> e.stale, life |-> e.life]
    BY <2>1
  <2> QED BY ONLY <2>5, <2>6, <2>7 DEF IsEntry
<1> HIDE DEF e
<1>7. ASSUME NEW d \in Clients PROVE Aged(cache'[d], queue[d], loop[d], app[d], now, born', setup.pool)
  <2>1. Aged(cache[d], queue[d], loop[d], app[d], now, born', setup.pool)
    BY <1>5
  <2>2. CASE d = c
    <3>1. cache'[d] = Put(cache[d], k, e)
      BY <1>1, <2>2 DEF NewestInv
    <3>2. IsAgedCache(cache'[d], now, born', setup.pool)
      BY <1>6, <2>1, <3>1, PutIsAged DEF Aged
    <3>3. ~setup.pool => loop[d].at \notin {"set", "restore"}
      BY <1>1, <2>2, LoopAtRest
    <3> QED BY <2>1, <3>2, <3>3 DEF Aged
  <2>3. CASE d # c
    <3>1. cache'[d] = cache[d]
      BY <1>1, <2>3 DEF NewestInv
    <3> QED BY <2>1, <3>1
  <2> QED BY <2>2, <2>3
<1> QED BY <1>1, <1>4, <1>7 DEF AgesInv

LEMMA AgesInvChange ==
  ASSUME NewestInv, AgesInv, NEW c \in Clients, NEW k \in Keys, Invalidate(c, k) \/ RemoveKey(c, k)
  PROVE  AgesInv'
<1>1. IsAgedCache(cache[c], now, born, setup.pool)
  BY DEF AgesInv, Aged
<1>2. CASE Invalidate(c, k)
  <2>1. /\ MayRun("app", c) /\ k \in DOMAIN cache[c] /\ cache' = [cache EXCEPT ![c][k].stale = TRUE]
        /\ UNCHANGED <<setup, now, born, queue, loop, app>>
    BY <1>2 DEF Invalidate, Begin, busVars
  <2>2. PICK ca : ca = [cache[c] EXCEPT ![k].stale = TRUE]
    OBVIOUS
  <2>3. cache' = [cache EXCEPT ![c] = ca]
    BY <2>1, <2>2
  <2>4. DOMAIN ca = DOMAIN cache[c] /\ \A x \in DOMAIN cache[c] \ {k} : ca[x] = cache[c][x]
    BY <2>2
  <2>5. ca[k] = [cache[c][k] EXCEPT !.stale = TRUE]
    BY <2>1, <2>2
  <2>6. IsEntry(cache[c][k], now, born, setup.pool)
    BY <1>1, <2>1 DEF IsAgedCache
  <2>7. IsEntry(ca[k], now, born, setup.pool)
    <3>1. PICK e : e = cache[c][k]
      OBVIOUS
    <3>2. ca[k] = [data |-> e.data, fetched |-> e.fetched, stale |-> TRUE, life |-> e.life]
      BY <2>5, <2>6, <3>1 DEF IsEntry
    <3> QED BY <2>6, <3>1, <3>2 DEF IsEntry
  <2>8. IsAgedCache(ca, now, born, setup.pool)
    BY <1>1, <2>4, <2>7 DEF IsAgedCache
  <2> QED BY <2>1, <2>3, <2>8, CacheAged
<1>3. CASE RemoveKey(c, k)
  <2>1. /\ MayRun("app", c) /\ cache' = [cache EXCEPT ![c] = Without(cache[c], {k})]
        /\ UNCHANGED <<setup, now, born, queue, loop, app>>
    BY <1>3 DEF RemoveKey, Begin
  <2>2. IsAgedCache(Without(cache[c], {k}), now, born, setup.pool)
    BY <1>1 DEF IsAgedCache, Without
  <2> QED BY <2>1, <2>2, CacheAged
<1> QED BY <1>2, <1>3

LEMMA AgesInvCalls ==
  ASSUME NewestInv, AgesInv, NEW c \in Clients,
         Publish(c) \/ Subscribe(c) \/ Unsubscribe(c) \/ Abort(c)
  PROVE  AgesInv'
<1>1. IsHonest(NoMessage, now, born, setup.pool) /\ now \in Nat /\ born \in Seq(Nat)
  BY SetupFacts, NoMessageIsHonest DEF AgesInv
<1>2. CASE Publish(c)
  <2> DEFINE m == [state |-> dehydrate_state(cache[c], now), ticks |-> now,
                   src |-> [k \in DOMAIN cache[c] |-> cache[c][k].fetched]]
  <2>1. app' = [app EXCEPT ![c] = AppAt("lookup", m, 0)] /\ UNCHANGED <<setup, now, born, cache, queue, loop>>
    BY <1>2 DEF Publish, Begin, busVars
  <2>2. IsHonest(m, now, born, setup.pool)
    BY <1>1, CapturedIsHonest DEF AgesInv, Aged
  <2> HIDE DEF m
  <2> QED BY <2>1, <2>2, AppAged
<1>3. CASE Unsubscribe(c)
  <2>1. /\ app' = [app EXCEPT ![c] = AppAt("signal", NoMessage, 0)]
        /\ UNCHANGED <<setup, now, born, cache, queue, loop>>
    BY <1>3 DEF Unsubscribe, Begin, busVars
  <2> QED BY <1>1, <2>1, AppAged
<1>4. CASE Subscribe(c) \/ Abort(c)
  <2>1. PICK place \in {"start", "aborted"} : loop' = [loop EXCEPT ![c] = LoopAt(place, NoMessage)]
    BY <1>4 DEF Subscribe, Abort
  <2>2. queue' = [queue EXCEPT ![c] = <<>>] /\ UNCHANGED <<setup, now, born, cache, app>>
    BY <1>4 DEF Subscribe, Abort, Begin
  <2>3. DOMAIN queue'[c] = {} /\ \A d \in Clients \ {c} : queue'[d] = queue[d]
    BY <2>2 DEF NewestInv
  <2> QED BY <1>1, <2>1, <2>2, <2>3, LoopAged
<1> QED BY <1>2, <1>3, <1>4

LEMMA AgesInvApp ==
  ASSUME NewestInv, AgesInv, NEW c \in Clients, AppStep(c)
  PROVE  AgesInv'
<1>1. IsHonest(NoMessage, now, born, setup.pool) /\ IsHonest(app[c].msg, now, born, setup.pool)
  BY SetupFacts, NoMessageIsHonest DEF AgesInv, Aged
<1>2. Shaped(cache[c], queue[c], loop[c], app[c])
  BY DEF NewestInv
<1>3. CASE Lookup(c)
  <2>1. PICK b : app' = [app EXCEPT ![c] = AppAt("count", app[c].msg, b)]
    BY <1>3 DEF Lookup
  <2>2. UNCHANGED <<setup, now, born, cache, queue, loop>>
    BY <1>3 DEF Lookup
  <2> QED BY <1>1, <2>1, <2>2, AppAged
<1>4. CASE CountReceivers(c)
  <2>1. /\ UNCHANGED <<setup, now, born, cache, queue, loop>>
        /\ \/ app' = [app EXCEPT ![c] = AppAt("idle", NoMessage, 0)]
           \/ app' = [app EXCEPT ![c] = [app[c] EXCEPT !.at = "send"]]
    BY <1>4 DEF CountReceivers, Idle, busVars
  <2>2. [app[c] EXCEPT !.at = "send"] = AppAt("send", app[c].msg, app[c].bus)
    BY <1>2 DEF Shaped, AppAt
  <2> QED BY <1>1, <2>1, <2>2, AppAged
<1>5. CASE SendStop(c)
  <2>1. app' = [app EXCEPT ![c] = AppAt("idle", NoMessage, 0)] /\ UNCHANGED <<setup, now, born, cache, queue, loop>>
    BY <1>5 DEF SendStop, Idle, busVars
  <2> QED BY <1>1, <2>1, AppAged
<1>6. CASE SendState(c)
  <2>1. PICK to, m : to = Receivers(app[c].bus) /\ m = app[c].msg
    OBVIOUS
  <2>2. /\ queue' = [d \in Clients |-> IF d \in to THEN Queued(queue[d], m) ELSE queue[d]]
        /\ app' = [app EXCEPT ![c] = Idle]
        /\ UNCHANGED <<setup, now, born, cache, loop>>
    BY <1>6, <2>1 DEF SendState
  <2>3. IsHonest(m, now, born, setup.pool)
    BY <1>1, <2>1
  <2>4. ASSUME NEW d \in Clients PROVE Aged(cache[d], queue'[d], loop[d], app'[d], now, born, setup.pool)
    <3>1. Aged(cache[d], queue[d], loop[d], app[d], now, born, setup.pool) /\ IsQueue(queue[d])
      BY DEF AgesInv, NewestInv, Shaped
    <3>2. app'[d] = app[d] \/ app'[d] = Idle
      BY <2>2 DEF NewestInv
    <3>3. IsHonest(app'[d].msg, now, born, setup.pool)
      <4>1. Idle.msg = NoMessage /\ IsHonest(app[d].msg, now, born, setup.pool)
        BY <3>1 DEF Aged, Idle, AppAt
      <4> QED BY <1>1, <3>2, <4>1
    <3>4. ASSUME NEW i \in DOMAIN queue'[d] PROVE IsHonest(queue'[d][i], now, born, setup.pool)
      <4>1. \A j \in DOMAIN queue[d] : IsHonest(queue[d][j], now, born, setup.pool)
        BY <3>1 DEF Aged
      <4>2. queue'[d] = Queued(queue[d], m) \/ queue'[d] = queue[d]
        BY <2>2
      <4> QED BY <2>3, <3>1, <4>1, <4>2, QueuedHolds
    <3> QED BY <3>1, <3>3, <3>4 DEF Aged
  <2> QED BY <2>2, <2>4 DEF AgesInv
<1> QED BY <1>3, <1>4, <1>5, <1>6 DEF AppStep

\* restore_entry_staleness puts the fetch of an entry no earlier than that of the
\* entry the payload was captured from, and not in the future.
LEMMA RestoredIsAged ==
  ASSUME NEW n \in Nat, NEW b \in Seq(Nat), NEW pool, NEW ca, IsAgedCache(ca, n, b, pool),
         NEW m, IsHonest(m, n, b, pool), NEW q, IsQuery(q, m, b, pool),
         ~pool => q.key \in DOMAIN ca /\ ca[q.key].data = deserialize_entry_data(q.data_json)
  PROVE  IsAgedCache(restore_entry_staleness(ca, m.state.dehydrated_at_ms, q, n, 0), n, b, pool)
<1>1. PICK at : at = m.state.dehydrated_at_ms
  OBVIOUS
<1>2. PICK f : f = restore_entry_staleness(ca, at, q, n, 0)
  OBVIOUS
<1>3. CASE q.key \notin DOMAIN ca
  BY <1>1, <1>2, <1>3 DEF restore_entry_staleness
<1>4. CASE q.key \in DOMAIN ca
  <2>1. PICK k, e : k = q.key /\ e = ca[q.key]
    OBVIOUS
  <2>2. IsEntry(e, n, b, pool) /\ k \in DOMAIN ca
    BY <1>4, <2>1 DEF IsAgedCache
  <2>3. PICK t \in 0 .. n : t = m.ticks /\ at = Ms(t)
    BY <1>1 DEF IsHonest
  <2>4. PICK s \in 0 .. t : s = m.src[k]
    BY <2>1, <2>3 DEF IsQuery
  <2>5. dehydrated_age_ms(at, q.fetched_at_ms) = Ms(t - s) /\ t \in Nat /\ t - s \in Nat
    <3>1. t \in Nat /\ t - s \in Nat
      OBVIOUS
    <3>2. dehydrated_age_ms(Ms(t), Monus(Ms(t), Ms(t - s))) = Ms(t - s)
      BY <3>1, AgeOf
    <3>3. q.fetched_at_ms = Monus(Ms(t), Ms(t - s))
      BY <2>1, <2>3, <2>4 DEF IsQuery
    <3> QED BY <2>3, <3>1, <3>2, <3>3
  <2>6. PICK x \in Nat : x = PerMs * dehydrated_age_ms(at, q.fetched_at_ms) /\ x <= t - s
    BY <2>5, MsBounds
  <2>7. PICK g : g = IF n - x < n /\ n - x >= 0 THEN n - x ELSE e.fetched
    OBVIOUS
  <2>8. PICK h : h = [ca EXCEPT ![k].stale = q.is_stale]
    OBVIOUS
  <2>9. f = [h EXCEPT ![k].fetched = g]
    BY <1>2, <1>4, <2>1, <2>2, <2>6, <2>7, <2>8 DEF restore_entry_staleness
  <2>10. /\ DOMAIN f = DOMAIN ca /\ \A y \in DOMAIN ca \ {k} : f[y] = ca[y]
         /\ f[k] = [[e EXCEPT !.stale = q.is_stale] EXCEPT !.fetched = g]
    BY <2>1, <2>2, <2>8, <2>9
  <2>11. f[k] = [data |-> e.data, fetched |-> g, stale |-> q.is_stale, life |-> e.life]
    <3>1. [e EXCEPT !.stale = q.is_stale] = [data |-> e.data, fetched |-> e.fetched, stale |-> q.is_stale, life |-> e.life]
      BY <2>2 DEF IsEntry
    <3> QED BY <2>10, <3>1
  <2>12. e.fetched \in 0 .. n
    BY <2>2 DEF IsEntry
  <2>13. g \in 0 .. n
    BY <2>7, <2>12
  <2>14. ASSUME ~pool, e.data # Opaque PROVE b[e.data] <= g
    <3>1. e.data = deserialize_entry_data(q.data_json)
      BY <2>1, <2>14
    <3>2. b[e.data] <= s /\ b[e.data] \in Nat
      BY <2>1, <2>4, <2>14, <3>1 DEF IsQuery
    <3>3. b[e.data] <= e.fetched
      BY <2>2, <2>14 DEF IsEntry
    <3>4. n - x >= s
      BY <2>5, <2>6
    <3>5. PICK bd \in Nat : bd = b[e.data]
      BY <3>2
    <3> QED BY <2>6, <2>7, <2>12, <3>2, <3>3, <3>4, <3>5
  <2>15. IsEntry(f[k], n, b, pool)
    <3>1. /\ f[k].data = e.data /\ f[k].fetched = g /\ f[k].stale = q.is_stale /\ f[k].life = e.life
          /\ f[k] = [data |-> f[k].data, fetched |-> f[k].fetched, stale |-> f[k].stale, life |-> f[k].life]
      BY <2>11
    <3>2. q.is_stale \in BOOLEAN
      BY DEF IsQuery
    <3> QED BY <2>2, <2>13, <2>14, <3>1, <3>2 DEF IsEntry
  <2>16. IsAgedCache(f, n, b, pool)
    BY <2>10, <2>15 DEF IsAgedCache
  <2> QED BY <1>1, <1>2, <2>16
<1> QED BY <1>3, <1>4

\* The loop decides, sets and restores with nothing but time in between; on the
\* pool only what is typed is kept.
LEMMA AgesInvLoop ==
  ASSUME NewestInv, AgesInv, NEW c \in Clients, LoopStep(c)
  PROVE  AgesInv'
<1> PICK l : l = loop[c]
  OBVIOUS
<1> PICK qs : qs = l.msg.state.queries
  OBVIOUS
<1> PICK at : at = l.msg.state.dehydrated_at_ms
  OBVIOUS
<1>1. /\ Shaped(cache[c], queue[c], l, app[c]) /\ Due(cache[c], queue[c], l, owed[c])
      /\ Aged(cache[c], queue[c], l, app[c], now, born, setup.pool)
  BY DEF NewestInv, AgesInv
<1>2. /\ l = LoopAt(l.at, l.msg) /\ IsMessage(l.msg) /\ IsQueue(queue[c])
      /\ IsHonest(l.msg, now, born, setup.pool) /\ IsAgedCache(cache[c], now, born, setup.pool)
      /\ \A i \in DOMAIN queue[c] : IsHonest(queue[c][i], now, born, setup.pool)
  BY <1>1 DEF Shaped, Aged
<1>3. IsHonest(NoMessage, now, born, setup.pool) /\ now \in Nat /\ born \in Seq(Nat)
  BY SetupFacts, NoMessageIsHonest DEF AgesInv
<1>4. UNCHANGED <<setup, now, born, app>>
  BY DEF LoopStep, Woken, PollStop, RecvLagged, RecvState, RecvPends, CheckFlag, Decide, SetData,
         RestoreStaleness, Applied, DropReceiver, maybe_remove_channel, LoopRuns
<1>5. CASE Woken(c) \/ PollStop(c) \/ RecvLagged(c) \/ RecvPends(c) \/ Applied(c) \/ maybe_remove_channel(c)
  <2>1. /\ UNCHANGED <<cache, queue>>
        /\ \E place \in {"select", "recv", "waiting", "break", "ended"} : Goes(c, place)
    BY <1>5 DEF Woken, PollStop, RecvLagged, RecvPends, Applied, maybe_remove_channel, busVars
  <2>2. PICK place \in {"select", "recv", "waiting", "break", "ended"} :
               loop' = [loop EXCEPT ![c] = LoopAt(place, NoMessage)]
    BY <2>1 DEF Goes
  <2>3. /\ \A d \in Clients \ {c} : queue'[d] = queue[d]
        /\ \A i \in DOMAIN queue'[c] : IsHonest(queue'[c][i], now, born, setup.pool)
    BY <1>2, <2>1
  <2>4. UNCHANGED <<setup, now, born, cache, app>>
    BY <1>4, <2>1
  <2> QED BY ONLY NewestInv, AgesInv, c \in Clients, <1>3, <2>2, <2>3, <2>4, LoopAged
<1>6. CASE DropReceiver(c)
  <2>1. UNCHANGED cache /\ Goes(c, "remove") /\ queue' = [queue EXCEPT ![c] = <<>>]
    BY <1>6 DEF DropReceiver
  <2>2. DOMAIN queue'[c] = {} /\ \A d \in Clients \ {c} : queue'[d] = queue[d]
    BY <2>1 DEF NewestInv
  <2>3. PICK place : place = "remove" /\ loop' = [loop EXCEPT ![c] = LoopAt(place, NoMessage)]
    BY <2>1 DEF Goes
  <2>4. place \notin {"set", "restore"}
    BY <2>3
  <2>5. UNCHANGED <<setup, now, born, cache, app>>
    BY <1>4, <2>1
  <2>6. /\ \A i \in DOMAIN queue'[c] : IsHonest(queue'[c][i], now, born, setup.pool)
        /\ \A d \in Clients \ {c} : queue'[d] = queue[d]
    BY <2>2
  <2> QED BY ONLY NewestInv, AgesInv, c \in Clients, <1>3, <2>3, <2>4, <2>5, <2>6, LoopAged
<1>7. CASE RecvState(c)
  <2>1. /\ queue[c] # <<>> /\ queue' = [queue EXCEPT ![c] = Tail(queue[c])] /\ UNCHANGED cache
        /\ loop' = [loop EXCEPT ![c] = LoopAt("check", Head(queue[c]))]
    BY <1>7 DEF RecvState
  <2>2. queue'[c] = Tail(queue[c]) /\ \A d \in Clients \ {c} : queue'[d] = queue[d]
    BY <2>1 DEF NewestInv
  <2>3. /\ Head(queue[c]) = queue[c][1] /\ 1 \in DOMAIN queue[c]
        /\ \A i \in DOMAIN Tail(queue[c]) : i + 1 \in DOMAIN queue[c] /\ Tail(queue[c])[i] = queue[c][i + 1]
    BY <1>2, <2>1, TailIsSeq DEF IsQueue
  <2>4. /\ IsHonest(Head(queue[c]), now, born, setup.pool)
        /\ \A d \in Clients \ {c} : queue'[d] = queue[d]
        /\ \A i \in DOMAIN queue'[c] : IsHonest(queue'[c][i], now, born, setup.pool)
    BY <1>2, <2>2, <2>3
  <2>5. UNCHANGED <<setup, now, born, cache, app>>
    BY <1>4, <2>1
  <2>6. PICK place, m : /\ place = "check" /\ m = Head(queue[c])
                        /\ loop' = [loop EXCEPT ![c] = LoopAt(place, m)]
    BY <2>1
  <2>7. place \notin {"set", "restore"} /\ IsHonest(m, now, born, setup.pool)
    BY <2>4, <2>6
  <2> QED BY ONLY NewestInv, AgesInv, c \in Clients, <2>4, <2>5, <2>6, <2>7, LoopAged
<1>8. CASE CheckFlag(c)
  <2>1. PICK place \in {"break", "apply"} : loop' = [loop EXCEPT ![c].at = place]
    BY <1>8 DEF CheckFlag
  <2>2. [l EXCEPT !.at = place] = LoopAt(place, l.msg)
    BY <1>2 DEF LoopAt
  <2>3. loop' = [loop EXCEPT ![c] = LoopAt(place, l.msg)] /\ UNCHANGED <<cache, queue>>
    BY <1>8, <2>1, <2>2 DEF CheckFlag, busVars
  <2> QED BY <1>2, <1>4, <2>3, LoopAged
<1>9. ASSUME qs # <<>>
      PROVE  IsQuery(Head(qs), l.msg, born, setup.pool) /\ IsHonest(Shortened(l.msg), now, born, setup.pool)
  BY <1>2, <1>9, CurrentQuery
<1>10. NextQuery(c) => loop' = [loop EXCEPT ![c] = LoopAt("apply", Shortened(l.msg))]
  <2>1. [l EXCEPT !.at = "apply", !.msg.state.queries = Tail(@)] = LoopAt("apply", Shortened(l.msg))
    BY <1>2, AppliedNext
  <2>2. NextQuery(c) => loop' = [loop EXCEPT ![c] = [l EXCEPT !.at = "apply", !.msg.state.queries = Tail(@)]]
    BY DEF NextQuery
  <2> QED BY <2>1, <2>2
<1>11. CASE Decide(c)
  <2>1. l.at = "apply" /\ qs # <<>> /\ Current(c) = Head(qs) /\ UNCHANGED <<cache, queue>>
    BY <1>11 DEF Decide, LoopRuns, busVars, Current
  <2>2. CASE payload_wins(cache[c], at, Head(qs), TRUE, now) /\ loop' = [loop EXCEPT ![c].at = "set"]
    <3> DEFINE m == LoopAt("set", l.msg)
    <3>1. [l EXCEPT !.at = "set"] = m
      BY <1>2 DEF LoopAt
    <3>2. loop' = [loop EXCEPT ![c] = m]
      BY <2>2, <3>1
    <3>3. m.at = "set" /\ m.msg = l.msg
      BY DEF LoopAt
    <3> HIDE DEF m
    <3>4. Head(qs).key \in DOMAIN cache[c] => dehydrated_is_newer(cache[c][Head(qs).key].fetched, at, Head(qs), now)
      BY <2>2 DEF payload_wins
    <3>5. Aged(cache[c], queue[c], m, app[c], now, born, setup.pool)
      BY <1>1, <3>3, <3>4 DEF Aged
    <3>6. loop'[c] = m /\ \A d \in Clients \ {c} : loop'[d] = loop[d]
      BY <3>2 DEF NewestInv
    <3> QED BY <1>4, <2>1, <3>5, <3>6, OneAged
  <2>3. CASE NextQuery(c)
    BY <1>2, <1>4, <1>9, <1>10, <2>1, <2>3, LoopAged
  <2> QED BY <1>11, <2>1, <2>2, <2>3 DEF Decide
<1>12. CASE SetData(c)
  <2>1. PICK q, d : q = Head(qs) /\ d = deserialize_entry_data(q.data_json)
    OBVIOUS
  <2>2. PICK e : e = NewEntry(d, q.stale_time_ms, now)
    OBVIOUS
  <2>3. /\ l.at = "set" /\ UNCHANGED queue
        /\ cache' = [cache EXCEPT ![c] = Put(cache[c], q.key, e)]
        /\ loop' = [loop EXCEPT ![c].at = "restore"]
    BY <1>12, <2>1, <2>2 DEF SetData, LoopRuns, busVars, Current, Hydrated
  <2>4. qs # <<>>
    BY <1>1, <2>3 DEF Due
  <2>5. IsQuery(q, l.msg, born, setup.pool)
    BY <1>9, <2>1, <2>4
  <2>6. IsEntry(e, now, born, setup.pool)
    <3>1. d \in 1 .. Len(born) /\ q.stale_time_ms \in Nat
      BY <2>1, <2>5 DEF IsQuery
    <3>2. /\ e = [data |-> e.data, fetched |-> e.fetched, stale |-> e.stale, life |-> e.life]
          /\ e.data = d /\ e.fetched = now /\ e.stale = FALSE /\ e.life = q.stale_time_ms
      BY <2>2 DEF NewEntry
    <3>3. born[d] <= now
      BY <3>1 DEF AgesInv
    <3>4. e.data \in 0 .. Len(born)
      BY <1>3, <3>1, <3>2
    <3>5. e.fetched \in 0 .. now
      BY <1>3, <3>2
    <3>6. e.stale \in BOOLEAN
      BY <3>2
    <3>7. e.life \in Nat
      BY <3>1, <3>2
    <3> QED BY <3>2, <3>3, <3>4, <3>5, <3>6, <3>7 DEF IsEntry
  <2>7. q.key \in Keys
    BY <2>5 DEF IsQuery
  <2>8. IsAgedCache(Put(cache[c], q.key, e), now, born, setup.pool)
    BY <1>2, <2>6, <2>7, PutIsAged
  <2>9. q.key \in DOMAIN Put(cache[c], q.key, e) /\ Put(cache[c], q.key, e)[q.key].data = d
    BY <2>2 DEF Put, NewEntry
  <2> DEFINE m == LoopAt("restore", l.msg)
  <2>10. [l EXCEPT !.at = "restore"] = m
    BY <1>2 DEF LoopAt
  <2>11. loop' = [loop EXCEPT ![c] = m]
    BY <2>3, <2>10
  <2>12. m.at = "restore" /\ m.msg = l.msg
    BY DEF LoopAt
  <2> HIDE DEF m
  <2>13. /\ loop'[c] = m /\ cache'[c] = Put(cache[c], q.key, e)
         /\ \A x \in Clients \ {c} : loop'[x] = loop[x] /\ cache'[x] = cache[x]
    BY <2>3, <2>11 DEF NewestInv
  <2>14. Aged(cache'[c], queue[c], m, app[c], now, born, setup.pool)
    BY <1>1, <2>1, <2>8, <2>9, <2>12, <2>13 DEF Aged
  <2> QED BY <1>4, <2>3, <2>13, <2>14, OneAged
<1>13. CASE RestoreStaleness(c)
  <2>1. PICK q, f : q = Head(qs) /\ f = restore_entry_staleness(cache[c], at, Head(qs), now, 0)
    OBVIOUS
  <2>2. l.at = "restore" /\ cache' = [cache EXCEPT ![c] = f] /\ NextQuery(c) /\ UNCHANGED queue
    BY <1>13, <2>1 DEF RestoreStaleness, LoopRuns, busVars, Current
  <2>3. qs # <<>>
    BY <1>1, <2>2 DEF Due
  <2>4. IsQuery(q, l.msg, born, setup.pool) /\ IsHonest(Shortened(l.msg), now, born, setup.pool)
    BY <1>9, <2>1, <2>3
  <2>5. ~setup.pool => q.key \in DOMAIN cache[c] /\ cache[c][q.key].data = deserialize_entry_data(q.data_json)
    BY <1>1, <2>1, <2>2 DEF Aged
  <2>6. IsAgedCache(f, now, born, setup.pool)
    BY <1>2, <1>3, <2>1, <2>4, <2>5, RestoredIsAged
  <2> DEFINE m == LoopAt("apply", Shortened(l.msg))
  <2>7. loop' = [loop EXCEPT ![c] = m]
    BY <1>10, <2>2
  <2>8. m.at = "apply" /\ m.msg = Shortened(l.msg)
    BY DEF LoopAt
  <2> HIDE DEF m
  <2>9. /\ loop'[c] = m /\ cache'[c] = f
        /\ \A x \in Clients \ {c} : loop'[x] = loop[x] /\ cache'[x] = cache[x]
    BY <2>2, <2>7 DEF NewestInv
  <2>10. Aged(f, queue[c], m, app[c], now, born, setup.pool)
    BY <1>1, <2>4, <2>6, <2>8 DEF Aged
  <2> QED BY <1>4, <2>2, <2>9, <2>10, OneAged
<1> QED BY <1>5, <1>6, <1>7, <1>8, <1>11, <1>12, <1>13 DEF LoopStep

LEMMA AgesInvNext == NewestInv /\ AgesInv /\ [Next]_vars => AgesInv'
<1> SUFFICES ASSUME NewestInv, AgesInv, [Next]_vars PROVE AgesInv'
  OBVIOUS
<1>1. CASE UNCHANGED vars
  BY <1>1, AllUnchanged DEF vars, busVars
<1>2. ASSUME NEW c \in Clients, Operation(c) PROVE AgesInv'
  BY <1>2, AgesInvWrite, AgesInvChange, AgesInvCalls DEF Operation
<1> QED BY <1>1, <1>2, AgesInvTick, AgesInvApp, AgesInvLoop DEF Next

-----------------------------------------------------------------------------
(***************************************************************************)
(* Where everybody stands                                                  *)
(***************************************************************************)

LoopPlaces == LoopRests \cup {"select", "recv", "check", "apply", "set", "restore", "break", "remove"}
AppPlaces == {"idle", "lookup", "count", "send", "signal"}

PlacesInv == \A c \in Clients : loop[c].at \in LoopPlaces /\ app[c].at \in AppPlaces

CountsInv ==
  /\ missed \in [Clients -> Nat] /\ flag \in [Clients -> BOOLEAN] /\ stop \in [Clients -> BOOLEAN]
  /\ ops \in 0 .. setup.budget /\ registry <= made

QueuesInv == \A c \in Clients : Len(queue[c]) <= Cap /\ owed[c] \subseteq Keys

LEMMA PlacesInvInit == Init => PlacesInv
<1> SUFFICES ASSUME Init, NEW c \in Clients PROVE loop[c].at \in LoopPlaces /\ app[c].at \in AppPlaces
  BY DEF PlacesInv
<1>1. app[c].at = "idle"
  BY DEF Init, Idle, AppAt
<1>2. loop[c].at \in {"start", "none"}
  BY DEF Init, Unused, LoopAt
<1> QED BY <1>1, <1>2 DEF LoopPlaces, AppPlaces, LoopRests

LEMMA CountsInvInit == Init => CountsInv
<1> SUFFICES ASSUME Init PROVE CountsInv
  OBVIOUS
<1>1. 0 \in 0 .. setup.budget
  BY BroadcastAssumption DEF Init, AllSetups
<1> QED BY <1>1 DEF Init, CountsInv

LEMMA QueuesInvInit == Init => QueuesInv
<1> SUFFICES ASSUME Init, NEW c \in Clients PROVE Len(queue[c]) <= Cap /\ owed[c] \subseteq Keys
  BY DEF QueuesInv
<1>1. Len(<<>>) = 0 /\ Cap \in Nat
  BY EmptySeq, CapacityAssumption DEF Cap
<1> QED BY <1>1 DEF Init

\* A loop, or an application thread, that goes to a place.
LEMMA LoopPlaced ==
  ASSUME NewestInv, PlacesInv, NEW c \in Clients, NEW place \in LoopPlaces, NEW m,
         loop' = [loop EXCEPT ![c] = LoopAt(place, m)], UNCHANGED app
  PROVE  PlacesInv'
<1>1. loop'[c].at = place /\ \A d \in Clients \ {c} : loop'[d] = loop[d]
  BY DEF NewestInv, LoopAt
<1> QED BY <1>1 DEF PlacesInv

LEMMA AppPlaced ==
  ASSUME NewestInv, PlacesInv, NEW c \in Clients, NEW place \in AppPlaces, NEW m, NEW b,
         app' = [app EXCEPT ![c] = AppAt(place, m, b)], UNCHANGED loop
  PROVE  PlacesInv'
<1>1. app'[c].at = place /\ \A d \in Clients \ {c} : app'[d] = app[d]
  BY DEF NewestInv, AppAt
<1> QED BY <1>1 DEF PlacesInv

LEMMA PlacesInvOperation ==
  ASSUME NewestInv, PlacesInv, NEW c \in Clients, Operation(c)
  PROVE  PlacesInv'
<1>1. CASE UNCHANGED <<loop, app>>
  BY <1>1 DEF PlacesInv
<1>2. ASSUME NEW k \in Keys, NEW op, Write(c, k, op) \/ Invalidate(c, k) \/ RemoveKey(c, k)
      PROVE  UNCHANGED <<loop, app>>
  BY <1>2 DEF Write, Invalidate, RemoveKey
<1>3. CASE Publish(c) \/ Unsubscribe(c)
  <2>1. UNCHANGED loop /\ \E place \in {"lookup", "signal"} : \E m : app' = [app EXCEPT ![c] = AppAt(place, m, 0)]
    BY <1>3 DEF Publish, Unsubscribe
  <2>2. PICK place \in AppPlaces : \E m : app' = [app EXCEPT ![c] = AppAt(place, m, 0)]
    BY <2>1 DEF AppPlaces
  <2> QED BY <2>1, <2>2, AppPlaced
<1>4. CASE Subscribe(c) \/ Abort(c)
  <2>1. UNCHANGED app /\ \E place \in {"start", "aborted"} : loop' = [loop EXCEPT ![c] = LoopAt(place, NoMessage)]
    BY <1>4 DEF Subscribe, Abort
  <2>2. PICK place \in LoopPlaces : loop' = [loop EXCEPT ![c] = LoopAt(place, NoMessage)]
    BY <2>1 DEF LoopPlaces, LoopRests
  <2> QED BY <2>1, <2>2, LoopPlaced
<1> QED BY <1>1, <1>2, <1>3, <1>4 DEF Operation

LEMMA PlacesInvApp ==
  ASSUME NewestInv, PlacesInv, NEW c \in Clients, AppStep(c)
  PROVE  PlacesInv'
<1>1. UNCHANGED loop
  BY DEF AppStep, Lookup, CountReceivers, SendState, SendStop
<1>2. PICK m : m = app[c].msg
  OBVIOUS
<1>3. [app[c] EXCEPT !.at = "send"] = AppAt("send", m, app[c].bus)
  BY <1>2 DEF NewestInv, Shaped, AppAt
<1>4. \E place \in {"count", "send", "idle"} : \E n, b : app' = [app EXCEPT ![c] = AppAt(place, n, b)]
  <2>1. CASE Lookup(c)
    BY <2>1 DEF Lookup
  <2>2. CASE CountReceivers(c)
    BY <2>2, <1>3 DEF CountReceivers, Idle
  <2>3. CASE SendState(c) \/ SendStop(c)
    BY <2>3 DEF SendState, SendStop, Idle
  <2> QED BY <2>1, <2>2, <2>3 DEF AppStep
<1>5. PICK place \in AppPlaces : \E n, b : app' = [app EXCEPT ![c] = AppAt(place, n, b)]
  BY <1>4 DEF AppPlaces
<1> QED BY <1>1, <1>5, AppPlaced

LEMMA PlacesInvLoop ==
  ASSUME NewestInv, PlacesInv, NEW c \in Clients, LoopStep(c)
  PROVE  PlacesInv'
<1> PICK l : l = loop[c]
  OBVIOUS
<1>1. Shaped(cache[c], queue[c], l, app[c])
  BY DEF NewestInv
<1>2. UNCHANGED app
  BY DEF LoopStep, Woken, PollStop, RecvLagged, RecvState, RecvPends, CheckFlag, Decide, SetData,
         RestoreStaleness, Applied, DropReceiver, maybe_remove_channel, LoopRuns
<1>3. [l EXCEPT !.at = "apply", !.msg.state.queries = Tail(@)] = LoopAt("apply", Shortened(l.msg))
  BY <1>1, AppliedNext DEF Shaped
<1>4. ASSUME NEW place PROVE [l EXCEPT !.at = place] = LoopAt(place, l.msg)
  BY <1>1 DEF Shaped, LoopAt
<1>5. NextQuery(c) => loop' = [loop EXCEPT ![c] = LoopAt("apply", Shortened(l.msg))]
  <2>1. NextQuery(c) => loop' = [loop EXCEPT ![c] = [l EXCEPT !.at = "apply", !.msg.state.queries = Tail(@)]]
    BY DEF NextQuery
  <2> QED BY <2>1, <1>3
<1>6. ASSUME NEW place, loop' = [loop EXCEPT ![c].at = place]
      PROVE  loop' = [loop EXCEPT ![c] = LoopAt(place, l.msg)]
  BY <1>4, <1>6
<1>7. \E place \in {"select", "break", "recv", "check", "waiting", "apply", "set", "restore", "remove", "ended"} : \E m :
        loop' = [loop EXCEPT ![c] = LoopAt(place, m)]
  <2>1. CASE Woken(c) \/ PollStop(c) \/ RecvLagged(c)
    BY <2>1 DEF Woken, PollStop, RecvLagged, Goes
  <2>2. CASE RecvState(c) \/ RecvPends(c) \/ Applied(c)
    BY <2>2 DEF RecvState, RecvPends, Applied, Goes
  <2>3. CASE DropReceiver(c) \/ maybe_remove_channel(c)
    BY <2>3 DEF DropReceiver, maybe_remove_channel, Goes
  <2>4. CASE CheckFlag(c)
    <3>1. PICK place \in {"break", "apply"} : loop' = [loop EXCEPT ![c].at = place]
      BY <2>4 DEF CheckFlag
    <3> QED BY <3>1, <1>6
  <2>5. CASE Decide(c)
    <3>1. loop' = [loop EXCEPT ![c].at = "set"] \/ NextQuery(c)
      BY <2>5 DEF Decide
    <3> QED BY <3>1, <1>5, <1>6
  <2>6. CASE SetData(c)
    BY <2>6, <1>6 DEF SetData
  <2>7. CASE RestoreStaleness(c)
    BY <2>7, <1>5 DEF RestoreStaleness
  <2> QED BY <2>1, <2>2, <2>3, <2>4, <2>5, <2>6, <2>7 DEF LoopStep
<1>8. PICK place \in LoopPlaces : \E m : loop' = [loop EXCEPT ![c] = LoopAt(place, m)]
  BY <1>7 DEF LoopPlaces, LoopRests
<1> QED BY <1>2, <1>8, LoopPlaced

LEMMA PlacesInvNext == NewestInv /\ PlacesInv /\ [Next]_vars => PlacesInv'
<1> SUFFICES ASSUME NewestInv, PlacesInv, [Next]_vars PROVE PlacesInv'
  OBVIOUS
<1>1. CASE Tick \/ UNCHANGED vars
  BY <1>1 DEF Tick, vars, PlacesInv
<1> QED BY <1>1, PlacesInvOperation, PlacesInvApp, PlacesInvLoop DEF Next

\* Only sends miss; only handles are flagged and stopped; and the registry's bus
\* is one that was made.
LEMMA CountsInvNext == ReachInv /\ AgesInv /\ CountsInv /\ [Next]_vars => CountsInv'
<1> SUFFICES ASSUME ReachInv, AgesInv, CountsInv, [Next]_vars PROVE CountsInv'
  OBVIOUS
<1>1. registry \in Nat /\ made \in Nat /\ setup.budget \in Nat
  BY SetupFacts DEF ReachInv
<1>2. ASSUME UNCHANGED <<setup, missed, flag, stop, ops, registry, made>> PROVE CountsInv'
  BY <1>2 DEF CountsInv
<1>3. ASSUME NEW c \in Clients, Operation(c) PROVE CountsInv'
  <2>1. PICK op : Begin(c, op)
    BY <1>3 DEF Operation, Write, Invalidate, RemoveKey, Publish, Subscribe, Unsubscribe, Abort
  <2>2. UNCHANGED setup /\ ops' \in 0 .. setup'.budget
    BY <1>1, <2>1 DEF Begin, CountsInv
  <2>3. CASE Subscribe(c)
    <3>1. registry' <= made'
      BY <1>1, <2>3 DEF Subscribe, CountsInv
    <3>2. missed' \in [Clients -> Nat]
      BY <2>3 DEF Subscribe, CountsInv
    <3>3. flag' \in [Clients -> BOOLEAN] /\ stop' \in [Clients -> BOOLEAN]
      BY <2>3 DEF Subscribe, CountsInv
    <3> QED BY <2>2, <3>1, <3>2, <3>3 DEF CountsInv
  <2>4. CASE Unsubscribe(c)
    <3>1. UNCHANGED <<missed, stop, registry, made>> /\ flag' = [flag EXCEPT ![c] = TRUE]
      BY <2>4 DEF Unsubscribe, busVars
    <3>2. flag' \in [Clients -> BOOLEAN]
      BY <3>1 DEF CountsInv
    <3> QED BY <2>2, <3>1, <3>2 DEF CountsInv
  <2>5. CASE Abort(c)
    <3>1. UNCHANGED <<flag, stop, registry, made>> /\ missed' = [missed EXCEPT ![c] = 0]
      BY <2>5 DEF Abort, handleVars
    <3>2. missed' \in [Clients -> Nat]
      BY <3>1 DEF CountsInv
    <3> QED BY <2>2, <3>1, <3>2 DEF CountsInv
  <2>6. ASSUME NEW k \in Keys, NEW o, Write(c, k, o) \/ Invalidate(c, k) \/ RemoveKey(c, k)
        PROVE  CountsInv'
    <3>1. UNCHANGED <<missed, flag, stop, registry, made>>
      BY <2>6 DEF Write, Invalidate, RemoveKey, busVars, handleVars
    <3> QED BY <2>2, <3>1 DEF CountsInv
  <2>7. CASE Publish(c)
    <3>1. UNCHANGED <<missed, flag, stop, registry, made>>
      BY <2>7 DEF Publish, busVars, handleVars
    <3> QED BY <2>2, <3>1 DEF CountsInv
  <2> QED BY <1>3, <2>3, <2>4, <2>5, <2>6, <2>7 DEF Operation
<1>4. ASSUME NEW c \in Clients, AppStep(c) PROVE CountsInv'
  <2>1. CASE Lookup(c)
    <3>1. UNCHANGED <<setup, missed, flag, stop, ops>>
      BY <2>1 DEF Lookup, handleVars
    <3>2. registry' <= made'
      BY <1>1, <2>1 DEF Lookup, CountsInv
    <3> QED BY <3>1, <3>2 DEF CountsInv
  <2>2. CASE CountReceivers(c)
    BY <2>2, <1>2 DEF CountReceivers, busVars, handleVars
  <2>3. CASE SendState(c)
    <3>1. PICK to : /\ UNCHANGED <<setup, flag, stop, ops, registry, made>>
                    /\ missed' = [d \in Clients |-> IF d \in to THEN Missed(queue[d], missed[d]) ELSE missed[d]]
      BY <2>3 DEF SendState, handleVars
    <3>2. ASSUME NEW d \in Clients PROVE missed'[d] \in Nat
      <4>1. missed[d] \in Nat /\ Missed(queue[d], missed[d]) \in Nat
        BY DEF CountsInv, Missed
      <4> QED BY <3>1, <4>1
    <3>3. missed' \in [Clients -> Nat]
      BY <3>1, <3>2
    <3> QED BY <3>1, <3>3 DEF CountsInv
  <2>4. CASE SendStop(c)
    <3>1. UNCHANGED <<setup, missed, flag, ops, registry, made>> /\ stop' = [stop EXCEPT ![c] = TRUE]
      BY <2>4 DEF SendStop, busVars
    <3>2. stop' \in [Clients -> BOOLEAN]
      BY <3>1 DEF CountsInv
    <3> QED BY <3>1, <3>2 DEF CountsInv
  <2> QED BY <1>4, <2>1, <2>2, <2>3, <2>4 DEF AppStep
<1>5. ASSUME NEW c \in Clients, LoopStep(c) PROVE CountsInv'
  <2>1. UNCHANGED <<setup, flag, stop, ops>>
    BY <1>5 DEF LoopStep, Woken, PollStop, RecvLagged, RecvState, RecvPends, CheckFlag, Decide, SetData,
       RestoreStaleness, Applied, DropReceiver, maybe_remove_channel, LoopRuns, handleVars
  <2>2. CASE maybe_remove_channel(c)
    <3>1. registry' <= made' /\ UNCHANGED missed
      BY <1>1, <2>2 DEF maybe_remove_channel, CountsInv
    <3> QED BY <2>1, <3>1 DEF CountsInv
  <2>3. CASE RecvLagged(c) \/ DropReceiver(c)
    <3>1. UNCHANGED <<registry, made>> /\ missed' = [missed EXCEPT ![c] = 0]
      BY <2>3 DEF RecvLagged, DropReceiver
    <3>2. missed' \in [Clients -> Nat]
      BY <3>1 DEF CountsInv
    <3> QED BY <2>1, <3>1, <3>2 DEF CountsInv
  <2>4. CASE Woken(c) \/ PollStop(c) \/ RecvState(c) \/ RecvPends(c) \/ CheckFlag(c)
    BY <2>1, <2>4, <1>2 DEF Woken, PollStop, RecvState, RecvPends, CheckFlag, busVars
  <2>5. CASE Decide(c) \/ SetData(c) \/ RestoreStaleness(c) \/ Applied(c)
    BY <2>1, <2>5, <1>2 DEF Decide, SetData, RestoreStaleness, Applied, busVars
  <2> QED BY <1>5, <2>2, <2>3, <2>4, <2>5 DEF LoopStep
<1>6. CASE Tick \/ UNCHANGED vars
  BY <1>2, <1>6 DEF Tick, vars, busVars, handleVars
<1> QED BY <1>3, <1>4, <1>5, <1>6 DEF Next

\* No queue outgrows the channel, and what is owed are keys.
LEMMA QueuesInvNext == NewestInv /\ AgesInv /\ QueuesInv /\ [Next]_vars => QueuesInv'
<1> SUFFICES ASSUME NewestInv, AgesInv, QueuesInv, [Next]_vars PROVE QueuesInv'
  OBVIOUS
<1>1. Cap \in Nat \ {0} /\ Len(<<>>) = 0
  BY EmptySeq, CapacityAssumption DEF Cap
<1>2. ASSUME UNCHANGED <<queue, owed>> PROVE QueuesInv'
  BY <1>2 DEF QueuesInv
<1>3. ASSUME NEW c \in Clients, queue' = [queue EXCEPT ![c] = <<>>],
             UNCHANGED owed \/ owed' = [owed EXCEPT ![c] = {}]
      PROVE  QueuesInv'
  <2> SUFFICES ASSUME NEW d \in Clients PROVE Len(queue'[d]) <= Cap /\ owed'[d] \subseteq Keys
    BY DEF QueuesInv
  <2>1. queue'[d] = <<>> \/ queue'[d] = queue[d]
    BY <1>3 DEF NewestInv
  <2>2. owed'[d] = {} \/ owed'[d] = owed[d]
    BY <1>3 DEF NewestInv
  <2>3. Len(queue[d]) <= Cap /\ owed[d] \subseteq Keys
    BY DEF QueuesInv
  <2> QED BY <1>1, <2>1, <2>2, <2>3
<1>4. ASSUME NEW c \in Clients, Operation(c) PROVE QueuesInv'
  <2>1. ASSUME NEW k \in Keys, NEW op, Write(c, k, op) \/ Invalidate(c, k) PROVE QueuesInv'
    BY <1>2, <2>1 DEF Write, Invalidate, busVars
  <2>2. ASSUME NEW k \in Keys, RemoveKey(c, k) PROVE QueuesInv'
    <3> SUFFICES ASSUME NEW d \in Clients PROVE Len(queue'[d]) <= Cap /\ owed'[d] \subseteq Keys
      BY DEF QueuesInv
    <3>1. UNCHANGED queue /\ owed' = [owed EXCEPT ![c] = owed[c] \ {k}]
      BY <2>2 DEF RemoveKey
    <3>2. owed'[d] \subseteq owed[d]
      BY <3>1 DEF NewestInv
    <3>3. Len(queue[d]) <= Cap /\ owed[d] \subseteq Keys
      BY DEF QueuesInv
    <3> QED BY <3>1, <3>2, <3>3
  <2>3. CASE Publish(c) \/ Unsubscribe(c)
    BY <1>2, <2>3 DEF Publish, Unsubscribe, busVars
  <2>4. CASE Subscribe(c) \/ Abort(c)
    BY <1>3, <2>4 DEF Subscribe, Abort
  <2> QED BY <1>4, <2>1, <2>2, <2>3, <2>4 DEF Operation
<1>5. ASSUME NEW c \in Clients, AppStep(c) PROVE QueuesInv'
  <2>1. CASE Lookup(c) \/ CountReceivers(c) \/ SendStop(c)
    BY <1>2, <2>1 DEF Lookup, CountReceivers, SendStop, busVars
  <2>2. CASE SendState(c)
    <3>1. PICK m, to : m = app[c].msg /\ to = Receivers(app[c].bus)
      OBVIOUS
    <3>2. /\ queue' = [d \in Clients |-> IF d \in to THEN Queued(queue[d], m) ELSE queue[d]]
          /\ owed' = [d \in Clients |-> IF d \in to THEN KeysOf(m.state.queries) ELSE owed[d]]
      BY <2>2, <3>1 DEF SendState, KeysOf
    <3>3. IsHonest(m, now, born, setup.pool)
      BY <3>1 DEF AgesInv, Aged
    <3>4. KeysOf(m.state.queries) \subseteq Keys
      BY <3>3 DEF IsHonest, IsQuery, KeysOf
    <3> SUFFICES ASSUME NEW d \in Clients PROVE Len(queue'[d]) <= Cap /\ owed'[d] \subseteq Keys
      BY DEF QueuesInv
    <3>5. IsQueue(queue[d]) /\ Len(queue[d]) <= Cap /\ owed[d] \subseteq Keys
      BY DEF QueuesInv, NewestInv, Shaped
    <3>6. Len(Queued(queue[d], m)) <= Cap
      BY <3>5, QueuedHolds
    <3> QED BY <3>2, <3>4, <3>5, <3>6
  <2> QED BY <1>5, <2>1, <2>2 DEF AppStep
<1>6. ASSUME NEW c \in Clients, LoopStep(c) PROVE QueuesInv'
  <2>1. CASE RecvState(c)
    <3>1. UNCHANGED owed /\ queue[c] # <<>> /\ queue' = [queue EXCEPT ![c] = Tail(queue[c])]
      BY <2>1 DEF RecvState
    <3>2. IsQueue(queue[c]) /\ Len(queue[c]) <= Cap
      BY DEF QueuesInv, NewestInv, Shaped
    <3>3. PICK S : queue[c] \in Seq(S)
      BY <3>2 DEF IsQueue, IsSeq
    <3>4. Len(Tail(queue[c])) = Len(queue[c]) - 1 /\ Len(queue[c]) \in Nat
      BY <3>1, <3>3, HeadTailProperties
    <3>5. Len(Tail(queue[c])) <= Cap
      BY <1>1, <3>2, <3>4
    <3> SUFFICES ASSUME NEW d \in Clients PROVE Len(queue'[d]) <= Cap /\ owed'[d] \subseteq Keys
      BY DEF QueuesInv
    <3>6. queue'[d] = Tail(queue[c]) \/ queue'[d] = queue[d]
      BY <3>1 DEF NewestInv
    <3> QED BY <3>1, <3>5, <3>6 DEF QueuesInv
  <2>2. CASE DropReceiver(c)
    BY <1>3, <2>2 DEF DropReceiver
  <2>3. CASE Woken(c) \/ PollStop(c) \/ RecvLagged(c) \/ RecvPends(c) \/ CheckFlag(c)
    BY <1>2, <2>3 DEF Woken, PollStop, RecvLagged, RecvPends, CheckFlag, busVars
  <2>4. CASE Decide(c) \/ SetData(c) \/ RestoreStaleness(c) \/ Applied(c) \/ maybe_remove_channel(c)
    BY <1>2, <2>4 DEF Decide, SetData, RestoreStaleness, Applied, maybe_remove_channel, busVars
  <2> QED BY <1>6, <2>1, <2>2, <2>3, <2>4 DEF LoopStep
<1>7. CASE Tick \/ UNCHANGED vars
  BY <1>2, <1>7 DEF Tick, vars, busVars
<1> QED BY <1>4, <1>5, <1>6, <1>7 DEF Next

-----------------------------------------------------------------------------
(***************************************************************************)
(* Ages are kept                                                           *)
(***************************************************************************)

\* What TypeOK and NeverOlderThanBorn say of the entries is what AgesInv says.
LEMMA EntriesAreTyped ==
  ASSUME AgesInv, NEW c \in Clients
  PROVE  /\ IsCache(cache[c])
         /\ ~setup.pool => \A k \in DOMAIN cache[c] :
                              cache[c][k].data # Opaque => cache[c][k].fetched >= born[cache[c][k].data]
<1>1. IsAgedCache(cache[c], now, born, setup.pool)
  BY DEF AgesInv, Aged
<1>2. ASSUME NEW k \in DOMAIN cache[c]
      PROVE  /\ cache[c][k] \in Entries
             /\ ~setup.pool /\ cache[c][k].data # Opaque => cache[c][k].fetched >= born[cache[c][k].data]
  <2>1. IsEntry(cache[c][k], now, born, setup.pool)
    BY <1>1 DEF IsAgedCache
  <2>2. PICK e : e = cache[c][k]
    OBVIOUS
  <2>3. e \in Entries
    <3>1. /\ e = [data |-> e.data, fetched |-> e.fetched, stale |-> e.stale, life |-> e.life]
          /\ e.data \in 0 .. Len(born) /\ e.fetched \in 0 .. now /\ e.stale \in BOOLEAN /\ e.life \in Nat
      BY <2>1, <2>2 DEF IsEntry
    <3> QED BY <3>1 DEF Entries
  <2>4. ASSUME ~setup.pool, e.data # Opaque PROVE e.fetched >= born[e.data]
    <3>1. born[e.data] <= e.fetched
      BY <2>1, <2>2, <2>4 DEF IsEntry
    <3> QED BY <3>1
  <2> QED BY <2>2, <2>3, <2>4
<1>3. DOMAIN cache[c] \subseteq Keys
  BY <1>1 DEF IsAgedCache
<1> QED BY <1>2, <1>3 DEF IsCache

LEMMA TypesHold ==
  ASSUME ReachInv, NewestInv, AgesInv, PlacesInv, CountsInv, QueuesInv
  PROVE  TypeOK /\ NeverOlderThanBorn
<1>1. setup \in Setups /\ now \in 0 .. MaxNow /\ now \in Nat
  <2>1. PICK t \in 0 .. MaxNow : t = setup.ticks /\ MaxNow \in Nat
    BY SetupFacts
  <2>2. now \in 0 .. t /\ setup \in Setups
    BY <2>1 DEF AgesInv
  <2> QED BY <2>1, <2>2
<1>2. \A d \in DOMAIN born : born[d] \in 0 .. now
  <2>1. born \in Seq(Nat) /\ \A d \in 1 .. Len(born) : born[d] <= now
    BY DEF AgesInv
  <2>2. DOMAIN born = 1 .. Len(born) /\ \A d \in 1 .. Len(born) : born[d] \in Nat
    BY <2>1
  <2> QED BY <1>1, <2>1, <2>2
<1>3. registry \in 0 .. made
  BY DEF ReachInv, CountsInv
<1>4. ASSUME NEW c \in Clients
      PROVE  /\ IsCache(cache[c])
             /\ sub[c] \in 0 .. made
             /\ Len(queue[c]) <= Cap /\ missed[c] \in Nat
             /\ loop[c].at \in LoopPlaces /\ app[c].at \in AppPlaces
             /\ owed[c] \subseteq Keys
  <2>1. sub[c] = 0 \/ sub[c] = registry
    BY DEF ReachInv, SubscriberReachable
  <2>2. sub[c] \in 0 .. made
    BY <1>3, <2>1 DEF ReachInv
  <2>3. missed[c] \in Nat
    BY DEF CountsInv
  <2>4. IsCache(cache[c])
    BY EntriesAreTyped
  <2> QED BY <2>2, <2>3, <2>4 DEF PlacesInv, QueuesInv
<1>5. TypeOK
  BY <1>1, <1>2, <1>3, <1>4 DEF TypeOK, CountsInv, LoopPlaces, AppPlaces
<1>6. NeverOlderThanBorn
  BY EntriesAreTyped DEF NeverOlderThanBorn
<1> QED BY <1>5, <1>6

\* What gives way to the payload is older than the payload was when captured, to
\* the millisecond: it was fetched earlier by less than what the message was under
\* way and the part of a millisecond that the age lost.
LEMMA GivesWay ==
  ASSUME NewestInv, AgesInv, NEW c \in Clients, ~setup.pool, loop[c].at = "set",
         Current(c).key \in DOMAIN cache[c]
  PROVE  cache[c][Current(c).key].fetched
           < loop[c].msg.src[Current(c).key] + (now - loop[c].msg.ticks) + PerMs
<1> PICK q, m : q = Current(c) /\ m = loop[c].msg
  OBVIOUS
<1> PICK k : k = q.key
  OBVIOUS
<1>1. IsMessage(m) /\ m.state.queries # <<>> /\ IsHonest(m, now, born, setup.pool) /\ q = Head(m.state.queries)
  BY DEF NewestInv, Shaped, Due, AgesInv, Aged, Current
<1>2. IsQuery(q, m, born, setup.pool)
  BY <1>1, CurrentQuery
<1>3. /\ dehydrated_is_newer(cache[c][k].fetched, m.state.dehydrated_at_ms, q, now)
      /\ IsEntry(cache[c][k], now, born, setup.pool)
  <2>1. Aged(cache[c], queue[c], loop[c], app[c], now, born, setup.pool)
    BY DEF AgesInv
  <2>2. k \in DOMAIN cache[c]
    OBVIOUS
  <2> QED BY <1>1, <2>1, <2>2 DEF Aged, IsAgedCache
<1>4. now \in Nat
  BY SetupFacts
<1>5. PICK t \in 0 .. now : t = m.ticks /\ m.state.dehydrated_at_ms = Ms(t)
  BY <1>1 DEF IsHonest
<1>6. PICK s \in 0 .. t : s = m.src[k]
  BY <1>2, <1>5 DEF IsQuery
<1>7. t \in Nat /\ t - s \in Nat
  BY <1>4, <1>5, <1>6
<1>8. dehydrated_age_ms(m.state.dehydrated_at_ms, q.fetched_at_ms) = Ms(t - s)
  <2>1. dehydrated_age_ms(Ms(t), Monus(Ms(t), Ms(t - s))) = Ms(t - s)
    BY <1>7, AgeOf
  <2>2. q.fetched_at_ms = Monus(Ms(t), Ms(t - s))
    BY <1>2, <1>5, <1>6 DEF IsQuery
  <2> QED BY <1>5, <2>1, <2>2
<1>9. PICK x \in Nat, p \in Nat : p = PerMs /\ x = PerMs * Ms(t - s) /\ t - s < x + p
  BY <1>7, MsBounds, PerMsFact
<1>10. PICK f \in 0 .. now : f = cache[c][k].fetched
  BY <1>3 DEF IsEntry
<1>11. now - f > x
  BY <1>3, <1>8, <1>9, <1>10 DEF dehydrated_is_newer
<1>12. f < s + (now - t) + p
  BY <1>4, <1>5, <1>6, <1>9, <1>10, <1>11
<1> QED BY <1>5, <1>6, <1>9, <1>10, <1>12

\* On one thread, data that goes from client to client is never taken for older
\* than it is, and an entry gives way to an older one only within the time the
\* message was under way (src/hydration.rs, hydrate_query and
\* restore_entry_staleness, as src/broadcast.rs calls them); on the pool, types
\* hold and no fetch is in the future.
THEOREM AgesAreKept == Spec => AgesKept
<1> DEFINE Inv == ReachInv /\ NewestInv /\ AgesInv /\ PlacesInv /\ CountsInv /\ QueuesInv
           Yields == \A c \in Clients : \A k \in Keys :
                       (/\ ~setup.pool /\ loop[c].at = "set" /\ loop'[c].at = "restore"
                        /\ Current(c).key = k /\ k \in DOMAIN cache[c])
                       => cache[c][k].fetched < loop[c].msg.src[k] + (now - loop[c].msg.ticks) + PerMs
<1>1. Init => Inv
  BY ReachInvInit, NewestInvInit, AgesInvInit, PlacesInvInit, CountsInvInit, QueuesInvInit
<1>2. Inv /\ [Next]_vars => Inv'
  BY ReachInvNext, NewestInvNext, AgesInvNext, PlacesInvNext, CountsInvNext, QueuesInvNext
<1>3. Inv => TypeOK /\ NeverOlderThanBorn
  BY TypesHold
<1>4. Inv => [Yields]_vars
  BY GivesWay
<1>5. RegressionBounded <=> [][Yields]_vars
  BY DEF RegressionBounded
<1> HIDE DEF Inv, Yields
<1> QED BY <1>1, <1>2, <1>3, <1>4, <1>5, PTL DEF Spec, AgesKept
===============================================================================
