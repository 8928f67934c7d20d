------------------------------ MODULE Broadcast ------------------------------
(***************************************************************************)
(* Clients that keep one another up to date over a named channel           *)
(* (src/broadcast.rs): publish_state sends a dehydrated cache to the bus   *)
(* that the registry has for the channel, and the loop of every subscribed *)
(* client hydrates what it receives.                                       *)
(*                                                                         *)
(* Every client has one application thread and at most one subscription at *)
(* a time.  Waking a parked loop is taken from Bus and Watch: a loop runs  *)
(* when its stop signal or its queue has something for it.                 *)
(***************************************************************************)
EXTENDS Hydration, Channel

CONSTANTS
  Clients,   \* the clients on the channel
  Keys,      \* cache keys: numbers, in the order of their hashes
  Setups,    \* what may be going on (AllSetups)
  MaxOps,    \* bound: operations of the applications
  MaxNow     \* bound: ticks

Ops == {"write", "opaque", "invalidate", "remove", "publish", "subscribe", "unsubscribe", "abort"}

\* A setup says where tasks run, who is subscribed, what the applications do and
\* how often, and how long the clock runs.
AllSetups == [pool : BOOLEAN, ops : SUBSET Ops, subscribed : SUBSET Clients, budget : 0 .. MaxOps,
              ticks : 0 .. MaxNow]

ASSUME BroadcastAssumption ==
  /\ IsFiniteSet(Clients) /\ IsFiniteSet(Keys) /\ Keys \subseteq Nat
  /\ \A s \in Setups : s \in AllSetups
  /\ MaxOps \in Nat /\ MaxNow \in Nat
  /\ PerMs \in Nat \ {0}

VARIABLES
  setup,     \* the setup, chosen initially
  now,       \* the clock
  born,      \* born[d] is when data d was first written
  cache,     \* client -> its cache
  registry,  \* the bus of the channel, 0 when the registry has none
  made,      \* buses made so far: they are 1 .. made
  sub,       \* client -> the bus its loop's receiver is on, 0 without one
  queue,     \* client -> queue of that receiver
  missed,    \* client -> values it lost and has not reported
  flag,      \* client -> the unsubscribe flag of its handle
  stop,      \* client -> its stop signal was sent
  loop,      \* client -> where its loop stands, and the message it applies
  app,       \* client -> where its application thread stands
  owed,      \* client -> keys of the newest message sent to its receiver
  ops        \* operations done (bounded by the setup's budget)

busVars == <<registry, made, sub, queue, missed, owed>>
handleVars == <<flag, stop>>
vars == <<setup, now, born, cache, busVars, handleVars, loop, app, ops>>

NoMessage == [state |-> [dehydrated_at_ms |-> 0, queries |-> <<>>], ticks |-> 0, src |-> NoCache]
LoopAt(place, m) == [at |-> place, msg |-> m]
AppAt(place, m, b) == [at |-> place, msg |-> m, bus |-> b]
Unused == LoopAt("none", NoMessage)
Idle == AppAt("idle", NoMessage, 0)

LoopRests == {"none", "start", "waiting", "ended", "aborted"}
HasHandle(c) == loop[c].at # "none" /\ ~flag[c]
Receivers(b) == {c \in Clients : sub[c] = b}

\* On a framework's executor nothing runs while a task or a synchronous call
\* is between two suspension points.
MayRun(who, c) ==
  \/ setup.pool
  \/ \A d \in Clients :
       /\ loop[d].at \in LoopRests \/ (who = "loop" /\ d = c)
       /\ app[d].at = "idle" \/ (who = "app" /\ d = c)

Init ==
  /\ setup \in Setups
  /\ now = 0
  /\ born = <<>>
  /\ cache = [c \in Clients |-> NoCache]
  /\ registry = IF setup.subscribed = {} THEN 0 ELSE 1
  /\ made = registry
  /\ sub = [c \in Clients |-> IF c \in setup.subscribed THEN 1 ELSE 0]
  /\ queue = [c \in Clients |-> <<>>]
  /\ missed = [c \in Clients |-> 0]
  /\ flag = [c \in Clients |-> FALSE]
  /\ stop = [c \in Clients |-> FALSE]
  /\ loop = [c \in Clients |-> IF c \in setup.subscribed THEN LoopAt("start", NoMessage) ELSE Unused]
  /\ app = [c \in Clients |-> Idle]
  /\ owed = [c \in Clients |-> {}]
  /\ ops = 0

Tick ==
  /\ now < setup.ticks
  /\ now' = now + 1
  /\ UNCHANGED <<setup, born, cache, busVars, handleVars, loop, app, ops>>

-----------------------------------------------------------------------------
(***************************************************************************)
(* The application                                                         *)
(***************************************************************************)

Begin(c, op) ==
  /\ MayRun("app", c) /\ app[c].at = "idle"
  /\ op \in setup.ops /\ ops < setup.budget
  /\ ops' = ops + 1
  /\ UNCHANGED <<setup, now>>

\* set_query_data with new data: a String, or data of another type.
Write(c, k, op) ==
  /\ op \in {"write", "opaque"} /\ Begin(c, op)
  /\ born' = IF op = "write" THEN Append(born, now) ELSE born
  /\ cache' = [cache EXCEPT ![c] = Put(@, k, NewEntry(IF op = "write" THEN Len(born) + 1 ELSE Opaque, 0, now))]
  /\ UNCHANGED <<busVars, handleVars, loop, app>>

\* invalidate_queries marks what is cached stale.
Invalidate(c, k) ==
  /\ Begin(c, "invalidate")
  /\ k \in DOMAIN cache[c] /\ ~cache[c][k].stale
  /\ cache' = [cache EXCEPT ![c][k].stale = TRUE]
  /\ UNCHANGED <<born, busVars, handleVars, loop, app>>

\* remove_queries: the key is no longer owed to this client.
RemoveKey(c, k) ==
  /\ Begin(c, "remove")
  /\ k \in DOMAIN cache[c]
  /\ cache' = [cache EXCEPT ![c] = Without(@, {k})]
  /\ owed' = [owed EXCEPT ![c] = @ \ {k}]
  /\ UNCHANGED <<born, registry, made, sub, queue, missed, handleVars, loop, app>>

\* publish_state: the snapshot is taken first.
Publish(c) ==
  /\ Begin(c, "publish")
  /\ app' = [app EXCEPT ![c] = AppAt("lookup",
               [state |-> dehydrate_state(cache[c], now), ticks |-> now,
                src |-> [k \in DOMAIN cache[c] |-> cache[c][k].fetched]], 0)]
  /\ UNCHANGED <<born, cache, busVars, handleVars, loop>>

\* The registry's bus for the channel, made when there is none, under its lock.
Lookup(c) ==
  /\ MayRun("app", c) /\ app[c].at = "lookup"
  /\ made' = IF registry = 0 THEN made + 1 ELSE made
  /\ registry' = IF registry = 0 THEN made + 1 ELSE registry
  /\ app' = [app EXCEPT ![c] = AppAt("count", app[c].msg, registry')]
  /\ UNCHANGED <<setup, now, born, cache, sub, queue, missed, owed, handleVars, loop, ops>>

\* receiver_count() == 0 makes the call a no-op.
CountReceivers(c) ==
  /\ MayRun("app", c) /\ app[c].at = "count"
  /\ app' = [app EXCEPT ![c] = IF Receivers(@.bus) = {} THEN Idle ELSE [@ EXCEPT !.at = "send"]]
  /\ UNCHANGED <<setup, now, born, cache, busVars, handleVars, loop, ops>>

\* sender.send: every receiver the bus has by now gets the message.
SendState(c) ==
  /\ MayRun("app", c) /\ app[c].at = "send"
  /\ LET to == Receivers(app[c].bus)
         m == app[c].msg
         ks == {m.state.queries[i].key : i \in DOMAIN m.state.queries}
     IN /\ queue' = [d \in Clients |-> IF d \in to THEN Queued(queue[d], m) ELSE queue[d]]
        /\ missed' = [d \in Clients |-> IF d \in to THEN Missed(queue[d], missed[d]) ELSE missed[d]]
        /\ owed' = [d \in Clients |-> IF d \in to THEN ks ELSE owed[d]]
  /\ app' = [app EXCEPT ![c] = Idle]
  /\ UNCHANGED <<setup, now, born, cache, registry, made, sub, handleVars, loop, ops>>

\* broadcast_query_client: channel_entry finds or makes the bus and subscribes
\* to it under the registry's lock, and the loop is spawned.
Subscribe(c) ==
  /\ Begin(c, "subscribe")
  /\ loop[c].at \in {"none", "ended", "aborted"}
  /\ made' = IF registry = 0 THEN made + 1 ELSE made
  /\ registry' = IF registry = 0 THEN made + 1 ELSE registry
  /\ sub' = [sub EXCEPT ![c] = registry']
  /\ queue' = [queue EXCEPT ![c] = <<>>]
  /\ missed' = [missed EXCEPT ![c] = 0]
  /\ owed' = [owed EXCEPT ![c] = {}]
  /\ flag' = [flag EXCEPT ![c] = FALSE]
  /\ stop' = [stop EXCEPT ![c] = FALSE]
  /\ loop' = [loop EXCEPT ![c] = LoopAt("start", NoMessage)]
  /\ UNCHANGED <<born, cache, app>>

\* unsubscribe, into_task and dropping the handle: the flag first.
Unsubscribe(c) ==
  /\ Begin(c, "unsubscribe") /\ HasHandle(c)
  /\ flag' = [flag EXCEPT ![c] = TRUE]
  /\ app' = [app EXCEPT ![c] = AppAt("signal", NoMessage, 0)]
  /\ UNCHANGED <<born, cache, busVars, stop, loop>>

MutSendStop(c) ==
  /\ MayRun("app", c) /\ app[c].at = "signal"
  /\ app' = [app EXCEPT ![c] = Idle]
  /\ UNCHANGED <<setup, now, born, cache, busVars, handleVars, loop, ops>>

\* ... then the stop signal.
SendStop(c) ==
  /\ MayRun("app", c) /\ app[c].at = "signal"
  /\ stop' = [stop EXCEPT ![c] = TRUE]
  /\ app' = [app EXCEPT ![c] = Idle]
  /\ UNCHANGED <<setup, now, born, cache, busVars, flag, loop, ops>>

\* task.abort() drops the loop where it is suspended; nothing looks after the
\* registry.
Abort(c) ==
  /\ Begin(c, "abort")
  /\ loop[c].at \in {"start", "waiting"}
  /\ loop' = [loop EXCEPT ![c] = LoopAt("aborted", NoMessage)]
  /\ sub' = [sub EXCEPT ![c] = 0]
  /\ queue' = [queue EXCEPT ![c] = <<>>]
  /\ missed' = [missed EXCEPT ![c] = 0]
  /\ UNCHANGED <<born, cache, registry, made, owed, handleVars, app>>

AppStep(c) == Lookup(c) \/ CountReceivers(c) \/ SendState(c) \/ SendStop(c)

Operation(c) ==
  \/ \E k \in Keys, op \in {"write", "opaque"} : Write(c, k, op)
  \/ \E k \in Keys : Invalidate(c, k) \/ RemoveKey(c, k)
  \/ Publish(c) \/ Subscribe(c) \/ Unsubscribe(c) \/ Abort(c)

-----------------------------------------------------------------------------
(***************************************************************************)
(* The loop                                                                *)
(***************************************************************************)

LoopRuns(c, place) == MayRun("loop", c) /\ loop[c].at = place /\ UNCHANGED <<setup, now, born, app, ops>>
Goes(c, place) == loop' = [loop EXCEPT ![c] = LoopAt(place, NoMessage)]

\* The task is polled first when it starts and then when it is woken.
Woken(c) ==
  /\ LoopRuns(c, "start") \/ (LoopRuns(c, "waiting") /\ (stop[c] \/ queue[c] # <<>> \/ missed[c] > 0))
  /\ Goes(c, "select")
  /\ UNCHANGED <<cache, busVars, handleVars>>

\* select polls the stop signal first.
PollStop(c) ==
  /\ LoopRuns(c, "select")
  /\ Goes(c, IF stop[c] THEN "break" ELSE "recv")
  /\ UNCHANGED <<cache, busVars, handleVars>>

MutRecvLagged(c) ==
  /\ LoopRuns(c, "recv") /\ missed[c] > 0
  /\ queue' = [queue EXCEPT ![c] = <<>>]
  /\ missed' = [missed EXCEPT ![c] = 0]
  /\ Goes(c, "select")
  /\ UNCHANGED <<cache, registry, made, sub, owed, handleVars>>

\* A lag is logged, and the loop goes on.
RecvLagged(c) ==
  /\ LoopRuns(c, "recv") /\ missed[c] > 0
  /\ missed' = [missed EXCEPT ![c] = 0]
  /\ Goes(c, "select")
  /\ UNCHANGED <<cache, registry, made, sub, queue, owed, handleVars>>

RecvState(c) ==
  /\ LoopRuns(c, "recv") /\ missed[c] = 0 /\ queue[c] # <<>>
  /\ queue' = [queue EXCEPT ![c] = Tail(@)]
  /\ loop' = [loop EXCEPT ![c] = LoopAt("check", Head(queue[c]))]
  /\ UNCHANGED <<cache, registry, made, sub, missed, owed, handleVars>>

RecvPends(c) ==
  /\ LoopRuns(c, "recv") /\ missed[c] = 0 /\ queue[c] = <<>>
  /\ Goes(c, "waiting")
  /\ UNCHANGED <<cache, busVars, handleVars>>

\* The flag is looked at once more; then the guard goes up for the hydration.
CheckFlag(c) ==
  /\ LoopRuns(c, "check")
  /\ loop' = [loop EXCEPT ![c].at = IF flag[c] THEN "break" ELSE "apply"]
  /\ UNCHANGED <<cache, busVars, handleVars>>

Current(c) == Head(loop[c].msg.state.queries)
NextQuery(c) == loop' = [loop EXCEPT ![c].at = "apply", ![c].msg.state.queries = Tail(@)]

\* hydrate_query for the next query: the entry is looked up ...
Decide(c) ==
  /\ LoopRuns(c, "apply") /\ loop[c].msg.state.queries # <<>>
  /\ IF payload_wins(cache[c], loop[c].msg.state.dehydrated_at_ms, Current(c), TRUE, now)
     THEN loop' = [loop EXCEPT ![c].at = "set"]
     ELSE NextQuery(c)
  /\ UNCHANGED <<cache, busVars, handleVars>>

\* ... the data set, which may be after somebody else wrote it ...
SetData(c) ==
  /\ LoopRuns(c, "set")
  /\ cache' = [cache EXCEPT ![c] = Hydrated(@, Current(c), now)]
  /\ loop' = [loop EXCEPT ![c].at = "restore"]
  /\ UNCHANGED <<busVars, handleVars>>

\* ... and the stale flag and the age restored.
RestoreStaleness(c) ==
  /\ LoopRuns(c, "restore")
  /\ cache' = [cache EXCEPT ![c] =
       restore_entry_staleness(@, loop[c].msg.state.dehydrated_at_ms, Current(c), now, 0)]
  /\ NextQuery(c)
  /\ UNCHANGED <<busVars, handleVars>>

Applied(c) ==
  /\ LoopRuns(c, "apply") /\ loop[c].msg.state.queries = <<>>
  /\ Goes(c, "select")
  /\ UNCHANGED <<cache, busVars, handleVars>>

\* After the loop: drop(receiver), then maybe_remove_channel.
DropReceiver(c) ==
  /\ LoopRuns(c, "break")
  /\ sub' = [sub EXCEPT ![c] = 0]
  /\ queue' = [queue EXCEPT ![c] = <<>>]
  /\ missed' = [missed EXCEPT ![c] = 0]
  /\ Goes(c, "remove")
  /\ UNCHANGED <<cache, registry, made, owed, handleVars>>

MutMaybeRemoveChannel(c) ==
  /\ LoopRuns(c, "remove")
  /\ registry' = 0
  /\ Goes(c, "ended")
  /\ UNCHANGED <<cache, made, sub, queue, missed, owed, handleVars>>

maybe_remove_channel(c) ==
  /\ LoopRuns(c, "remove")
  /\ registry' = IF registry # 0 /\ Receivers(registry) = {} THEN 0 ELSE registry
  /\ Goes(c, "ended")
  /\ UNCHANGED <<cache, made, sub, queue, missed, owed, handleVars>>

LoopStep(c) ==
  \/ Woken(c) \/ PollStop(c) \/ RecvLagged(c) \/ RecvState(c) \/ RecvPends(c) \/ CheckFlag(c)
  \/ Decide(c) \/ SetData(c) \/ RestoreStaleness(c) \/ Applied(c)
  \/ DropReceiver(c) \/ maybe_remove_channel(c)

Next == Tick \/ \E c \in Clients : Operation(c) \/ AppStep(c) \/ LoopStep(c)

\* The executor polls what is ready; an application that began a call ends it.
Fairness == \A c \in Clients : WF_vars(LoopStep(c)) /\ WF_vars(AppStep(c))

Spec == Init /\ [][Next]_vars /\ Fairness

-----------------------------------------------------------------------------
(***************************************************************************)
(* Properties                                                              *)
(***************************************************************************)

Entries == [data : 0 .. Len(born), fetched : 0 .. now, stale : BOOLEAN, life : Nat]
IsCache(f) == DOMAIN f \subseteq Keys /\ \A k \in DOMAIN f : f[k] \in Entries

\* Type invariant: no entry was fetched in the future, every bus in use was
\* made, and places are those of the code.
TypeOK ==
  /\ setup \in Setups
  /\ now \in 0 .. MaxNow
  /\ \A d \in DOMAIN born : born[d] \in 0 .. now
  /\ \A c \in Clients :
       /\ IsCache(cache[c])
       /\ sub[c] \in 0 .. made
       /\ Len(queue[c]) <= Cap /\ missed[c] \in Nat
       /\ loop[c].at \in LoopRests \cup {"select", "recv", "check", "apply", "set", "restore",
                                         "break", "remove"}
       /\ app[c].at \in {"idle", "lookup", "count", "send", "signal"}
       /\ owed[c] \subseteq Keys
  /\ registry \in 0 .. made
  /\ flag \in [Clients -> BOOLEAN] /\ stop \in [Clients -> BOOLEAN]
  /\ ops \in 0 .. setup.budget

\* Who has a receiver is on the bus the registry hands out, however the ends of
\* loops, aborts, subscriptions and publishes are interleaved: a later publish
\* cannot go past it, and its channel is never closed under it.
SubscriberReachable == \A c \in Clients : sub[c] # 0 => registry = sub[c]

\* A loop that has drained its queue has every key of the newest message sent
\* to it in its cache, lags included, unless the client removed the key itself.
NewestApplied ==
  \A c \in Clients :
    loop[c].at = "waiting" /\ queue[c] = <<>> /\ missed[c] = 0 => owed[c] \subseteq DOMAIN cache[c]

\* On one thread, hydrated data never counts as older than it is: its fetch time
\* is not before the data was first written, over any number of hops.
NeverOlderThanBorn ==
  ~setup.pool =>
    \A c \in Clients : \A k \in DOMAIN cache[c] :
      cache[c][k].data # Opaque => cache[c][k].fetched >= born[cache[c][k].data]

\* On one thread, an entry gives way to one fetched earlier only by as much as
\* the message was under way, and a millisecond: the time in transit, which
\* dehydrated_is_newer does not count, is all that can be lost.
RegressionBounded ==
  [][\A c \in Clients : \A k \in Keys :
       (/\ ~setup.pool /\ loop[c].at = "set" /\ loop'[c].at = "restore"
        /\ Current(c).key = k /\ k \in DOMAIN cache[c])
       => cache[c][k].fetched < loop[c].msg.src[k] + (now - loop[c].msg.ticks) + PerMs]_vars

\* A loop whose handle was dropped or unsubscribed comes to its end, wherever
\* it stood, and has then left the bus.
StoppedEnds ==
  \A c \in Clients : flag[c] ~> ((loop[c].at \in {"ended", "aborted"} /\ sub[c] = 0) \/ ~flag[c])

\* The ages of what is exchanged are kept: data is not taken for older than it is,
\* and newer data gives way only within the time a message was under way.
AgesKept == [](TypeOK /\ NeverOlderThanBorn) /\ RegressionBounded
=============================================================================
