------------------------------ MODULE Bindings ------------------------------
(***************************************************************************)
(* The reactive bindings of src/hooks.rs: a signal that a pump task keeps  *)
(* in step with what the client announces.  use_query, use_queries and     *)
(* use_infinite_query follow the notifications of cache keys; the activity *)
(* hooks follow the count of fetches in flight; use_activity_feed collects *)
(* the events themselves.                                                  *)
(*                                                                         *)
(* A slot is one source a binding follows: a key for the query hooks, a    *)
(* client for the activity hooks.  What is cached is a version number;     *)
(* fetches and other callers are writers.                                  *)
(***************************************************************************)
EXTENDS Integers, Sequences, FiniteSets, Channel

CONSTANTS
  Slots,      \* the sources there are: 1 .. n
  Callers,    \* threads of the application and the fetches they spawn
  Own,        \* the fetch that the binding itself spawns
  Setups,     \* what may be going on (AllSetups)
  MaxCalls,   \* bound: calls of the application
  FeedCap     \* ACTIVITY_FEED_CAPACITY

QueryKinds == {"use_query", "use_queries", "use_infinite_query"}
CountKinds == {"use_fetching_count", "use_is_fetching", "use_any_fetching"}
Kinds == QueryKinds \cup CountKinds \cup {"use_activity_feed"}
Silent == {"clear", "age"}
Calls == Silent \cup {"set_query_data", "spawn_query", "refetch", "cancel_query",
                      "invalidate", "append_page", "remove_queries", "drop"}

\* A setup says which hook is used, where tasks run, whether the query has
\* placeholder and initial data, and which calls the application makes, how often.
AllSetups == [kind : Kinds, pool : BOOLEAN, placeholder : BOOLEAN, initial : BOOLEAN,
              calls : SUBSET Calls, budget : 0 .. MaxCalls]

ASSUME BindingsAssumption ==
  /\ IsFiniteSet(Slots) /\ Slots # {} /\ Slots = 1 .. Cardinality(Slots)
  /\ IsFiniteSet(Callers) /\ Own \notin Callers
  /\ \A s \in Setups : s \in AllSetups
  /\ MaxCalls \in Nat
  /\ FeedCap \in Nat /\ FeedCap >= Cap

VARIABLES
  setup,    \* the setup, chosen initially
  entry,    \* slot -> the cache entry of the key
  count,    \* slot -> fetching_count of the client
  bind,     \* where the hook function stands, and for which slot
  stop,     \* the stop token of the binding
  signal,   \* slot -> the state the signal shows
  feed,     \* the events a feed shows
  subs,     \* slots whose pump holds a receiver
  queue,    \* slot -> queue of that receiver
  missed,   \* slot -> values it lost and has not reported
  pump,     \* slot -> where its pump stands
  reading,  \* slot -> what its pump has read so far
  fresh,    \* slot -> the state its pump is about to set
  unheard,  \* slots that changed with no notification since for their pump
  log,      \* the events sent, for a feed
  writer,   \* writer -> where it stands, and for which slot
  calls     \* calls made (bounded by the setup's budget)

chanVars == <<subs, queue, missed, unheard, log>>
pumpVars == <<pump, reading, fresh, signal, feed>>
vars == <<setup, entry, count, bind, stop, chanVars, pumpVars, writer, calls>>

Writers == Callers \cup {Own}
IsQuery == setup.kind \in QueryKinds
IsFeed == setup.kind = "use_activity_feed"
Many == setup.kind \in {"use_queries", "use_any_fetching"}
Used == IF Many THEN Slots ELSE {1}

NoEntry == [has |-> FALSE, ver |-> 0, stale |-> FALSE]
NoRead == [has |-> FALSE, ver |-> 0]
At(place, s, n) == [at |-> place, slot |-> s, new |-> n]
Idle == At("idle", 1, 0)

\* Where a task or a thread is suspended, or not in a method.
PumpRests == {"none", "waiting", "ended"}
WriterRests == {"idle", "fetching", "aborted"}

MutBindRests == {"unbound", "bound", "dropped", "subscribe"}

\* The hook functions are not async: nothing else runs on their thread before
\* they return.
BindRests == {"unbound", "bound", "dropped"}

MayRun(who, x) ==
  \/ setup.pool
  \/ /\ bind.at \in BindRests \/ who = "binder"
     /\ \A s \in Slots : pump[s] \in PumpRests \/ (who = "pump" /\ s = x)
     /\ \A w \in Writers : writer[w].at \in WriterRests \/ (who = "writer" /\ w = x)

Init ==
  /\ setup \in Setups
  /\ entry = [s \in Slots |-> NoEntry]
  /\ count = [s \in Slots |-> 0]
  /\ bind = [at |-> "unbound", slot |-> 1]
  /\ stop = FALSE
  /\ signal = [s \in Slots |-> [st |-> "Idle", ver |-> 0]]
  /\ feed = <<>>
  /\ subs = IF setup.kind = "use_activity_feed" THEN {1} ELSE {}
  /\ queue = [s \in Slots |-> <<>>]
  /\ missed = [s \in Slots |-> 0]
  /\ pump = [s \in Slots |-> "none"]
  /\ reading = [s \in Slots |-> NoRead]
  /\ fresh = signal
  /\ unheard = {}
  /\ log = <<>>
  /\ writer = [w \in Writers |-> Idle]
  /\ calls = 0

-----------------------------------------------------------------------------
(***************************************************************************)
(* Notifications                                                           *)
(***************************************************************************)

Deliver(s, v) ==
  /\ queue' = IF s \in subs THEN [queue EXCEPT ![s] = Queued(@, v)] ELSE queue
  /\ missed' = IF s \in subs THEN [missed EXCEPT ![s] = Missed(queue[s], @)] ELSE missed
  /\ unheard' = IF s \in subs THEN unheard \ {s}
                ELSE IF bind.at = "unbound" THEN unheard ELSE unheard \cup {s}
  /\ UNCHANGED subs

\* notify_subscribers reaches the receivers of the key.
Notify(s, v) ==
  /\ IF IsQuery THEN Deliver(s, v) ELSE UNCHANGED <<subs, queue, missed, unheard>>
  /\ UNCHANGED log

\* activity_tx.send in inc_fetching and dec_fetching.
Activity(s, v) ==
  /\ IF IsQuery THEN UNCHANGED <<subs, queue, missed, unheard>> ELSE Deliver(s, v)
  /\ log' = IF IsFeed /\ s = 1 THEN Append(log, v) ELSE log

-----------------------------------------------------------------------------
(***************************************************************************)
(* What is read                                                            *)
(***************************************************************************)

\* read_query_state, from the data and the staleness it reads one after the
\* other (placeholder_value stands for the placeholder).
StateOf(r, stale) ==
  IF r.has THEN [st |-> IF stale THEN "Stale" ELSE "Success", ver |-> r.ver]
  ELSE IF setup.placeholder /\ setup.kind # "use_infinite_query"
       THEN [st |-> "LoadingWithPlaceholder", ver |-> 0]
       ELSE [st |-> "Idle", ver |-> 0]

DataOf(s) == [has |-> entry[s].has, ver |-> entry[s].ver]

Counted(n) == [st |-> "Count", ver |-> n]
Flag(b) == Counted(IF b THEN 1 ELSE 0)

\* What the pump of slot s reads first ...
FirstRead(s) ==
  CASE IsQuery -> DataOf(s)
    [] setup.kind = "use_is_fetching" -> [has |-> TRUE, ver |-> IF count[s] > 0 THEN 1 ELSE 0]
    [] setup.kind = "use_any_fetching" -> [has |-> count[1] > 0, ver |-> 0]
    [] OTHER -> [has |-> TRUE, ver |-> count[s]]

\* ... and the state it makes of that with what it reads next: is_stale of the
\* entry, or is_fetching of the other clients (any() stops at the first).
SecondRead(s, r) ==
  CASE IsQuery -> StateOf(r, entry[s].has /\ entry[s].stale)
    [] setup.kind = "use_any_fetching" -> Flag(r.has \/ \E c \in Slots \ {1} : count[c] > 0)
    [] OTHER -> Counted(r.ver)

\* What a pump that ran now would put into the signal.
Truth(s) == SecondRead(s, FirstRead(s))

-----------------------------------------------------------------------------
(***************************************************************************)
(* The hook function                                                       *)
(***************************************************************************)

Binds(place) == bind.at = place /\ MayRun("binder", 0)
Bind(place, s) == bind' = [at |-> place, slot |-> s]

\* The first thing each hook does.
Entry(kind) ==
  CASE kind \in {"use_query", "use_queries"} -> "seed"
    [] kind = "use_activity_feed" -> "drain"
    [] OTHER -> "read"

CallHook ==
  /\ Binds("unbound")
  /\ Bind(Entry(setup.kind), 1)
  /\ UNCHANGED <<setup, entry, count, stop, chanVars, pumpVars, writer, calls>>

\* initial_data goes into an empty cache, by set_query_data.
Seed ==
  /\ Binds("seed")
  /\ LET s == bind.slot IN
     IF setup.initial /\ ~entry[s].has
     THEN /\ entry' = [entry EXCEPT ![s] = [has |-> TRUE, ver |-> 0, stale |-> FALSE]]
          /\ Bind("seed_notify", s)
     ELSE /\ Bind("read", s)
          /\ UNCHANGED entry
  /\ UNCHANGED <<setup, count, stop, chanVars, pumpVars, writer, calls>>

SeedNotify ==
  /\ Binds("seed_notify")
  /\ Notify(bind.slot, "Success")
  /\ Bind("read", bind.slot)
  /\ UNCHANGED <<setup, entry, count, stop, pumpVars, writer, calls>>

\* The state the signal is created with is read like a pump reads it.
ReadFirst ==
  /\ Binds("read")
  /\ reading' = [reading EXCEPT ![bind.slot] = FirstRead(bind.slot)]
  /\ unheard' = unheard \ (IF setup.kind = "use_queries" THEN {bind.slot} ELSE Used)
  /\ Bind("create", bind.slot)
  /\ UNCHANGED <<setup, entry, count, stop, subs, queue, missed, log, pump, fresh, signal, feed, writer, calls>>

AfterCreate ==
  IF setup.kind \in {"use_query", "use_infinite_query"} THEN "spawn" ELSE "subscribe"

CreateSignal ==
  /\ Binds("create")
  /\ LET s == bind.slot IN
     /\ signal' = [signal EXCEPT ![s] = SecondRead(s, reading[s])]
     /\ IF setup.kind = "use_queries" /\ s + 1 \in Slots THEN Bind("seed", s + 1)
        ELSE Bind(AfterCreate, 1)
  /\ UNCHANGED <<setup, entry, count, stop, chanVars, pump, reading, fresh, feed, writer, calls>>

\* spawn_query counts and announces the fetch before it spawns the task;
\* spawn_infinite_query only spawns its loop.
Spawn ==
  /\ Binds("spawn")
  /\ IF setup.kind = "use_query"
     THEN /\ count' = [count EXCEPT ![1] = @ + 1]
          /\ Bind("announce", 1)
          /\ UNCHANGED writer
     ELSE /\ writer' = [writer EXCEPT ![Own] = At("fetching", 1, 0)]
          /\ Bind("subscribe", 1)
          /\ UNCHANGED count
  /\ UNCHANGED <<setup, entry, stop, chanVars, pumpVars, calls>>

Announce ==
  /\ Binds("announce")
  /\ Activity(1, count[1])
  /\ writer' = [writer EXCEPT ![Own] = At("fetching", 1, 0)]
  /\ Bind("subscribe", 1)
  /\ UNCHANGED <<setup, entry, count, stop, pumpVars, calls>>

\* subscribe, and the spawn of the pump that owns the receiver: one per slot.
SubscribePump ==
  /\ Binds("subscribe")
  /\ LET s == bind.slot IN
     /\ subs' = subs \cup {s}
     /\ pump' = [pump EXCEPT ![s] = "waiting"]
     /\ IF Many /\ s + 1 \in Slots THEN Bind("subscribe", s + 1) ELSE Bind("bound", 1)
  /\ UNCHANGED <<setup, entry, count, stop, queue, missed, unheard, log,
                 reading, fresh, signal, feed, writer, calls>>

\* drain_ready takes what the receiver holds and goes on past a lag notice;
\* the signal and the pump follow when it is empty.
DrainReady ==
  /\ Binds("drain")
  /\ \/ /\ missed[1] > 0
        /\ missed' = [missed EXCEPT ![1] = 0]
        /\ UNCHANGED <<queue, feed, pump, bind>>
     \/ /\ missed[1] = 0 /\ queue[1] # <<>>
        /\ feed' = Append(feed, Head(queue[1]))
        /\ queue' = [queue EXCEPT ![1] = Tail(@)]
        /\ UNCHANGED <<missed, pump, bind>>
     \/ /\ missed[1] = 0 /\ queue[1] = <<>>
        /\ pump' = [pump EXCEPT ![1] = "waiting"]
        /\ Bind("bound", 1)
        /\ UNCHANGED <<missed, queue, feed>>
  /\ UNCHANGED <<setup, entry, count, stop, subs, unheard, log, signal, reading, fresh, writer, calls>>

\* Drop of UseQuery and UseInfiniteQuery: the token is cancelled; the pump
\* finds out at its next notification.
DropBinding ==
  /\ Binds("bound")
  /\ setup.kind \in {"use_query", "use_infinite_query"} /\ "drop" \in setup.calls
  /\ stop' = TRUE
  /\ Bind("dropped", 1)
  /\ UNCHANGED <<setup, entry, count, chanVars, pumpVars, writer, calls>>

BinderStep ==
  \/ CallHook \/ Seed \/ SeedNotify \/ ReadFirst \/ CreateSignal \/ Spawn \/ Announce
  \/ SubscribePump \/ DrainReady

-----------------------------------------------------------------------------
(***************************************************************************)
(* The pumps                                                               *)
(***************************************************************************)

Pumps(s, place) == pump[s] = place /\ MayRun("pump", s)
PumpTo(s, place) == pump' = [pump EXCEPT ![s] = place]

\* Pumps of the activity hooks and of the feed match Ok only, so a lag notice
\* ends them; the others go on.
ToleratesLag == setup.kind \notin {"use_fetching_count", "use_is_fetching", "use_activity_feed"}

MutRecvLag(s) ==
  /\ Pumps(s, "waiting") /\ missed[s] > 0
  /\ missed' = [missed EXCEPT ![s] = 0]
  /\ PumpTo(s, "ended")
  /\ UNCHANGED <<setup, entry, count, bind, stop, subs, queue, unheard, log,
                 reading, fresh, signal, feed, writer, calls>>

RecvLag(s) ==
  /\ Pumps(s, "waiting") /\ missed[s] > 0
  /\ missed' = [missed EXCEPT ![s] = 0]
  /\ PumpTo(s, IF ~ToleratesLag THEN "ended" ELSE IF stop THEN "ended" ELSE "read")
  /\ subs' = IF ToleratesLag /\ ~stop THEN subs ELSE subs \ {s}
  /\ UNCHANGED <<setup, entry, count, bind, stop, queue, unheard, log,
                 reading, fresh, signal, feed, writer, calls>>

\* push_capped
PushCapped(b, v) == Append(IF Len(b) >= FeedCap THEN Tail(b) ELSE b, v)

\* One value arrives.  A stopped pump breaks its loop, which drops the
\* receiver; a feed shows the value itself.
RecvValue(s) ==
  /\ Pumps(s, "waiting") /\ missed[s] = 0 /\ queue[s] # <<>>
  /\ queue' = [queue EXCEPT ![s] = Tail(@)]
  /\ feed' = IF IsFeed THEN PushCapped(feed, Head(queue[s])) ELSE feed
  /\ PumpTo(s, IF stop THEN "ended" ELSE IF IsFeed THEN "waiting" ELSE "read")
  /\ subs' = IF stop THEN subs \ {s} ELSE subs
  /\ UNCHANGED <<setup, entry, count, bind, stop, missed, unheard, log,
                 reading, fresh, signal, writer, calls>>

PumpRead(s) ==
  /\ Pumps(s, "read")
  /\ reading' = [reading EXCEPT ![s] = FirstRead(s)]
  /\ PumpTo(s, "stale")
  /\ UNCHANGED <<setup, entry, count, bind, stop, chanVars, fresh, signal, feed, writer, calls>>

\* The second read and the value for set_if_eq; the any_fetching pumps share
\* one signal.
PumpCompute(s) ==
  /\ Pumps(s, "stale")
  /\ fresh' = [fresh EXCEPT ![s] = SecondRead(s, reading[s])]
  /\ reading' = [reading EXCEPT ![s] = NoRead]
  /\ PumpTo(s, "set")
  /\ UNCHANGED <<setup, entry, count, bind, stop, chanVars, signal, feed, writer, calls>>

PumpSet(s) ==
  /\ Pumps(s, "set")
  /\ signal' = [signal EXCEPT ![IF setup.kind = "use_any_fetching" THEN 1 ELSE s] = fresh[s]]
  /\ PumpTo(s, "waiting")
  /\ UNCHANGED <<setup, entry, count, bind, stop, chanVars, reading, fresh, feed, writer, calls>>

PumpStep(s) ==
  RecvLag(s) \/ RecvValue(s) \/ PumpRead(s) \/ PumpCompute(s) \/ PumpSet(s)

-----------------------------------------------------------------------------
(***************************************************************************)
(* Fetches and other writers                                               *)
(***************************************************************************)

Writes(w, place) == writer[w].at = place /\ MayRun("writer", w)
WriterTo(w, place, s) == writer' = [writer EXCEPT ![w] = At(place, s, 0)]
Counts(w, place, n) ==
  /\ count' = [count EXCEPT ![writer[w].slot] = n]
  /\ writer' = [writer EXCEPT ![w] = At(place, writer[w].slot, n)]

\* A fetch ends well: the entry is replaced and then notified.
FetchOk(w) ==
  /\ Writes(w, "fetching")
  /\ LET s == writer[w].slot IN
     /\ entry' = [entry EXCEPT ![s] = [has |-> TRUE, ver |-> entry[s].ver + 1, stale |-> FALSE]]
     /\ WriterTo(w, "fetched", s)
  /\ UNCHANGED <<setup, count, bind, stop, chanVars, pumpVars, calls>>

\* After a fetch its guard counts down; the loop of an infinite query has none.
AfterFetch(w) == IF w = Own /\ setup.kind = "use_infinite_query" THEN "idle" ELSE "down"

\* It ends badly: the key is notified, the cache stays as it is.
FetchErr(w) ==
  /\ Writes(w, "fetching")
  /\ Notify(writer[w].slot, "Error")
  /\ WriterTo(w, AfterFetch(w), writer[w].slot)
  /\ UNCHANGED <<setup, entry, count, bind, stop, pumpVars, calls>>

NotifyFetched(w) ==
  /\ Writes(w, "fetched")
  /\ Notify(writer[w].slot, "Success")
  /\ WriterTo(w, AfterFetch(w), writer[w].slot)
  /\ UNCHANGED <<setup, entry, count, bind, stop, pumpVars, calls>>

\* inc_fetching and dec_fetching: the atomic add, then the send.
Inc(w) ==
  /\ Writes(w, "inc")
  /\ Counts(w, "up", count[writer[w].slot] + 1)
  /\ UNCHANGED <<setup, entry, bind, stop, chanVars, pumpVars, calls>>

AnnounceUp(w) ==
  /\ Writes(w, "up")
  /\ Activity(writer[w].slot, writer[w].new)
  /\ WriterTo(w, "fetching", writer[w].slot)
  /\ UNCHANGED <<setup, entry, count, bind, stop, pumpVars, calls>>

Dec(w) ==
  /\ Writes(w, "down") \/ Writes(w, "aborted")
  /\ Counts(w, "downed", count[writer[w].slot] - 1)
  /\ UNCHANGED <<setup, entry, bind, stop, chanVars, pumpVars, calls>>

AnnounceDown(w) ==
  /\ Writes(w, "downed")
  /\ Activity(writer[w].slot, writer[w].new)
  /\ WriterTo(w, "idle", 1)
  /\ UNCHANGED <<setup, entry, count, bind, stop, pumpVars, calls>>

\* The notification that follows a write.
NotifyWrite(w) ==
  /\ Writes(w, "notify")
  /\ Notify(writer[w].slot, "Success")
  /\ WriterTo(w, "idle", 1)
  /\ UNCHANGED <<setup, entry, count, bind, stop, pumpVars, calls>>

FetchStep(w) ==
  \/ FetchOk(w) \/ FetchErr(w) \/ NotifyFetched(w) \/ Inc(w) \/ AnnounceUp(w) \/ Dec(w)
  \/ AnnounceDown(w) \/ NotifyWrite(w)

Calling(w, op) ==
  /\ Writes(w, "idle") /\ w # Own
  /\ op \in setup.calls
  /\ calls < setup.budget /\ calls' = calls + 1

\* The fetches of a key that a cancellation finds in the registry: those that
\* were spawned by spawn_query and are suspended.
Registered(s) == {f \in Writers : /\ writer[f] = At("fetching", s, 0)
                                  /\ AfterFetch(f) = "down"}

CallSetQueryData(w, s) ==
  /\ Calling(w, "set_query_data")
  /\ entry' = [entry EXCEPT ![s] = [has |-> TRUE, ver |-> entry[s].ver + 1, stale |-> FALSE]]
  /\ WriterTo(w, "notify", s)
  /\ UNCHANGED <<setup, count, bind, stop, chanVars, pumpVars>>

CallSpawn(w, s) ==
  /\ Calling(w, "spawn_query")
  /\ WriterTo(w, "inc", s)
  /\ UNCHANGED <<setup, entry, count, bind, stop, chanVars, pumpVars>>

\* cancel_query aborts a registered fetch and wakes the key's subscribers;
\* UseQuery::refetch goes on to spawn.
CallCancel(w, s, op) ==
  /\ op \in {"cancel_query", "refetch"} /\ Calling(w, op)
  /\ LET next == At(IF op = "refetch" THEN "inc" ELSE "idle", s, 0) IN
     \/ /\ Registered(s) = {} /\ op = "refetch"
        /\ writer' = [writer EXCEPT ![w] = next]
        /\ UNCHANGED chanVars
     \/ \E f \in Registered(s) :
          /\ writer' = [writer EXCEPT ![w] = next, ![f] = At("aborted", s, 0)]
          /\ Notify(s, "Error")
  /\ UNCHANGED <<setup, entry, count, bind, stop, pumpVars>>

\* invalidate_queries: the fetch is aborted, the entry marked and notified
\* while it is locked.
CallInvalidate(w, s) ==
  /\ Calling(w, "invalidate") /\ entry[s].has
  /\ entry' = [entry EXCEPT ![s].stale = TRUE]
  /\ Notify(s, "Stale")
  /\ \/ Registered(s) = {} /\ UNCHANGED writer
     \/ \E f \in Registered(s) : writer' = [writer EXCEPT ![f] = At("aborted", s, 0)]
  /\ UNCHANGED <<setup, count, bind, stop, pumpVars>>

\* append_infinite_page and prepend_infinite_page notify under the entry's
\* lock, and keep its stale mark.
CallAppendPage(w, s) ==
  /\ Calling(w, "append_page") /\ entry[s].has
  /\ entry' = [entry EXCEPT ![s].ver = @ + 1]
  /\ Notify(s, "Success")
  /\ UNCHANGED <<setup, count, bind, stop, pumpVars, writer>>

\* remove_queries and reset_queries.
CallRemove(w, s) ==
  /\ Calling(w, "remove_queries") /\ entry[s].has
  /\ entry' = [entry EXCEPT ![s] = NoEntry]
  /\ WriterTo(w, "notify", s)
  /\ UNCHANGED <<setup, count, bind, stop, chanVars, pumpVars>>

\* Changes that nobody is told of: clear and garbage collection, the lapse of
\* stale_time and an invalidation that does not refetch.
CallSilent(w, s) ==
  /\ \/ Calling(w, "clear") /\ entry[s].has /\ entry' = [entry EXCEPT ![s] = NoEntry]
     \/ Calling(w, "age") /\ entry[s].has /\ entry' = [entry EXCEPT ![s].stale = TRUE]
  /\ unheard' = unheard \cup {s}
  /\ UNCHANGED <<setup, count, bind, stop, subs, queue, missed, log, pumpVars, writer>>

Call(w) ==
  \E s \in Used :
    \/ CallSetQueryData(w, s) \/ CallSpawn(w, s) \/ CallInvalidate(w, s)
    \/ (\E op \in {"cancel_query", "refetch"} : CallCancel(w, s, op))
    \/ CallAppendPage(w, s) \/ CallRemove(w, s) \/ CallSilent(w, s)

-----------------------------------------------------------------------------
Next ==
  \/ BinderStep \/ DropBinding
  \/ \E s \in Slots : PumpStep(s)
  \/ \E w \in Writers : FetchStep(w) \/ Call(w)

\* Tasks are polled when they are ready, fetches end, and a thread that is in
\* a method goes on; nobody is obliged to call or to drop.
Fairness ==
  /\ WF_vars(BinderStep)
  /\ \A s \in Slots : WF_vars(PumpStep(s))
  /\ \A w \in Writers : WF_vars(FetchStep(w))

Spec == Init /\ [][Next]_vars /\ Fairness

-----------------------------------------------------------------------------
States == [st : {"Idle", "Success", "Stale", "LoadingWithPlaceholder", "Count"}, ver : Nat]

\* Type invariant; counts stay natural numbers.
TypeOK ==
  /\ setup \in Setups
  /\ entry \in [Slots -> [has : BOOLEAN, ver : Nat, stale : BOOLEAN]]
  /\ count \in [Slots -> Nat]
  /\ bind \in [at : BindRests \cup {"seed", "seed_notify", "read", "create", "spawn",
                                    "announce", "subscribe", "drain"}, slot : Slots]
  /\ stop \in BOOLEAN
  /\ signal \in [Slots -> States]
  /\ feed \in Seq(Nat)
  /\ subs \subseteq Slots /\ unheard \subseteq Slots
  /\ \A s \in Slots : Len(queue[s]) <= Cap /\ missed[s] \in Nat
  /\ pump \in [Slots -> PumpRests \cup {"read", "stale", "set"}]
  /\ writer \in [Writers -> [at : WriterRests \cup {"fetched", "inc", "up", "down", "downed",
                                                    "notify"}, slot : Slots, new : Nat]]
  /\ calls \in 0 .. MaxCalls

\* On several threads the pumps of any_fetching overwrite each other, so
\* Converges leaves that combination out.
Serial == setup.kind = "use_any_fetching" => ~setup.pool

\* On one thread no announced change is missed, although use_query and
\* use_infinite_query spawn their fetch before they subscribe.
NothingMissed ==
  ~setup.pool /\ bind.at = "bound" /\ setup.calls \cap Silent = {} => unheard \cap subs = {}

\* A feed shows consecutive events, the newest it received last, and no more
\* than its capacity.
FeedIsSuffix ==
  IsFeed /\ ~setup.pool /\ missed[1] = 0 /\ 1 \in subs =>
    LET shown == feed \o queue[1] IN
    /\ Len(feed) <= FeedCap
    /\ shown = SubSeq(log, Len(log) - Len(shown) + 1, Len(log))

\* On one thread a dropped binding never changes its signal again.
DroppedIsSilent ==
  [][~setup.pool /\ bind.at = "dropped" => UNCHANGED <<signal, feed>>]_vars

\* A binding whose pump lives settles on what is cached or counted.
Converges ==
  \A s \in Slots :
    <>[](/\ bind.at = "bound" /\ s \in subs /\ s \notin unheard /\ ~IsFeed /\ Serial
         /\ (setup.kind = "use_any_fetching" => s = 1)
         => signal[s] = Truth(s))

\* What a source announces is heard, and shown in order by a feed.
HeardInOrder == TypeOK /\ NothingMissed /\ FeedIsSuffix

\* A signal follows its source for as long as the binding lives, and not longer.
\* read_query_state reads data and staleness separately, and notifications
\* overtake each other or are lost to a lag: the last one still leads to a read
\* that sees everything.
SignalFollows == DroppedIsSilent /\ Converges
=============================================================================
