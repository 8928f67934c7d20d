----------------------------- MODULE Observer -----------------------------
(***************************************************************************)
(* QueryObserver (src/observer.rs) on one key: a cached state, a receiver  *)
(* of state updates and the failure bookkeeping, driven by its owner, with *)
(* another thread writing to the cache at any time.                        *)
(***************************************************************************)
EXTENDS Channel, FiniteSets

CONSTANTS
  Observers,    \* observers, each with a thread of its own
  NoData,       \* no data: an empty cache, a state without data
  Placeholder   \* the resolved placeholder

ASSUME ObserverAssumption == NoData \notin Nat /\ Placeholder \notin Nat

VARIABLES
  plan,    \* what the owners and the writer do, how often, and the query's data
  cache,   \* the entry: its data and its staleness
  note,    \* notification the writer has still to send
  made,    \* data written so far: 1 .. made
  obs      \* the observers

observerVars == <<plan, cache, note, made, obs>>

Writes == {"set", "remove", "invalidate"}
Drives == {"loading", "success", "error", "stale", "refetch", "cancel"}
ObserverOps == Writes \cup Drives \cup {"new", "query", "update", "recv", "clone"}

\* initial is the query's initial data, placeholder whether it has one.
ObserverQuiet == [ops |-> {}, budget |-> 0, initial |-> FALSE, placeholder |-> FALSE]

State(s, d) == [s |-> s, data |-> d]
Idle == State("Idle", NoData)
InProgress == {"Loading", "LoadingWithPlaceholder", "Refetching"}

\* QueryState::status and fetch_status
Status(state) ==
  CASE state.s \in {"Idle", "Loading", "LoadingWithPlaceholder"} -> "Pending"
    [] state.s = "Error" -> "Error"
    [] OTHER -> "Success"
FetchStatus(state) == IF state.s \in InProgress THEN "Fetching" ELSE "Idle"

Absent == [at |-> "none", state |-> Idle, seen |-> NoData, queue |-> <<>>, missed |-> 0, left |-> 0,
           got |-> FALSE, started |-> FALSE, failures |-> 0, reason |-> FALSE, errors |-> 0,
           fetched |-> FALSE, mounted |-> FALSE, owes |-> FALSE, driven |-> FALSE]

ObserverInitFor(p) ==
  /\ plan = p
  /\ cache = [data |-> NoData, stale |-> FALSE]
  /\ note = "none"
  /\ made = 0
  /\ obs = [o \in Observers |-> Absent]

\* What a cache with data d that is stale or not looks like to an observer.
Seen(d, stale) == IF d = NoData THEN Idle ELSE State(IF stale THEN "Stale" ELSE "Success", d)

\* notify_subscribers
Told(os, variant) ==
  [o \in Observers |-> IF os[o].at = "none" THEN os[o] ELSE
     [os[o] EXCEPT !.queue = Queued(@, variant), !.missed = Missed(os[o].queue, @)]]

Begin(op) ==
  /\ op \in plan.ops /\ plan.budget > 0
  /\ plan' = [plan EXCEPT !.budget = @ - 1]

-----------------------------------------------------------------------------
(***************************************************************************)
(* The writer: the entry changes first, the notification follows.          *)
(***************************************************************************)

SetQueryData ==
  /\ note = "none" /\ Begin("set")
  /\ made' = made + 1
  /\ cache' = [data |-> made + 1, stale |-> FALSE]
  /\ note' = "Success"
  /\ UNCHANGED obs

RemoveQueries ==
  /\ note = "none" /\ cache.data # NoData /\ Begin("remove")
  /\ cache' = [data |-> NoData, stale |-> FALSE]
  /\ note' = "Idle"
  /\ UNCHANGED <<made, obs>>

NotifySubscribers ==
  /\ note # "none"
  /\ obs' = Told(obs, note)
  /\ note' = "none"
  /\ UNCHANGED <<plan, cache, made>>

\* invalidate_queries notifies with the entry still locked.
Invalidated(os) == IF cache.data = NoData THEN os ELSE Told(os, "Stale")
MarkStale == cache' = [cache EXCEPT !.stale = (@ \/ cache.data # NoData)]

InvalidateQueries ==
  /\ note = "none" /\ Begin("invalidate")
  /\ MarkStale /\ obs' = Invalidated(obs)
  /\ UNCHANGED <<note, made>>

-----------------------------------------------------------------------------
(***************************************************************************)
(* Construction                                                            *)
(***************************************************************************)

\* new and from_query subscribe before they read.
Construct(o, op) ==
  /\ op \in {"new", "query"} /\ obs[o].at = "none" /\ Begin(op)
  /\ obs' = [obs EXCEPT ![o] = [Absent EXCEPT !.at = op]]
  /\ UNCHANGED <<cache, note, made>>

\* get_query_data; without data from_query turns to the initial data.
ReadData(o) ==
  /\ obs[o].at \in {"new", "query"}
  /\ obs' = [obs EXCEPT ![o].seen = cache.data,
       ![o].at = CASE cache.data # NoData -> "read"
                   [] obs[o].at = "query" /\ plan.initial -> "seed"
                   [] OTHER -> "idle"]
  /\ UNCHANGED <<plan, cache, note, made>>

\* set_query_data with the initial data, whatever was written since the read.
Seed(o) ==
  /\ obs[o].at = "seed"
  /\ made' = made + 1
  /\ cache' = [data |-> made + 1, stale |-> FALSE]
  /\ obs' = [obs EXCEPT ![o].at = "seeded", ![o].seen = made + 1]
  /\ UNCHANGED <<plan, note>>

SeedNotify(o) ==
  /\ obs[o].at = "seeded"
  /\ obs' = [Told(obs, "Success") EXCEPT ![o].at = "idle", ![o].state = State("Success", obs[o].seen)]
  /\ UNCHANGED <<plan, cache, note, made>>

\* is_stale of a missing entry is false.
ReadStale(o) ==
  /\ obs[o].at = "read"
  /\ obs' = [obs EXCEPT ![o].at = "idle", ![o].driven = FALSE, ![o].state = Seen(obs[o].seen, cache.stale)]
  /\ UNCHANGED <<plan, cache, note, made>>

\* Clone: a fresh receiver and a copy of everything else.  For the properties,
\* what the original has not caught up with yet is owed by the clone too.
Clone(o, c) ==
  /\ obs[o].at = "idle" /\ obs[c].at = "none" /\ Begin("clone")
  /\ obs' = [obs EXCEPT ![c] = [obs[o] EXCEPT
       !.queue = <<>>, !.missed = 0,
       !.owes = @ \/ obs[o].queue # <<>> \/ obs[o].missed > 0]]
  /\ UNCHANGED <<cache, note, made>>

-----------------------------------------------------------------------------
(***************************************************************************)
(* Reading                                                                 *)
(***************************************************************************)

\* update: data first, staleness second (ReadStale), whatever the state was.
Update(o) ==
  /\ obs[o].at = "idle" /\ Begin("update")
  /\ obs' = [obs EXCEPT ![o].at = "read", ![o].seen = cache.data, ![o].owes = FALSE]
  /\ UNCHANGED <<cache, note, made>>

MutTryRecv(o) ==
  /\ obs[o].at = "idle" /\ Begin("recv")
  /\ IF obs[o].missed > 0
     THEN obs' = [obs EXCEPT ![o].missed = 0, ![o].queue = <<>>]
     ELSE /\ obs[o].queue # <<>>
          /\ obs' = [obs EXCEPT ![o].queue = Tail(@), ![o].owes = TRUE]
  /\ UNCHANGED <<cache, note, made>>

\* try_recv: a value is returned, and a lag of n skips up to n values.
TryRecv(o) ==
  /\ obs[o].at = "idle" /\ Begin("recv")
  /\ IF obs[o].missed > 0
     THEN obs' = [obs EXCEPT ![o].at = "lagged", ![o].left = obs[o].missed, ![o].missed = 0, ![o].got = FALSE]
     ELSE /\ obs[o].queue # <<>>
          /\ obs' = [obs EXCEPT ![o].queue = Tail(@), ![o].owes = TRUE]
  /\ UNCHANGED <<cache, note, made>>

\* One round of the loop; it also ends when the channel lags again or is empty.
\* The last value is returned, if there was one.
SkipLagged(o) ==
  /\ obs[o].at = "lagged"
  /\ obs' =
       IF obs[o].left = 0 \/ obs[o].missed > 0 \/ obs[o].queue = <<>>
       THEN [obs EXCEPT ![o].at = "idle", ![o].missed = 0, ![o].owes = @ \/ obs[o].got]
       ELSE [obs EXCEPT ![o].queue = Tail(@), ![o].left = @ - 1, ![o].got = TRUE]
  /\ UNCHANGED <<plan, cache, note, made>>

-----------------------------------------------------------------------------
(***************************************************************************)
(* Driving: what the code around a fetch reports to the observer.          *)
(***************************************************************************)

Drive(o, op, new) ==
  /\ obs[o].at = "idle" /\ Begin(op)
  /\ obs' = [obs EXCEPT ![o] = [new EXCEPT !.driven = TRUE]]
  /\ UNCHANGED <<cache, note>>

\* A new fetch forgets the failures; a state with data, a placeholder's included,
\* is refetched.
SetLoading(o) ==
  /\ UNCHANGED made
  /\ Drive(o, "loading", [obs[o] EXCEPT !.started = TRUE, !.failures = 0, !.reason = FALSE,
       !.state = CASE @.data # NoData -> State("Refetching", @.data)
                   [] @.data = NoData /\ plan.placeholder -> State("LoadingWithPlaceholder", Placeholder)
                   [] OTHER -> State("Loading", NoData)])

SetSuccess(o) ==
  /\ made' = made + 1
  /\ Drive(o, "success", [obs[o] EXCEPT !.started = FALSE, !.state = State("Success", made + 1),
       !.fetched = TRUE, !.mounted = @ \/ obs[o].started, !.failures = 0, !.reason = FALSE])

SetError(o) ==
  /\ UNCHANGED made
  /\ Drive(o, "error", [obs[o] EXCEPT !.started = FALSE, !.state = State("Error", @.data),
       !.errors = @ + 1, !.failures = @ + 1, !.reason = TRUE,
       !.fetched = TRUE, !.mounted = @ \/ obs[o].started])

SetStale(o) ==
  /\ UNCHANGED made /\ obs[o].state.data # NoData
  /\ Drive(o, "stale", [obs[o] EXCEPT !.state = State("Stale", @.data)])

\* refetch_with: cancel_query notifies Error if a fetch was in flight, then refetch.
Refetch(o, op, inFlight) ==
  /\ op \in {"refetch", "cancel"} /\ note = "none"
  /\ obs[o].at = "idle" /\ Begin(op)
  /\ MarkStale
  /\ obs' = Invalidated(IF op = "cancel" /\ inFlight THEN Told(obs, "Error") ELSE obs)
  /\ UNCHANGED <<note, made>>

ObserverNext ==
  \/ SetQueryData \/ RemoveQueries \/ NotifySubscribers \/ InvalidateQueries
  \/ \E o \in Observers :
       \/ \E op \in {"new", "query"} : Construct(o, op)
       \/ ReadData(o) \/ Seed(o) \/ SeedNotify(o) \/ ReadStale(o)
       \/ \E c \in Observers : Clone(o, c)
       \/ Update(o) \/ TryRecv(o) \/ SkipLagged(o)
       \/ SetLoading(o) \/ SetSuccess(o) \/ SetError(o) \/ SetStale(o)
       \/ \E op \in {"refetch", "cancel"}, b \in BOOLEAN : Refetch(o, op, b)

\* An application with the configuration p.
ObserverSpec(p) == ObserverInitFor(p) /\ [][ObserverNext]_observerVars

-----------------------------------------------------------------------------

\* Type invariant.
ObserverTypeOK ==
  /\ plan.ops \subseteq ObserverOps /\ plan.budget \in Nat
  /\ cache \in [data : {NoData} \cup 1 .. made, stale : BOOLEAN]
  /\ note \in {"none", "Success", "Idle"}
  /\ \A o \in Observers :
       /\ obs[o].at \in {"none", "new", "query", "read", "seed", "seeded", "idle", "lagged"}
       /\ obs[o].state.data \in {NoData, Placeholder} \cup 1 .. made
       /\ Len(obs[o].queue) <= Cap /\ obs[o].missed \in Nat

\* An observer that has no update to read, owes no re-read for one it has read and
\* was not driven otherwise shows what is in the cache, once the writers have sent
\* their notifications: no write is missed between the subscription and the first reads,
\* none is swallowed by a lag, and a clone misses no more than its original.
InStep ==
  \A o \in Observers :
    (/\ obs[o].at = "idle" /\ obs[o].queue = <<>> /\ obs[o].missed = 0
     /\ ~obs[o].owes /\ ~obs[o].driven
     /\ note = "none" /\ \A p \in Observers : obs[p].at # "seeded")
    => obs[o].state = Seen(cache.data, cache.stale)

\* The failure bookkeeping agrees with the state after any sequence of calls: an
\* error state has a failure and a reason, the failures of one fetch are among all
\* errors, and a running fetch has no failure yet.
FailuresAgree ==
  \A o \in Observers :
    /\ Status(obs[o].state) = "Error" => obs[o].failures > 0 /\ obs[o].reason
    /\ obs[o].reason <=> obs[o].failures > 0
    /\ obs[o].failures <= obs[o].errors
    /\ FetchStatus(obs[o].state) = "Fetching" => obs[o].failures = 0
    /\ obs[o].mounted => obs[o].fetched

\* Observers show what is cached and what they are owed (observer.rs, update and try_recv).
ObserversInStep == ObserverTypeOK /\ InStep /\ FailuresAgree
=============================================================================
