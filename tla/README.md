# A TLA+ verification of rs-query

rs-query is a Rust port of TanStack Query: a client-side cache of asynchronous
query results with deduplication, retries, invalidation, scoped mutations,
infinite queries, persistence, cross-client broadcast and reactive hooks. This
directory holds TLA+ models of its components, the TLC configurations that check
them and TLAPS proofs of the most important properties. Paths such as
`executor.rs:383` are relative to the crate's `src/` directory; `PROJECT.json`
maps every definition to lines.

## 1. The system

| Component | State | Operations | Interacts with |
|---|---|---|---|
| bus (`bus.rs`) | per receiver: queue, lag count, waker; sender count | send, subscribe, clone, drop, recv, try_recv | under every stream below |
| watch (`watch.rs`) | value, version, wakers | send, subscribe, changed, borrow | connectivity, scope release, page requests, stop signals |
| QueryClient (`client.rs`) | cache, in-flight registry, subscribers, fetching/mutating counts, restore flag, mount count, default options | set/get data, invalidate, cancel, reset, remove, refetch, clear, gc, fetch/ensure/prefetch, infinite pages, mount/unmount | everything |
| executor (`executor.rs`, `cancellation.rs`) | one future per execution: attempt, token, guard | execute_query, spawn_query, wait_for_dedup, wait_for_online, spawn_mutation | client, network, runtime |
| network (`network.rs`) | online flag and its watch | can_fetch, can_retry, set_online | executor, retryer, mount |
| retryer (`retryer.rs`) | failure count and reason, paused | run | network, timers |
| runtime (`runtime.rs`) | task, abort flag, two oneshots | spawn, abort, detach, await, is_finished, drop | executor, hooks |
| mutation (`mutation.rs`) | one future per mutation: retries, rollback | execute_mutation_full_tracked, settle, release_scope | mutation cache, client |
| mutation cache (`mutation_cache.rs`) | entries, scopes (running, queue), release watchers, events | add, update, remove, clear, can_run, mark_running, mark_finished, run_next, resume_paused | mutation, observers |
| infinite executor (`infinite_executor.rs`, `infinite.rs`) | pages, one-request slot, loop task | fetch loop, append/prepend, try_send, recv | client, watch |
| observers (`observer.rs`, `queries_observer.rs`, `mutation_observer.rs`) | last state seen, failures, completion list, generation | update, try_recv, set_specs, run, mutate, reset | client, mutation cache |
| hooks (`hooks.rs`) | signal, pump task, stop flag | use_query, use_queries, use_infinite_query, use_mutation, activity hooks and feed | client, bus, runtime |
| hydration, broadcast (`hydration.rs`, `broadcast.rs`) | snapshots, registry of named channels, loop per client | dehydrate, hydrate, publish, receive, unsubscribe | client, bus |
| persistence (`persister.rs`, `persist_client.rs`) | external storage, save loop | persist, restore, gc, save, retry | client, hydration |
| notify manager (`notify_manager.rs`) | batch depth, queue | notify, batch, flush | callers |
| devtools (`devtools.rs`) | recording and stop flags, timeline, filter | record, stop, clear, filter | client streams |
| keys, filters, options (`key.rs`, `filters.rs`, `options.rs`, `query.rs`) | none | matching, merging, staleness, back-off | client |
| streamed query (`streamed_query.rs`) | accumulator of a fetch | collect_stream | executor |

What is hard in it:

* the client's maps are lock-striped, so every method is a sequence of separate
  map operations that interleaves with executions on worker threads;
* a task can be aborted at any suspension point, and then nothing after that
  point runs;
* a deduplicated call, a binding and an observer learn what happened only through
  a bounded notification stream that drops values when a reader is slow;
* values are read before an await, an unlock or a sleep and used after it
  (in-flight check, connectivity, restore flag, scope check, generation, storage);
* wakers, release watchers and stop signals must not lose a wakeup;
* snapshots travel between clients, processes and versions of the application,
  and are compared by two clocks.

`PROJECT.json` lists these as hazards, each at its line.

## 2. Modules

| Module | Models | Kind |
|---|---|---|
| `Channel` | what one send does to one receiver's queue (`bus.rs` send) | operators |
| `Bus` | the broadcast channel: every operation, wakers, closing | state machine |
| `BroadcastLog` | what the channel promises: one log, a position per receiver | abstract specification |
| `Watch` | the watch cell | operators |
| `QueryFetch` | the client's cache, registry, counts and bulk operations, and the query executor that works on them | state machine, extends `Channel` |
| `MutationScope` | scoped mutations and the scope part of the mutation cache | state machine |
| `MutationTracking` | one mutation's life as the observer, the hook, the event stream, the count and the optimistic data see it | state machine, extends `Channel` |
| `Connectivity` | OnlineManager, `Retryer::run`, the executor's pause, mount/unmount and the reconnect watcher | state machine, extends `Watch` |
| `InfiniteFetch` | the page loop, its request slot, the observer's methods, the page list | state machine, extends `Watch` |
| `Bindings` | the hooks: seed, spawn, subscribe, drain, pump, drop | state machine, extends `Channel` |
| `Hydration` | dehydrate and hydrate of a cache | operators |
| `Broadcast` | the registry, publish, and the receive loop of every client | state machine, extends `Hydration`, `Channel` |
| `Persist` | the query persister and the persisted client over storages that suspend, fail and survive crashes | state machine, extends `Hydration` |
| `NotifyManager`, `TaskHandle`, `Recorder`, `Observer`, `QueriesObserver`, `StreamedQuery` | the component of that name (`Recorder`: devtools) | state machines |
| `QueryOptions`, `QueryKeys` | options, retry arithmetic, keys as text, filters | operators |
| `Selection` | a cache of textual keys with what every bulk operation selects | state machine, extends `QueryKeys` |
| `MC...` | the sets of model values and setups used by the configurations; `MCComponents` extends `Bus`, `MutationScope`, `TaskHandle`, `Observer` and `NotifyManager` and composes six more modules with them by `INSTANCE` | instances |
| `QueryFetch_proofs`, `MutationTracking_proofs`, `Connectivity_proofs`, `InfiniteFetch_proofs`, `Bindings_proofs`, `Broadcast_proofs`, `Persist_proofs` | theorems about the module of that name | proofs |
| `Wakeups_proofs` | theorems about `Bus`, `MutationScope`, `TaskHandle`, `Observer` and `NotifyManager` | proofs |

Definitions whose name begins with `Mut` are faulty variants of the definition
that follows them. They are used by no specification; each shows, when it takes
the place of the original, that some property would notice that fault.

Conventions shared by the modules:

* One step is one critical section, one atomic operation or one map operation of
  the code. Where two of them are one step, the comment at the definition says why.
* `Threaded = TRUE` (or `setup.pool`) is the worker pool: any step of any process
  may come next. Otherwise everything runs on one thread (wasm32, a UI thread): a
  process that runs goes on to its next suspension point before anybody else.
* Time is nondeterminism (a timer may fire at any time) except in `Hydration`,
  `Broadcast` and `Persist`, where the comparison of clocks is the subject.
* `setup` (or `plan`) is a constant choice made in Init: which configuration of the
  application a behaviour is about. It keeps a run to the combinations that matter
  without a configuration file for each.
* Variables called `unheard`, `owed`, `due`, `born`, `epoch`, `silenced`, `lostKeys`,
  `overlap`, `crossed` and the like are ghosts: no guard of a modelled operation reads them.

### Bus

A critical section under the mutex of `Shared` is one action. Wakers are taken
under the lock and woken after it, so `Wake` is an action of its own. A value is
its position in the order of sends, which is all the channel's guarantees speak
about. `SpuriousPoll` is a task polled for another reason while its waker stays
registered. `out` remembers what a receiver was last told.

`Log` maps the channel to `BroadcastLog`: the position of a receiver is the
number of sends minus what is queued minus what its pending lag notice stands
for. A send to a full queue moves a value from "queued" to "missed", so the
position does not move: the loss becomes visible as one `Skip` to exactly `Cap`
values behind.

### QueryFetch

`Procs` are executions: tasks of `spawn_query` (`kind` = "spawn") and futures
of `execute_query` / `fetch_query` / `ensure_query_data` driven by their caller.
`pc` is the place in `execute_query_inner`; `Suspended` are the await points.
`Callers` are application threads inside a client method; `call` holds the
method, the current key and the keys still to visit. Removing an in-flight entry,
cancelling its token and aborting its task is one step (`Kill`); reading the
registry and the restore flag at the first poll is one step (`Begin`).

* Cached data is its staleness flag and `epoch`, a ghost that counts the
  invalidations the writing attempt knew of.
* A key's subscription is modelled for deduplicated waiters only (`chan`), with
  the queue and lag rules of `Channel`. `Bindings` models the other subscribers.
* A bulk operation visits an arbitrary set of matching keys; which keys those are
  is the subject of `Selection`. In `QueryFetch` removing an entry and telling of it, and
  in `InfiniteFetch` the two maps that `clear` empties, are one step (`WipeKey`): on one
  thread nobody looks in between.
* The gc loop is an OS thread (`client.rs:38`), so `Gc` may come between any two steps,
  on one thread too.
* `LeftAlone` of `MCFetchLive` names the three endings of a fetch that send nothing to
  a waiter, at the moment at which they happen; the run needs each of the three to
  pass. The action constraint `InOrder` lets spawned and direct executions start in the
  order of their names, which loses nothing: executions are interchangeable, and no
  fairness is assumed of a start.

### MutationScope and MutationTracking

`MutationScope` (its specification is `ScopeSpec`) has one scope; scopes share nothing but the map they are in. A
missing `ScopeState` is one that is not running with an empty queue, which is
what `or_default` creates. A release watcher is a flag (a version was sent since
the watcher last looked). Each of `add_with_hook`, `remove` and `clear` is two
critical sections in the code and two steps here.

`MutationTracking` follows executions without a scope from submission to
settlement: the tracked state and generation of `MutationObserver`, the signal of
`use_mutation` with its outer task, the cache entry with an event per change, the
optimistic data (the name of the execution that wrote it), the `stale` flag that
the invalidation of a success sets, and the count of `spawn_mutation`.

### Connectivity and InfiniteFetch

Both sit on `Watch`, in which `changed()` compares a version and registers a
waker in one critical section; what can be lost is what is read outside of it. In
`Connectivity` a loop is either `Retryer::run` (looks at the flag, then
subscribes) or the executor's pause (subscribes, then looks). `set_online` is two
steps, the flag and the send. In `InfiniteFetch` every observer of a key has a
slot of one request, a release cell and a loop; a page is named by its parameter.

### Bindings

A slot is a source: a key for the query hooks, a client for the activity hooks.
A writer changes first and notifies in a later step. The binder's steps are those
of the hook's body; the pump receives, reads data and staleness one after the
other and sets the signal. `unheard` holds slots whose last change was announced
when nobody was subscribed, or not announced at all.

### Hydration, Broadcast, Persist

Entries hold monotonic instants, payloads wall-clock milliseconds; `PerMs` ticks
make a millisecond and `boot` is where the monotonic clock of the process began.
`born` records when a datum was first written. `Persist` takes every storage call
as one step that may fail; an eager storage (the in-memory ones) does not suspend
its caller. `Crash` loses the cache and every task, keeps the storages, and may
come with a new version (`buster`). The storage is shared: `Foreign` keys are of other
persisters, `Kin` those of them whose text begins with this persister's prefix and a
dash, which is all that `persister_gc` looks at. `text` and `entries` of a task are what
it read and `read` is when, so that a property can compare them with what the task
removes later. `persist_query_client` may be called again once its save loop has ended
(`StartLoop` makes the flag and stop signal of a new handle); two loops at a time are not
modelled, they would share nothing but the snapshot.

### The components of MCComponents

Each of these modules shares no state with the others, so a behaviour gives a
plan to one of them and leaves the others quiet. `Selection` keeps keys as
sequences of characters, because the code stores a joined text and splits it
again; the retry arithmetic keeps its width (`Bits`), with 6 bits for the 32 of the
code so that saturation happens. Three modules have runs of their own and are there
under a condition that a promise of theirs needs, or in the other scheduling:
`Bus` without `Receiver::clone`, which breaks the count of senders;
`MutationScope` on one thread and without `clear`, which forgets a running scope;
and `QueryFetch` on the pool, with the interleavings of a task and its spawner.
A thread of `NotifyManager` is a stack of calls: a batch, whose body may call anything,
and a flush, whose callbacks may call notify, stay on it below what they called.
`Bus`, `MutationScope`, `TaskHandle`, `Observer` and `NotifyManager` are extended
rather than instantiated, so that what the run checks of them is the very definition the theorems
of section 4 are about.

## 3. Runs

All runs use small sets; every bound is a constant of the module or a field of
`setup`. Deadlock is not checked: with bounded sends, calls and executions every
behaviour ends, and the application may always stop calling. Stopping too early
is what the liveness properties are for.

| Run | Instance | Properties |
|---|---|---|
| `bus` | 2 receivers, 2 senders, capacity 2, 4 sends, every operation | `QueueIsNewestSuffix`: a queue is a gap-free suffix of what was sent. `NoLostWakeup`. `SentIsObserved`: what is sent is read or reported missed |
| `fetch_refetch` | one thread, 2 keys, 2 executions, 4 calls, every bulk operation | `FetchingCountExact`. `OneFetchPerKey`. `FreshMeansCurrent`: a late write does not undo an invalidation. `NoStartWhileRestoring` |
| `fetch_live` | one thread and the gc thread, online, 1 key, 3 executions that may fail or panic, 2 calls, `clear`, `reset_queries` and gc included | `InFlightIsLive`: the registry names running executions only. `DedupWaiterResolves`: a deduplicated call resolves, unless the last fetch of its key ended while it waited in one of the three ways that `LeftAlone` names |
| `scope_pool` | pool, 3 mutations, 1 retry, entries removed, cache cleared, paused mutations resumed, waiting futures dropped | `ReleaseIsOwed`: a running scope has an owner and whoever waits will be told |
| `scope_live` | pool, 3 mutations, waiting futures dropped, resume_paused | `EveryMutationSettles` |
| `connectivity` | both schedulings, 1 loop run twice, 2 watchers, 2 threads, connectivity lost twice | `SleepIsJustified`: who is parked is offline, or its wake is on the way. `WatcherIffMounted`. `BackOnline`: paused operations resume and reconnects are seen |
| `infinite` | both schedulings; 1 observer with every max_pages, 2 observers; 3 calls | `PagesContiguous`. `InFlightIsOwned`: the entry is in flight only while a loop fetches, one at a time. `LoopServes`: requests are taken and loops exit |
| `bindings` | every hook, 2 sources, 2 writers, 2 or 3 calls, capacity 2 | `HeardInOrder`: nothing announced is missed and a feed has no gap. `SignalFollows`: a live signal converges, a dropped one is silent |
| `tracking` | 2 executions by observer, hook or spawn_mutation, stream of 3, 2 operations | `ShownIsTrue`: the count is exact, the observer shows its newest execution unless executions cross, resets stick, Loading means pending. `StreamComplete`. `OptimismPaidBack`: a failure rolls back, a success invalidates. `LoadingEnds` |
| `broadcast` | 2 clients, 1 key, capacity 1, up to 4 operations, 3 ticks | `SubscriberReachable`. `NewestApplied`. `AgesKept`: data is never taken for older than it is, and a late snapshot sets back by its time in transit at most. `StoppedEnds` |
| `persist` | 2 tasks and the loop, 2 keys of which one's hash begins with the other's, one text of a persister whose prefix extends this one's and one of a stranger, 3 operations, a crash, faults | `RestoresExactly`: only usable snapshots come back, and all of them. `NothingLost`: no text that was good when it was read is removed by a restore or a clean-up, with any storage; data in the cache survives a restore with an eager storage on one thread. `WorkEnds`: saves catch up, operations and the loop end |
| `components` | see section 2 | below |

In `components`: `CallbacksRunOnce` (notify manager, 2 threads, nested batches, a
panic), `HandlesTellTrue` (task handles, 2 callers), `TimelineFaithful`
(recorder), `ObserversInStep` (2 query observers, capacity 2), `SelectionExact` (keys, filters,
staleness, retry waits; queries observer with 2 keys and 3 tasks: results stay with
their specs), `StreamsWhole` (streamed query), `ImplementsLog` (the channel without
clone, 2 receivers, 2 senders, capacity 2, 3 sends, refines `BroadcastLog`, in which a lag is exact and
Closed comes last), `ScopeMutex` (one mutation of a scope at a time: one thread, 3
mutations, futures dropped, entries removed), `StaysSafe` (further
invariants of the channel, the scope and the fetch on the pool) and
`EverythingEnds` (the liveness of these components).

Most of these are conjunctions of named parts, each defined and commented in its
component's module; a violation is located by listing the parts in the
configuration instead.

Several properties are claimed for one thread only, because the code keeps them
only there: the condition (`~setup.pool`, or a run with `Threaded = FALSE`) is
part of the statement, and section "Observations" says what happens otherwise.
The setups include both, so that the other properties are checked on the pool.

Why the bounds are enough. Capacity 2 with 4 sends fills a queue, overflows it
twice and drains it; the shorter queues elsewhere lag after one or two sends. Two
executions of one key are what an overwritten or wrongly cleared registry entry
takes; the third of `fetch_live` is a waiter beside two overlapping fetches. Four
calls reach "data cached, fetch under way, invalidated, late write" on one key with
a call to spare. Three mutations give one holder and a queue of two, of which one
can be removed or dropped. Connectivity lost twice lets a change fall between a
wake and the look that follows. Pages -1 to 2 with max_pages up to 2 trim at both ends. Two executions with two resets show an
old result against a newer state. In `broadcast` three ticks with two to a
millisecond give an in-transit delay and a rounding; in `persist` a datum can be
younger than, as old as and older than `MaxAge`, the crash falls between any
two storage calls, and one key of `Kin` holds a text that this persister may use or not,
beside a foreign key it must never touch.

Fairness. Tasks that are ready are polled, wakers that were taken are woken, a
thread inside a method goes on, fetch and mutation functions and storage calls
resolve one way or another (the step is fair, its outcome is not), an interval
comes to its end, connectivity comes back and a restore ends. This is what an
executor, a thread scheduler and a network give. In `TaskHandle` even that is not
assumed of the future itself, which may wait for ever. Nothing is assumed of the
application: no call, drop, reset or cancellation ever has to happen.

### Observations

Differences between what documentation or a reader would expect and the code. The
models show them when the named constant or condition is changed; they are kept
here so that nobody takes the passing runs for more than they say.

Channel and fetch core

* `Receiver::clone` (`bus.rs:318`) subscribes through a temporary `Sender` that was
  never counted; its drop lowers `sender_count`, so one clone closes the stream for
  everybody under a live sender, against `bus.rs:16`. (`MCBus.cfg` with
  `ClosedMeansNoSender` or `ImplementsLog` added shows it.)
* `spawn_query` registers the task after it handed it to the runtime
  (`executor.rs:384`): on the pool a fetch may end first and its entry stays.
  (`Threaded = TRUE` in `MCFetchLive.cfg` refutes `InFlightIsLive`.)
* `wait_for_dedup` subscribes after the in-flight check (`executor.rs:171`): on the
  pool a failure in between is never seen. (Same change, `DedupWaiterResolves`.)
* Dropping a `SpawnedTask` aborts the task before its `clear_in_flight`
  (`runtime.rs:308`, `executor.rs:380`): the key stays in flight. This is why
  `fetch_live` has no "drop_handle".
* Two `spawn_query` calls for a key fetch in parallel; coalescing holds for
  refetches, which cancel first, and for direct calls against a registered fetch.
  This is why `fetch_refetch` starts fetches by "refetch" only. A direct
  `execute_query` is not registered, so an invalidation does not stop it.
* A fetch may end without a word to its deduplicated callers, who then wait for ever.
  A panic clears the in-flight entry and the count, and notifies nobody
  (`executor.rs:369`); `clear` (`client.rs:448`) sends nothing; `reset_queries` and
  the `refetch_queries` that no new fetch follows send only `Loading`, which a waiter
  passes over; and data that gc removes before the woken waiter reads it count as none.
  `fetch_live` has panic, `clear`, `reset_queries` and gc, and `DedupWaiterResolves`
  excepts exactly the callers that wait at that moment (`LeftAlone`). So do the offline gate
  (`executor.rs:184`), a restore that begins before a spawned task's first poll
  (`executor.rs:164`) and a dropped handle, none of which that run has.
* `wait_for_dedup` treats a lag notice as a closed channel and resolves with
  `Loading` (`executor.rs:104`). Connectivity is not checked again after the
  back-off sleep (`executor.rs:252`).
* Bulk operations visit cached keys, so a first fetch is out of reach of
  `cancel_queries` (`client.rs:631`). On the pool, `expect("data should be set")`
  (`executor.rs:223`) can fail when the entry goes between write and read.

Mutations

* `can_run` and `mark_running` are two critical sections (`mutation.rs:387`): on the
  pool two mutations of a scope may run at once. (`MCScopePool.cfg` with
  `ScopeMutex` added shows it.) `clear` forgets a running scope
  (`mutation_cache.rs:351`); a mutation dropped while it runs never releases it
  (`mutation.rs:430`); the mutation that gets a released scope need not be the one
  `run_next` popped.
* An aborted or panicked mutation leaves the tracked state Loading and never rolls
  back. Rollbacks of overlapping executions restore stale snapshots, and a
  rollback through `set_query_data` also removes the stale mark that the
  invalidation of an earlier success set (`mutation.rs:459`).
* The generation tells a reset, not a newer call: an older execution of the same
  generation that ends later overwrites the state of a newer one
  (`mutation_observer.rs:139`). `ShownIsTrue` excepts executions that cross. On the
  pool a reset between the check and the write is overwritten, too.
* Dropping the handle of `UseMutation::mutate` aborts the execution, says `hooks.rs:250`.
  It does only before the outer task's first poll: that poll detaches the inner handle
  (`runtime.rs:286`), and a drop after it leaves the execution running, writing the
  observer's state at its end, while the signal is never set (`AbortOuter`).
* The signal of `use_mutation` never shows Loading, although `hooks.rs:248` says so,
  and has no generation of its own.

Connectivity

* `set_online` stores and then sends (`network.rs:88`): two threads can leave flag and
  cell disagreeing. The `Retryer` looks before it subscribes (`retryer.rs:165`) and
  on the pool may park for ever; it does not race cancellation with the wait
  (`retryer.rs:176`) and keeps its failure count between runs.
* On the pool an unmount between `client.rs:925` and the store of the stop handle
  stops nothing; an unmount without mount wraps the count (`client.rs:965`).

Infinite queries and bindings

* On the pool `recv` may miss a request (`infinite_executor.rs:97`) or the drop of
  the last sender (`infinite_executor.rs:86`). A page fetch that panics ends the loop
  and leaves the entry in flight, although `infinite_executor.rs:376` says the loop
  keeps running. `max_pages` 0 empties the list. Two observers of a key may leave gaps.
* On the pool a fetch may end between spawn and subscription (`hooks.rs:195`); the
  pumps of `use_any_fetching` overwrite one another (`hooks.rs:566`); the activity pump
  and the feed end on a lag (`hooks.rs:683`, `hooks.rs:596`). `clear`, gc and staleness
  by time notify nobody.

Hydration, broadcast, persistence

* `dehydrated_is_newer` does not count the time in transit, so a late snapshot, even
  one's own, may overwrite newer local data; `RegressionBounded` says by how much.
* `publish_state` without a subscriber creates a registry entry that stays; so does
  an aborted loop.
* With a storage that suspends, or on the pool, `restore_query` checks before it awaits
  the storage and may overwrite a fetch (`persister.rs:542`); and what was saved under a
  key after a restore read a useless text there, or after `persister_gc` listed one, is
  removed in its stead (`persister.rs:596`).
* `persister_gc` selects by the text of its prefix (`persister.rs:588`), so that it also
  removes entries of a persister whose prefix begins with this one and a dash, by its own
  buster and `max_age`, against "owned by this persister's prefix" (`persister.rs:562`).
* `persist_query` stamps the time of the call (`persister.rs:396`), where
  `persister.rs:8` and `persister.rs:154` speak of the last data update: data saved late
  expires late.
* A failed restore removes the snapshot, so the next attempt of `persist_with_retry`
  returns Ok with nothing restored; and where `persist_client.rs:373` says "give up",
  the code retries.

Other components

* Another thread that loaded depth 0 flushes a batch early; a panicking batch body
  leaves the depth raised (`notify_manager.rs`).
* A recording restarted before the old collector saw the stop flag has two
  collectors and doubled rows (`devtools.rs:185`). A stop that comes between the swap
  and the reset of the stop flag is lost (`devtools.rs:182`).
* A `SpawnedTask` that was polled once and dropped is not aborted; awaiting a
  `SpawnHandle` consumes what `is_finished` looks for.
* `QueriesObserver::set_specs` leaves a kept key whose task is in flight at Loading
  until the next run; an older run that finishes later overwrites a newer one.
* `delay_for` (`executor.rs:45`) ignores `max_delay` for the default base;
  `QueryClient::is_stale` ignores `stale_time_static`; `refetch_all_stale` asks for
  staleness first, so `RefetchTrigger::Always` never refetches fresh data.
* A segment with a colon at its edge is split differently than it was joined, so
  that a key filter misses its own entry; `invalidate_queries` compares text and also
  hits `users2` when asked for `users`.

## 4. Proofs

TLAPS proves the following for every value of the constants (any number of
keys, tasks, threads, clients, any capacity, any setup), from the assumptions
named in the modules: `CapacityAssumption`, `BusAssumption`, `ScopeAssumption`,
`QueryFetchAssumption`, `TrackingAssumption`, `ConnectivityAssumption`,
`InfiniteFetchAssumption`, `BindingsAssumption`, `BroadcastAssumption`,
`PersistAssumption`, `ObserverAssumption` and `NotifyAssumption`. They say what kind of value a constant
is; TLC evaluates each in a run of its module. Further hypotheses are part of a theorem's statement and repeated here.

| Theorem | Property of a run | Holds |
|---|---|---|
| `Wakeups_proofs`: `TypeCorrect`, `QueuesAreSuffixes`, `LagIsFull`, `WakeupsAreNotLost` | `QueueIsNewestSuffix`, `NoLostWakeup` | always |
| `Wakeups_proofs`: `ClosedIsLast`, `Refinement` | `ImplementsLog` | `RxClone = FALSE` |
| `Wakeups_proofs`: `ScopeTypeCorrect`, `ReleaseIsNotLost` | `ReleaseIsOwed` | always |
| `Wakeups_proofs`: `OneAtATime` | `ScopeMutex` | one thread, no `clear` |
| `Wakeups_proofs`: `QueueIsDrained` | a part of `StaysSafe` (`QueueDrains`) | always |
| `Wakeups_proofs`: `HandlesAreTrue` | `HandlesTellTrue` | always |
| `Wakeups_proofs`: `ObserversKeepStep` | `ObserversInStep` | always |
| `Wakeups_proofs`: `CallbacksAreRunOnce` | `CallbacksRunOnce` | always |
| `QueryFetch_proofs`: `FetchTypeCorrect`, `FetchingCountIsExact` | `FetchingCountExact` | always, pool included |
| `QueryFetch_proofs`: `RestoreHoldsBack` | `NoStartWhileRestoring` | one thread |
| `QueryFetch_proofs`: `RegistryIsLive` | `InFlightIsLive` | one thread, no dropped handle |
| `QueryFetch_proofs`: `RefetchCoalesces`, `FreshIsCurrent` | `OneFetchPerKey`, `FreshMeansCurrent` | one thread, fetches started by refetch |
| `MutationTracking_proofs`: `ShownStateIsTrue` | `ShownIsTrue` | the count and Loading always; the newest execution's state unless executions cross; across a reset on one thread |
| `MutationTracking_proofs`: `StreamIsComplete` | `StreamComplete` | until the stream lags |
| `MutationTracking_proofs`: `OptimismIsPaidBack` | `OptimismPaidBack` | a failure: executions that do not overlap; a success: none was rolled back |
| `Connectivity_proofs`: `SleepJustified` | `SleepIsJustified` | the executor's pause and the watchers always, the `Retryer` on one thread |
| `Connectivity_proofs`: `OneWatcher` | `WatcherIffMounted` | one thread, between calls |
| `InfiniteFetch_proofs`: `PagesStayContiguous` | `PagesContiguous` | one loop per key, no `set_infinite_data` |
| `InfiniteFetch_proofs`: `EntryIsOwned` | `InFlightIsOwned` | that somebody fetches: unless a fetch panicked; that only one does: one thread, nobody cancels or clears |
| `Bindings_proofs`: `AnnouncementsAreHeard`, `DropIsFinal` | `HeardInOrder`, a part of `SignalFollows` | one thread; the first without calls that notify nobody |
| `Broadcast_proofs`: `PublishReachesAll`, `NewestIsApplied` | `SubscriberReachable`, `NewestApplied` | always |
| `Broadcast_proofs`: `AgesAreKept` | `AgesKept` | types always; ages on one thread |
| `Persist_proofs`: `TypeCorrect`, `RestoresWhatItShould` | `RestoresExactly` | usable snapshots always; all of them unless queries are removed |
| `Persist_proofs`: `NothingIsLost` | `NothingLost` | which texts a task removes: any storage and scheduling; that they are still useless then, and that a restore overwrites no data: eager storage on one thread |

"Always" is for every behaviour of the specification, the pool included, but for what
the property's own text says of a part of it. A condition named above is stated in the
property or in the theorem. The hypotheses of
`QueryFetch_proofs` are those of the runs: what happens without them is listed
under "Observations" (registration after the spawn on the pool, parallel
`spawn_query` calls, dropped handles), and each of the three properties is false
then.

The inductive invariants, and why the properties alone are not inductive:

`Wakeups_proofs`, the channel. Added are that unused receivers are untouched (`Fresh`), that a
receiver told Closed has nothing queued while no sender is left (`Drained`), and
that an asleep receiver has its waker registered or in the list of wakers to wake
(`Woken`): without the last one a send that finds no waker could not be told from a
lost wakeup. `CountInv` says that `senderCount` is the cardinality of the live
handles and that `sendersAlive` is whether it is positive, which is what
`Receiver::clone` breaks; `BehindInv` relates queue, lag and position, and the
refinement is proved action by action.

`Wakeups_proofs`, the scope. The two parts of `ReleaseIsOwed` are inductive together: a
mutation parks only because the flag is set, the flag has an owner, and the owner
announces after it resets the flag. For `OneAtATime`, whoever found the scope free
has not been overtaken when it marks it, because nobody else runs in between.
`QueueDrains` speaks of the end only and says nothing on the way there; `DrainInv`
counts: the queue is no longer than the mutations that have yet to pop it. Which id
a mutation pops does not matter to the count, and it is not always its own.

`Wakeups_proofs`, the handles. `HandleInv` adds where the oneshot of the value stands
for each end of the task (`ValueInv`: full once the task has sent, gone without an
await only if the task was taken down before it sent), and that an `is_finished`
which has read the sticky flag as unset began before any call returned true
(`FlagsInv`).

`Wakeups_proofs`, the query observer. `InStep` has to be known of an observer that is
still between its subscription and its two reads, and of one in the middle of skipping
what a lag dropped. `CaughtUp` says it of both, as long as nobody has written without
having notified; what carries it over a lag is `Shape`: lost values leave the queue
full, so that a lagged observer always finds something to return, and then owes a
re-read.

`Wakeups_proofs`, the notify manager. `NotifyInv` adds the shape of a stack
(`StackInv`: whatever is below another call is a batch or a flush that runs, and only
the latter holds callbacks), so that a panic takes down no call that was going to
flush, and that `depth` is no less than the number of open batches on all the stacks
(`DepthInv`: no less, because a panic leaves it raised), so that closing one keeps it a
natural number and whoever finds it zero is in no batch. That no callback runs twice
is `RunOnce` itself, which gives each number one place, with `Apart`: no two calls of
any two stacks hold the same callback.

`QueryFetch_proofs`

* `FetchInv`: types and the exact count are inductive only together, since the count
  stays a natural number because it is the number of guards, and whoever decrements
  it holds one. Only spawned tasks are registered, aborted or clear the registry
  (`TaskInv`, `RegistryInv`), a caller about to spawn owns an execution that no
  other caller owns and that has not started (`CallInv`), and every place that
  leads to another attempt is within the budget (`TriesInv`).
* `ThreadInv`, for one thread: between two suspension points only one process or
  caller is under way, what runs was not aborted, and a task in front of
  `set_in_flight` has not been polled. That is why spawning before registering is
  harmless there.
* `EntriesLive` adds to `InFlightIsLive` that a registered task was not aborted,
  except while `clear` is between aborting and emptying the registry: otherwise the
  task could end by its abort and leave the entry.
* `CoalesceInv`: every task that may still fetch or write is the registered one of
  its key (or about to be registered by the refetch that spawned it), so that
  killing the registered one stops all of them; and what a live attempt will write
  is as new as the last invalidation. `OneFetchPerKey` follows at once,
  `FreshMeansCurrent` is a conjunct: when `invalidate` raises the epoch, the kill
  before it has left no live attempt.
* `AttemptInv`: an execution past the restore check that has not begun is between
  suspension points, where no restore starts.

`MutationTracking_proofs`. `TrackingInv` ties each place of an execution to its
outcome, the tracked state to the newest observed execution (as long as none that is
older may still write, which is what `crossed` remembers), and the data to the
one optimistic update that stands: while executions do not overlap, at most one
update stands, the data is its own, and its snapshot is of nobody or of a
success, which is what a rollback restores (`TraceInv`). For `StreamComplete` the
property itself is about a filtered sequence, and counting its elements would be an
induction over data; `OwedInv` states it by a witness instead: there is an increasing
map from what is owed to what was read followed by what is queued, which a send or a
read extends or shifts by one (`Trace`). `IdsInv` is what makes it true: an observer knows
its id before the first event that carries it.

`Connectivity_proofs`. `NoLostWake` needs that a sleeping watcher left its waker
in both cells it selects on (`WakerInv`); `ParkedMeansOffline` needs where a loop
is on its way to sleep: one that has seen the last version sent is barred, or
somebody has stored the flag and will send (`BarredInv`). For the `Retryer`, which
looks before it subscribes, this holds on one thread only. `MountInv` says for every
place of a mount or unmount what is running and what is stored.

`InfiniteFetch_proofs`. `PagesInv` adds to contiguity that the parameter a loop works
on is, from its lookup to its write, still that of the page next to the cached ones,
although the fetch is awaited in between: with one loop nothing but a `clear` changes
the list, and a page fetched before it is dropped. `OneInv` follows the registry.

`Bindings_proofs`. `HeardInv` follows what the hook has not heard at each step from
seed to subscription: at most its own seed. `FeedInv` says that what is
shown followed by the queue is how the log ends, unless lost values have not been
reported, for sequences of any length and any capacity; and that the drain is at most
one queue. `ShapeInv` needs the exact counts (`CountInv`) for the types.
`DropIsFinal` is an action property: when a binding is dropped its pump is suspended
and the stop token is cancelled (`StoppedInv`), and a pump that wakes then ends
before it reads.

`Broadcast_proofs`. `ReachInv` is `SubscriberReachable` with types: a channel leaves
the registry only without a receiver. `NewestInv` says where what is owed to a client
is: in the newest message of the queue (`Channel` keeps the newest value at
any capacity), or in the cache and the part of the message in hand that is still to
be set. For `AgesKept`, `AgesInv` says of every message, queued or in hand, what it was
captured from: each query has the data and the age, rounded to milliseconds on two
clocks, of an entry the sender had. On one thread it also says that what the loop
decided on still holds when it sets the data. The bound on a regression is then
arithmetic about two roundings (`Ms`, truncating, with any number of ticks to a
millisecond), proved once as lemmas.

`Persist_proofs`. `TypeInv` is much stronger than `TypeOK`: it has the shape of every
text, snapshot and task, at each place of each operation, since what a task works on
came from storages that an earlier version may have written. `UsableInv` keeps the
check made at the read true until the write, over the awaits in between: a version
ends with its process, and the time of the read is kept. `CompleteInv` says that a key
of the snapshot being hydrated is in the cache or still in the list; so the end of
the list is the end of the work, whoever else writes. For `NothingIsLost`, `SeenInv`
keeps with a task what it read of the storage: a text it is about to remove, or each one
on its list, was of no use at the time of the read, by a buster that cannot change while
the process lives. It holds for every storage and scheduling, which is why the theorem
speaks of what was read, and what a suspending storage got in between is not covered by it.
`AloneInv` is for one thread and an eager storage: a task finds the cache and the storage
as its last step left them, and what has expired stays so while the clock goes on.

What stays with TLC, and why:

* liveness (`SentIsObserved`, `DedupWaiterResolves`, `EveryMutationSettles`,
  `BackOnline`, `LoopServes`, `LoadingEnds`, `StoppedEnds`, `WorkEnds`,
  `EverythingEnds`, and the convergence in `SignalFollows`): out of the prover's reach;
* `SelectionExact` and what the recursive definitions of `QueryKeys` and `QueryOptions`
  compute (texts joined and split, back-off by repeated doubling), and `StreamsWhole`
  (what a streamed query shows is a flattened sequence of chunks): induction over data;
* `TimelineFaithful`, which orders the elements of a filtered timeline, and the queries
  observer inside `SelectionExact`: neither was attempted; their modules are small, and
  TLC covers every interleaving of the plans in `MCComponents`;
* `StaysSafe` as a whole, because it is a conjunction over three components. Each part of
  it is proved of its own specification: `TypeCorrect`, `LagIsFull`, `ClosedIsLast`,
  `ScopeTypeCorrect`, `QueueIsDrained`, `FetchTypeCorrect` and `FetchingCountIsExact`,
  the last two on the pool too.

## 5. Not modelled

`focus_manager.rs` (a flag nobody observes), `timeout_manager.rs` (a timer wrapper),
`updater.rs`, `error.rs`, `sharing.rs` and `lib.rs` (values without state), builders
and accessors beyond the options a setup chooses. `refetch_interval`, `select` and
structural sharing: nothing in the crate reads the interval, and the others are
functions of one value. Application callbacks other than `on_mutate` and its
rollback are taken to leave the crate's state alone; panics in them and poisoned
locks are left out. Type mismatches of cached data (`type_id`) are left out: one key
has one type, except for data that is not a `String` in `Hydration` (`Opaque`).
Mutations in a dehydrated state are always empty in this code.

## 6. Plan

Every component with state of its own has a module, and every safety property of a
run other than `components` has a theorem. What is left:

1. `QueryFetch`: what of `RegistryIsLive` holds on the pool, where a task may end
   before it is registered.
2. `Recorder`: `TimelineFaithful` for any number of collectors and any length of the
   timeline.
3. `QueriesObserver`: a property and a theorem of its own for the completion list.
