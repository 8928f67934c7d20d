---------------------------- MODULE MCComponents ----------------------------
(***************************************************************************)
(* The components of the crate that keep state of their own and share none *)
(* with one another, side by side: a behaviour gives a plan to one of them *)
(* and leaves the others quiet.  Three have runs of their own as well and  *)
(* are here under the condition that a promise of theirs needs, or in the  *)
(* other scheduling: the channel without Receiver::clone, a scope on one   *)
(* thread that nobody clears, and a fetch on the worker pool.              *)
(*                                                                         *)
(* The channel, the scope, the handles, the observer and the notify        *)
(* manager are extended, so that a property of theirs that is checked here *)
(* is the definition a theorem is about; the others are instances.         *)
(***************************************************************************)
EXTENDS Bus, MutationScope, TaskHandle, Observer, NotifyManager

CONSTANTS None, ka, kb, t1, t2, o1, o2, NoProc, NoKey

VARIABLES
  rPlan, rRecording, rStop, rFilter, rTimeline, rAt, rCollectors, rSent, rSilenced, rOverlap,
  qPlan, qCache, qMade, qSpecs, qResults, qBuffers, qTasks, qLostKeys,
  sPlan, sCache, sFlying, sDefaults, sRetry, sLast,
  cPlan, cAt, cAcc, cGot, cOut,
  fCache, fInFlight, fFetching, fOnline, fRestoring, fKind, fKey, fPc, fTries, fToken, fAborted, fResult,
  fChan, fCall, fEpoch, fBegan, fCalls, fFlips,
  on   \* the component that moves

rVars == <<rPlan, rRecording, rStop, rFilter, rTimeline, rAt, rCollectors, rSent, rSilenced, rOverlap>>
qVars == <<qPlan, qCache, qMade, qSpecs, qResults, qBuffers, qTasks, qLostKeys>>
sVars == <<sPlan, sCache, sFlying, sDefaults, sRetry, sLast>>
cVars == <<cPlan, cAt, cAcc, cGot, cOut>>
fVars == <<fCache, fInFlight, fFetching, fOnline, fRestoring, fKind, fKey, fPc, fTries, fToken, fAborted, fResult,
           fChan, fCall, fEpoch, fBegan, fCalls, fFlips>>
allVars == <<notifyVars, taskVars, rVars, observerVars, qVars, sVars, cVars, vars, scopeVars, fVars, on>>

\* Keys that resemble one another: a, aa, a::a, and one with a colon at the edge of a
\* segment, whose text a:::a is split elsewhere than it was joined.
A == <<"a">>
Keys == {<<A>>, << <<"a", "a">> >>, <<A, A>>, << <<"a", ":">>, A>>}

R == INSTANCE Recorder WITH Timeline <- 2,
       plan <- rPlan, recording <- rRecording, stop <- rStop, filter <- rFilter, timeline <- rTimeline, at <- rAt,
       collectors <- rCollectors, sent <- rSent, silenced <- rSilenced, overlap <- rOverlap
Q == INSTANCE QueriesObserver WITH Keys <- {ka, kb}, MaxTasks <- 3,
       plan <- qPlan, cache <- qCache, made <- qMade, specs <- qSpecs, results <- qResults,
       buffers <- qBuffers, tasks <- qTasks, lostKeys <- qLostKeys
K == INSTANCE QueryKeys WITH Bits <- 6

Set(field, v) == K!With(K!DefaultOptions, field, v)
Settings == {K!DefaultOptions, K!With(Set("stale_time_static", TRUE), "refetch_on_reconnect", "Always"),
             [Set("enabled_fn", FALSE) EXCEPT !.stale_time = 1, !.refetch_on_window_focus = "Disabled", !.gc_time = 2]}
Filters == {K!WithKey(<<A>>), [K!WithKey(<<A, A>>) EXCEPT !.exact = TRUE],
            [K!AllQueries EXCEPT !.query_type = "Active", !.fetch_status = "Fetching"],
            [K!AllQueries EXCEPT !.query_type = "Inactive", !.stale = TRUE, !.status = "Success"],
            [K!AllQueries EXCEPT !.predicate = {<<A>>}]}

S == INSTANCE Selection WITH Bits <- 6, Filters <- Filters, Settings <- Settings, MaxAge <- 2,
       plan <- sPlan, cache <- sCache, flying <- sFlying, defaults <- sDefaults, retry <- sRetry, last <- sLast
C == INSTANCE StreamedQuery WITH NoValue <- NoData, Chunks <- {<<1>>, <<2, 3>>},
       plan <- cPlan, at <- cAt, acc <- cAcc, got <- cGot, out <- cOut
F == INSTANCE QueryFetch WITH Keys <- {ka}, Procs <- {o1}, Callers <- {t1}, Threaded <- TRUE, Mode <- "Online",
       MaxRetries <- 1, Outcomes <- {"ok", "retryable", "fatal", "panic"},
       Ops <- {"spawn", "refetch", "cancel_query", "clear", "drop_handle"}, MaxCalls <- 2, MaxFlips <- 1,
       cache <- fCache, inFlight <- fInFlight, fetching <- fFetching, online <- fOnline, restoring <- fRestoring,
       kind <- fKind, key <- fKey, pc <- fPc, tries <- fTries, token <- fToken, aborted <- fAborted,
       result <- fResult, chan <- fChan, call <- fCall, epoch <- fEpoch, began <- fBegan, calls <- fCalls,
       flips <- fFlips

-----------------------------------------------------------------------------

\* Two threads that notify and batch, one that nests and panics, and an explicit flush.
NotifyPlans ==
  LET Plan(b, ts, ops) == [budget |-> b, threads |-> ts, ops |-> ops] IN
  {Plan(4, {t1}, {"notify", "echo", "batch"}), Plan(3, {t1, t2}, {"notify", "echo", "batch"}),
   Plan(3, {t1, t2}, {"notify", "batch", "flush", "panic"})}

\* One thread with the controls and two; the timeline and the channel hold less than
\* the events there are.
RecorderPlans ==
  LET Plan(c, e, ts, ops) == [calls |-> c, events |-> e, threads |-> ts, ops |-> ops, variants |-> {"Idle"}] IN
  {Plan(3, 3, {t1}, {"record", "stop"}), Plan(3, 3, {t1}, {"record", "clear", "filter"}),
   Plan(3, 1, {t1, t2}, {"record", "stop"})}

\* Construction against writers, lag, clones, and every way to drive an observer.
ObserverPlans ==
  LET Plan(ops, b, i, p) == [ops |-> ops, budget |-> b, initial |-> i, placeholder |-> p] IN
  {Plan({"new", "set", "update", "recv"}, 5, FALSE, FALSE),
   Plan({"query", "set", "remove", "invalidate", "update"}, 4, TRUE, FALSE),
   Plan({"new", "set", "recv", "update", "clone"}, 4, FALSE, FALSE),
   Plan({"query", "loading", "success", "error", "stale", "refetch", "cancel"}, 4, TRUE, TRUE),
   Plan({"new", "loading", "success", "error"}, 4, FALSE, FALSE)}

\* Lists that reorder, drop, add and repeat keys, with disabled, initial and flying ones.
QueriesPlans ==
  LET Plan(c, ls, d, f, s, first) ==
        [calls |-> c, lists |-> ls, disabled |-> d, flying |-> f, seeded |-> s, first |-> first] IN
  {Plan(2, {<<ka, ka>>}, {}, {}, {}, <<ka>>), Plan(2, {<<kb, ka>>, <<kb>>}, {}, {}, {}, <<ka, kb>>),
   Plan(3, {<<kb>>}, {}, {}, {}, <<ka>>),
   Plan(2, {<<kb, ka>>}, {ka}, {}, {kb}, <<kb>>), Plan(2, {<<kb, ka>>}, {}, {ka}, {kb}, <<kb>>)}

\* Retry configurations: the default shape past the width of the multiplier, one with
\* a base delay and a cap of its own, a linear one, and a cap below the default.
Config(n, base, exp, cap) == [max_retries |-> n, base_delay |-> base, exponential_backoff |-> exp, max_delay |-> cap]
RetryConfigs == {Config(8, 1, TRUE, 30), Config(8, 2, TRUE, 20), Config(3, 2, FALSE, 1), Config(8, 1, TRUE, 5)}
NoRetry == Config(0, 1, TRUE, 30)

StreamPlans == [fetches : {2}, chunks : {3}, mode : {"Append", "Reset", "Replace"},
                initial : {NoData, <<1>>}, reducer : {"none", "newest"}]

\* Component p starts with one of its plans if it is the one that moves, else quiet.
ComponentsInit ==
  /\ on \in {"notify", "handle", "recorder", "observer", "queries", "selection", "stream", "bus", "scope", "fetch"}
  /\ IF on = "notify" THEN \E p \in NotifyPlans : NotifyInitFor(p) ELSE NotifyInitFor(NotifyQuiet)
  /\ TaskInitFor(IF on = "handle" THEN 3 ELSE 0)
  /\ IF on = "recorder" THEN \E p \in RecorderPlans : R!InitFor(p) ELSE R!InitFor(R!Quiet)
  /\ IF on = "observer" THEN \E p \in ObserverPlans : ObserverInitFor(p) ELSE ObserverInitFor(ObserverQuiet)
  /\ IF on = "queries" THEN \E p \in QueriesPlans : Q!InitFor(p) ELSE Q!InitFor(Q!Quiet)
  /\ IF on = "selection"
     THEN S!InitFor(3, NoRetry) \/ \E r \in RetryConfigs : S!InitFor(0, r)
     ELSE S!InitFor(0, NoRetry)
  /\ IF on = "stream" THEN \E p \in StreamPlans : C!InitFor(p) ELSE C!InitFor(C!Quiet)
  /\ Init /\ senders = {t1} /\ phase[o1] = "live"
  /\ ScopeInit /\ F!Init

ComponentsNext ==
  /\ UNCHANGED on
  /\ \/ NotifyNext /\ UNCHANGED <<taskVars, rVars, observerVars, qVars, sVars, cVars, vars, scopeVars, fVars>>
     \/ TaskNext /\ UNCHANGED <<notifyVars, rVars, observerVars, qVars, sVars, cVars, vars, scopeVars, fVars>>
     \/ R!Next /\ UNCHANGED <<notifyVars, taskVars, observerVars, qVars, sVars, cVars, vars, scopeVars, fVars>>
     \/ ObserverNext /\ UNCHANGED <<notifyVars, taskVars, rVars, qVars, sVars, cVars, vars, scopeVars, fVars>>
     \/ Q!Next /\ UNCHANGED <<notifyVars, taskVars, rVars, observerVars, sVars, cVars, vars, scopeVars, fVars>>
     \/ S!Next /\ UNCHANGED <<notifyVars, taskVars, rVars, observerVars, qVars, cVars, vars, scopeVars, fVars>>
     \/ C!Next /\ UNCHANGED <<notifyVars, taskVars, rVars, observerVars, qVars, sVars, vars, scopeVars, fVars>>
     \/ on = "bus" /\ Next /\ UNCHANGED <<notifyVars, taskVars, rVars, observerVars, qVars, sVars, cVars, scopeVars, fVars>>
     \/ on = "scope" /\ ScopeNext /\ UNCHANGED <<notifyVars, taskVars, rVars, observerVars, qVars, sVars, cVars, vars, fVars>>
     \/ on = "fetch" /\ F!Next /\ UNCHANGED <<notifyVars, taskVars, rVars, observerVars, qVars, sVars, cVars, vars, scopeVars>>

\* F!Fairness, of a fetch that the plan lets move.
FetchFairness ==
  /\ WF_fVars(on = "fetch" /\ F!ProcStep(o1)) /\ WF_fVars(on = "fetch" /\ F!CallerStep(t1))
  /\ WF_fVars(on = "fetch" /\ F!SetOnline(TRUE)) /\ WF_fVars(on = "fetch" /\ F!SetRestoring(FALSE))

ComponentsSpec ==
  ComponentsInit /\ [][ComponentsNext]_allVars /\ NotifyFairness /\ TaskFairness /\ R!Fairness /\ FetchFairness

-----------------------------------------------------------------------------

\* The devtools timeline is in the order of each stream, without duplicates and without
\* what was sent while the recording was stopped, and is_recording can be trusted
\* (devtools.rs, record_from_client and stop_recording).
TimelineFaithful == R!TypeOK /\ R!TimelineFaithful /\ R!RecordingIsTrue

\* Operations find the entries they are for, through texts, rebuilt keys, filters, options
\* and staleness, and leave others alone; retry waits grow within their cap (client.rs,
\* filters.rs, key.rs, options.rs).  A queries observer keeps every result at the key of
\* its spec, with a task that pays a Loading mark back (queries_observer.rs, set_specs and
\* run_indices).
SelectionExact ==
  /\ S!TypeOK /\ S!RebuiltKeyKeepsText /\ S!SelectsFamily /\ S!BulkHolds
  /\ S!StalenessAgrees /\ S!WaitsGrow
  /\ Q!TypeOK /\ Q!OwnKeyOnly /\ Q!MarkIsOwed

\* A streamed fetch accumulates its own chunks in order, and what the query shows is the
\* value of a stream that ended (streamed_query.rs, collect_stream).
StreamsWhole == [](C!TypeOK /\ C!CollectsInOrder) /\ [][C!ShowsWhole]_cVars

\* What holds of the three components with runs of their own here too.  A lag notice means
\* a full queue and Closed that no sender is left (bus.rs); a queue of a scope does not
\* outlive its mutations (mutation_cache.rs); and although a fetch on the pool may race its
\* own registration (executor.rs), the fetching count is the number of live guards.
StaysSafe ==
  /\ TypeOK /\ LagMeansFull /\ ClosedMeansNoSender
  /\ ScopeTypeOK /\ QueueDrains
  /\ F!TypeOK /\ F!FetchingCountExact

\* What was begun comes to its end: the notification queue is flushed, a dropped task ends,
\* awaiting an aborted one resolves, a stopped collector ends with the next event, and a
\* fetch on the pool gives its guard back.
EverythingEnds ==
  /\ QueueFlushed
  /\ DroppedEnds /\ AwaitResolves
  /\ R!StopTakesEffect
  /\ F!SpawnedFetchEnds
=============================================================================
