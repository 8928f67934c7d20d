----------------------------- MODULE QueryFetch -----------------------------
(***************************************************************************)
(* The core of rs-query: QueryClient's cache, in-flight registry and       *)
(* notifications (src/client.rs) and the query executor that works on them *)
(* (src/executor.rs): spawn_query, execute_query, retries, the network     *)
(* gate, deduplicated waiters, cancellation and abort.                     *)
(*                                                                         *)
(* A process of Procs is one execution of a query: a task spawned by       *)
(* spawn_query, or a future of execute_query / fetch_query that its caller *)
(* drives.  A process of Callers is an application thread inside a method  *)
(* of the client.  The maps of the client are lock-striped, so a method is *)
(* one step per map operation.  Removing an in-flight entry, cancelling    *)
(* its token and aborting its task is one step (Kill).                     *)
(*                                                                         *)
(* With Threaded = FALSE everything runs on one thread (wasm32, a UI       *)
(* executor): a process runs from one suspension point to the next.  Only  *)
(* the garbage collector stays a thread of its own.                        *)
(***************************************************************************)
EXTENDS Integers, Sequences, FiniteSets, Channel

CONSTANTS
  Keys,        \* cache keys
  Procs,       \* query executions
  Callers,     \* application threads that call client methods
  Threaded,    \* TRUE: the worker pool; FALSE: a single-threaded executor
  Mode,        \* options.network_mode of the queries
  MaxRetries,  \* options.retry.max_retries
  Outcomes,    \* what a fetch function may do
  Ops,         \* client methods the application calls
  MaxCalls,    \* bound: client calls made
  MaxFlips,    \* bound: connectivity and restore-flag changes
  NoProc,      \* no execution
  NoKey        \* no key

\* How an execution starts, and the other methods of the client.
StartOps == {"spawn", "refetch", "execute", "fetch", "ensure"}

FilteredOps == {"invalidate", "cancel_queries", "reset_queries", "remove_queries",
                "invalidate_filtered", "refetch_queries", "refetch_queries_keep",
                "refetch_all_stale", "handle_reconnect"}

AllOps == StartOps \cup FilteredOps \cup
          {"set_query_data", "cancel_query", "clear", "gc",
           "token", "drop_handle"}

ASSUME QueryFetchAssumption ==
  /\ IsFiniteSet(Procs)
  /\ Threaded \in BOOLEAN
  /\ Mode \in {"Online", "Always", "OfflineFirst"}
  /\ MaxRetries \in Nat
  /\ Outcomes \subseteq {"ok", "retryable", "fatal", "panic"}
  /\ Ops \subseteq AllOps
  /\ MaxCalls \in Nat
  /\ MaxFlips \in Nat
  /\ NoProc \notin Procs
  /\ NoKey \notin Keys

VARIABLES
  cache,      \* key -> NoEntry, or the stale flag and the age of the data
  inFlight,   \* key -> the registered execution, or NoProc
  fetching,   \* fetching_count
  online,     \* OnlineManager.online
  restoring,  \* is_restoring
  kind,       \* process -> "spawn", "execute", "fetch" ("none" before it starts)
  key,        \* process -> the key of its query
  pc,         \* process -> where its future stands
  tries,      \* process -> attempts
  token,      \* process -> its cancellation token is cancelled
  aborted,    \* process -> its task handle was aborted
  result,     \* process -> the QueryState it resolved with
  chan,       \* process -> queue and lag of its dedup subscription
  call,       \* caller -> the client method it is in
  epoch,      \* ghost: invalidations of each key so far
  began,      \* ghost: process -> epoch of its key when its attempt began
  calls,      \* client calls made (bounded by MaxCalls)
  flips       \* connectivity and restore changes (bounded by MaxFlips)

procVars  == <<kind, key, pc, tries, token, aborted, result, began>>
storeVars == <<cache, inFlight, fetching, epoch>>
envVars   == <<online, restoring, flips>>
vars == <<procVars, storeVars, envVars, chan, call, calls>>

NoEntry == [has |-> FALSE, stale |-> FALSE, epoch |-> 0]
NoChan == [queue |-> <<>>, missed |-> 0]
NoCall == [op |-> "none", at |-> "idle", key |-> NoKey, todo |-> {},
           hit |-> FALSE, proc |-> NoProc]

\* Where a future can be suspended: not yet polled, in the fetch, paused
\* offline, in the backoff timer, waiting for a deduplicated fetch.
Suspended == {"ready", "parked", "offline", "sleeping", "waiting"}
Inactive == {"new", "called", "done", "dropped"}
Places == Suspended \cup Inactive \cup
          {"subscribe", "recheck", "gate", "loop", "polling", "resolving", "insert",
           "notify", "read", "clear", "end"}
Results == {"none", "Idle", "Success", "Stale", "Loading", "Paused", "Error",
            "Cancelled", "FetchPanic", "ExpectPanic"}
Variants == {"Success", "Stale", "Error", "Loading"}

Cached == {k \in Keys : cache[k].has}

\* A process or caller is between two suspension points.
RunningProc(p) == pc[p] \notin Suspended \cup Inactive
RunningCaller(c) == call[c].at # "idle"

\* Who may take a step: on one thread, only the one that is running.
ProcMayRun(p) ==
  Threaded \/ (/\ \A q \in Procs \ {p} : ~RunningProc(q)
               /\ \A c \in Callers : ~RunningCaller(c))
CallerMayRun(c) ==
  Threaded \/ (/\ \A p \in Procs : ~RunningProc(p)
               /\ \A d \in Callers \ {c} : ~RunningCaller(d))

\* network.rs can_fetch and can_retry.
CanFetch == Mode = "Online" => online
CanRetry == Mode \in {"Online", "OfflineFirst"} => online

\* Executions that hold a FetchingGuard.
Guards == {p \in Procs : kind[p] = "spawn" /\ pc[p] \notin Inactive}

Init ==
  /\ cache = [k \in Keys |-> NoEntry]
  /\ inFlight = [k \in Keys |-> NoProc]
  /\ fetching = 0
  /\ online = TRUE
  /\ restoring = FALSE
  /\ kind = [p \in Procs |-> "none"]
  /\ key = [p \in Procs |-> NoKey]
  /\ pc = [p \in Procs |-> "new"]
  /\ tries = [p \in Procs |-> 0]
  /\ token = [p \in Procs |-> FALSE]
  /\ aborted = [p \in Procs |-> FALSE]
  /\ result = [p \in Procs |-> "none"]
  /\ chan = [p \in Procs |-> NoChan]
  /\ call = [c \in Callers |-> NoCall]
  /\ epoch = [k \in Keys |-> 0]
  /\ began = [p \in Procs |-> 0]
  /\ calls = 0
  /\ flips = 0

-----------------------------------------------------------------------------
(***************************************************************************)
(* Shared pieces                                                           *)
(***************************************************************************)

\* notify_subscribers: the update reaches every subscription to the key.
Notify(k, v) ==
  chan' = [p \in Procs |->
             IF key[p] = k /\ pc[p] \in {"recheck", "waiting"}
             THEN [queue |-> Queued(chan[p].queue, v),
                   missed |-> Missed(chan[p].queue, chan[p].missed)]
             ELSE chan[p]]

MutKill(k) ==
  LET p == inFlight[k]
  IN IF p = NoProc
     THEN UNCHANGED <<inFlight, token, aborted>>
     ELSE /\ inFlight' = [inFlight EXCEPT ![k] = NoProc]
          /\ token' = [token EXCEPT ![p] = TRUE]
          /\ UNCHANGED aborted

\* in_flight.remove, cancel_token.cancel, abort.  A task polled between the
\* three is a task that was polled (FetchWoken) just before them.
Kill(k) ==
  LET p == inFlight[k]
  IN IF p = NoProc
     THEN UNCHANGED <<inFlight, token, aborted>>
     ELSE /\ inFlight' = [inFlight EXCEPT ![k] = NoProc]
          /\ token' = [token EXCEPT ![p] = TRUE]
          /\ aborted' = [aborted EXCEPT ![p] = TRUE]

\* cache.insert of set_query_data, with data of age e.
Insert(k, e) == cache' = [cache EXCEPT ![k] = [has |-> TRUE, stale |-> FALSE, epoch |-> e]]

\* entry.is_stale = true, when the entry is still there.
MarkStale(k) == IF cache[k].has THEN cache' = [cache EXCEPT ![k].stale = TRUE]
                                ELSE UNCHANGED cache

\* execute_query_inner returns: a spawned task goes on to clear_in_flight, a
\* direct future is finished and its subscription, if any, is dropped.
Finish(p, r) ==
  /\ result' = [result EXCEPT ![p] = r]
  /\ pc' = [pc EXCEPT ![p] = IF kind[p] = "spawn" THEN "clear" ELSE "done"]

Goto(p, place) == pc' = [pc EXCEPT ![p] = place] /\ UNCHANGED result

\* The poll of a task whose handle was aborted drops its future instead.
Runs(p, place) == pc[p] = place /\ ProcMayRun(p)
Resumes(p, place) == Runs(p, place) /\ ~aborted[p]

\* fetch_query forces retries off.
Budget(p) == IF kind[p] = "fetch" THEN 0 ELSE MaxRetries

-----------------------------------------------------------------------------
(***************************************************************************)
(* The executor: steps of one execution                                    *)
(***************************************************************************)

MutBegin(p) ==
  /\ Resumes(p, "ready")
  /\ IF kind[p] # "spawn" /\ inFlight[key[p]] # NoProc
     THEN Goto(p, "subscribe") /\ UNCHANGED chan
     ELSE Goto(p, "gate") /\ Notify(key[p], "Loading")
  /\ UNCHANGED <<kind, key, tries, token, aborted, began, storeVars, envVars, call, calls>>

\* First poll of execute_query_inner: the restore check, the dedup check of a
\* direct execution, and the Loading notification of a fetcher.
Begin(p) ==
  /\ Resumes(p, "ready")
  /\ LET dedup == kind[p] # "spawn" /\ inFlight[key[p]] # NoProc
     IN \/ restoring /\ Finish(p, "Idle") /\ UNCHANGED chan
        \/ ~restoring /\ dedup /\ Goto(p, "subscribe") /\ UNCHANGED chan
        \/ ~restoring /\ ~dedup /\ Goto(p, "gate") /\ Notify(key[p], "Loading")
  /\ UNCHANGED <<kind, key, tries, token, aborted, began, storeVars, envVars, call, calls>>

\* wait_for_dedup subscribes.
Subscribe(p) ==
  /\ Runs(p, "subscribe")
  /\ Goto(p, "recheck")
  /\ chan' = [chan EXCEPT ![p] = NoChan]
  /\ UNCHANGED <<kind, key, tries, token, aborted, began, storeVars, envVars, call, calls>>

\* Another thread, a worker or the gc loop, may change the cache between two
\* looks at it.
CacheMoves == Threaded \/ "gc" \in Ops

\* wait_for_dedup looks at the cache.  Whether stale_time has elapsed for data
\* without the stale flag is left open, and is_stale is a second look, which may
\* find a newer entry, or none.
Recheck(p) ==
  /\ Runs(p, "recheck")
  /\ LET e == cache[key[p]]
     IN \/ ~e.has /\ Goto(p, "waiting") /\ UNCHANGED chan
        \/ /\ e.has
           /\ \/ Finish(p, "Stale")
              \/ (CacheMoves \/ ~e.stale) /\ Finish(p, "Success")
           /\ chan' = [chan EXCEPT ![p] = NoChan]
  /\ UNCHANGED <<kind, key, tries, token, aborted, began, storeVars, envVars, call, calls>>

\* One turn of the recv loop of wait_for_dedup.  A lag notice is an Err of
\* recv and ends the loop.
Receive(p) ==
  /\ Runs(p, "waiting")
  /\ LET c == chan[p]
         m == Head(c.queue)
         has == cache[key[p]].has
     IN \/ c.missed > 0 /\ Finish(p, "Loading") /\ chan' = [chan EXCEPT ![p] = NoChan]
        \/ /\ c.missed = 0 /\ c.queue # <<>>
           /\ \/ m \in {"Success", "Stale"} /\ has /\ Finish(p, m)
              \/ m = "Error" /\ Finish(p, "Error")
           /\ chan' = [chan EXCEPT ![p] = NoChan]
        \/ /\ c.missed = 0 /\ c.queue # <<>>
           /\ m = "Loading" \/ (m \in {"Success", "Stale"} /\ ~has)
           /\ chan' = [chan EXCEPT ![p].queue = Tail(c.queue)]
           /\ UNCHANGED <<pc, result>>
  /\ UNCHANGED <<kind, key, tries, token, aborted, began, storeVars, envVars, call, calls>>

\* The network gate: offline, the fetch fails with Paused and notifies nobody.
Gate(p) ==
  /\ Runs(p, "gate")
  /\ IF CanFetch THEN Goto(p, "loop") ELSE Finish(p, "Paused")
  /\ UNCHANGED <<kind, key, tries, token, aborted, began, storeVars, envVars, chan, call, calls>>

\* The top of the retry loop: a cancelled token ends it, else the next attempt
\* starts and the fetch function is polled.
Attempt(p) ==
  /\ Runs(p, "loop")
  /\ IF token[p]
     THEN Finish(p, "Cancelled") /\ UNCHANGED <<tries, began>>
     ELSE /\ Goto(p, "polling")
          /\ tries' = [tries EXCEPT ![p] = tries[p] + 1]
          /\ began' = [began EXCEPT ![p] = epoch[key[p]]]
  /\ UNCHANGED <<kind, key, token, aborted, storeVars, envVars, chan, call, calls>>

\* The fetch future is pending ...
FetchPending(p) ==
  /\ Runs(p, "polling")
  /\ Goto(p, "parked")
  /\ UNCHANGED <<kind, key, tries, token, aborted, began, storeVars, envVars, chan, call, calls>>

\* ... and later its task is polled again because it resolved, or because the
\* token was cancelled.
FetchWoken(p) ==
  /\ Resumes(p, "parked")
  /\ Goto(p, "resolving")
  /\ UNCHANGED <<kind, key, tries, token, aborted, began, storeVars, envVars, chan, call, calls>>

InFetch(p) == Runs(p, "polling") \/ Runs(p, "resolving")

FetchOk(p) ==
  /\ InFetch(p)
  /\ "ok" \in Outcomes
  /\ Goto(p, "insert")
  /\ UNCHANGED <<kind, key, tries, token, aborted, began, storeVars, envVars, chan, call, calls>>

\* cancellable_fetch resolves with cancelled; nobody is notified.
FetchCancelled(p) ==
  /\ InFetch(p)
  /\ token[p]
  /\ Finish(p, "Cancelled")
  /\ UNCHANGED <<kind, key, tries, token, aborted, began, storeVars, envVars, chan, call, calls>>

\* A network or timeout error within the budget: pause while offline, then
\* back off.
FetchRetry(p) ==
  /\ InFetch(p)
  /\ "retryable" \in Outcomes
  /\ tries[p] - 1 < Budget(p)
  /\ Goto(p, IF CanRetry THEN "sleeping" ELSE "offline")
  /\ UNCHANGED <<kind, key, tries, token, aborted, began, storeVars, envVars, chan, call, calls>>

MutFetchFail(p) ==
  /\ InFetch(p)
  /\ "fatal" \in Outcomes \/ ("retryable" \in Outcomes /\ tries[p] - 1 >= Budget(p))
  /\ Finish(p, "Error")
  /\ UNCHANGED <<kind, key, tries, token, aborted, began, storeVars, envVars, chan, call, calls>>

\* Any other error, or the budget is spent: notify Error and return.
FetchFail(p) ==
  /\ InFetch(p)
  /\ "fatal" \in Outcomes \/ ("retryable" \in Outcomes /\ tries[p] - 1 >= Budget(p))
  /\ Notify(key[p], "Error")
  /\ Finish(p, "Error")
  /\ UNCHANGED <<kind, key, tries, token, aborted, began, storeVars, envVars, call, calls>>

\* The fetch function panics: spawn_query catches it, a direct caller unwinds.
FetchPanic(p) ==
  /\ InFetch(p)
  /\ "panic" \in Outcomes
  /\ Finish(p, "FetchPanic")
  /\ UNCHANGED <<kind, key, tries, token, aborted, began, storeVars, envVars, chan, call, calls>>

MutResume(p) ==
  /\ Resumes(p, "offline")
  /\ token[p]
  /\ Finish(p, "Cancelled")
  /\ UNCHANGED <<kind, key, tries, token, aborted, began, storeVars, envVars, chan, call, calls>>

\* wait_for_online returns on connectivity or cancellation.
Resume(p) ==
  /\ Resumes(p, "offline")
  /\ \/ token[p] /\ Finish(p, "Cancelled")
     \/ ~token[p] /\ CanRetry /\ Goto(p, "sleeping")
  /\ UNCHANGED <<kind, key, tries, token, aborted, began, storeVars, envVars, chan, call, calls>>

\* The backoff timer fires; it is not raced with the token.
Backoff(p) ==
  /\ Resumes(p, "sleeping")
  /\ Goto(p, "loop")
  /\ UNCHANGED <<kind, key, tries, token, aborted, began, storeVars, envVars, chan, call, calls>>

\* set_query_data of the fetched data: insert, then notify.
WriteData(p) ==
  /\ Runs(p, "insert")
  /\ Insert(key[p], began[p])
  /\ Goto(p, "notify")
  /\ UNCHANGED <<kind, key, tries, token, aborted, began, inFlight, fetching, epoch,
                 envVars, chan, call, calls>>

NotifySuccess(p) ==
  /\ Runs(p, "notify")
  /\ Notify(key[p], "Success")
  /\ Goto(p, "read")
  /\ UNCHANGED <<kind, key, tries, token, aborted, began, storeVars, envVars, call, calls>>

\* get_query_data(..).expect("data should be set")
ReadBack(p) ==
  /\ Runs(p, "read")
  /\ Finish(p, IF cache[key[p]].has THEN "Success" ELSE "ExpectPanic")
  /\ UNCHANGED <<kind, key, tries, token, aborted, began, storeVars, envVars, chan, call, calls>>

MutClearSkipped(p) ==
  /\ Runs(p, "clear")
  /\ inFlight' = IF result[p] = "Success" THEN [inFlight EXCEPT ![key[p]] = NoProc]
                                          ELSE inFlight
  /\ Goto(p, "end")
  /\ UNCHANGED <<kind, key, tries, token, aborted, began, cache, fetching, epoch,
                 envVars, chan, call, calls>>

\* The spawned task: clear_in_flight by key, whoever is registered there.
ClearInFlight(p) ==
  /\ Runs(p, "clear")
  /\ inFlight' = [inFlight EXCEPT ![key[p]] = NoProc]
  /\ Goto(p, "end")
  /\ UNCHANGED <<kind, key, tries, token, aborted, began, cache, fetching, epoch,
                 envVars, chan, call, calls>>

\* The state is sent to the handle and the FetchingGuard is dropped.
EndTask(p) ==
  /\ Runs(p, "end")
  /\ Goto(p, "done")
  /\ fetching' = fetching - 1
  /\ UNCHANGED <<kind, key, tries, token, aborted, began, cache, inFlight, epoch,
                 envVars, chan, call, calls>>

MutDropTask(p) ==
  /\ pc[p] \in Suspended
  /\ aborted[p]
  /\ ProcMayRun(p)
  /\ pc' = [pc EXCEPT ![p] = "dropped"]
  /\ result' = [result EXCEPT ![p] = "Cancelled"]
  /\ UNCHANGED <<kind, key, tries, token, aborted, began, storeVars, envVars,
                 chan, call, calls>>

\* An aborted task is dropped at its suspension point, its guard with it; the
\* handle resolves with the cancelled fallback.
DropTask(p) ==
  /\ pc[p] \in Suspended
  /\ aborted[p]
  /\ ProcMayRun(p)
  /\ pc' = [pc EXCEPT ![p] = "dropped"]
  /\ result' = [result EXCEPT ![p] = "Cancelled"]
  /\ fetching' = fetching - 1
  /\ UNCHANGED <<kind, key, tries, token, aborted, began, cache, inFlight, epoch,
                 envVars, chan, call, calls>>

ProcStep(p) ==
  \/ Begin(p) \/ Subscribe(p) \/ Recheck(p) \/ Receive(p)
  \/ Gate(p) \/ Attempt(p) \/ FetchPending(p) \/ FetchWoken(p) \/ FetchOk(p)
  \/ FetchCancelled(p) \/ FetchRetry(p) \/ FetchFail(p) \/ FetchPanic(p)
  \/ Resume(p) \/ Backoff(p) \/ WriteData(p) \/ NotifySuccess(p) \/ ReadBack(p)
  \/ ClearInFlight(p) \/ EndTask(p) \/ DropTask(p)
-----------------------------------------------------------------------------
(***************************************************************************)
(* The client: calls of the application                                    *)
(***************************************************************************)

MutKilling == {"cancel_query", "cancel_queries", "reset_queries",
               "remove_queries", "trigger_refetch", "refetch_queries", "refetch"}

\* Operations that first kill the in-flight fetch of each key.
Killing == {"invalidate", "cancel_query", "cancel_queries", "reset_queries",
            "remove_queries", "trigger_refetch", "refetch_queries", "refetch"}

\* Operations that skip a key whose entry is gone by the time they reach it.
Skipping == {"refetch_queries", "refetch_queries_keep", "refetch_all_stale",
             "handle_reconnect"}

\* The notification each operation sends for a key.
Message(op) ==
  CASE op \in {"cancel_query", "cancel_queries", "remove_queries", "refetch"} -> "Error"
    [] op \in {"reset_queries", "trigger_refetch", "refetch_queries",
               "refetch_queries_keep"} -> "Loading"
    [] op \in {"refetch_all_stale", "handle_reconnect"} -> "Stale"
    [] OTHER -> "Success"

\* An idle caller enters client method op.
Enter(c, entry) ==
  /\ call[c].at = "idle"
  /\ CallerMayRun(c)
  /\ entry.op \in Ops
  /\ calls < MaxCalls
  /\ calls' = calls + 1
  /\ call' = [call EXCEPT ![c] = entry]

At(c, place) == call[c].at = place /\ CallerMayRun(c)

\* spawn_query, and UseQuery::refetch, which calls cancel_query first, for the
\* execution p that the call is about to start.
CallSpawn(c, p, k, op) ==
  /\ pc[p] = "new"
  /\ kind' = [kind EXCEPT ![p] = "spawn"]
  /\ key' = [key EXCEPT ![p] = k]
  /\ Goto(p, "called")
  /\ \/ op = "spawn" /\ Enter(c, [NoCall EXCEPT !.op = op, !.at = "spawn", !.key = k, !.proc = p])
     \/ op = "refetch" /\ Enter(c, [NoCall EXCEPT !.op = op, !.at = "loop", !.todo = {k}, !.proc = p])
  /\ UNCHANGED <<tries, token, aborted, began, storeVars, envVars, chan>>

\* cancel_query needs no cache entry.
CallCancelQuery(c, k) ==
  /\ Enter(c, [NoCall EXCEPT !.op = "cancel_query", !.at = "loop", !.todo = {k}])
  /\ UNCHANGED <<procVars, storeVars, envVars, chan>>

\* The bulk operations: matching_entries (or the pattern of
\* invalidate_queries) goes over the cache, so only cached keys are visited.
\* filter stands for whatever selects a key: its name, its options, its age.
CallFiltered(c, op, filter) ==
  /\ Enter(c, [NoCall EXCEPT !.op = op, !.todo = filter \cap Cached,
                             !.at = IF op = "invalidate_filtered" THEN "flag" ELSE "loop"])
  /\ UNCHANGED <<procVars, storeVars, envVars, chan>>

CallSetQueryData(c, k) ==
  /\ Enter(c, [NoCall EXCEPT !.op = "set_query_data", !.at = "cache", !.key = k])
  /\ UNCHANGED <<procVars, storeVars, envVars, chan>>

CallClear(c) ==
  /\ Enter(c, [NoCall EXCEPT !.op = "clear", !.at = "cancel"])
  /\ UNCHANGED <<procVars, storeVars, envVars, chan>>

\* The next key of a loop: refetch_queries and the stale passes look it up
\* again, the killing operations remove and kill its in-flight fetch.
NextKey(c) ==
  /\ At(c, "loop")
  /\ \E k \in call[c].todo :
       LET op == call[c].op
           skip == op \in Skipping /\ ~cache[k].has
           kills == op \in Killing /\ ~skip
       IN /\ call' = [call EXCEPT ![c].todo = @ \ {k},
                                  ![c].key = k,
                                  ![c].hit = kills /\ inFlight[k] # NoProc,
                                  ![c].at = IF skip THEN "loop" ELSE "cache"]
          /\ IF kills THEN Kill(k) ELSE UNCHANGED <<inFlight, token, aborted>>
  /\ UNCHANGED <<kind, key, pc, tries, result, began, cache, fetching, epoch,
                 envVars, chan, calls>>

\* The cache part of an operation on its current key.
UpdateCache(c) ==
  /\ At(c, "cache")
  /\ LET k == call[c].key
         op == call[c].op
     IN \/ /\ op = "invalidate"  \* flag and notification under the entry's lock
           /\ MarkStale(k)
           /\ IF cache[k].has
              THEN Notify(k, "Stale") /\ epoch' = [epoch EXCEPT ![k] = @ + 1]
              ELSE UNCHANGED <<chan, epoch>>
           /\ call' = [call EXCEPT ![c].at = "loop"]
        \/ /\ op = "set_query_data"
           /\ Insert(k, epoch[k])
           /\ call' = [call EXCEPT ![c].at = "notify"]
           /\ UNCHANGED <<chan, epoch>>
        \/ /\ op \in {"reset_queries", "remove_queries"}
           /\ cache' = [cache EXCEPT ![k] = NoEntry]
           /\ call' = [call EXCEPT ![c].at = "notify"]
           /\ UNCHANGED <<chan, epoch>>
        \/ /\ op \in {"trigger_refetch"} \cup Skipping
           /\ MarkStale(k)
           /\ call' = [call EXCEPT ![c].at = "notify"]
           /\ UNCHANGED <<chan, epoch>>
        \/ /\ op \in {"cancel_query", "cancel_queries", "refetch"}
           /\ call' = [call EXCEPT ![c].at = "notify"]
           /\ UNCHANGED <<cache, chan, epoch>>
  /\ UNCHANGED <<procVars, inFlight, fetching, envVars, calls>>

\* The notification; a cancel notifies only when it removed a fetch.
NotifyKey(c) ==
  /\ At(c, "notify")
  /\ LET op == call[c].op
     IN /\ IF op \in {"cancel_query", "cancel_queries", "refetch"} /\ ~call[c].hit
           THEN UNCHANGED chan
           ELSE Notify(call[c].key, Message(op))
        /\ call' = [call EXCEPT ![c].at = IF op = "refetch" THEN "spawn" ELSE "loop"]
  /\ UNCHANGED <<procVars, storeVars, envVars, calls>>

\* invalidate_queries_filtered: every match is flagged, then trigger_refetch
\* runs for the ones the refetch type selects.
FlagMatches(c) ==
  /\ At(c, "flag")
  /\ cache' = [k \in Keys |-> IF k \in call[c].todo /\ cache[k].has
                              THEN [cache[k] EXCEPT !.stale = TRUE] ELSE cache[k]]
  /\ \E selected \in SUBSET call[c].todo :
       call' = [call EXCEPT ![c].op = "trigger_refetch", ![c].at = "loop",
                            ![c].todo = selected]
  /\ UNCHANGED <<procVars, inFlight, fetching, epoch, envVars, chan, calls>>

\* spawn_query: skipped while restoring, else the count goes up and the task
\* is handed to the runtime, where it may run at once.
SpawnTask(c) ==
  /\ At(c, "spawn")
  /\ LET p == call[c].proc
     IN IF restoring
        THEN /\ pc' = [pc EXCEPT ![p] = "done"]
             /\ result' = [result EXCEPT ![p] = "Idle"]
             /\ call' = [call EXCEPT ![c] = NoCall]
             /\ UNCHANGED fetching
        ELSE /\ Goto(p, "ready")
             /\ call' = [call EXCEPT ![c].at = "register"]
             /\ fetching' = fetching + 1
  /\ UNCHANGED <<kind, key, tries, token, aborted, began, cache, inFlight, epoch,
                 envVars, chan, calls>>

\* set_in_flight, after the task was handed to the runtime.
RegisterTask(c) ==
  /\ At(c, "register")
  /\ inFlight' = [inFlight EXCEPT ![call[c].key] = call[c].proc]
  /\ call' = [call EXCEPT ![c] = NoCall]
  /\ UNCHANGED <<procVars, cache, fetching, epoch, envVars, chan, calls>>

\* clear: cancel and abort what is registered, empty the registry, empty the
\* cache.  Nobody is notified.
ClearCancel(c) ==
  /\ At(c, "cancel")
  /\ LET registered == {inFlight[k] : k \in Keys}
     IN /\ token' = [p \in Procs |-> token[p] \/ p \in registered]
        /\ aborted' = [p \in Procs |-> aborted[p] \/ p \in registered]
  /\ call' = [call EXCEPT ![c].at = "drain"]
  /\ UNCHANGED <<kind, key, pc, tries, result, began, storeVars, envVars, chan, calls>>

ClearRegistry(c) ==
  /\ At(c, "drain")
  /\ inFlight' = [k \in Keys |-> NoProc]
  /\ call' = [call EXCEPT ![c].at = "wipe"]
  /\ UNCHANGED <<procVars, cache, fetching, epoch, envVars, chan, calls>>

ClearCache(c) ==
  /\ At(c, "wipe")
  /\ cache' = [k \in Keys |-> NoEntry]
  /\ call' = [call EXCEPT ![c].at = "loop"]
  /\ UNCHANGED <<procVars, inFlight, fetching, epoch, envVars, chan, calls>>

\* The method returns.
Return(c) ==
  /\ At(c, "loop")
  /\ call[c].todo = {}
  /\ call' = [call EXCEPT ![c] = NoCall]
  /\ UNCHANGED <<procVars, storeVars, envVars, chan, calls>>

CallerStep(c) ==
  \/ NextKey(c) \/ UpdateCache(c) \/ NotifyKey(c) \/ FlagMatches(c)
  \/ SpawnTask(c) \/ RegisterTask(c)
  \/ ClearCancel(c) \/ ClearRegistry(c) \/ ClearCache(c) \/ Return(c)

Call(c) ==
  \/ CallClear(c)
  \/ \E k \in Keys : CallCancelQuery(c, k) \/ CallSetQueryData(c, k)
  \/ \E p \in Procs, k \in Keys, op \in {"spawn", "refetch"} : CallSpawn(c, p, k, op)
  \/ \E op \in FilteredOps, filter \in SUBSET Keys \ {{}} : CallFiltered(c, op, filter)

-----------------------------------------------------------------------------
(***************************************************************************)
(* Direct executions, handles and the environment                          *)
(***************************************************************************)

\* Nobody is between two suspension points, on a single thread.
Quiet == Threaded \/ (/\ \A p \in Procs : ~RunningProc(p)
                      /\ \A c \in Callers : ~RunningCaller(c))

\* execute_query / fetch_query: the future is driven by its caller.
StartDirect(p, k, op) ==
  /\ op \in Ops \cap {"execute", "fetch"}
  /\ pc[p] = "new"
  /\ Quiet
  /\ kind' = [kind EXCEPT ![p] = op]
  /\ key' = [key EXCEPT ![p] = k]
  /\ Goto(p, "ready")
  /\ UNCHANGED <<tries, token, aborted, began, storeVars, envVars, chan, call, calls>>

\* ensure_query_data: fresh cached data is returned, else fetch_query runs;
\* is_stale is a second look, as in Recheck.
StartEnsure(p, k) ==
  /\ "ensure" \in Ops
  /\ pc[p] = "new"
  /\ Quiet
  /\ kind' = [kind EXCEPT ![p] = "fetch"]
  /\ key' = [key EXCEPT ![p] = k]
  /\ \/ cache[k].has /\ (CacheMoves \/ ~cache[k].stale) /\ pc' = [pc EXCEPT ![p] = "done"]
        /\ result' = [result EXCEPT ![p] = "Success"]
     \/ Goto(p, "ready")
  /\ UNCHANGED <<tries, token, aborted, began, storeVars, envVars, chan, call, calls>>

\* The owner of an execute_query token cancels it.
CancelToken(p) ==
  /\ "token" \in Ops
  /\ kind[p] = "execute" /\ pc[p] \notin Inactive /\ ~token[p]
  /\ Quiet
  /\ token' = [token EXCEPT ![p] = TRUE]
  /\ UNCHANGED <<kind, key, pc, tries, aborted, result, began, storeVars, envVars,
                 chan, call, calls>>

\* The SpawnedTask is dropped without being awaited, or aborted.
DropHandle(p) ==
  /\ "drop_handle" \in Ops
  /\ kind[p] = "spawn" /\ pc[p] \notin Inactive /\ ~aborted[p]
  /\ \A c \in Callers : call[c].proc # p
  /\ Quiet
  /\ aborted' = [aborted EXCEPT ![p] = TRUE]
  /\ UNCHANGED <<kind, key, pc, tries, token, result, began, storeVars, envVars,
                 chan, call, calls>>

\* gc_internal: entries whose gc_time has passed are removed.  The loop that
\* calls it is an OS thread of its own, whatever runs the queries, and so may act
\* at any point.
Gc(expired) ==
  /\ "gc" \in Ops
  /\ expired # {} /\ expired \subseteq Cached
  /\ cache' = [k \in Keys |-> IF k \in expired THEN NoEntry ELSE cache[k]]
  /\ UNCHANGED <<procVars, inFlight, fetching, epoch, envVars, chan, call, calls>>

\* OnlineManager::set_online; only losing connectivity is bounded.
SetOnline(b) ==
  /\ Quiet
  /\ online # b
  /\ online' = b
  /\ ~b => flips < MaxFlips
  /\ flips' = IF b THEN flips ELSE flips + 1
  /\ UNCHANGED <<procVars, storeVars, restoring, chan, call, calls>>

\* set_is_restoring, by the persister around a restore.
SetRestoring(b) ==
  /\ Quiet
  /\ restoring # b
  /\ restoring' = b
  /\ b => flips < MaxFlips
  /\ flips' = IF b THEN flips + 1 ELSE flips
  /\ UNCHANGED <<procVars, storeVars, online, chan, call, calls>>

Next ==
  \/ \E p \in Procs : ProcStep(p) \/ CancelToken(p) \/ DropHandle(p)
  \/ \E p \in Procs, k \in Keys :
       \/ \E op \in {"execute", "fetch"} : StartDirect(p, k, op)
       \/ StartEnsure(p, k)
  \/ \E c \in Callers : CallerStep(c) \/ Call(c)
  \/ \E expired \in SUBSET Keys : Gc(expired)
  \/ \E b \in BOOLEAN : SetOnline(b) \/ SetRestoring(b)

\* Tasks are polled by their executor, a thread inside a method goes on, the
\* fetch function resolves (FetchPending leads to FetchWoken), connectivity
\* comes back and a restore ends.  Nothing is assumed of the application.
Fairness ==
  /\ \A p \in Procs : WF_vars(ProcStep(p))
  /\ \A c \in Callers : WF_vars(CallerStep(c))
  /\ WF_vars(SetOnline(TRUE))
  /\ WF_vars(SetRestoring(FALSE))

Spec == Init /\ [][Next]_vars /\ Fairness
-----------------------------------------------------------------------------
(***************************************************************************)
(* Properties                                                              *)
(***************************************************************************)

\* Type correctness of the client and executor state; in particular the count
\* of fetches never wraps below zero and no execution makes more attempts than
\* its retry budget allows.
TypeOK ==
  /\ cache \in [Keys -> [has : BOOLEAN, stale : BOOLEAN, epoch : Nat]]
  /\ inFlight \in [Keys -> Procs \cup {NoProc}]
  /\ fetching \in Nat
  /\ online \in BOOLEAN
  /\ restoring \in BOOLEAN
  /\ kind \in [Procs -> {"none", "spawn", "execute", "fetch"}]
  /\ key \in [Procs -> Keys \cup {NoKey}]
  /\ pc \in [Procs -> Places]
  /\ tries \in [Procs -> 0..(MaxRetries + 1)]
  /\ token \in [Procs -> BOOLEAN]
  /\ aborted \in [Procs -> BOOLEAN]
  /\ result \in [Procs -> Results]
  /\ chan \in [Procs -> [queue : Seq(Variants), missed : Nat]]
  /\ call \in [Callers -> [op : AllOps \cup {"none", "trigger_refetch"},
                           at : {"idle", "loop", "flag", "cache", "notify", "spawn",
                                 "register", "cancel", "drain", "wipe"},
                           key : Keys \cup {NoKey},
                           todo : SUBSET Keys,
                           hit : BOOLEAN,
                           proc : Procs \cup {NoProc}]]
  /\ epoch \in [Keys -> Nat]
  /\ began \in [Procs -> Nat]
  /\ calls \in Nat
  /\ flips \in Nat

\* fetching_count is the number of spawned fetches whose FetchingGuard is
\* alive, whatever mixture of success, error, panic, cancellation, abort in any
\* suspension point and dropped handles ended the others; in particular it
\* never wraps below zero (client.rs dec_fetching, executor.rs FetchingGuard).
FetchingCountExact == fetching = Cardinality(Guards)

\* An in-flight entry belongs to an execution that is still running, so
\* `fetching` (client.rs:91) is reported and direct calls wait only while there
\* is a fetch to wait for.
InFlightIsLive == \A k \in Keys : inFlight[k] # NoProc => pc[inFlight[k]] \notin Inactive

\* README "concurrent fetches for a key coalesce": at most one execution that
\* was not aborted has a fetch function outstanding for a key.
OneFetchPerKey ==
  \A k \in Keys : \A p, q \in Procs :
    (/\ key[p] = k /\ pc[p] \in {"polling", "parked", "resolving"} /\ ~aborted[p]
     /\ key[q] = k /\ pc[q] \in {"polling", "parked", "resolving"} /\ ~aborted[q])
      => p = q

\* An invalidation is not undone by a fetch that was already under way: data
\* without the stale flag was written by an attempt that began after the last
\* invalidate_queries of its key (client.rs invalidate_queries kills the
\* in-flight fetch before it sets the flag).
FreshMeansCurrent ==
  \A k \in Keys : cache[k].has /\ ~cache[k].stale => cache[k].epoch = epoch[k]

\* executor.rs:142 "while client.is_restoring(), no fetch is started": the
\* first attempt of an execution never begins during a restore.
NoStartWhileRestoring ==
  [][\A p \in Procs : tries[p] = 0 /\ tries'[p] = 1 => ~restoring]_vars

\* Every spawned fetch ends, so the fetching indicator goes out.
SpawnedFetchEnds ==
  \A p \in Procs : (p \in Guards) ~> (p \notin Guards)
=============================================================================
