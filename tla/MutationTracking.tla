-------------------------- MODULE MutationTracking --------------------------
(***************************************************************************)
(* What an application sees of its mutations: the state a                  *)
(* MutationObserver tracks (src/mutation_observer.rs), the signal of       *)
(* use_mutation (src/hooks.rs), the event stream of the MutationCache      *)
(* (src/mutation_cache.rs), the count of spawn_mutation                    *)
(* (src/executor.rs) and the optimistic data of on_mutate                  *)
(* (src/mutation.rs).  Mutations have no scope here: MutationScope models  *)
(* those.                                                                  *)
(*                                                                         *)
(* An execution is one call of mutate.  Its optimistic update writes the   *)
(* execution's name where the application keeps its data.                  *)
(***************************************************************************)
EXTENDS Integers, Sequences, FiniteSets, Channel

CONSTANTS
  Executions,  \* calls of mutate
  Nobody,      \* no execution
  Setups,      \* what may be going on (AllSetups)
  MaxOps       \* bound: calls of the application besides mutate

\* How executions are started: by MutationObserver::mutate, UseMutation::mutate
\* or spawn_mutation.
Starts == {"observer", "hook", "spawn"}
Ops == {"reset", "abort", "panic", "remove", "clear", "restore"}

\* own are the executions of the observer that is watched; the others share
\* its cache only.  stream says whether somebody reads the observer's events.
AllSetups == [start : Starts, pool : BOOLEAN, own : SUBSET Executions, optimistic : BOOLEAN,
              retry : 0 .. 1, stream : BOOLEAN, ops : SUBSET Ops,
              budget : 0 .. MaxOps]

ASSUME TrackingAssumption ==
  /\ IsFiniteSet(Executions) /\ Nobody \notin Executions
  /\ \A s \in Setups : s \in AllSetups
  /\ MaxOps \in Nat

VARIABLES
  setup,       \* the setup, chosen initially
  pc,          \* execution -> where its task stands
  tries,       \* execution -> retries_used
  outcome,     \* execution -> what mutate_fn came to
  result,      \* execution -> what its handle yields
  generation,  \* generation of the observer
  observed,    \* execution -> observed_generation
  tracked,     \* the state of the observer, and the execution it comes from
  latest,      \* the execution the observer submitted last
  crossed,     \* it submitted one while an older one could still write the state
  clearing,    \* events MutationCache::clear has yet to send
  resetting,   \* reset has raised the generation, not yet the state
  signal,      \* the signal of use_mutation
  outer,       \* execution -> where the outer task of the hook stands
  ids,         \* entry_ids of the observer
  entries,     \* execution -> status of its cache entry
  queue,       \* the queue of the event stream's receiver
  missed,      \* values it lost and has not reported
  seen,        \* events MutationEventStream::next returned
  owed,        \* events of the observer's executions that were sent
  lagged,      \* the stream lost an event
  data,        \* the execution whose value the application's data holds
  snap,        \* execution -> data when its on_mutate ran
  stale,       \* that data is marked for a refetch
  overlapped,  \* two optimistic executions were under way together
  mutating,    \* mutating_count
  restoring,   \* is_restoring
  ops          \* calls made (bounded by the setup's budget)

taskVars == <<pc, tries, outcome, result>>
obsVars == <<generation, observed, tracked, latest, crossed, resetting>>
hookVars == <<signal, outer>>
streamVars == <<queue, missed, seen, owed, lagged>>
cacheVars == <<ids, entries, clearing>>
dataVars == <<data, snap, stale, overlapped>>
vars == <<setup, taskVars, obsVars, hookVars, streamVars, cacheVars, dataVars,
          mutating, restoring, ops>>

\* Where a task is suspended, and where it is over.
Suspended == {"ready", "mutating", "sleeping"}
Over == {"new", "done", "aborted", "panicked", "skipped"}
Places == Suspended \cup Over \cup
          {"hooking", "added", "on_mutate", "context", "failed", "invalidate", "settle", "updated",
           "check", "write", "reply"}

Early == {"ready", "hooking", "added", "on_mutate"}  \* before the optimistic update

NewEntry == "Pending"
Observed(e) == setup.start # "spawn" /\ e \in setup.own
Live(e) == pc[e] \notin Over

\* An execution that may yet write the state of its observer.
MayWrite(e) ==
  /\ Observed(e) /\ pc[e] \notin Over \cup {"reply"}
  /\ observed[e] = generation \/ pc[e] = "write"

MayRun(who, e) ==
  \/ setup.pool
  \/ /\ \A x \in Executions : /\ pc[x] \in Suspended \cup Over \/ (who = "task" /\ x = e)
     /\ (~resetting /\ clearing = <<>>) \/ who = "app"

Init ==
  /\ setup \in Setups
  /\ pc = [e \in Executions |-> "new"]
  /\ tries = [e \in Executions |-> 0]
  /\ outcome = [e \in Executions |-> "none"]
  /\ result = [e \in Executions |-> "none"]
  /\ generation = 0
  /\ observed = [e \in Executions |-> 0]
  /\ tracked = [st |-> "Idle", by |-> Nobody]
  /\ latest = Nobody
  /\ crossed = FALSE
  /\ resetting = FALSE
  /\ signal = "Idle"
  /\ outer = [e \in Executions |-> "none"]
  /\ ids = {}
  /\ entries = [e \in Executions |-> "none"]
  /\ clearing = <<>>
  /\ queue = <<>> /\ missed = 0 /\ seen = <<>> /\ owed = <<>> /\ lagged = FALSE
  /\ data = Nobody
  /\ snap = [e \in Executions |-> Nobody]
  /\ stale = FALSE
  /\ overlapped = FALSE
  /\ mutating = 0
  /\ restoring = FALSE
  /\ ops = 0

\* The application thread is not in the middle of a call.
AppFree == ~resetting /\ clearing = <<>> /\ MayRun("app", Nobody)

Goto(e, place) == pc' = [pc EXCEPT ![e] = place]
Runs(e, place) == pc[e] = place /\ MayRun("task", e)

\* MutationCacheEvent, sent to the stream's receiver.  The stream owes its
\* reader the events of the observer's executions; a removal may come before
\* the observer has the id.
Event(what, e) == [what |-> what, id |-> e]
Relevant(v, known) == v.what = "Cleared" \/ v.id \in known
Promised(v) == v.what # "Removed"
Send(v) ==
  IF setup.stream
  THEN /\ queue' = Queued(queue, v)
       /\ missed' = Missed(queue, missed)
       /\ lagged' = (lagged \/ missed' > missed)
       /\ owed' = IF Promised(v) /\ Relevant(v, setup.own) THEN Append(owed, v) ELSE owed
       /\ UNCHANGED seen
  ELSE UNCHANGED streamVars

-----------------------------------------------------------------------------
(***************************************************************************)
(* Submission                                                              *)
(***************************************************************************)

\* MutationObserver::mutate: the state is Loading and the generation noted
\* before the task is spawned.  UseMutation::mutate spawns an outer task that
\* waits for it.  A foreign execution only shares the cache.
Submit(e) ==
  /\ pc[e] = "new" /\ AppFree /\ setup.start # "spawn"
  /\ Goto(e, "ready")
  /\ IF Observed(e)
     THEN /\ tracked' = [st |-> "Loading", by |-> e]
          /\ observed' = [observed EXCEPT ![e] = generation]
          /\ latest' = e
          /\ crossed' = (crossed \/ \E x \in Executions \ {e} : MayWrite(x))
          /\ outer' = [outer EXCEPT ![e] = IF setup.start = "hook" THEN "waiting" ELSE "none"]
     ELSE UNCHANGED <<tracked, observed, latest, crossed, outer>>
  /\ UNCHANGED <<setup, tries, outcome, result, generation, resetting, signal, streamVars,
                 cacheVars, dataVars, mutating, restoring, ops>>

\* spawn_mutation: nothing runs while restoring; else the guard counts.
SpawnMutation(e) ==
  /\ pc[e] = "new" /\ AppFree /\ setup.start = "spawn"
  /\ IF restoring
     THEN /\ Goto(e, "skipped")
          /\ result' = [result EXCEPT ![e] = "Idle"]
          /\ UNCHANGED mutating
     ELSE /\ Goto(e, "ready")
          /\ mutating' = mutating + 1
          /\ UNCHANGED result
  /\ UNCHANGED <<setup, tries, outcome, obsVars, hookVars, streamVars, cacheVars, dataVars,
                 restoring, ops>>

-----------------------------------------------------------------------------
(***************************************************************************)
(* The task of an execution                                                *)
(***************************************************************************)

\* add_with_hook: the entry is pushed ...
AddEntry(e) ==
  /\ Runs(e, "ready")
  /\ IF setup.start = "spawn"
     THEN Goto(e, "on_mutate") /\ UNCHANGED entries
     ELSE /\ entries' = [entries EXCEPT ![e] = NewEntry]
          /\ Goto(e, "hooking")
  /\ UNCHANGED <<setup, tries, outcome, result, obsVars, hookVars, streamVars, ids, clearing, dataVars,
                 mutating, restoring, ops>>

MutHookId(e) ==
  /\ Runs(e, "hooking")
  /\ Goto(e, "added")
  /\ UNCHANGED <<setup, tries, outcome, result, obsVars, hookVars, streamVars, cacheVars,
                 dataVars, mutating, restoring, ops>>

\* ... the observer learns its id ...
HookId(e) ==
  /\ Runs(e, "hooking")
  /\ ids' = IF Observed(e) THEN ids \cup {e} ELSE ids
  /\ Goto(e, "added")
  /\ UNCHANGED <<setup, tries, outcome, result, obsVars, hookVars, streamVars, entries,
                 clearing, dataVars, mutating, restoring, ops>>

\* ... and only then Added is sent.
SendAdded(e) ==
  /\ Runs(e, "added")
  /\ Send(Event("Added", e))
  /\ Goto(e, "on_mutate")
  /\ UNCHANGED <<setup, tries, outcome, result, obsVars, hookVars, cacheVars, dataVars,
                 mutating, restoring, ops>>

\* on_mutate: an optimistic update by set_query_data, with what a rollback
\* restores; or an error.
OnMutate(e) ==
  /\ Runs(e, "on_mutate")
  /\ \/ /\ ~setup.optimistic
        /\ Goto(e, "mutating")
        /\ UNCHANGED <<outcome, dataVars>>
     \/ /\ setup.optimistic
        /\ snap' = [snap EXCEPT ![e] = data]
        /\ data' = e /\ stale' = FALSE
        /\ overlapped' = (overlapped \/ \E x \in Executions \ {e} : Live(x) /\ pc[x] \notin Early)
        /\ Goto(e, IF setup.start = "spawn" THEN "mutating" ELSE "context")
        /\ UNCHANGED outcome
     \/ /\ setup.optimistic
        /\ outcome' = [outcome EXCEPT ![e] = "Error"]
        /\ Goto(e, IF setup.start = "spawn" THEN "reply" ELSE "settle")
        /\ UNCHANGED dataVars
  /\ UNCHANGED <<setup, tries, result, obsVars, hookVars, streamVars, cacheVars, mutating,
                 restoring, ops>>

\* MutationCache::update notifies only when the entry is there.
SendUpdated(e) == IF entries[e] # "none" THEN Send(Event("Updated", e)) ELSE UNCHANGED streamVars

\* The entry notes that it has a context.
Context(e) ==
  /\ Runs(e, "context")
  /\ SendUpdated(e)
  /\ Goto(e, "mutating")
  /\ UNCHANGED <<setup, tries, outcome, result, obsVars, hookVars, cacheVars, dataVars,
                 mutating, restoring, ops>>

MutateOk(e) ==
  /\ Runs(e, "mutating")
  /\ outcome' = [outcome EXCEPT ![e] = "Success"]
  /\ Goto(e, "invalidate")
  /\ UNCHANGED <<setup, tries, result, obsVars, hookVars, streamVars, cacheVars, dataVars,
                 mutating, restoring, ops>>

MutMutateErrForever(e) ==
  /\ Runs(e, "mutating")
  /\ \/ /\ setup.start # "spawn" /\ tries[e] < setup.retry
        /\ Goto(e, "sleeping")
        /\ UNCHANGED <<outcome, tries>>
     \/ /\ setup.start = "spawn" \/ tries[e] >= setup.retry
        /\ outcome' = [outcome EXCEPT ![e] = "Error"]
        /\ Goto(e, "failed")
        /\ UNCHANGED tries
  /\ UNCHANGED <<setup, result, obsVars, hookVars, streamVars, cacheVars, dataVars, mutating,
                 restoring, ops>>

\* An error is retried (not by execute_mutation), or rolled back.
MutateErr(e) ==
  /\ Runs(e, "mutating")
  /\ \/ /\ setup.start # "spawn" /\ tries[e] < setup.retry
        /\ tries' = [tries EXCEPT ![e] = @ + 1]
        /\ Goto(e, "sleeping")
        /\ UNCHANGED outcome
     \/ /\ setup.start = "spawn" \/ tries[e] >= setup.retry
        /\ outcome' = [outcome EXCEPT ![e] = "Error"]
        /\ Goto(e, "failed")
        /\ UNCHANGED tries
  /\ UNCHANGED <<setup, result, obsVars, hookVars, streamVars, cacheVars, dataVars, mutating,
                 restoring, ops>>

RetryDelay(e) ==
  /\ Runs(e, "sleeping")
  /\ Goto(e, "mutating")
  /\ UNCHANGED <<setup, tries, outcome, result, obsVars, hookVars, streamVars, cacheVars,
                 dataVars, mutating, restoring, ops>>

MutRollback(e) ==
  /\ Runs(e, "failed")
  /\ Goto(e, IF setup.start = "spawn" THEN "reply" ELSE "settle")
  /\ UNCHANGED <<setup, tries, outcome, result, obsVars, hookVars, streamVars, cacheVars,
                 dataVars, mutating, restoring, ops>>

\* The rollback that on_mutate returned.
Rollback(e) ==
  /\ Runs(e, "failed")
  /\ data' = IF setup.optimistic THEN snap[e] ELSE data
  /\ stale' = (stale /\ ~setup.optimistic)
  /\ Goto(e, IF setup.start = "spawn" THEN "reply" ELSE "settle")
  /\ UNCHANGED <<setup, tries, outcome, result, obsVars, hookVars, streamVars, cacheVars,
                 snap, overlapped, mutating, restoring, ops>>

\* A success first invalidates invalidates_keys, the optimistic data among them.
Invalidate(e) ==
  /\ Runs(e, "invalidate")
  /\ stale' = (stale \/ setup.optimistic)
  /\ Goto(e, IF setup.start = "spawn" THEN "reply" ELSE "settle")
  /\ UNCHANGED <<setup, tries, outcome, result, obsVars, hookVars, streamVars, cacheVars,
                 data, snap, overlapped, mutating, restoring, ops>>

\* settle_mutation_success and settle_mutation_error: the entry, then the
\* event; the callbacks are the application's.
Settle(e) ==
  /\ Runs(e, "settle")
  /\ entries' = [entries EXCEPT ![e] = IF @ = "none" THEN "none" ELSE outcome[e]]
  /\ Goto(e, "updated")
  /\ UNCHANGED <<setup, tries, outcome, result, obsVars, hookVars, streamVars, ids, clearing, dataVars,
                 mutating, restoring, ops>>

Updated(e) ==
  /\ Runs(e, "updated")
  /\ SendUpdated(e)
  /\ Goto(e, IF Observed(e) THEN "check" ELSE "reply")
  /\ UNCHANGED <<setup, tries, outcome, result, obsVars, hookVars, cacheVars, dataVars,
                 mutating, restoring, ops>>

MutCheckGeneration(e) ==
  /\ Runs(e, "check")
  /\ Goto(e, IF generation >= observed[e] THEN "write" ELSE "reply")
  /\ UNCHANGED <<setup, tries, outcome, result, obsVars, hookVars, streamVars, cacheVars,
                 dataVars, mutating, restoring, ops>>

\* The task writes the state only when no reset came in between ...
CheckGeneration(e) ==
  /\ Runs(e, "check")
  /\ Goto(e, IF generation = observed[e] THEN "write" ELSE "reply")
  /\ UNCHANGED <<setup, tries, outcome, result, obsVars, hookVars, streamVars, cacheVars,
                 dataVars, mutating, restoring, ops>>

\* ... which it looked up before it takes the lock.
WriteState(e) ==
  /\ Runs(e, "write")
  /\ tracked' = [st |-> outcome[e], by |-> e]
  /\ Goto(e, "reply")
  /\ UNCHANGED <<setup, tries, outcome, result, generation, observed, latest, crossed, resetting,
                 hookVars, streamVars, cacheVars, dataVars, mutating, restoring, ops>>

\* The guard of spawn_mutation counts down when the task is over, however.
Uncount(e) == mutating' = IF setup.start = "spawn" THEN mutating - 1 ELSE mutating

Reply(e) ==
  /\ Runs(e, "reply")
  /\ result' = [result EXCEPT ![e] = outcome[e]]
  /\ Goto(e, "done")
  /\ Uncount(e)
  /\ UNCHANGED <<setup, tries, outcome, obsVars, hookVars, streamVars, cacheVars, dataVars,
                 restoring, ops>>

TaskStep(e) ==
  \/ AddEntry(e) \/ HookId(e) \/ SendAdded(e) \/ OnMutate(e) \/ Context(e)
  \/ MutateOk(e) \/ MutateErr(e) \/ RetryDelay(e) \/ Rollback(e) \/ Invalidate(e) \/ Settle(e)
  \/ Updated(e) \/ CheckGeneration(e) \/ WriteState(e) \/ Reply(e)

\* The outer task of the hook sets the signal from the result of the handle,
\* whatever the generation.
OuterStep(e) ==
  /\ outer[e] = "waiting" /\ result[e] # "none" /\ MayRun("outer", e)
  /\ signal' = IF result[e] = "Success" THEN "Success" ELSE "Error"
  /\ outer' = [outer EXCEPT ![e] = "done"]
  /\ UNCHANGED <<setup, taskVars, obsVars, streamVars, cacheVars, dataVars, mutating,
                 restoring, ops>>

\* MutationEventStream::next: lag notices and other executions' events are
\* passed over.
StreamNext ==
  /\ MayRun("stream", Nobody)
  /\ \/ missed > 0 /\ missed' = 0 /\ UNCHANGED <<queue, seen>>
     \/ /\ missed = 0 /\ queue # <<>>
        /\ queue' = Tail(queue)
        /\ seen' = IF Relevant(Head(queue), ids) THEN Append(seen, Head(queue)) ELSE seen
        /\ UNCHANGED missed
  /\ UNCHANGED <<setup, taskVars, obsVars, hookVars, owed, lagged, cacheVars, dataVars,
                 mutating, restoring, ops>>

-----------------------------------------------------------------------------
(***************************************************************************)
(* Aborts, panics and the other calls of the application                   *)
(***************************************************************************)

Calling(op) ==
  /\ op \in setup.ops /\ AppFree
  /\ ops < setup.budget /\ ops' = ops + 1

\* A handle is dropped: the task ends where it is suspended.  No rollback runs
\* and the state stays Loading.  The handle of the hook is that of the outer
\* task, which holds the inner one until it is first polled ...
Abort(e) ==
  /\ Calling("abort") /\ pc[e] \in Suspended /\ outer[e] # "done"
  /\ Goto(e, "aborted")
  /\ result' = [result EXCEPT ![e] = "Cancelled"]
  /\ outer' = [outer EXCEPT ![e] = IF @ = "waiting" THEN "done" ELSE @]
  /\ Uncount(e)
  /\ UNCHANGED <<setup, tries, outcome, obsVars, signal, streamVars, cacheVars, dataVars,
                 restoring>>

\* ... and detaches it then: the execution goes on, and only the signal is never
\* set.  Whether that poll has been is left open.
AbortOuter(e) ==
  /\ Calling("abort") /\ outer[e] = "waiting"
  /\ outer' = [outer EXCEPT ![e] = "done"]
  /\ UNCHANGED <<setup, taskVars, obsVars, signal, streamVars, cacheVars, dataVars, mutating,
                 restoring>>

\* mutate_fn panics: the task is gone, the handle yields its fallback.
Panic(e) ==
  /\ Runs(e, "mutating") /\ "panic" \in setup.ops
  /\ Goto(e, "panicked")
  /\ result' = [result EXCEPT ![e] = "Cancelled"]
  /\ Uncount(e)
  /\ UNCHANGED <<setup, tries, outcome, obsVars, hookVars, streamVars, cacheVars, dataVars,
                 restoring, ops>>

\* MutationObserver::reset: the generation, then the state ...
Reset ==
  /\ Calling("reset")
  /\ generation' = generation + 1
  /\ resetting' = TRUE
  /\ UNCHANGED <<setup, taskVars, observed, tracked, latest, crossed, hookVars, streamVars, cacheVars,
                 dataVars, mutating, restoring>>

\* ... and the signal of the hook.
ResetState ==
  /\ resetting /\ MayRun("app", Nobody)
  /\ tracked' = [st |-> "Idle", by |-> Nobody]
  /\ signal' = "Idle"
  /\ resetting' = FALSE
  /\ UNCHANGED <<setup, taskVars, generation, observed, latest, crossed, outer, streamVars, cacheVars,
                 dataVars, mutating, restoring, ops>>

\* MutationCache::remove (an event even for an unknown id) ...
RemoveEntry(e) ==
  /\ Calling("remove") /\ pc[e] \notin {"new", "ready"}
  /\ entries' = [entries EXCEPT ![e] = "none"]
  /\ Send(Event("Removed", e))
  /\ UNCHANGED <<setup, taskVars, obsVars, hookVars, ids, clearing, dataVars, mutating, restoring>>

\* ... and clear: the entries go together, the events follow one by one.
Removals(ids0) == CHOOSE q \in [1 .. Cardinality(ids0) -> {Event("Removed", e) : e \in ids0}] :
                    \A e \in ids0 : \E i \in DOMAIN q : q[i].id = e

ClearEntries ==
  /\ Calling("clear")
  /\ entries' = [e \in Executions |-> "none"]
  /\ clearing' = Append(Removals({e \in Executions : entries[e] # "none"}), Event("Cleared", Nobody))
  /\ UNCHANGED <<setup, taskVars, obsVars, hookVars, streamVars, ids, dataVars, mutating, restoring>>

ClearSend ==
  /\ clearing # <<>> /\ MayRun("app", Nobody)
  /\ Send(Head(clearing))
  /\ clearing' = Tail(clearing)
  /\ UNCHANGED <<setup, taskVars, obsVars, hookVars, ids, entries, dataVars, mutating, restoring, ops>>

SetIsRestoring ==
  /\ Calling("restore")
  /\ restoring' = ~restoring
  /\ UNCHANGED <<setup, taskVars, obsVars, hookVars, streamVars, cacheVars, dataVars, mutating>>

Next ==
  \/ \E e \in Executions :
       Submit(e) \/ SpawnMutation(e) \/ TaskStep(e) \/ OuterStep(e) \/ Abort(e) \/ AbortOuter(e)
       \/ Panic(e) \/ RemoveEntry(e)
  \/ StreamNext \/ Reset \/ ResetState \/ ClearEntries \/ ClearSend \/ SetIsRestoring

\* Tasks are polled, mutate_fn resolves, the stream is read and a call that
\* began ends; nobody has to submit, abort or reset.
Fairness ==
  /\ \A e \in Executions : WF_vars(TaskStep(e)) /\ WF_vars(OuterStep(e))
  /\ WF_vars(StreamNext) /\ WF_vars(ResetState) /\ WF_vars(ClearSend)

Spec == Init /\ [][Next]_vars /\ Fairness

-----------------------------------------------------------------------------
Results == {"none", "Success", "Error", "Cancelled", "Idle"}

\* Type invariant.
TypeOK ==
  /\ setup \in Setups
  /\ pc \in [Executions -> Places]
  /\ tries \in [Executions -> 0 .. setup.retry]
  /\ outcome \in [Executions -> {"none", "Success", "Error"}]
  /\ result \in [Executions -> Results]
  /\ generation \in 0 .. MaxOps /\ observed \in [Executions -> 0 .. MaxOps]
  /\ tracked \in [st : {"Idle", "Loading", "Success", "Error"}, by : Executions \cup {Nobody}]
  /\ latest \in Executions \cup {Nobody} /\ crossed \in BOOLEAN
  /\ signal \in {"Idle", "Success", "Error"}
  /\ outer \in [Executions -> {"none", "waiting", "done"}]
  /\ ids \subseteq setup.own
  /\ entries \in [Executions -> {"none", "Pending", "Success", "Error"}]
  /\ Len(queue) <= Cap /\ missed \in Nat
  /\ stale \in BOOLEAN
  /\ data \in Executions \cup {Nobody} /\ snap \in [Executions -> Executions \cup {Nobody}]
  /\ mutating \in Nat
  /\ ops \in 0 .. MaxOps

\* The count of mutations is that of the spawned executions that are neither
\* over nor dropped, polled or not.
MutatingCountExact ==
  mutating = IF setup.start = "spawn" THEN Cardinality({e \in Executions : Live(e)}) ELSE 0

\* On one thread the result of an execution that was submitted before a reset
\* never shows after it.
ResetSticks ==
  ~setup.pool /\ ~resetting /\ tracked.by # Nobody => observed[tracked.by] = generation

\* A state that is Loading belongs to the newest execution, which has not
\* delivered its result (it may have been aborted, or have panicked).
LoadingMeansPending ==
  tracked.st = "Loading" /\ ~resetting =>
    /\ tracked.by = latest
    /\ result[latest] \in {"none", "Cancelled"}

\* What the observer shows is the state of its newest execution since the reset:
\* Loading, then its result.  Executions that cross are excepted: an older one
\* that ends later overwrites the state of the newer one.
NewestShows ==
  ~crossed /\ latest # Nobody /\ observed[latest] = generation =>
    tracked = [st |-> IF pc[latest] \in {"reply", "done"} THEN outcome[latest] ELSE "Loading",
               by |-> latest]

\* The stream returns the Added and Updated events of its observer's executions,
\* all of them and in the order in which they were sent, unless it lost some to
\* a lag: the observer has an id before the first event that carries it.  What was
\* owed is, in its order, what was read or is still to be read of it.
StreamComplete ==
  ~lagged =>
    LET all == seen \o queue
        Due(j) == Promised(all[j]) /\ (j > Len(seen) => Relevant(all[j], ids))
        due(n) == {j \in 1 .. n : Due(j)}
    IN /\ Len(owed) = Cardinality(due(Len(all)))
       /\ \A j \in due(Len(all)) : owed[Cardinality(due(j))] = all[j]

\* Executions that do not overlap and that are not aborted leave no trace of
\* an optimistic update that failed.
FailedLeavesNoTrace ==
  /\ ~overlapped
  /\ \A e \in Executions : pc[e] \in {"new", "done", "skipped"}
  => data = Nobody \/ outcome[data] = "Success"

\* When no optimistic update was rolled back, data whose execution succeeded is
\* marked for a refetch before anybody learns of the success, whatever the
\* executions that wrote in between: invalidation never precedes the write.
SuccessIsInvalidated ==
  /\ data # Nobody
  /\ outcome[data] = "Success" /\ pc[data] \notin {"mutating", "invalidate"}
  /\ \A e \in Executions : outcome[e] # "Error"
  => stale

\* The state of an observer does not stay Loading when nothing is aborted.
LoadingEnds ==
  setup.ops \cap {"abort", "panic"} = {} =>
    (tracked.st = "Loading" ~> tracked.st # "Loading")

\* What the application is shown of its mutations is true: the count, and the
\* state of an observer, which is that of its newest execution since the reset
\* unless executions crossed; even then Loading is that of the newest, and on one
\* thread no execution shows that was submitted before the reset.
ShownIsTrue ==
  TypeOK /\ MutatingCountExact /\ ResetSticks /\ LoadingMeansPending /\ NewestShows

\* An optimistic update is paid for: undone by a failure, marked for a refetch by
\* a success.
OptimismPaidBack == FailedLeavesNoTrace /\ SuccessIsInvalidated
=============================================================================
