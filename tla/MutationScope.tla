--------------------------- MODULE MutationScope ---------------------------
(***************************************************************************)
(* Scoped mutations: execute_mutation_full_tracked (src/mutation.rs) and   *)
(* the scope bookkeeping of MutationCache (src/mutation_cache.rs), for the *)
(* mutations of one scope (scopes share nothing but a map).                *)
(*                                                                         *)
(* A critical section of MutationCache is one step of the mutation, or of  *)
(* the application thread, that enters it.  A scope without a ScopeState   *)
(* in the map is one that is not running and has an empty queue, which is  *)
(* what or_default creates.  A release watcher (src/watch.rs) is a flag: a *)
(* version was sent since the watcher last looked.  A callback is a point  *)
(* between two steps; what it does is up to the application.               *)
(*                                                                         *)
(* With Threaded = FALSE a mutation runs from one suspension point to the  *)
(* next without interruption (wasm32, a UI executor).                      *)
(***************************************************************************)
EXTENDS Integers, Sequences, FiniteSets

CONSTANTS Mutations,  \* executions of mutations of the scope
          Threaded,   \* TRUE: the worker pool; FALSE: a single-threaded executor
          Retry,      \* mutation.retry
          Ops         \* what the application does besides submitting

ASSUME ScopeAssumption ==
  /\ IsFiniteSet(Mutations)
  /\ Threaded \in BOOLEAN
  /\ Retry \in Nat
  /\ Ops \subseteq {"remove", "clear", "resume_paused", "drop_waiting", "drop_running"}

VARIABLES
  running,    \* ScopeState.running
  scopeQueue, \* ScopeState.queue
  entry,      \* mutation -> "none", or the status of its cache entry
  paused,     \* mutation -> is_paused of its entry
  signal,     \* mutation -> its release watcher has an unseen version
  pc,         \* mutation -> where its future stands
  tries,      \* mutation -> retries_used
  removing,   \* mutations that remove() has yet to splice out of the queue
  clearing    \* clear() has yet to clear the scopes

app == <<removing, clearing>>
scopeVars == <<running, scopeQueue, entry, paused, signal, pc, tries, app>>

\* Where a future can be suspended: before its first poll, waiting for the
\* scope, in mutate_fn, in the retry delay.
Suspended == {"new", "parked", "mutating", "sleeping"}
Gone == {"done", "dropped"}

\* Between mark_running and mark_finished.
Holding == {"unpause", "on_mutate", "mutating", "sleeping", "succeeded", "failed", "finish"}

Places == Suspended \cup Gone \cup Holding \cup
          {"adding", "subscribe", "check", "acquire", "announce", "run_next"}

Busy(m) == pc[m] \notin Suspended \cup Gone

AppIdle == removing = {} /\ ~clearing

\* Who may take a step: on one thread, only the one that is running.
MayRun(m) == Threaded \/ (AppIdle /\ \A n \in Mutations \ {m} : ~Busy(n))
Runs(m, place) == pc[m] = place /\ MayRun(m)
Goto(m, place) == pc' = [pc EXCEPT ![m] = place]

ScopeInit ==
  /\ running = FALSE
  /\ scopeQueue = <<>>
  /\ entry = [m \in Mutations |-> "none"]
  /\ paused = [m \in Mutations |-> FALSE]
  /\ signal = [m \in Mutations |-> FALSE]
  /\ pc = [m \in Mutations |-> "new"]
  /\ tries = [m \in Mutations |-> 0]
  /\ removing = {}
  /\ clearing = FALSE

\* watch.send: every watcher of the scope has something to see.
NotifyScope ==
  signal' = [m \in Mutations |-> signal[m] \/ pc[m] \in {"check", "acquire", "parked"}]

\* An entry update is lost when the entry was removed.
UpdateEntry(m, status) ==
  /\ entry' = [entry EXCEPT ![m] = IF entry[m] = "none" THEN "none" ELSE status]
  /\ paused' = [paused EXCEPT ![m] = FALSE]

-----------------------------------------------------------------------------
(***************************************************************************)
(* One mutation                                                            *)
(***************************************************************************)

\* add_with_hook: when the scope is busy, the mutation is queued and its entry
\* will be paused ...
AddToScope(m) ==
  /\ Runs(m, "new")
  /\ IF running
     THEN scopeQueue' = Append(scopeQueue, m) /\ paused' = [paused EXCEPT ![m] = TRUE]
     ELSE UNCHANGED <<scopeQueue, paused>>
  /\ Goto(m, "adding")
  /\ UNCHANGED <<running, entry, signal, tries, app>>

\* ... then the entry is pushed, and the cache-level on_mutate fires.
AddEntry(m) ==
  /\ Runs(m, "adding")
  /\ entry' = [entry EXCEPT ![m] = "Pending"]
  /\ Goto(m, "subscribe")
  /\ UNCHANGED <<running, scopeQueue, paused, signal, tries, app>>

\* subscribe_scope, before the first look at the scope.
SubscribeScope(m) ==
  /\ Runs(m, "subscribe")
  /\ signal' = [signal EXCEPT ![m] = FALSE]
  /\ Goto(m, "check")
  /\ UNCHANGED <<running, scopeQueue, entry, paused, tries, app>>

\* can_run
CheckScope(m) ==
  /\ Runs(m, "check")
  /\ Goto(m, IF running THEN "parked" ELSE "acquire")
  /\ UNCHANGED <<running, scopeQueue, entry, paused, signal, tries, app>>

MutWoken(m) ==
  /\ Runs(m, "parked")
  /\ signal[m]
  /\ signal' = [signal EXCEPT ![m] = FALSE]
  /\ Goto(m, "acquire")
  /\ UNCHANGED <<running, scopeQueue, entry, paused, tries, app>>

\* release.changed() resolves and the loop looks again.
Woken(m) ==
  /\ Runs(m, "parked")
  /\ signal[m]
  /\ signal' = [signal EXCEPT ![m] = FALSE]
  /\ Goto(m, "check")
  /\ UNCHANGED <<running, scopeQueue, entry, paused, tries, app>>

\* mark_running, under a lock of its own.
MarkRunning(m) ==
  /\ Runs(m, "acquire")
  /\ running' = TRUE
  /\ Goto(m, "unpause")
  /\ UNCHANGED <<scopeQueue, entry, paused, signal, tries, app>>

Unpause(m) ==
  /\ Runs(m, "unpause")
  /\ paused' = [paused EXCEPT ![m] = FALSE]
  /\ Goto(m, "on_mutate")
  /\ UNCHANGED <<running, scopeQueue, entry, signal, tries, app>>

\* The mutation-level on_mutate hook; its error takes the error path.
OnMutate(m) ==
  /\ Runs(m, "on_mutate")
  /\ Goto(m, "mutating") \/ Goto(m, "failed")
  /\ UNCHANGED <<running, scopeQueue, entry, paused, signal, tries, app>>

\* mutate_fn resolves: success, an error with retries left, or the last error.
MutateOk(m) ==
  /\ Runs(m, "mutating")
  /\ Goto(m, "succeeded")
  /\ UNCHANGED <<running, scopeQueue, entry, paused, signal, tries, app>>

MutMutateErrForever(m) ==
  /\ Runs(m, "mutating")
  /\ Goto(m, "sleeping")
  /\ UNCHANGED <<running, scopeQueue, entry, paused, signal, tries, app>>

MutateErr(m) ==
  /\ Runs(m, "mutating")
  /\ \/ /\ tries[m] < Retry
        /\ tries' = [tries EXCEPT ![m] = tries[m] + 1]
        /\ Goto(m, "sleeping")
     \/ /\ tries[m] >= Retry
        /\ Goto(m, "failed")
        /\ UNCHANGED tries
  /\ UNCHANGED <<running, scopeQueue, entry, paused, signal, app>>

RetryDelay(m) ==
  /\ Runs(m, "sleeping")
  /\ Goto(m, "mutating")
  /\ UNCHANGED <<running, scopeQueue, entry, paused, signal, tries, app>>

\* settle_mutation_success and settle_mutation_error: the entry is updated and
\* the callbacks run.
Settle(m) ==
  /\ \/ Runs(m, "succeeded") /\ UpdateEntry(m, "Success")
     \/ Runs(m, "failed") /\ UpdateEntry(m, "Error")
  /\ Goto(m, "finish")
  /\ UNCHANGED <<running, scopeQueue, signal, tries, app>>

\* mark_finished: the scope is free (its state, when it has one) ...
MarkFinished(m) ==
  /\ Runs(m, "finish")
  /\ running' = FALSE
  /\ Goto(m, "announce")
  /\ UNCHANGED <<scopeQueue, entry, paused, signal, tries, app>>

MutAnnounce(m) ==
  /\ Runs(m, "announce")
  /\ Goto(m, "run_next")
  /\ UNCHANGED <<running, scopeQueue, entry, paused, signal, tries, app>>

\* ... then every waiter is woken.
Announce(m) ==
  /\ Runs(m, "announce")
  /\ NotifyScope
  /\ Goto(m, "run_next")
  /\ UNCHANGED <<running, scopeQueue, entry, paused, tries, app>>

MutRunNext(m) ==
  /\ Runs(m, "run_next")
  /\ IF scopeQueue = <<>> THEN UNCHANGED signal ELSE NotifyScope
  /\ Goto(m, "done")
  /\ UNCHANGED <<running, scopeQueue, entry, paused, tries, app>>

\* run_next pops the head of the queue and wakes every waiter again (the wakes,
\* which only make waiters look again, are part of the step).
RunNext(m) ==
  /\ Runs(m, "run_next")
  /\ IF scopeQueue = <<>> THEN UNCHANGED <<scopeQueue, signal>>
                     ELSE scopeQueue' = Tail(scopeQueue) /\ NotifyScope
  /\ Goto(m, "done")
  /\ UNCHANGED <<running, entry, paused, tries, app>>

Step(m) ==
  \/ AddEntry(m) \/ SubscribeScope(m) \/ CheckScope(m) \/ Woken(m) \/ MarkRunning(m)
  \/ Unpause(m) \/ OnMutate(m) \/ MutateOk(m) \/ MutateErr(m) \/ RetryDelay(m)
  \/ Settle(m) \/ MarkFinished(m) \/ Announce(m) \/ RunNext(m)

-----------------------------------------------------------------------------
(***************************************************************************)
(* The application                                                         *)
(***************************************************************************)

Quiet == Threaded \/ (AppIdle /\ \A m \in Mutations : ~Busy(m))

\* MutationCache::remove: the entry goes ...
RemoveEntry(m) ==
  /\ "remove" \in Ops
  /\ Quiet
  /\ entry[m] # "none"
  /\ entry' = [entry EXCEPT ![m] = "none"]
  /\ paused' = [paused EXCEPT ![m] = FALSE]
  /\ removing' = removing \cup {m}
  /\ UNCHANGED <<running, scopeQueue, signal, pc, tries, clearing>>

\* ... and its id, which is queued at most once, is spliced out of the queue;
\* the execution itself goes on.
SpliceQueue(m) ==
  /\ m \in removing
  /\ removing' = removing \ {m}
  /\ \/ \E i \in 1..Len(scopeQueue) :
           /\ scopeQueue[i] = m
           /\ scopeQueue' = SubSeq(scopeQueue, 1, i - 1) \o SubSeq(scopeQueue, i + 1, Len(scopeQueue))
     \/ (\A i \in 1..Len(scopeQueue) : scopeQueue[i] # m) /\ UNCHANGED scopeQueue
  /\ UNCHANGED <<running, entry, paused, signal, pc, tries, clearing>>

\* MutationCache::clear: the entries ...
ClearEntries ==
  /\ "clear" \in Ops
  /\ Quiet
  /\ ~clearing
  /\ entry' = [m \in Mutations |-> "none"]
  /\ paused' = [m \in Mutations |-> paused[m] /\ entry[m] = "none"]
  /\ clearing' = TRUE
  /\ UNCHANGED <<running, scopeQueue, signal, pc, tries, removing>>

\* ... then every scope, a running one included.
ClearScopes ==
  /\ clearing
  /\ clearing' = FALSE
  /\ running' = FALSE
  /\ scopeQueue' = <<>>
  /\ UNCHANGED <<entry, paused, signal, pc, tries, removing>>

\* resume_paused_mutations flips the flags and wakes nobody.
ResumePaused ==
  /\ "resume_paused" \in Ops
  /\ Quiet
  /\ \E m \in Mutations : paused[m] /\ entry[m] # "none"
  /\ paused' = [m \in Mutations |-> paused[m] /\ entry[m] = "none"]
  /\ UNCHANGED <<running, scopeQueue, entry, signal, pc, tries, app>>

\* The future is dropped at a suspension point (aborted task, dropped handle);
\* nothing of the scope is undone.
DropFuture(m) ==
  /\ \/ "drop_waiting" \in Ops /\ pc[m] = "parked"
     \/ "drop_running" \in Ops /\ pc[m] \in {"mutating", "sleeping"}
  /\ Quiet
  /\ Goto(m, "dropped")
  /\ UNCHANGED <<running, scopeQueue, entry, paused, signal, tries, app>>

ScopeNext ==
  \/ \E m \in Mutations : \/ AddToScope(m) \/ Step(m)
                          \/ RemoveEntry(m) \/ SpliceQueue(m) \/ DropFuture(m)
  \/ ClearEntries
  \/ ClearScopes
  \/ ResumePaused

\* A submitted mutation is polled when it can go on and its mutate_fn resolves,
\* and a thread inside remove or clear goes on.
ScopeFairness ==
  /\ \A m \in Mutations : WF_scopeVars(Step(m)) /\ WF_scopeVars(SpliceQueue(m))
  /\ WF_scopeVars(ClearScopes)

ScopeSpec == ScopeInit /\ [][ScopeNext]_scopeVars /\ ScopeFairness
-----------------------------------------------------------------------------
(***************************************************************************)
(* Properties                                                              *)
(***************************************************************************)

\* Type correctness of the scope, the entries and the executions; in
\* particular retries_used never exceeds mutation.retry.
ScopeTypeOK ==
  /\ running \in BOOLEAN
  /\ scopeQueue \in Seq(Mutations)
  /\ entry \in [Mutations -> {"none", "Pending", "Success", "Error"}]
  /\ paused \in [Mutations -> BOOLEAN]
  /\ signal \in [Mutations -> BOOLEAN]
  /\ pc \in [Mutations -> Places]
  /\ tries \in [Mutations -> 0..Retry]
  /\ removing \subseteq Mutations
  /\ clearing \in BOOLEAN

\* mutation_cache.rs:6 "mutations sharing a MutationScope run one at a time".
ScopeMutex ==
  \A m, n \in Mutations : pc[m] \in Holding /\ pc[n] \in Holding => m = n

\* The running flag belongs to somebody who will reset it: while it is set, a
\* mutation is between mark_running and mark_finished, even when clear() let
\* several of them into the scope.
RunningHasHolder == running => \E m \in Mutations : pc[m] \in Holding

\* No lost release: a mutation that parks without an unseen release waits for
\* a mutation of the scope that has not yet reached notify_scope (mutation.rs
\* subscribes before it asks can_run; clear() itself wakes nobody).
NoLostRelease ==
  \A m \in Mutations :
    pc[m] = "parked" /\ ~signal[m]
      => \E n \in Mutations : pc[n] \in Holding \cup {"announce"}

\* A release is owed by somebody as long as it is waited for.
ReleaseIsOwed == RunningHasHolder /\ NoLostRelease

\* The queue cannot outlive the mutations: once every submitted mutation has
\* finished, run_next has popped every queued id.
QueueDrains ==
  (\A m \in Mutations : pc[m] \in {"new", "done"}) => scopeQueue = <<>>

\* Every submitted mutation settles: no wakeup of the scope is lost and the
\* scope is always released.
EveryMutationSettles ==
  \A m \in Mutations : (pc[m] = "adding") ~> (pc[m] \in Gone)
=============================================================================
