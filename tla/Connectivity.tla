---------------------------- MODULE Connectivity ----------------------------
(***************************************************************************)
(* Everything that waits for connectivity: the OnlineManager (flag and     *)
(* watch cell, src/network.rs), the attempt loop of the Retryer            *)
(* (src/retryer.rs), the pause of the query executor (wait_for_online,     *)
(* src/executor.rs) and the reconnect watcher that QueryClient::mount      *)
(* spawns (src/client.rs).                                                 *)
(*                                                                         *)
(* A loop of Loops runs one operation with retries, either as              *)
(* Retryer::run or as the executor's own loop.  Watchers are the tasks     *)
(* spawned by mount.  Threads call set_online, mount and unmount.  Whether *)
(* all of this runs on one thread or on a worker pool is chosen initially: *)
(* on one thread whoever runs goes on to its next suspension point.        *)
(***************************************************************************)
EXTENDS Integers, FiniteSets, Watch

CONSTANTS
  Loops,        \* operations with retries
  Watchers,     \* reconnect watchers that may be spawned
  Threads,      \* application threads
  Setups,       \* what may be going on (AllSetups)
  NoWatcher,    \* no stop handle is stored
  MaxFailures   \* bound: failures of one operation

\* A setup says where tasks run (a worker pool or one thread), which loop the
\* operations run in, their network mode and their RetryDecision (with the n of
\* Count(n)), and bounds the runs of an operation, the calls of mount and the losses
\* of connectivity.
RetryDecisions == [on : {"Never", "Count", "Always", "Function"}, count : Nat]
AllSetups == [pool : BOOLEAN,
              kind : {"retryer", "executor"},
              mode : {"Online", "Always", "OfflineFirst"},
              decision : RetryDecisions,
              maxRuns : Nat,
              maxMounts : Nat,
              maxDrops : Nat]

\* Where a thread stands in its method; one that has spawned a watcher stands at it.
ThreadPlaces == {"idle", "attach", "take", "store TRUE", "store FALSE", "send TRUE", "send FALSE"}

\* Tasks and threads are different things.
ASSUME ConnectivityAssumption ==
  /\ IsFiniteSet(Watchers) /\ IsFiniteSet(Threads)
  /\ Loops \cap Watchers = {} /\ Loops \cap Threads = {} /\ Watchers \cap Threads = {}
  /\ Watchers \cap ThreadPlaces = {}
  /\ \A s \in Setups : s \in AllSetups
  /\ NoWatcher \notin Watchers
  /\ MaxFailures \in Nat

VARIABLES
  setup,      \* the setup, chosen initially
  online,     \* OnlineManager.online
  cell,       \* OnlineManager.tx
  pc,         \* loop -> where it stands
  failures,   \* loop -> failure_count (the executor's attempts - 1)
  paused,     \* loop -> is_paused
  token,      \* loop -> its cancellation token is cancelled
  seen,       \* loop or watcher -> last_seen of its connectivity watcher
  woken,      \* loops and watchers whose waker was called since their last poll
  runs,       \* loop -> times it was run
  mountCount, \* mount_count
  handle,     \* reconnect_task: the watcher whose stop sender is stored
  wpc,        \* watcher -> where its task stands
  stop,       \* watcher -> its stop cell
  at,         \* thread -> where it stands in its method
  held,       \* mounts that returned and were not unmounted
  due,        \* ghost: watchers that were subscribed when connectivity came back
              \* and have not handled it
  drops,      \* connectivity losses (bounded by the setup)
  mounts      \* mount calls (bounded by the setup)

netVars    == <<online, cell, due, drops>>
loopVars   == <<pc, failures, paused, token, runs>>
mountVars  == <<mountCount, handle, wpc, stop, held, mounts>>
vars == <<setup, netVars, loopVars, mountVars, seen, woken, at>>

Tasks == Loops \cup Watchers
Asleep(t) == IF t \in Loops THEN pc[t] = "asleep" ELSE wpc[t] = "asleep"
LiveWatchers == {w \in Watchers : wpc[w] \notin {"none", "stopped"}}

\* Where a loop is suspended or not started.
LoopRests == {"new", "attempt", "asleep", "backoff", "done"}
LoopPlaces == LoopRests \cup {"top", "subscribe", "check", "recheck", "poll", "gate"}
WatcherRests == {"none", "ready", "asleep", "stopped"}

\* On one thread only the one that is between two suspension points may run.
MayRun(x) ==
  \/ setup.pool
  \/ /\ \A l \in Loops \ {x} : pc[l] \in LoopRests
     /\ \A w \in Watchers \ {x} : wpc[w] \in WatcherRests
     /\ \A t \in Threads \ {x} : at[t] = "idle"

\* network.rs can_retry.
CanRetry == setup.mode \in {"Online", "OfflineFirst"} => online

\* RetryDecision::should_retry; a Function may say either.
ShouldRetry(attempt) ==
  \/ setup.decision.on \in {"Always", "Function"}
  \/ setup.decision.on = "Count" /\ attempt < setup.decision.count
ShouldGiveUp(attempt) == setup.decision.on = "Function" \/ ~ShouldRetry(attempt)

Init ==
  /\ setup \in Setups
  /\ online = TRUE
  /\ cell = NewCell(TRUE)
  /\ pc = [l \in Loops |-> "new"]
  /\ failures = [l \in Loops |-> 0]
  /\ paused = [l \in Loops |-> FALSE]
  /\ token = [l \in Loops |-> FALSE]
  /\ seen = [t \in Tasks |-> 0]
  /\ woken = {}
  /\ runs = [l \in Loops |-> 0]
  /\ mountCount = 0
  /\ handle = NoWatcher
  /\ wpc = [w \in Watchers |-> "none"]
  /\ stop = [w \in Watchers |-> NewCell(FALSE)]
  /\ at = [t \in Threads |-> "idle"]
  /\ held = 0
  /\ due = {}
  /\ drops = 0
  /\ mounts = 0

-----------------------------------------------------------------------------
(***************************************************************************)
(* The attempt loop of an operation                                        *)
(***************************************************************************)

Goto(l, place) == pc' = [pc EXCEPT ![l] = place]

\* run is called; a Retryer that is run again keeps its failure_count, the
\* executor counts from zero.
Start(l) ==
  /\ pc[l] \in {"new", "done"}
  /\ runs[l] < setup.maxRuns
  /\ MayRun(l)
  /\ runs' = [runs EXCEPT ![l] = @ + 1]
  /\ token' = [token EXCEPT ![l] = FALSE]
  /\ failures' = IF setup.kind = "executor" THEN [failures EXCEPT ![l] = 0] ELSE failures
  /\ Goto(l, "top")
  /\ UNCHANGED <<setup, netVars, mountVars, paused, seen, woken, at>>

\* The top of the loop.  The Retryer pauses here before a retry; the executor
\* looks at the token, never at the connectivity.
Top(l) ==
  /\ pc[l] = "top" /\ MayRun(l)
  /\ \/ /\ setup.kind = "retryer"
        /\ LET pauses == ~CanRetry /\ failures[l] > 0
           IN /\ Goto(l, IF pauses THEN "subscribe" ELSE "attempt")
              /\ paused' = [paused EXCEPT ![l] = pauses]
     \/ /\ setup.kind = "executor"
        /\ Goto(l, IF token[l] THEN "done" ELSE "attempt")
        /\ UNCHANGED paused
  /\ UNCHANGED <<setup, netVars, mountVars, failures, token, runs, seen, woken, at>>

MutSubscribe(l) ==
  /\ pc[l] = "subscribe" /\ MayRun(l)
  /\ seen' = [seen EXCEPT ![l] = SubscribedAt(cell)]
  /\ Goto(l, "poll")
  /\ UNCHANGED <<setup, netVars, mountVars, failures, paused, token, runs, woken, at>>

\* online.subscribe().
Subscribe(l) ==
  /\ pc[l] = "subscribe" /\ MayRun(l)
  /\ seen' = [seen EXCEPT ![l] = SubscribedAt(cell)]
  /\ Goto(l, "check")
  /\ UNCHANGED <<setup, netVars, mountVars, failures, paused, token, runs, woken, at>>

\* The top of the wait: the Retryer looks at its token only, wait_for_online
\* at the token and at the connectivity.
Check(l) ==
  /\ pc[l] = "check" /\ MayRun(l)
  /\ \/ /\ token[l]
        /\ Goto(l, "done")
        /\ paused' = [paused EXCEPT ![l] = FALSE]
     \/ /\ ~token[l] /\ setup.kind = "executor" /\ CanRetry
        /\ Goto(l, "backoff")
        /\ paused' = [paused EXCEPT ![l] = FALSE]
     \/ /\ ~token[l] /\ ~(setup.kind = "executor" /\ CanRetry)
        /\ Goto(l, "poll")
        /\ UNCHANGED paused
  /\ UNCHANGED <<setup, netVars, mountVars, failures, token, runs, seen, woken, at>>

\* rx.changed() is polled, at once or when the task was woken.  The executor
\* polls it raced with the token (run_until_cancelled), the Retryer does not.
PollChanged(l) ==
  /\ pc[l] = "poll" \/ (pc[l] = "asleep" /\ l \in woken)
  /\ MayRun(l)
  /\ woken' = woken \ {l}
  /\ \/ /\ setup.kind = "executor" /\ token[l]
        /\ Goto(l, "done")
        /\ paused' = [paused EXCEPT ![l] = FALSE]
        /\ UNCHANGED <<cell, seen>>
     \/ /\ ~(setup.kind = "executor" /\ token[l])
        /\ UNCHANGED paused
        /\ IF HasChanged(cell, seen[l])
           THEN /\ seen' = [seen EXCEPT ![l] = cell.version]
                /\ Goto(l, IF setup.kind = "executor" THEN "check" ELSE "recheck")
                /\ UNCHANGED cell
           ELSE /\ cell' = Registered(cell, l)
                /\ Goto(l, "asleep")
                /\ UNCHANGED seen
  /\ UNCHANGED <<setup, online, due, drops, mountVars, failures, token, runs, at>>

MutRecheckOnline(l) ==
  /\ pc[l] = "recheck" /\ MayRun(l)
  /\ Goto(l, IF online THEN "attempt" ELSE "check")
  /\ UNCHANGED <<setup, netVars, mountVars, failures, paused, token, runs, seen, woken, at>>

\* The Retryer reads the flag after a change: back to work, or wait again.
RecheckOnline(l) ==
  /\ pc[l] = "recheck" /\ MayRun(l)
  /\ Goto(l, IF online THEN "attempt" ELSE "check")
  /\ paused' = [paused EXCEPT ![l] = ~online]
  /\ UNCHANGED <<setup, netVars, mountVars, failures, token, runs, seen, woken, at>>

\* The task resolves with a value, or with Cancelled (the executor's
\* cancellable_fetch does that for it).
TaskEnds(l) ==
  /\ pc[l] = "attempt" /\ MayRun(l)
  /\ Goto(l, "done")
  /\ UNCHANGED <<setup, netVars, mountVars, failures, paused, token, runs, seen, woken, at>>

\* The task fails.  The Retryer backs off and then pauses at the top, the
\* executor pauses first (Gate) and then backs off.
TaskFails(l) ==
  /\ pc[l] = "attempt" /\ MayRun(l)
  /\ failures[l] < MaxFailures
  /\ failures' = [failures EXCEPT ![l] = @ + 1]
  /\ \/ /\ ShouldRetry(failures[l])
        /\ Goto(l, IF setup.kind = "executor" THEN "gate" ELSE "backoff")
     \/ /\ ShouldGiveUp(failures[l])
        /\ Goto(l, "done")
  /\ UNCHANGED <<setup, netVars, mountVars, paused, token, runs, seen, woken, at>>

\* The executor's can_retry before its backoff.
Gate(l) ==
  /\ pc[l] = "gate" /\ MayRun(l)
  /\ Goto(l, IF CanRetry THEN "backoff" ELSE "subscribe")
  /\ paused' = [paused EXCEPT ![l] = ~CanRetry]
  /\ UNCHANGED <<setup, netVars, mountVars, failures, token, runs, seen, woken, at>>

\* The timer (SleepProvider::sleep) is over.
BackoffEnds(l) ==
  /\ pc[l] = "backoff" /\ MayRun(l)
  /\ Goto(l, "top")
  /\ UNCHANGED <<setup, netVars, mountVars, failures, paused, token, runs, seen, woken, at>>

LoopStep(l) ==
  \/ Top(l) \/ Subscribe(l) \/ Check(l) \/ PollChanged(l) \/ RecheckOnline(l)
  \/ TaskEnds(l) \/ TaskFails(l) \/ Gate(l) \/ BackoffEnds(l)

\* The owner cancels the token, which wakes the executor's parked race.
Cancel(l) ==
  /\ pc[l] \notin {"new", "done"} /\ ~token[l] /\ MayRun(l)
  /\ token' = [token EXCEPT ![l] = TRUE]
  /\ woken' = IF setup.kind = "executor" /\ Asleep(l) THEN woken \cup {l} ELSE woken
  /\ UNCHANGED <<setup, netVars, mountVars, pc, failures, paused, runs, seen, at>>

-----------------------------------------------------------------------------
(***************************************************************************)
(* set_online                                                              *)
(***************************************************************************)

Arrive(t, place) == at' = [at EXCEPT ![t] = place]

\* set_online(b) finds the flag different.
SetOnline(t, b) ==
  /\ at[t] = "idle" /\ MayRun(t)
  /\ online # b
  /\ ~b => drops < setup.maxDrops
  /\ drops' = IF b THEN drops ELSE drops + 1
  /\ Arrive(t, IF b THEN "store TRUE" ELSE "store FALSE")
  /\ UNCHANGED <<setup, online, cell, due, loopVars, mountVars, seen, woken>>

StoreOnline(t, b) ==
  /\ at[t] = (IF b THEN "store TRUE" ELSE "store FALSE") /\ MayRun(t)
  /\ online' = b
  /\ Arrive(t, IF b THEN "send TRUE" ELSE "send FALSE")
  /\ UNCHANGED <<setup, cell, due, drops, loopVars, mountVars, seen, woken>>

\* tx.send(online).
SendOnline(t, b) ==
  /\ at[t] = (IF b THEN "send TRUE" ELSE "send FALSE") /\ MayRun(t)
  /\ cell' = Sent(cell, b)
  /\ woken' = woken \cup Wakes(cell)
  /\ due' = IF b THEN {w \in LiveWatchers : stop[w].value = FALSE} ELSE {}
  /\ Arrive(t, "idle")
  /\ UNCHANGED <<setup, online, drops, loopVars, mountVars, seen>>

-----------------------------------------------------------------------------
(***************************************************************************)
(* mount, unmount and the reconnect watcher                                *)
(***************************************************************************)

\* mount raises the count; only the first one goes on.
Mount(t) ==
  /\ at[t] = "idle" /\ MayRun(t)
  /\ mounts < setup.maxMounts
  /\ mounts' = mounts + 1
  /\ mountCount' = mountCount + 1
  /\ IF mountCount = 0 THEN Arrive(t, "attach") /\ UNCHANGED held
                       ELSE UNCHANGED at /\ held' = held + 1
  /\ UNCHANGED <<setup, netVars, loopVars, handle, wpc, stop, seen, woken>>

\* It subscribes, makes the stop cell and spawns the watcher ...
SpawnWatcher(t, w) ==
  /\ at[t] = "attach" /\ MayRun(t)
  /\ wpc[w] = "none"
  /\ wpc' = [wpc EXCEPT ![w] = "ready"]
  /\ seen' = [seen EXCEPT ![w] = SubscribedAt(cell)]
  /\ stop' = [stop EXCEPT ![w] = NewCell(FALSE)]
  /\ at' = [at EXCEPT ![t] = w]
  /\ UNCHANGED <<setup, netVars, loopVars, mountCount, handle, held, mounts, woken>>

\* ... and stores the stop sender, over whatever was there.
KeepHandle(t) ==
  /\ at[t] \in Watchers /\ MayRun(t)
  /\ handle' = at[t]
  /\ held' = held + 1
  /\ Arrive(t, "idle")
  /\ UNCHANGED <<setup, netVars, loopVars, mountCount, wpc, stop, mounts, seen, woken>>

\* unmount, paired with a mount that returned: only the last one goes on.
Unmount(t) ==
  /\ at[t] = "idle" /\ MayRun(t)
  /\ held > 0
  /\ held' = held - 1
  /\ mountCount' = mountCount - 1
  /\ IF mountCount = 1 THEN Arrive(t, "take") ELSE UNCHANGED at
  /\ UNCHANGED <<setup, netVars, loopVars, handle, wpc, stop, mounts, seen, woken>>

MutStopWatcher(t) ==
  /\ at[t] = "take" /\ MayRun(t)
  /\ handle' = NoWatcher
  /\ Arrive(t, "idle")
  /\ UNCHANGED <<setup, netVars, loopVars, mountCount, wpc, stop, held, mounts, seen, woken>>

\* It takes the stop sender, if there is one, and sends.
StopWatcher(t) ==
  /\ at[t] = "take" /\ MayRun(t)
  /\ handle' = NoWatcher
  /\ IF handle = NoWatcher
     THEN UNCHANGED <<stop, woken, due>>
     ELSE /\ stop' = [stop EXCEPT ![handle] = Sent(@, TRUE)]
          /\ woken' = woken \cup Wakes(stop[handle])
          /\ due' = due \ {handle}
  /\ Arrive(t, "idle")
  /\ UNCHANGED <<setup, online, cell, drops, loopVars, mountCount, wpc, held, mounts, seen>>

\* One poll of the select: the stop signal first, then connectivity.  The
\* stop cell is sent to once, so its watcher has last_seen 0 until then.
WatcherPoll(w) ==
  /\ wpc[w] \in {"ready", "poll"} \/ (wpc[w] = "asleep" /\ w \in woken)
  /\ MayRun(w)
  /\ woken' = woken \ {w}
  /\ \/ /\ HasChanged(stop[w], 0)
        /\ wpc' = [wpc EXCEPT ![w] = "stopped"]
        /\ UNCHANGED <<cell, stop, seen>>
     \/ /\ ~HasChanged(stop[w], 0)
        /\ stop' = [stop EXCEPT ![w] = Registered(@, w)]
        /\ IF HasChanged(cell, seen[w])
           THEN /\ seen' = [seen EXCEPT ![w] = cell.version]
                /\ wpc' = [wpc EXCEPT ![w] = "borrow"]
                /\ UNCHANGED cell
           ELSE /\ cell' = Registered(cell, w)
                /\ wpc' = [wpc EXCEPT ![w] = "asleep"]
                /\ UNCHANGED seen
  /\ UNCHANGED <<setup, online, due, drops, loopVars, mountCount, handle, held, mounts, at>>

\* rx.borrow(): connectivity was restored, or lost.
WatcherBorrow(w) ==
  /\ wpc[w] = "borrow" /\ MayRun(w)
  /\ seen' = [seen EXCEPT ![w] = Borrowed(cell).seen]
  /\ wpc' = [wpc EXCEPT ![w] = IF Borrowed(cell).value THEN "reconnect" ELSE "poll"]
  /\ UNCHANGED <<setup, netVars, loopVars, mountCount, handle, stop, held, mounts, woken, at>>

\* handle_reconnect, whose effect on the cache is in QueryFetch.
WatcherReconnect(w) ==
  /\ wpc[w] = "reconnect" /\ MayRun(w)
  /\ due' = due \ {w}
  /\ wpc' = [wpc EXCEPT ![w] = "poll"]
  /\ UNCHANGED <<setup, online, cell, drops, loopVars, mountCount, handle, stop, held, mounts, seen, woken, at>>

WatcherStep(w) == WatcherPoll(w) \/ WatcherBorrow(w) \/ WatcherReconnect(w)

\* A thread inside a method goes on.
ThreadStep(t) ==
  \/ \E b \in BOOLEAN : StoreOnline(t, b) \/ SendOnline(t, b)
  \/ \E w \in Watchers : SpawnWatcher(t, w)
  \/ KeepHandle(t) \/ StopWatcher(t)

Next ==
  \/ \E l \in Loops : LoopStep(l) \/ Start(l) \/ Cancel(l)
  \/ \E w \in Watchers : WatcherStep(w)
  \/ \E t \in Threads :
       \/ ThreadStep(t) \/ Mount(t) \/ Unmount(t)
       \/ \E b \in BOOLEAN : SetOnline(t, b)

\* Woken tasks are polled, attempts and timers end, a thread inside a method
\* goes on, and connectivity comes back.
Fairness ==
  /\ \A l \in Loops : WF_vars(LoopStep(l))
  /\ \A w \in Watchers : WF_vars(WatcherStep(w))
  /\ \A t \in Threads : WF_vars(ThreadStep(t))
  /\ WF_vars(\E t \in Threads : SetOnline(t, TRUE))

Spec == Init /\ [][Next]_vars /\ Fairness
-----------------------------------------------------------------------------
(***************************************************************************)
(* Properties                                                              *)
(***************************************************************************)

\* Type correctness of the connectivity state; in particular the mount count
\* never goes below zero while unmounts are paired with mounts.
TypeOK ==
  /\ setup \in Setups
  /\ online \in BOOLEAN
  /\ cell \in Cells(BOOLEAN, Tasks)
  /\ pc \in [Loops -> LoopPlaces]
  /\ failures \in [Loops -> 0..MaxFailures]
  /\ paused \in [Loops -> BOOLEAN]
  /\ token \in [Loops -> BOOLEAN]
  /\ seen \in [Tasks -> Nat]
  /\ woken \subseteq Tasks
  /\ runs \in [Loops -> Nat]
  /\ mountCount \in Nat
  /\ handle \in Watchers \cup {NoWatcher}
  /\ wpc \in [Watchers -> WatcherRests \cup {"poll", "borrow", "reconnect"}]
  /\ stop \in [Watchers -> Cells(BOOLEAN, Watchers)]
  /\ at \in [Threads -> ThreadPlaces \cup Watchers]
  /\ held \in Nat
  /\ due \subseteq Watchers
  /\ drops \in Nat
  /\ mounts \in Nat

\* A task that sleeps in changed() was woken if anything it waits for happened
\* since it last looked: a send to the connectivity cell, the stop signal, or
\* the cancellation that the executor races with (watch.rs send and poll).
NoLostWake ==
  /\ \A t \in Tasks : Asleep(t) /\ t \notin woken =>
       ~HasChanged(cell, seen[t]) /\ t \in cell.waiters
  /\ \A w \in Watchers : Asleep(w) /\ w \notin woken => ~HasChanged(stop[w], 0)
  /\ \A l \in Loops : Asleep(l) /\ setup.kind = "executor" /\ token[l] => l \in woken

\* A loop that sleeps unwoken is really barred by the connectivity, except
\* while a thread is still about to announce a change.  On the pool this is a
\* promise of wait_for_online only, which subscribes before it looks at the
\* flag; the Retryer looks first (retryer.rs:165) and keeps it on one thread.
ParkedMeansOffline ==
  \A l \in Loops :
    Asleep(l) /\ l \notin woken /\ (setup.kind = "executor" \/ ~setup.pool) =>
      ~online \/ \E t \in Threads : at[t] = "send TRUE"

\* On one thread, between calls, there is exactly one running reconnect
\* watcher while the client is mounted and none that was not told to stop
\* when it is not (client.rs mount, unmount).
WatcherIffMounted ==
  ~setup.pool /\ (\A t \in Threads : at[t] = "idle") =>
    LET running == {w \in LiveWatchers : ~stop[w].value}
    IN IF mountCount = 0 THEN running = {} /\ handle = NoWatcher
                         ELSE running = {handle}

\* A paused operation goes on or ends once connectivity is back or the token
\* is cancelled (retryer.rs "the loop waits on online connectivity",
\* executor.rs wait_for_online): for the executor on any runtime, for the
\* Retryer on one thread.
PausedResumes ==
  \A l \in Loops :
    (paused[l] /\ (setup.kind = "executor" \/ ~setup.pool)) ~> ~paused[l]

\* A watcher that was running when connectivity came back runs
\* handle_reconnect, unless connectivity is lost again or it is stopped first.
ReconnectSeen == \A w \in Watchers : (w \in due) ~> (w \notin due)

\* Nobody sleeps without a reason that still holds: what a sleeping task waits
\* for has not happened since it looked, and a loop is parked only while the
\* connectivity bars it.
SleepIsJustified == TypeOK /\ NoLostWake /\ ParkedMeansOffline

\* Connectivity that comes back reaches everybody who waits for it: paused
\* operations and the watchers of mounted clients.
BackOnline == PausedResumes /\ ReconnectSeen
=============================================================================
