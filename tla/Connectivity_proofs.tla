------------------------ MODULE Connectivity_proofs ------------------------
(***************************************************************************)
(* Proofs about everything that waits for connectivity, for any number of  *)
(* operations, watchers and threads and any setups.                        *)
(***************************************************************************)
EXTENDS Connectivity, FiniteSetTheorems, TLAPS

-----------------------------------------------------------------------------
(***************************************************************************)
(* The inductive invariant                                                 *)
(***************************************************************************)

\* Threads inside a mount that has raised the count and has not returned.
Mounting == {t \in Threads : at[t] = "attach" \/ at[t] \in Watchers}

\* Every unit of the count is a mount that returned or one that is on its way,
\* which keeps an unmount from taking it below zero.
CountInv == mountCount = held + Cardinality(Mounting)

\* Nobody has seen a version that was not sent yet, and a watcher that sleeps
\* left its waker in both cells.
WakerInv ==
  /\ \A t \in Tasks : seen[t] <= cell.version
  /\ \A w \in Watchers : Asleep(w) /\ w \notin woken => w \in stop[w].waiters

\* Somebody is about to announce that connectivity is back.
Announcing == \E t \in Threads : at[t] = "send TRUE"

\* A loop on its way to sleep, or asleep, that has seen the last version sent
\* is barred.  The executor looks at the connectivity after it subscribed, so
\* this holds from its poll on; a Retryer looked before, and nobody else runs
\* in between on one thread.
Retreating(l) ==
  \/ pc[l] \in {"poll", "asleep"} /\ seen[l] = cell.version
  \/ setup.kind = "retryer" /\ pc[l] \in {"subscribe", "check"}
BarredInv ==
  \A l \in Loops :
    Retreating(l) /\ (setup.kind = "executor" \/ ~setup.pool) => ~online \/ Announcing

SleepInv == TypeOK /\ CountInv /\ NoLostWake /\ WakerInv /\ BarredInv

\* The watchers that have not been told to stop.
Running == {w \in LiveWatchers : ~stop[w].value}

\* What is running and what is stored while a thread stands at p: nothing runs
\* yet, the watcher it spawned runs but is not stored, the one it takes still
\* runs, and otherwise exactly what the count says.
Fits(p) ==
  /\ p = "attach" => mountCount = 1 /\ Running = {} /\ handle = NoWatcher
  /\ p \in Watchers => mountCount = 1 /\ Running = {p} /\ handle = NoWatcher
  /\ p = "take" => mountCount = 0 /\ handle \in Watchers /\ Running = {handle}
  /\ p \notin Watchers \cup {"attach", "take"} =>
       IF mountCount = 0 THEN Running = {} /\ handle = NoWatcher
                         ELSE handle \in Watchers /\ Running = {handle}

\* The stop signal is sent once; and on one thread at most one method is under
\* way, whose place fits what is running and stored.
MountInv ==
  /\ \A w \in Watchers : stop[w].version # 0 => stop[w].value
  /\ ~setup.pool =>
       /\ \A t, u \in Threads : at[t] # "idle" /\ at[u] # "idle" => t = u
       /\ \A t \in Threads : at[t] # "idle" => Fits(at[t])
       /\ (\A t \in Threads : at[t] = "idle") => Fits("idle")

-----------------------------------------------------------------------------
(***************************************************************************)
(* The watch cell                                                          *)
(***************************************************************************)

\* What the operators of Watch do to a cell and its fields.
LEMMA CellFacts ==
  ASSUME NEW Values, NEW Ts, NEW c \in Cells(Values, Ts)
  PROVE  /\ c.value \in Values /\ c.version \in Nat /\ c.waiters \subseteq Ts
         /\ Wakes(c) \subseteq Ts
         /\ \A v \in Values : /\ Sent(c, v) \in Cells(Values, Ts)
                              /\ Sent(c, v).version = c.version + 1
                              /\ Sent(c, v).value = v /\ Sent(c, v).waiters = {}
         /\ \A t \in Ts : /\ Registered(c, t) \in Cells(Values, Ts)
                          /\ Registered(c, t).version = c.version
                          /\ Registered(c, t).value = c.value
                          /\ Registered(c, t).waiters = c.waiters \cup {t}
  BY DEF Cells, Sent, Registered, Wakes

LEMMA NewCellFacts ==
  ASSUME NEW Values, NEW Ts, NEW v \in Values
  PROVE  /\ NewCell(v) \in Cells(Values, Ts)
         /\ NewCell(v).version = 0 /\ NewCell(v).value = v /\ NewCell(v).waiters = {}
  BY DEF Cells, NewCell

-----------------------------------------------------------------------------
(***************************************************************************)
(* Type correctness                                                        *)
(***************************************************************************)

LEMMA MountingFinite == IsFiniteSet(Mounting)
  BY ConnectivityAssumption, FS_Subset DEF Mounting

LEMMA TypeInit == Init => TypeOK /\ CountInv
<1> SUFFICES ASSUME Init PROVE TypeOK /\ CountInv
  OBVIOUS
<1>1. /\ cell \in Cells(BOOLEAN, Tasks)
      /\ stop \in [Watchers -> Cells(BOOLEAN, Watchers)]
  BY NewCellFacts DEF Init
<1>2. TypeOK
  <2>1. 0 \in 0 .. MaxFailures
    BY ConnectivityAssumption
  <2> QED
    BY <1>1, <2>1 DEF Init, TypeOK, LoopPlaces, LoopRests, WatcherRests, ThreadPlaces
<1>3. Mounting = {}
  BY ConnectivityAssumption DEF Init, Mounting, ThreadPlaces
<1> QED
  BY <1>2, <1>3, FS_EmptySet DEF Init, CountInv

\* The steps of a loop leave the threads and the mounts alone.
LEMMA LoopType ==
  ASSUME TypeOK, NEW l \in Loops, LoopStep(l) \/ Start(l) \/ Cancel(l)
  PROVE  TypeOK' /\ UNCHANGED <<at, mountVars>>
<1> USE DEF TypeOK, Goto, LoopPlaces, LoopRests, netVars, loopVars, mountVars, Tasks
<1>1. CASE Top(l)
  BY <1>1 DEF Top
<1>2. CASE Subscribe(l)
  BY <1>2, CellFacts DEF Subscribe, SubscribedAt
<1>3. CASE Check(l)
  BY <1>3 DEF Check
<1>4. CASE PollChanged(l)
  <2>1. Registered(cell, l) \in Cells(BOOLEAN, Tasks) /\ cell.version \in Nat
    BY CellFacts
  <2>2. /\ pc' \in [Loops -> LoopPlaces] /\ paused' \in [Loops -> BOOLEAN]
        /\ seen' \in [Tasks -> Nat]
    BY <1>4, <2>1 DEF PollChanged
  <2>3. cell' \in {cell, Registered(cell, l)}
    BY <1>4 DEF PollChanged
  <2> QED
    BY <1>4, <2>1, <2>2, <2>3 DEF PollChanged
<1>5. CASE RecheckOnline(l)
  BY <1>5 DEF RecheckOnline
<1>6. CASE TaskEnds(l)
  BY <1>6 DEF TaskEnds
<1>7. CASE TaskFails(l)
  <2>1. failures[l] + 1 \in 0 .. MaxFailures
    BY <1>7, ConnectivityAssumption DEF TaskFails
  <2> QED
    BY <1>7, <2>1 DEF TaskFails
<1>8. CASE Gate(l)
  BY <1>8 DEF Gate, CanRetry
<1>9. CASE BackoffEnds(l)
  BY <1>9 DEF BackoffEnds
<1>10. CASE Start(l)
  BY <1>10, ConnectivityAssumption DEF Start
<1>11. CASE Cancel(l)
  BY <1>11 DEF Cancel
<1> QED
  BY <1>1, <1>2, <1>3, <1>4, <1>5, <1>6, <1>7, <1>8, <1>9, <1>10, <1>11 DEF LoopStep

LEMMA WatcherType ==
  ASSUME TypeOK, NEW w \in Watchers, WatcherStep(w)
  PROVE  TypeOK' /\ UNCHANGED <<at, held, mountCount, handle>>
<1> USE DEF TypeOK, WatcherRests, netVars, loopVars, mountVars, Tasks
<1>1. CASE WatcherPoll(w)
  <2>1. /\ Registered(cell, w) \in Cells(BOOLEAN, Tasks) /\ cell.version \in Nat
        /\ Registered(stop[w], w) \in Cells(BOOLEAN, Watchers)
    BY CellFacts
  <2>2. /\ wpc' \in [Watchers -> WatcherRests \cup {"poll", "borrow", "reconnect"}]
        /\ seen' \in [Tasks -> Nat] /\ stop' \in [Watchers -> Cells(BOOLEAN, Watchers)]
    BY <1>1, <2>1 DEF WatcherPoll
  <2>3. cell' \in {cell, Registered(cell, w)}
    BY <1>1 DEF WatcherPoll
  <2> QED
    BY <1>1, <2>1, <2>2, <2>3 DEF WatcherPoll
<1>2. CASE WatcherBorrow(w)
  BY <1>2, CellFacts DEF WatcherBorrow, Borrowed
<1>3. CASE WatcherReconnect(w)
  BY <1>3 DEF WatcherReconnect
<1> QED
  BY <1>1, <1>2, <1>3 DEF WatcherStep

\* What a step of a thread does to the threads inside a mount.
LEMMA MountingMoves ==
  ASSUME at \in [Threads -> ThreadPlaces \cup Watchers],
         NEW t \in Threads, NEW place \in ThreadPlaces \cup Watchers,
         at' = [at EXCEPT ![t] = place]
  PROVE  /\ place \notin Watchers \cup {"attach"} => Mounting' = Mounting \ {t}
         /\ place \in Watchers \cup {"attach"} => Mounting' = Mounting \cup {t}
         /\ t \in Mounting <=> at[t] \in Watchers \cup {"attach"}
  BY DEF Mounting

LEMMA ThreadType ==
  ASSUME TypeOK, CountInv, NEW t \in Threads,
         ThreadStep(t) \/ Mount(t) \/ Unmount(t) \/ \E b \in BOOLEAN : SetOnline(t, b)
  PROVE  TypeOK' /\ CountInv'
<1>0. /\ IsFiniteSet(Mounting) /\ Cardinality(Mounting) \in Nat
      /\ Watchers \cap ThreadPlaces = {}
      /\ at \in [Threads -> ThreadPlaces \cup Watchers]
      /\ held \in Nat /\ mountCount \in Nat /\ mountCount = held + Cardinality(Mounting)
  BY MountingFinite, FS_CardinalityType, ConnectivityAssumption DEF CountInv, TypeOK
<1>a. "attach" \in ThreadPlaces
  BY DEF ThreadPlaces
<1>b. ASSUME NEW place \in ThreadPlaces \ {"attach"}, at[t] \in ThreadPlaces \ {"attach"},
             at' = [at EXCEPT ![t] = place]
      PROVE  Mounting' = Mounting
  <2>1. place \notin Watchers \cup {"attach"} /\ at[t] \notin Watchers \cup {"attach"}
    BY <1>0, <1>b
  <2>2. t \notin Mounting
    BY <2>1 DEF Mounting
  <2>3. Mounting' = Mounting \ {t}
    BY <1>0, <1>b, <2>1, MountingMoves
  <2> QED
    BY <2>2, <2>3
<1>s. UNCHANGED <<held, mountCount, Mounting>> => CountInv'
  BY <1>0 DEF CountInv
<1> USE DEF Arrive, netVars, loopVars, mountVars
<1>1. ASSUME NEW b \in BOOLEAN, SetOnline(t, b) \/ StoreOnline(t, b) \/ SendOnline(t, b)
      PROVE  TypeOK' /\ CountInv'
  <2>1. /\ at[t] \in ThreadPlaces \ {"attach"}
        /\ \E place \in ThreadPlaces \ {"attach"} : at' = [at EXCEPT ![t] = place]
    BY <1>1 DEF SetOnline, StoreOnline, SendOnline, ThreadPlaces
  <2>2. Mounting' = Mounting
    BY <1>b, <2>1
  <2>3. held' = held /\ mountCount' = mountCount
    BY <1>1 DEF SetOnline, StoreOnline, SendOnline
  <2>4. Sent(cell, b) \in Cells(BOOLEAN, Tasks) /\ Wakes(cell) \subseteq Tasks
    BY CellFacts DEF TypeOK
  <2>5. LiveWatchers \subseteq Watchers
    BY DEF LiveWatchers
  <2>6. /\ online' \in {online, b} /\ cell' \in {cell, Sent(cell, b)}
        /\ due' \in {due, {}, {w \in LiveWatchers : stop[w].value = FALSE}}
        /\ drops' \in {drops, drops + 1} /\ woken' \in {woken, woken \cup Wakes(cell)}
        /\ UNCHANGED <<setup, loopVars, mountVars, seen>>
    BY <1>1 DEF SetOnline, StoreOnline, SendOnline
  <2>7. at' \in [Threads -> ThreadPlaces \cup Watchers]
    BY <1>0, <2>1
  <2>8. TypeOK'
    <3>1. /\ online' \in BOOLEAN /\ cell' \in Cells(BOOLEAN, Tasks) /\ due' \subseteq Watchers
          /\ drops' \in Nat /\ woken' \subseteq Tasks
      BY <2>4, <2>5, <2>6 DEF TypeOK
    <3> QED
      BY <2>6, <2>7, <3>1 DEF TypeOK
  <2> QED
    BY <1>s, <2>2, <2>3, <2>8
<1>2. CASE Mount(t)
  <2>1. at[t] = "idle" /\ t \notin Mounting
    BY <1>0, <1>2 DEF Mount, Mounting, ThreadPlaces
  <2>2. TypeOK'
    <3>1. /\ at' \in [Threads -> ThreadPlaces \cup Watchers]
          /\ mountCount' \in Nat /\ held' \in Nat /\ mounts' \in Nat
      BY <1>0, <1>2, <1>a DEF Mount, TypeOK
    <3> QED
      BY <1>2, <3>1 DEF Mount, TypeOK
  <2>3. CASE mountCount = 0
    <3>1. Mounting' = Mounting \cup {t}
      <4>1. at' = [at EXCEPT ![t] = "attach"]
        BY <1>2, <2>3 DEF Mount
      <4> QED
        BY <1>0, <1>a, <4>1, MountingMoves
    <3>2. Cardinality(Mounting') = Cardinality(Mounting) + 1
      BY <1>0, <2>1, <3>1, FS_AddElement
    <3> QED
      BY <1>0, <1>2, <2>2, <2>3, <3>2 DEF Mount, CountInv
  <2>4. CASE mountCount # 0
    <3>1. Mounting' = Mounting /\ held' = held + 1 /\ mountCount' = mountCount + 1
      BY <1>2, <2>4 DEF Mount, Mounting
    <3> QED
      BY <1>0, <2>2, <3>1 DEF CountInv
  <2> QED
    BY <2>3, <2>4
<1>3. ASSUME NEW w \in Watchers, SpawnWatcher(t, w) PROVE TypeOK' /\ CountInv'
  <2>1. at' = [at EXCEPT ![t] = w] /\ at[t] = "attach"
    BY <1>3 DEF SpawnWatcher
  <2>2. Mounting' = Mounting
    BY <1>0, <2>1, MountingMoves
  <2>3. NewCell(FALSE) \in Cells(BOOLEAN, Watchers) /\ cell.version \in Nat
    BY NewCellFacts, CellFacts DEF TypeOK
  <2>4. TypeOK'
    <3>1. at' \in [Threads -> ThreadPlaces \cup Watchers]
      BY <1>0, <2>1
    <3> QED
      BY <1>3, <2>3, <3>1 DEF SpawnWatcher, SubscribedAt, WatcherRests, TypeOK, Tasks
  <2> QED
    BY <1>s, <1>3, <2>2, <2>4 DEF SpawnWatcher
<1>4. CASE KeepHandle(t)
  <2>1. /\ at[t] \in Watchers /\ at' = [at EXCEPT ![t] = "idle"]
        /\ "idle" \in ThreadPlaces /\ "idle" # "attach"
    BY <1>4 DEF KeepHandle, ThreadPlaces
  <2>2. t \in Mounting /\ Mounting' = Mounting \ {t}
    <3>1. "idle" \notin Watchers \cup {"attach"}
      BY <1>0, <2>1
    <3> QED
      BY <1>0, <2>1, <3>1, MountingMoves
  <2>3. Cardinality(Mounting') = Cardinality(Mounting) - 1
    BY <1>0, <2>2, FS_RemoveElement
  <2>4. TypeOK'
    <3>1. at' \in [Threads -> ThreadPlaces \cup Watchers]
      BY <1>0, <2>1
    <3> QED
      BY <1>4, <2>1, <3>1 DEF KeepHandle, TypeOK
  <2>5. held' = held + 1 /\ mountCount' = mountCount
    BY <1>4 DEF KeepHandle
  <2> QED
    BY <1>0, <2>3, <2>4, <2>5 DEF CountInv
<1>5. CASE Unmount(t)
  <2>1. /\ at[t] = "idle" /\ held > 0 /\ held' = held - 1 /\ mountCount' = mountCount - 1
        /\ at' = at \/ at' = [at EXCEPT ![t] = "take"]
    BY <1>5 DEF Unmount
  <2>2. Mounting' = Mounting
    <3>1. {"idle", "take"} \subseteq ThreadPlaces \ {"attach"}
      BY DEF ThreadPlaces
    <3>2. CASE at' = at
      BY <3>2 DEF Mounting
    <3> QED
      BY <1>b, <2>1, <3>1, <3>2
  <2>3. held' \in Nat /\ mountCount' \in Nat
    BY <1>0, <2>1
  <2>4. at' \in [Threads -> ThreadPlaces \cup Watchers]
    BY <1>0, <2>1 DEF ThreadPlaces
  <2>5. TypeOK'
    BY <1>5, <2>3, <2>4 DEF Unmount, TypeOK
  <2> QED
    BY <1>0, <2>1, <2>2, <2>5 DEF CountInv
<1>6. CASE StopWatcher(t)
  <2>1. at[t] = "take" /\ at' = [at EXCEPT ![t] = "idle"]
    BY <1>6 DEF StopWatcher
  <2>2. Mounting' = Mounting
    BY <1>b, <2>1 DEF ThreadPlaces
  <2>3. handle # NoWatcher =>
          Sent(stop[handle], TRUE) \in Cells(BOOLEAN, Watchers) /\ Wakes(stop[handle]) \subseteq Watchers
    BY CellFacts DEF TypeOK
  <2>4. stop' \in [Watchers -> Cells(BOOLEAN, Watchers)] /\ woken' \subseteq Tasks /\ due' \subseteq Watchers
    BY <1>6, <2>3 DEF StopWatcher, TypeOK, Tasks
  <2>5. at' \in [Threads -> ThreadPlaces \cup Watchers]
    BY <1>0, <2>1 DEF ThreadPlaces
  <2>6. TypeOK'
    BY <1>6, <2>4, <2>5 DEF StopWatcher, TypeOK
  <2> QED
    BY <1>s, <1>6, <2>2, <2>6 DEF StopWatcher
<1> QED
  BY <1>1, <1>2, <1>3, <1>4, <1>5, <1>6 DEF ThreadStep

LEMMA TypeStep == TypeOK /\ CountInv /\ [Next]_vars => TypeOK' /\ CountInv'
<1> SUFFICES ASSUME TypeOK, CountInv, [Next]_vars PROVE TypeOK' /\ CountInv'
  OBVIOUS
<1>1. CASE UNCHANGED vars
  BY <1>1 DEF vars, netVars, loopVars, mountVars, TypeOK, CountInv, Mounting
<1>2. ASSUME NEW l \in Loops, LoopStep(l) \/ Start(l) \/ Cancel(l) PROVE TypeOK' /\ CountInv'
  BY <1>2, LoopType DEF CountInv, Mounting, mountVars
<1>3. ASSUME NEW w \in Watchers, WatcherStep(w) PROVE TypeOK' /\ CountInv'
  BY <1>3, WatcherType DEF CountInv, Mounting
<1> QED
  BY <1>1, <1>2, <1>3, ThreadType DEF Next

-----------------------------------------------------------------------------
(***************************************************************************)
(* No lost wake                                                            *)
(***************************************************************************)

LEMMA Disjoint ==
  /\ \A l \in Loops : l \in Tasks /\ l \notin Watchers /\ (Asleep(l) <=> pc[l] = "asleep")
  /\ \A w \in Watchers : w \in Tasks /\ w \notin Loops /\ (Asleep(w) <=> wpc[w] = "asleep")
  /\ \A l \in Loops : Asleep(l)' <=> pc'[l] = "asleep"
  /\ \A w \in Watchers : Asleep(w)' <=> wpc'[w] = "asleep"
  BY ConnectivityAssumption DEF Tasks, Asleep

LEMMA Typed ==
  ASSUME TypeOK
  PROVE  /\ cell \in Cells(BOOLEAN, Tasks) /\ seen \in [Tasks -> Nat]
         /\ pc \in [Loops -> LoopPlaces] /\ token \in [Loops -> BOOLEAN]
         /\ wpc \in [Watchers -> WatcherRests \cup {"poll", "borrow", "reconnect"}]
         /\ stop \in [Watchers -> Cells(BOOLEAN, Watchers)]
         /\ handle \in Watchers \cup {NoWatcher}
         /\ cell.version \in Nat
         /\ \A t \in Tasks : seen[t] \in Nat
         /\ \A w \in Watchers : stop[w] \in Cells(BOOLEAN, Watchers)
<1>1. cell \in Cells(BOOLEAN, Tasks) /\ seen \in [Tasks -> Nat]
  BY DEF TypeOK
<1>2. cell.version \in Nat
  BY <1>1, CellFacts
<1> QED
  BY <1>1, <1>2 DEF TypeOK

\* A loop that does not fall asleep changes nothing for those who do.
LEMMA AwakeLoop ==
  ASSUME TypeOK, NoLostWake, WakerInv, NEW l \in Loops,
         UNCHANGED <<cell, wpc, stop, setup>>, woken' \in {woken, woken \ {l}},
         NEW place \in LoopPlaces \ {"asleep"}, pc' = [pc EXCEPT ![l] = place],
         seen' = seen \/ seen' = [seen EXCEPT ![l] = cell.version],
         \A k \in Loops \ {l} : token'[k] = token[k]
  PROVE  NoLostWake' /\ WakerInv'
<1>1. cell.version \in Nat /\ seen \in [Tasks -> Nat] /\ l \in Tasks
  BY Typed, Disjoint
<1>2. pc'[l] # "asleep" /\ \A k \in Loops \ {l} : pc'[k] = pc[k]
  BY DEF TypeOK
<1>3. \A t \in Tasks : seen'[t] = seen[t] \/ (t = l /\ seen'[t] = cell.version)
  BY <1>1
<1>4. \A t \in Tasks : Asleep(t)' => t # l /\ Asleep(t) /\ seen'[t] = seen[t]
  BY <1>2, <1>3, Disjoint DEF Tasks
<1>5. NoLostWake'
  BY <1>2, <1>4, Disjoint DEF NoLostWake, HasChanged, Tasks
<1>6. WakerInv'
  BY <1>1, <1>3, <1>4, Disjoint DEF WakerInv
<1> QED
  BY <1>5, <1>6

LEMMA LoopWake ==
  ASSUME TypeOK, NoLostWake, WakerInv, NEW l \in Loops, LoopStep(l) \/ Start(l) \/ Cancel(l)
  PROVE  NoLostWake' /\ WakerInv'
<1>0. /\ cell \in Cells(BOOLEAN, Tasks) /\ cell.version \in Nat /\ seen \in [Tasks -> Nat]
      /\ pc \in [Loops -> LoopPlaces] /\ token \in [Loops -> BOOLEAN] /\ l \in Tasks
  BY Typed, Disjoint
<1> USE DEF netVars, loopVars, mountVars
<1>1. CASE PollChanged(l) /\ pc'[l] = "asleep"
  <2>1. /\ UNCHANGED <<setup, token, wpc, stop, seen>> /\ woken' = woken \ {l}
        /\ ~(setup.kind = "executor" /\ token[l]) /\ ~HasChanged(cell, seen[l])
        /\ cell' = Registered(cell, l) /\ pc' = [pc EXCEPT ![l] = "asleep"]
    BY <1>0, <1>1 DEF PollChanged, Goto
  <2>2. cell'.version = cell.version /\ cell'.waiters = cell.waiters \cup {l}
    BY <1>0, <2>1, CellFacts
  <2>3. \A t \in Tasks : Asleep(t)' => t = l \/ Asleep(t)
    BY <1>0, <2>1, Disjoint DEF Tasks
  <2>4. NoLostWake'
    BY <1>0, <2>1, <2>2, <2>3, Disjoint DEF NoLostWake, HasChanged
  <2>5. WakerInv'
    BY <1>0, <2>1, <2>2, <2>3, Disjoint DEF WakerInv
  <2> QED
    BY <2>4, <2>5
<1>2. CASE Cancel(l)
  <2>1. /\ UNCHANGED <<setup, cell, pc, wpc, stop, seen>> /\ token' = [token EXCEPT ![l] = TRUE]
        /\ woken \subseteq woken' /\ (setup.kind = "executor" /\ Asleep(l) => l \in woken')
    BY <1>2 DEF Cancel
  <2>2. \A t \in Tasks : Asleep(t)' = Asleep(t)
    BY <2>1 DEF Asleep
  <2> QED
    BY <1>0, <2>1, <2>2, Disjoint DEF NoLostWake, WakerInv
<1>3. ASSUME LoopStep(l) \/ Start(l), ~(PollChanged(l) /\ pc'[l] = "asleep")
      PROVE  NoLostWake' /\ WakerInv'
  <2>1. /\ UNCHANGED <<cell, wpc, stop, setup>> /\ woken' \in {woken, woken \ {l}}
        /\ \A k \in Loops \ {l} : token'[k] = token[k]
        /\ seen' = seen \/ seen' = [seen EXCEPT ![l] = cell.version]
    BY <1>0, <1>3 DEF LoopStep, Start, Top, Subscribe, SubscribedAt, Check, PollChanged, RecheckOnline,
         TaskEnds, TaskFails, Gate, BackoffEnds, Goto
  <2>2. \E place \in LoopPlaces \ {"asleep"} : pc' = [pc EXCEPT ![l] = place]
    BY <1>0, <1>3 DEF LoopStep, Start, Top, Subscribe, Check, PollChanged, RecheckOnline,
         TaskEnds, TaskFails, Gate, BackoffEnds, Goto, LoopPlaces, LoopRests
  <2> QED
    BY <2>1, <2>2, AwakeLoop
<1> QED
  BY <1>1, <1>2, <1>3

LEMMA WatcherWake ==
  ASSUME TypeOK, NoLostWake, WakerInv, NEW w \in Watchers, WatcherStep(w)
  PROVE  NoLostWake' /\ WakerInv'
<1>0. /\ cell \in Cells(BOOLEAN, Tasks) /\ cell.version \in Nat /\ seen \in [Tasks -> Nat]
      /\ wpc \in [Watchers -> WatcherRests \cup {"poll", "borrow", "reconnect"}]
      /\ stop \in [Watchers -> Cells(BOOLEAN, Watchers)] /\ w \in Tasks
  BY Typed, Disjoint
<1>1. /\ Registered(cell, w).version = cell.version
      /\ Registered(cell, w).waiters = cell.waiters \cup {w}
      /\ Registered(stop[w], w).version = stop[w].version
      /\ Registered(stop[w], w).waiters = stop[w].waiters \cup {w}
  <2>1. stop[w] \in Cells(BOOLEAN, Watchers)
    BY <1>0
  <2> QED
    BY <1>0, <2>1, CellFacts
<1> USE DEF netVars, loopVars, mountVars
<1>2. /\ UNCHANGED <<setup, pc, token>> /\ woken' \in {woken, woken \ {w}}
      /\ \A v \in Watchers \ {w} : wpc'[v] = wpc[v] /\ stop'[v] = stop[v]
      /\ \A t \in Tasks \ {w} : seen'[t] = seen[t]
      /\ stop'[w] \in {stop[w], Registered(stop[w], w)}
      /\ cell' \in {cell, Registered(cell, w)} /\ seen'[w] \in {seen[w], cell.version}
  BY <1>0 DEF WatcherStep, WatcherPoll, WatcherBorrow, Borrowed, WatcherReconnect
<1>3. wpc'[w] = "asleep" =>
        /\ ~HasChanged(stop[w], 0) /\ ~HasChanged(cell, seen[w]) /\ seen'[w] = seen[w]
        /\ cell' = Registered(cell, w) /\ stop'[w] = Registered(stop[w], w)
  BY <1>0 DEF WatcherStep, WatcherPoll, WatcherBorrow, Borrowed, WatcherReconnect
<1>4. /\ cell'.version = cell.version /\ cell.waiters \subseteq cell'.waiters
      /\ \A v \in Watchers : stop'[v].version = stop[v].version /\ stop[v].waiters \subseteq stop'[v].waiters
  BY <1>1, <1>2
<1>5. \A t \in Tasks : Asleep(t)' => t = w \/ Asleep(t)
  BY <1>2, Disjoint DEF Tasks
<1>6. NoLostWake'
  BY <1>1, <1>2, <1>3, <1>4, <1>5, Disjoint DEF NoLostWake, HasChanged
<1>7. WakerInv'
  BY <1>0, <1>1, <1>2, <1>3, <1>4, <1>5, Disjoint DEF WakerInv
<1> QED
  BY <1>6, <1>7

LEMMA ThreadWake ==
  ASSUME TypeOK, NoLostWake, WakerInv, NEW t \in Threads,
         ThreadStep(t) \/ Mount(t) \/ Unmount(t) \/ \E b \in BOOLEAN : SetOnline(t, b)
  PROVE  NoLostWake' /\ WakerInv'
<1>0. /\ cell \in Cells(BOOLEAN, Tasks) /\ cell.version \in Nat /\ seen \in [Tasks -> Nat]
      /\ wpc \in [Watchers -> WatcherRests \cup {"poll", "borrow", "reconnect"}]
      /\ stop \in [Watchers -> Cells(BOOLEAN, Watchers)]
      /\ handle \in Watchers \cup {NoWatcher}
  BY Typed
<1> USE DEF netVars, loopVars, mountVars
<1>1. ASSUME NEW b \in BOOLEAN, SendOnline(t, b) PROVE NoLostWake' /\ WakerInv'
  <2>1. /\ UNCHANGED <<setup, pc, wpc, token, stop, seen>> /\ woken' = woken \cup cell.waiters
        /\ cell'.version = cell.version + 1
    BY <1>0, <1>1 DEF SendOnline, Wakes, Sent
  <2>2. \A k \in Tasks : Asleep(k)' => k \in woken' /\ Asleep(k)
    BY <2>1 DEF Asleep, NoLostWake
  <2> QED
    BY <1>0, <2>1, <2>2, Disjoint DEF NoLostWake, WakerInv
<1>2. ASSUME NEW w \in Watchers, SpawnWatcher(t, w) PROVE NoLostWake' /\ WakerInv'
  <2>1. /\ UNCHANGED <<setup, cell, pc, token, woken>> /\ wpc'[w] = "ready"
        /\ \A v \in Watchers \ {w} : wpc'[v] = wpc[v] /\ stop'[v] = stop[v]
        /\ seen'[w] = cell.version /\ \A k \in Tasks \ {w} : seen'[k] = seen[k]
    BY <1>0, <1>2, Disjoint DEF SpawnWatcher, SubscribedAt
  <2>2. \A k \in Tasks : Asleep(k)' => Asleep(k) /\ k # w
    BY <2>1, Disjoint DEF Tasks
  <2>3. NoLostWake'
    BY <2>1, <2>2, Disjoint DEF NoLostWake, HasChanged
  <2>4. WakerInv'
    BY <1>0, <2>1, <2>2, Disjoint DEF WakerInv
  <2> QED
    BY <2>3, <2>4
<1>3. CASE StopWatcher(t) /\ handle # NoWatcher
  <2>1. stop[handle] \in Cells(BOOLEAN, Watchers) /\ handle \in Watchers
    BY <1>0, <1>3
  <2>2. /\ UNCHANGED <<setup, cell, pc, wpc, token, seen>> /\ woken' = woken \cup stop[handle].waiters
        /\ \A v \in Watchers \ {handle} : stop'[v] = stop[v]
    BY <1>0, <1>3 DEF StopWatcher, Wakes
  <2>3. /\ \A l \in Loops : Asleep(l)' <=> Asleep(l)
        /\ \A w \in Watchers : Asleep(w)' <=> Asleep(w)
    BY <2>2, Disjoint
  <2>4. \A w \in Watchers : w = handle /\ Asleep(w)' => w \in woken'
    BY <2>1, <2>2, <2>3, Disjoint DEF WakerInv
  <2>5. NoLostWake'
    <3>1. \A k \in Tasks : Asleep(k)' /\ k \notin woken' =>
            ~HasChanged(cell', seen'[k]) /\ k \in cell'.waiters
      BY <2>2, <2>3 DEF NoLostWake, Tasks
    <3>2. \A w \in Watchers : Asleep(w)' /\ w \notin woken' => ~HasChanged(stop'[w], 0)
      BY <2>2, <2>3, <2>4 DEF NoLostWake
    <3>3. \A l \in Loops : Asleep(l)' /\ setup'.kind = "executor" /\ token'[l] => l \in woken'
      BY <2>2, <2>3 DEF NoLostWake
    <3> QED
      BY <3>1, <3>2, <3>3 DEF NoLostWake
  <2>6. WakerInv'
    BY <2>2, <2>3, <2>4, Disjoint DEF WakerInv
  <2> QED
    BY <2>5, <2>6
<1>4. ASSUME UNCHANGED <<setup, cell, pc, wpc, token, stop, seen, woken>>
      PROVE  NoLostWake' /\ WakerInv'
  BY <1>4 DEF NoLostWake, WakerInv, Asleep
<1>5. \/ UNCHANGED <<setup, cell, pc, wpc, token, stop, seen, woken>>
      \/ \E b \in BOOLEAN : SendOnline(t, b)
      \/ \E w \in Watchers : SpawnWatcher(t, w)
      \/ StopWatcher(t) /\ handle # NoWatcher
  BY DEF ThreadStep, Mount, Unmount, SetOnline, StoreOnline, KeepHandle, StopWatcher
<1> QED
  BY <1>1, <1>2, <1>3, <1>4, <1>5

LEMMA WakeStep ==
  TypeOK /\ NoLostWake /\ WakerInv /\ [Next]_vars => NoLostWake' /\ WakerInv'
<1>1. ASSUME UNCHANGED vars, NoLostWake, WakerInv PROVE NoLostWake' /\ WakerInv'
  BY <1>1 DEF vars, netVars, loopVars, mountVars, NoLostWake, WakerInv, Asleep
<1> QED
  BY <1>1, LoopWake, WatcherWake, ThreadWake DEF Next

-----------------------------------------------------------------------------
(***************************************************************************)
(* Nobody is parked while connectivity is there                            *)
(***************************************************************************)

LEMMA LoopBarred ==
  ASSUME TypeOK, BarredInv, NEW k \in Loops, LoopStep(k) \/ Start(k) \/ Cancel(k)
  PROVE  BarredInv'
<1>1. /\ cell \in Cells(BOOLEAN, Tasks) /\ seen \in [Tasks -> Nat] /\ pc \in [Loops -> LoopPlaces]
      /\ k \in Tasks /\ \A l \in Loops : l \in Tasks
  BY Typed, Disjoint
<1> USE DEF netVars, loopVars, mountVars
<1>2. UNCHANGED <<online, at, setup>> /\ (Announcing' <=> Announcing)
  BY DEF LoopStep, Start, Cancel, Top, Subscribe, Check, PollChanged, RecheckOnline,
         TaskEnds, TaskFails, Gate, BackoffEnds, Announcing
<1>3. cell'.version = cell.version
  <2>1. cell' \in {cell, Registered(cell, k)}
    BY DEF LoopStep, Start, Cancel, Top, Subscribe, Check, PollChanged, RecheckOnline,
           TaskEnds, TaskFails, Gate, BackoffEnds
  <2> QED
    BY <1>1, <2>1, CellFacts
<1>4. \A l \in Loops \ {k} : pc'[l] = pc[l] /\ seen'[l] = seen[l]
  BY <1>1 DEF LoopStep, Start, Cancel, Top, Subscribe, SubscribedAt, Check, PollChanged, RecheckOnline,
              TaskEnds, TaskFails, Gate, BackoffEnds, Goto
<1>5. Retreating(k)' => Retreating(k) \/ ~online
  <2>1. CASE Top(k)
    BY <1>1, <2>1 DEF Top, Goto, CanRetry, Retreating
  <2>2. CASE Subscribe(k)
    BY <1>1, <2>2 DEF Subscribe, Goto, Retreating
  <2>3. CASE Check(k)
    BY <1>1, <2>3, ConnectivityAssumption DEF Check, Goto, CanRetry, Retreating, TypeOK, AllSetups
  <2>4. CASE PollChanged(k)
    BY <1>1, <1>3, <2>4 DEF PollChanged, Goto, Retreating, HasChanged
  <2>5. CASE RecheckOnline(k)
    BY <1>1, <2>5 DEF RecheckOnline, Goto, Retreating
  <2>6. CASE TaskEnds(k) \/ TaskFails(k) \/ BackoffEnds(k) \/ Start(k)
    BY <1>1, <2>6 DEF TaskEnds, TaskFails, BackoffEnds, Start, Goto, Retreating
  <2>7. CASE Gate(k)
    BY <1>1, <2>7 DEF Gate, Goto, CanRetry, Retreating
  <2>8. CASE Cancel(k)
    BY <2>8 DEF Cancel, Retreating
  <2> QED
    BY <2>1, <2>2, <2>3, <2>4, <2>5, <2>6, <2>7, <2>8 DEF LoopStep
<1>6. \A l \in Loops \ {k} : Retreating(l)' => Retreating(l)
  BY <1>2, <1>3, <1>4 DEF Retreating
<1> QED
  BY <1>2, <1>5, <1>6 DEF BarredInv

LEMMA WatcherBarred ==
  ASSUME TypeOK, BarredInv, NEW w \in Watchers, WatcherStep(w)
  PROVE  BarredInv'
<1>1. cell \in Cells(BOOLEAN, Tasks) /\ seen \in [Tasks -> Nat] /\ w \in Tasks
  BY Typed, Disjoint
<1> USE DEF netVars, loopVars, mountVars
<1>2. UNCHANGED <<online, at, setup, pc>> /\ cell' \in {cell, Registered(cell, w)}
  BY DEF WatcherStep, WatcherPoll, WatcherBorrow, WatcherReconnect
<1>3. cell'.version = cell.version
  BY <1>1, <1>2, CellFacts
<1>4. \A l \in Loops : seen'[l] = seen[l]
  BY <1>1, Disjoint DEF WatcherStep, WatcherPoll, WatcherBorrow, WatcherReconnect
<1> QED
  BY <1>2, <1>3, <1>4 DEF BarredInv, Retreating, Announcing

LEMMA ThreadBarred ==
  ASSUME TypeOK, WakerInv, BarredInv, NEW t \in Threads,
         ThreadStep(t) \/ Mount(t) \/ Unmount(t) \/ \E b \in BOOLEAN : SetOnline(t, b)
  PROVE  BarredInv'
<1>1. /\ cell \in Cells(BOOLEAN, Tasks) /\ cell.version \in Nat /\ seen \in [Tasks -> Nat]
      /\ at \in [Threads -> ThreadPlaces \cup Watchers] /\ \A l \in Loops : l \in Tasks
  BY Typed, Disjoint DEF TypeOK
<1> USE DEF netVars, loopVars, mountVars, Arrive
<1>2. ASSUME NEW b \in BOOLEAN, StoreOnline(t, b) PROVE BarredInv'
  <2>1. online' = b /\ at'[t] = IF b THEN "send TRUE" ELSE "send FALSE"
    BY <1>1, <1>2 DEF StoreOnline
  <2>2. ~online' \/ Announcing'
    BY <2>1 DEF Announcing
  <2> QED
    BY <2>2 DEF BarredInv
<1>3. ASSUME NEW b \in BOOLEAN, SendOnline(t, b) PROVE BarredInv'
  <2>1. UNCHANGED <<setup, pc, seen>> /\ cell'.version = cell.version + 1
    BY <1>1, <1>3 DEF SendOnline, Sent
  <2>2. \A l \in Loops : seen'[l] # cell'.version
    BY <1>1, <2>1 DEF WakerInv
  <2>3. ~setup.pool => \A l \in Loops : pc[l] \in LoopRests
    BY <1>3, ConnectivityAssumption DEF SendOnline, MayRun
  <2>4. \A l \in Loops : (setup'.kind = "executor" \/ ~setup'.pool) => ~Retreating(l)'
    <3> SUFFICES ASSUME NEW l \in Loops, setup'.kind = "executor" \/ ~setup'.pool, Retreating(l)'
                 PROVE  FALSE
      OBVIOUS
    <3>1. setup.kind = "retryer" /\ pc[l] \in {"subscribe", "check"}
      BY <2>1, <2>2 DEF Retreating
    <3>2. ~setup.pool
      BY <2>1, <3>1
    <3> QED
      BY <2>3, <3>1, <3>2 DEF LoopRests
  <2> QED
    BY <2>4 DEF BarredInv
<1>4. ASSUME UNCHANGED <<setup, online, pc, seen, cell>>, at[t] # "send TRUE",
             \A u \in Threads \ {t} : at'[u] = at[u]
      PROVE  BarredInv'
  <2>1. Announcing => Announcing'
    BY <1>4 DEF Announcing
  <2> QED
    BY <1>4, <2>1 DEF BarredInv, Retreating
<1>5. ASSUME NEW w \in Watchers, SpawnWatcher(t, w) PROVE BarredInv'
  <2>1. /\ UNCHANGED <<setup, online, pc, cell>> /\ at[t] # "send TRUE"
        /\ \A u \in Threads \ {t} : at'[u] = at[u]
        /\ \A l \in Loops : seen'[l] = seen[l]
    BY <1>1, <1>5, Disjoint DEF SpawnWatcher
  <2>2. Announcing => Announcing'
    BY <2>1 DEF Announcing
  <2> QED
    BY <2>1, <2>2 DEF BarredInv, Retreating
<1>6. CASE KeepHandle(t)
  <2>1. at[t] # "send TRUE"
    BY <1>6, ConnectivityAssumption DEF KeepHandle, ThreadPlaces
  <2> QED
    BY <1>1, <1>4, <1>6, <2>1 DEF KeepHandle
<1>7. CASE StopWatcher(t) \/ Mount(t) \/ Unmount(t) \/ \E b \in BOOLEAN : SetOnline(t, b)
  <2>1. UNCHANGED <<setup, online, pc, seen, cell>> /\ at[t] # "send TRUE"
    BY <1>7 DEF StopWatcher, Mount, Unmount, SetOnline
  <2>2. \A u \in Threads \ {t} : at'[u] = at[u]
    BY <1>1, <1>7 DEF StopWatcher, Mount, Unmount, SetOnline
  <2> QED
    BY <1>4, <2>1, <2>2
<1> QED
  BY <1>2, <1>3, <1>5, <1>6, <1>7 DEF ThreadStep

LEMMA BarredStep == TypeOK /\ WakerInv /\ BarredInv /\ [Next]_vars => BarredInv'
<1>1. ASSUME UNCHANGED vars, BarredInv PROVE BarredInv'
  BY <1>1 DEF vars, netVars, loopVars, BarredInv, Retreating, Announcing
<1> QED
  BY <1>1, LoopBarred, WatcherBarred, ThreadBarred DEF Next

LEMMA SleepInit == Init => SleepInv
<1> SUFFICES ASSUME Init PROVE SleepInv
  OBVIOUS
<1>1. TypeOK /\ CountInv
  BY TypeInit
<1>2. \A t \in Tasks : ~Asleep(t) /\ seen[t] <= cell.version
  BY Disjoint DEF Init, NewCell, Tasks
<1>3. NoLostWake /\ WakerInv
  BY <1>2, Disjoint DEF NoLostWake, WakerInv
<1>4. BarredInv
  BY DEF Init, BarredInv, Retreating
<1> QED
  BY <1>1, <1>3, <1>4 DEF SleepInv

LEMMA SleepSafe == SleepInv => SleepIsJustified
<1> SUFFICES ASSUME SleepInv PROVE ParkedMeansOffline
  BY DEF SleepInv, SleepIsJustified
<1> SUFFICES ASSUME NEW l \in Loops, Asleep(l), l \notin woken,
                    setup.kind = "executor" \/ ~setup.pool
             PROVE  ~online \/ Announcing
  BY DEF ParkedMeansOffline, Announcing
<1>1. pc[l] = "asleep" /\ seen[l] = cell.version
  BY Disjoint DEF SleepInv, NoLostWake, HasChanged
<1> QED
  BY <1>1 DEF SleepInv, BarredInv, Retreating

\* Nobody sleeps without a reason that still holds: on a pool as on one thread,
\* however the sends of set_online, the cancellations, the stop signals and the
\* polls interleave, a task that sleeps in changed() has been woken if what it
\* waits for happened, and a loop is parked only while connectivity bars it
\* (watch.rs poll and send, retryer.rs run, executor.rs wait_for_online).
THEOREM SleepJustified == Spec => []SleepIsJustified
<1>1. Init => SleepInv
  BY SleepInit
<1>2. SleepInv /\ [Next]_vars => SleepInv'
  BY TypeStep, WakeStep, BarredStep DEF SleepInv
<1>3. SleepInv => SleepIsJustified
  BY SleepSafe
<1> QED
  BY <1>1, <1>2, <1>3, PTL DEF Spec

-----------------------------------------------------------------------------
(***************************************************************************)
(* Exactly one watcher while the client is mounted                         *)
(***************************************************************************)

LEMMA Idle == "idle" \notin Watchers \cup {"attach", "take"}
  BY ConnectivityAssumption DEF ThreadPlaces

LEMMA MountInit == Init => MountInv
<1> SUFFICES ASSUME Init PROVE MountInv
  OBVIOUS
<1>1. Running = {} /\ mountCount = 0 /\ handle = NoWatcher
  BY DEF Init, Running, LiveWatchers
<1>2. Fits("idle")
  BY <1>1, Idle DEF Fits
<1>3. /\ \A t \in Threads : at[t] = "idle"
      /\ \A w \in Watchers : stop[w].version = 0
  BY DEF Init, NewCell
<1> QED
  BY <1>2, <1>3 DEF MountInv

\* A step that leaves the mounts and the threads alone.
LEMMA MountSame ==
  ASSUME MountInv, UNCHANGED <<setup, mountCount, handle, at, Running>>,
         \A w \in Watchers : stop'[w].version # 0 => stop'[w].value
  PROVE  MountInv'
<1>1. \A p : Fits(p) => Fits(p)'
  BY DEF Fits
<1> QED
  BY <1>1 DEF MountInv

\* A watcher ends only when it was told to.
LEMMA WatcherMount ==
  ASSUME TypeOK, MountInv, NEW w \in Watchers, WatcherStep(w)
  PROVE  MountInv'
<1>1. /\ wpc \in [Watchers -> WatcherRests \cup {"poll", "borrow", "reconnect"}]
      /\ stop \in [Watchers -> Cells(BOOLEAN, Watchers)] /\ stop[w] \in Cells(BOOLEAN, Watchers)
  BY Typed
<1>2. /\ Registered(stop[w], w).version = stop[w].version
      /\ Registered(stop[w], w).value = stop[w].value
  BY <1>1, CellFacts
<1> USE DEF netVars, loopVars, mountVars
<1>3. /\ UNCHANGED <<setup, mountCount, handle, at>>
      /\ \A v \in Watchers \ {w} : wpc'[v] = wpc[v] /\ stop'[v] = stop[v]
      /\ stop'[w] \in {stop[w], Registered(stop[w], w)}
      /\ wpc[w] \notin {"none", "stopped"} /\ wpc'[w] # "none"
      /\ wpc'[w] = "stopped" => stop[w].version # 0
  BY <1>1 DEF WatcherStep, WatcherPoll, WatcherBorrow, WatcherReconnect, HasChanged
<1>4. \A v \in Watchers : stop'[v].value = stop[v].value /\ stop'[v].version = stop[v].version
  BY <1>2, <1>3
<1>5. \A v \in Watchers : v \in Running' <=> v \in Running
  BY <1>3, <1>4 DEF Running, LiveWatchers, MountInv
<1>6. Running' = Running
  BY <1>5 DEF Running, LiveWatchers
<1> QED
  BY <1>3, <1>4, <1>6, MountSame DEF MountInv

\* A thread that runs on one thread is the only one inside a method.
LEMMA Alone ==
  ASSUME MountInv, ~setup.pool, NEW t \in Threads, \A u \in Threads \ {t} : at[u] = "idle"
  PROVE  Fits(at[t])
  BY DEF MountInv

LEMMA MoveFits ==
  ASSUME NEW t \in Threads, setup' = setup,
         ~setup.pool => /\ \A u \in Threads \ {t} : at'[u] = "idle"
                        /\ Fits(at[t])',
         \A w \in Watchers : stop'[w].version # 0 => stop'[w].value
  PROVE  MountInv'
  BY DEF MountInv

LEMMA ThreadMount ==
  ASSUME TypeOK, CountInv, MountInv, NEW t \in Threads,
         ThreadStep(t) \/ Mount(t) \/ Unmount(t) \/ \E b \in BOOLEAN : SetOnline(t, b)
  PROVE  MountInv'
<1>1. /\ wpc \in [Watchers -> WatcherRests \cup {"poll", "borrow", "reconnect"}]
      /\ stop \in [Watchers -> Cells(BOOLEAN, Watchers)]
      /\ \A w \in Watchers : stop[w].version \in Nat
      /\ handle \in Watchers \cup {NoWatcher} /\ NoWatcher \notin Watchers
      /\ at \in [Threads -> ThreadPlaces \cup Watchers]
      /\ mountCount \in Nat /\ held \in Nat /\ held <= mountCount
  <2>1. \A w \in Watchers : stop[w].version \in Nat
    BY Typed, CellFacts
  <2>2. Cardinality(Mounting) \in Nat
    BY MountingFinite, FS_CardinalityType
  <2> QED
    BY <2>1, <2>2, Typed, ConnectivityAssumption DEF TypeOK, CountInv
<1>2. \A u \in Threads \ {t} : at'[u] = at[u]
  BY <1>1 DEF ThreadStep, Mount, Unmount, SetOnline, StoreOnline, SendOnline, SpawnWatcher,
              KeepHandle, StopWatcher, Arrive
<1>3. ~setup.pool => /\ \A u \in Threads \ {t} : at[u] = "idle"
                     /\ Fits(at[t])
  <2>1. MayRun(t)
    BY DEF ThreadStep, Mount, Unmount, SetOnline, StoreOnline, SendOnline, SpawnWatcher,
           KeepHandle, StopWatcher
  <2>2. ~setup.pool => \A u \in Threads \ {t} : at[u] = "idle"
    BY <2>1 DEF MayRun
  <2> QED
    BY <2>2, Alone
<1>4. setup' = setup
  BY DEF ThreadStep, Mount, Unmount, SetOnline, StoreOnline, SendOnline, SpawnWatcher, KeepHandle,
         StopWatcher
<1>5. \A w \in Watchers : stop'[w].version # 0 => stop'[w].value
  <2>1. \/ stop' = stop
        \/ \E w \in Watchers : stop' = [stop EXCEPT ![w] = NewCell(FALSE)]
        \/ handle \in Watchers /\ stop' = [stop EXCEPT ![handle] = Sent(@, TRUE)]
    BY <1>1 DEF ThreadStep, Mount, Unmount, SetOnline, StoreOnline, SendOnline, SpawnWatcher, KeepHandle,
            StopWatcher, mountVars
  <2> QED
    BY <1>1, <2>1 DEF MountInv, NewCell, Sent
<1> SUFFICES ASSUME ~setup.pool, Fits(at[t]) PROVE Fits(at[t])'
  BY <1>2, <1>3, <1>4, <1>5, MoveFits
<1> DEFINE Quiet == ThreadPlaces \ {"attach", "take"}
<1>6. \A p \in Quiet : p \notin Watchers \cup {"attach", "take"}
  BY ConnectivityAssumption
<1>7. {"attach", "take", "idle"} \subseteq ThreadPlaces /\ {"attach", "take", "idle"} \cap Watchers = {}
  BY ConnectivityAssumption DEF ThreadPlaces
<1> USE DEF netVars, loopVars, mountVars, Arrive
<1>8. ASSUME NEW b \in BOOLEAN, SetOnline(t, b) \/ StoreOnline(t, b) \/ SendOnline(t, b)
      PROVE  Fits(at[t])'
  <2>1. at[t] \in Quiet /\ at'[t] \in Quiet
    BY <1>1, <1>8 DEF SetOnline, StoreOnline, SendOnline, ThreadPlaces
  <2>2. UNCHANGED <<mountCount, handle, wpc, stop>>
    BY <1>8 DEF SetOnline, StoreOnline, SendOnline
  <2> QED
    BY <1>6, <2>1, <2>2 DEF Fits, Running, LiveWatchers
<1>9. CASE Mount(t)
  <2>1. /\ at[t] = "idle" /\ mountCount' = mountCount + 1 /\ UNCHANGED <<handle, wpc, stop>>
        /\ at'[t] = IF mountCount = 0 THEN "attach" ELSE "idle"
    BY <1>1, <1>9 DEF Mount
  <2> QED
    BY <1>1, <1>7, <2>1 DEF Fits, Running, LiveWatchers
<1>10. ASSUME NEW w \in Watchers, SpawnWatcher(t, w) PROVE Fits(at[t])'
  <2>1. /\ at[t] = "attach" /\ at'[t] = w /\ UNCHANGED <<mountCount, handle>>
        /\ wpc'[w] = "ready" /\ stop'[w].value = FALSE
        /\ \A v \in Watchers \ {w} : wpc'[v] = wpc[v] /\ stop'[v] = stop[v]
    BY <1>1, <1>10 DEF SpawnWatcher, NewCell
  <2>2. mountCount = 1 /\ Running = {} /\ handle = NoWatcher
    BY <2>1 DEF Fits
  <2>3. \A v \in Watchers : v \in Running' <=> v = w
    BY <2>1, <2>2 DEF Running, LiveWatchers
  <2>4. Running' = {w}
    BY <2>3 DEF Running, LiveWatchers
  <2> QED
    BY <1>7, <2>1, <2>2, <2>4 DEF Fits
<1>11. CASE KeepHandle(t)
  <2>1. /\ at[t] \in Watchers /\ at'[t] = "idle" /\ handle' = at[t]
        /\ UNCHANGED <<mountCount, wpc, stop>>
    BY <1>1, <1>11 DEF KeepHandle
  <2> QED
    BY <1>7, <2>1 DEF Fits, Running, LiveWatchers
<1>12. CASE Unmount(t)
  <2>1. /\ at[t] = "idle" /\ mountCount' = mountCount - 1 /\ UNCHANGED <<handle, wpc, stop>>
        /\ at'[t] = (IF mountCount = 1 THEN "take" ELSE "idle") /\ mountCount > 0
    BY <1>1, <1>12 DEF Unmount
  <2> QED
    BY <1>1, <1>7, <2>1 DEF Fits, Running, LiveWatchers
<1>13. CASE StopWatcher(t)
  <2>1. at[t] = "take" /\ at'[t] = "idle" /\ handle' = NoWatcher /\ UNCHANGED <<mountCount, wpc>>
    BY <1>1, <1>13 DEF StopWatcher
  <2>2. mountCount = 0 /\ handle \in Watchers /\ Running = {handle}
    BY <2>1 DEF Fits
  <2>3. stop' = [stop EXCEPT ![handle] = Sent(@, TRUE)]
    BY <1>1, <1>13, <2>2 DEF StopWatcher
  <2>4. stop'[handle].value = TRUE /\ \A w \in Watchers \ {handle} : stop'[w] = stop[w]
    BY <1>1, <2>2, <2>3 DEF Sent
  <2>5. \A w \in Watchers : w \notin Running'
    BY <2>1, <2>2, <2>4 DEF Running, LiveWatchers
  <2>6. Running' = {}
    BY <2>5 DEF Running, LiveWatchers
  <2> QED
    BY <1>7, <2>1, <2>2, <2>6 DEF Fits
<1> QED
  BY <1>8, <1>9, <1>10, <1>11, <1>12, <1>13 DEF ThreadStep

LEMMA MountStep == TypeOK /\ CountInv /\ MountInv /\ [Next]_vars => MountInv'
<1> SUFFICES ASSUME TypeOK, CountInv, MountInv, [Next]_vars PROVE MountInv'
  OBVIOUS
<1>1. CASE UNCHANGED vars
  BY <1>1, MountSame DEF vars, mountVars, Running, LiveWatchers, MountInv
<1>2. ASSUME NEW l \in Loops, LoopStep(l) \/ Start(l) \/ Cancel(l) PROVE MountInv'
  <2>1. setup' = setup
    BY <1>2 DEF LoopStep, Start, Cancel, Top, Subscribe, Check, PollChanged, RecheckOnline, TaskEnds,
                TaskFails, Gate, BackoffEnds
  <2>2. UNCHANGED <<mountCount, handle, at, wpc, stop>>
    BY <1>2, LoopType DEF mountVars
  <2> QED
    BY <2>1, <2>2, MountSame DEF Running, LiveWatchers, MountInv
<1> QED
  BY <1>1, <1>2, WatcherMount, ThreadMount DEF Next

\* On one thread there is, between calls, exactly one running reconnect watcher
\* while the client is mounted, and it is the one whose stop sender is kept;
\* otherwise none (client.rs mount, unmount).
THEOREM OneWatcher == Spec => []WatcherIffMounted
<1>1. Init => TypeOK /\ CountInv /\ MountInv
  BY TypeInit, MountInit
<1>2. TypeOK /\ CountInv /\ MountInv /\ [Next]_vars => (TypeOK /\ CountInv /\ MountInv)'
  BY TypeStep, MountStep
<1>3. MountInv => WatcherIffMounted
  <2> SUFFICES ASSUME MountInv, ~setup.pool, \A t \in Threads : at[t] = "idle"
               PROVE  IF mountCount = 0 THEN Running = {} /\ handle = NoWatcher
                                        ELSE Running = {handle}
    BY DEF WatcherIffMounted, Running
  <2> QED
    BY Idle DEF MountInv, Fits
<1> QED
  BY <1>1, <1>2, <1>3, PTL DEF Spec
=============================================================================
