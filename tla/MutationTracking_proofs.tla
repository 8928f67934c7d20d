----------------------- MODULE MutationTracking_proofs -----------------------
(***************************************************************************)
(* Proofs about what an application sees of its mutations, for any number  *)
(* of executions, any capacity of the event channel and any setups.        *)
(***************************************************************************)
EXTENDS MutationTracking, FiniteSetTheorems, FunctionTheorems, SequenceTheorems, TLAPS

-----------------------------------------------------------------------------
(***************************************************************************)
(* The inductive invariant                                                 *)
(***************************************************************************)

\* Where mutate_fn has not come to anything, and where it has.
Undecided == {"new", "ready", "hooking", "added", "on_mutate", "context", "mutating", "sleeping",
              "aborted", "panicked", "skipped"}
Decided == {"settle", "updated", "check", "write", "reply", "done"}

\* What a handle yields fits the place of its task.
ResultAt(place, out) ==
  CASE place = "done" -> out
    [] place \in {"aborted", "panicked"} -> "Cancelled"
    [] place = "skipped" -> "Idle"
    [] OTHER -> "none"

TaskInv ==
  /\ setup \in Setups
  /\ pc \in [Executions -> Places]
  /\ tries \in [Executions -> 0 .. setup.retry]
  /\ outcome \in [Executions -> {"none", "Success", "Error"}]
  /\ result \in [Executions -> Results]
  /\ \A e \in Executions :
       /\ pc[e] \in Undecided => outcome[e] = "none"
       /\ pc[e] = "failed" => outcome[e] = "Error"
       /\ pc[e] = "invalidate" => outcome[e] = "Success"
       /\ pc[e] \in Decided => outcome[e] # "none"
       /\ result[e] = ResultAt(pc[e], outcome[e])

\* A state that is Loading is that of the newest execution, which is one of the
\* observer's, is not about to deliver and was submitted since the last reset.
\* On one thread nobody resets between the look at the generation and the write.
ObserverInv ==
  /\ generation \in 0 .. ops /\ ops \in 0 .. setup.budget /\ resetting \in BOOLEAN
  /\ observed \in [Executions -> 0 .. generation]
  /\ tracked \in [st : {"Idle", "Loading", "Success", "Error"}, by : Executions \cup {Nobody}]
  /\ latest \in Executions \cup {Nobody} /\ crossed \in BOOLEAN
  /\ tracked.st = "Loading" =>
       /\ tracked.by = latest /\ latest \in Executions /\ Observed(latest)
       /\ ~resetting => /\ observed[latest] = generation
                        /\ pc[latest] \notin {"new", "reply", "done", "skipped"}
  /\ ~setup.pool => \A e \in Executions : pc[e] = "write" => observed[e] = generation
  /\ ResetSticks

\* Only the observer's own executions look at the generation, and while a reset is
\* under way the newest one is of an older generation.
WritersInv ==
  /\ \A e \in Executions : pc[e] \in {"check", "write"} => Observed(e)
  /\ resetting /\ latest # Nobody => observed[latest] # generation

\* While no executions crossed, only the newest one can still write the state,
\* which is the newest's.
Shown(e) == [st |-> IF pc[e] \in {"reply", "done"} THEN outcome[e] ELSE "Loading", by |-> e]
NewestInv ==
  ~crossed /\ latest # Nobody /\ observed[latest] = generation =>
    /\ Observed(latest) /\ pc[latest] # "new"
    /\ tracked = Shown(latest)
    /\ \A x \in Executions \ {latest} : ~MayWrite(x)

HookInv ==
  /\ signal \in {"Idle", "Success", "Error"}
  /\ outer \in [Executions -> {"none", "waiting", "done"}]

CacheInv ==
  /\ ids \subseteq setup.own
  /\ entries \in [Executions -> {"none", "Pending", "Success", "Error"}]

Events == [what : {"Added", "Updated", "Removed", "Cleared"}, id : Executions \cup {Nobody}]

StreamInv ==
  /\ queue \in Seq(Events) /\ Len(queue) <= Cap /\ missed \in Nat
  /\ clearing \in Seq(Events)

\* The optimistic update of an execution stands from on_mutate until it is rolled
\* back or marked for a refetch.
Standing == {"context", "mutating", "sleeping", "failed", "invalidate"}

\* Nobody's data, or that of an execution that succeeded.
Sound(x) == x = Nobody \/ outcome[x] = "Success"

\* While no two updates stood together and none was dropped, at most one stands,
\* which holds the data and knows what to restore.
Calm == ~overlapped /\ \A e \in Executions : pc[e] \notin {"aborted", "panicked"}
TraceInv ==
  Calm =>
    IF setup.optimistic /\ \E e \in Executions : pc[e] \in Standing
    THEN \E e \in Executions : /\ data = e /\ Sound(snap[e])
                               /\ \A x \in Executions : pc[x] \in Standing <=> x = e
    ELSE Sound(data)

DataInv ==
  /\ data \in Executions \cup {Nobody} /\ snap \in [Executions -> Executions \cup {Nobody}]
  /\ stale \in BOOLEAN /\ overlapped \in BOOLEAN
  /\ ~setup.optimistic => data = Nobody
  /\ TraceInv
  /\ SuccessIsInvalidated

TrackingInv ==
  TaskInv /\ ObserverInv /\ WritersInv /\ NewestInv /\ HookInv /\ CacheInv /\ StreamInv /\ MutatingCountExact /\ DataInv

\* What setups are.
LEMMA SetupFacts ==
  ASSUME setup \in Setups
  PROVE  /\ setup.start \in Starts /\ setup.pool \in BOOLEAN /\ setup.own \subseteq Executions
         /\ setup.optimistic \in BOOLEAN /\ setup.retry \in 0 .. 1 /\ setup.budget \in 0 .. MaxOps
  BY TrackingAssumption DEF AllSetups

-----------------------------------------------------------------------------
(***************************************************************************)
(* The tasks                                                               *)
(***************************************************************************)

LEMMA InitTask == Init => TaskInv
<1> SUFFICES ASSUME Init PROVE TaskInv
  OBVIOUS
<1>1. setup \in Setups /\ setup.retry \in 0 .. 1
  BY SetupFacts DEF Init
<1>2. /\ pc \in [Executions -> Places] /\ tries \in [Executions -> 0 .. setup.retry]
      /\ outcome \in [Executions -> {"none", "Success", "Error"}] /\ result \in [Executions -> Results]
  BY <1>1 DEF Init, Places, Suspended, Over, Results
<1>3. \A e \in Executions : pc[e] = "new" /\ outcome[e] = "none" /\ result[e] = "none"
  BY DEF Init
<1> QED BY <1>1, <1>2, <1>3 DEF TaskInv, Decided, ResultAt

\* An action moves one execution at most.
LEMMA OneTask ==
  ASSUME TaskInv, NEW e \in Executions, NEW p \in Places, NEW o \in {"none", "Success", "Error"},
         UNCHANGED setup,
         pc' = [pc EXCEPT ![e] = p],
         outcome' = [outcome EXCEPT ![e] = o],
         result' = [result EXCEPT ![e] = ResultAt(p, o)],
         tries' \in [Executions -> 0 .. setup.retry],
         p \in Undecided => o = "none",
         p = "failed" => o = "Error",
         p = "invalidate" => o = "Success",
         p \in Decided => o # "none"
  PROVE  TaskInv'
<1>1. ResultAt(p, o) \in Results
  BY DEF ResultAt, Results
<1>2. /\ pc' \in [Executions -> Places] /\ outcome' \in [Executions -> {"none", "Success", "Error"}]
      /\ result' \in [Executions -> Results]
  BY <1>1 DEF TaskInv
<1>3. pc'[e] = p /\ outcome'[e] = o /\ result'[e] = ResultAt(p, o)
  BY DEF TaskInv
<1>4. \A x \in Executions \ {e} : pc'[x] = pc[x] /\ outcome'[x] = outcome[x] /\ result'[x] = result[x]
  BY DEF TaskInv
<1>5. ASSUME NEW x \in Executions
      PROVE  /\ pc'[x] \in Undecided => outcome'[x] = "none"
             /\ pc'[x] = "failed" => outcome'[x] = "Error"
             /\ pc'[x] = "invalidate" => outcome'[x] = "Success"
             /\ pc'[x] \in Decided => outcome'[x] # "none"
             /\ result'[x] = ResultAt(pc'[x], outcome'[x])
  BY <1>3, <1>4 DEF TaskInv
<1> QED BY <1>2, <1>5 DEF TaskInv

\* Where a task goes from where.
OnlyMoves(e, from, to) ==
  /\ pc[e] \in from /\ pc' = [pc EXCEPT ![e] = to]
  /\ UNCHANGED <<setup, outcome, result, tries>>

\* A task that goes on with what it has.
LEMMA TaskGoesOn ==
  ASSUME TaskInv, NEW e \in Executions, NEW p \in Places, NEW from, OnlyMoves(e, from, p),
         p \notin {"done", "aborted", "panicked", "skipped", "failed", "invalidate"},
         from \cap {"done", "aborted", "panicked", "skipped"} = {},
         (p \in Undecided /\ from \subseteq Undecided)
           \/ (p \in Decided /\ from \subseteq Decided \cup {"failed", "invalidate"})
  PROVE  TaskInv'
<1>1. pc[e] \in from /\ pc' = [pc EXCEPT ![e] = p] /\ UNCHANGED <<setup, outcome, result, tries>>
  BY DEF OnlyMoves
<1>2. outcome' = [outcome EXCEPT ![e] = outcome[e]] /\ outcome[e] \in {"none", "Success", "Error"}
  BY <1>1 DEF TaskInv
<1>3. result[e] = "none"
  BY <1>1 DEF TaskInv, ResultAt
<1>4. result' = [result EXCEPT ![e] = ResultAt(p, outcome[e])]
  BY <1>1, <1>3 DEF TaskInv, ResultAt
<1>5. (p \in Undecided => outcome[e] = "none") /\ (p \in Decided => outcome[e] # "none")
  BY <1>1 DEF TaskInv, Undecided, Decided
<1>6. tries' \in [Executions -> 0 .. setup.retry]
  BY <1>1 DEF TaskInv
<1> QED BY <1>1, <1>2, <1>4, <1>5, <1>6, OneTask

LEMMA NextTask == TaskInv /\ [Next]_vars => TaskInv'
<1> SUFFICES ASSUME TaskInv, [Next]_vars PROVE TaskInv'
  OBVIOUS
<1>1. CASE UNCHANGED <<setup, taskVars>>
  BY <1>1 DEF TaskInv, taskVars
<1>2. ASSUME NEW e \in Executions, NEW p, Goto(e, p), UNCHANGED <<setup, outcome, result, tries>>,
             \/ pc[e] \in {"new", "ready", "hooking", "added"} /\ p \in {"ready", "hooking", "added", "on_mutate"}
             \/ pc[e] \in {"on_mutate", "context", "sleeping"} /\ p \in {"mutating", "context"}
             \/ pc[e] \in {"failed", "invalidate"} /\ p \in {"reply", "settle"}
             \/ pc[e] \in {"settle", "updated", "check", "write"} /\ p \in {"updated", "check", "write", "reply"}
      PROVE  TaskInv'
  <2>1. p \in Places
    BY <1>2 DEF Places, Suspended
  <2>2. OnlyMoves(e, {pc[e]}, p)
    BY <1>2 DEF OnlyMoves, Goto
  <2> QED BY <1>2, <2>1, <2>2, TaskGoesOn DEF Undecided, Decided
<1>3. ASSUME NEW e \in Executions, Submit(e) PROVE TaskInv'
  BY <1>2, <1>3 DEF Submit
<1>4. ASSUME NEW e \in Executions, NEW p \in Places, NEW o \in {"none", "Success", "Error"},
             NEW r, NEW t, r = ResultAt(p, o),
             UNCHANGED setup,
             pc' = [pc EXCEPT ![e] = p],
             outcome' = [outcome EXCEPT ![e] = o] \/ (outcome' = outcome /\ outcome[e] = o),
             result' = [result EXCEPT ![e] = r] \/ (result' = result /\ result[e] = r),
             tries' = tries \/ (tries' = [tries EXCEPT ![e] = t] /\ t \in 0 .. setup.retry),
             p \in Undecided => o = "none",
             p = "failed" => o = "Error",
             p = "invalidate" => o = "Success",
             p \in Decided => o # "none"
      PROVE  TaskInv'
  <2>1. outcome' = [outcome EXCEPT ![e] = o]
    BY <1>4 DEF TaskInv
  <2>2. result' = [result EXCEPT ![e] = ResultAt(p, o)]
    BY <1>4 DEF TaskInv
  <2>3. tries' \in [Executions -> 0 .. setup.retry]
    BY <1>4 DEF TaskInv
  <2> QED BY <1>4, <2>1, <2>2, <2>3, OneTask
<1>5. ASSUME NEW e \in Executions, SpawnMutation(e) PROVE TaskInv'
  <2>1. CASE Goto(e, "ready") /\ UNCHANGED <<setup, outcome, result, tries>>
    BY <1>2, <1>5, <2>1 DEF SpawnMutation
  <2>2. CASE Goto(e, "skipped") /\ result' = [result EXCEPT ![e] = "Idle"] /\ UNCHANGED <<setup, outcome, tries>>
    <3>1. pc[e] = "new" /\ outcome[e] = "none" /\ pc' = [pc EXCEPT ![e] = "skipped"]
      BY <1>5, <2>2 DEF SpawnMutation, TaskInv, Undecided, Goto
    <3>2. "Idle" = ResultAt("skipped", "none") /\ "skipped" \in Places
      BY DEF ResultAt, Places, Over
    <3> QED BY <1>4, <2>2, <3>1, <3>2 DEF Decided
  <2> QED BY <1>5, <2>1, <2>2 DEF SpawnMutation
<1>6. ASSUME NEW e \in Executions,
             AddEntry(e) \/ HookId(e) \/ SendAdded(e) \/ Context(e) \/ RetryDelay(e) \/ Rollback(e)
               \/ Invalidate(e) \/ Settle(e) \/ Updated(e) \/ CheckGeneration(e) \/ WriteState(e)
      PROVE  TaskInv'
  <2>1. CASE AddEntry(e)
    BY <1>2, <2>1 DEF AddEntry, Runs
  <2>2. CASE HookId(e)
    BY <1>2, <2>2 DEF HookId, Runs
  <2>3. CASE SendAdded(e)
    BY <1>2, <2>3 DEF SendAdded, Runs
  <2>4. CASE Context(e)
    BY <1>2, <2>4 DEF Context, Runs
  <2>5. CASE RetryDelay(e)
    BY <1>2, <2>5 DEF RetryDelay, Runs
  <2>6. CASE Rollback(e)
    BY <1>2, <2>6 DEF Rollback, Runs
  <2>7. CASE Invalidate(e)
    BY <1>2, <2>7 DEF Invalidate, Runs
  <2>8. CASE Settle(e)
    BY <1>2, <2>8 DEF Settle, Runs
  <2>9. CASE Updated(e)
    BY <1>2, <2>9 DEF Updated, Runs
  <2>10. CASE CheckGeneration(e)
    BY <1>2, <2>10 DEF CheckGeneration, Runs
  <2>11. CASE WriteState(e)
    BY <1>2, <2>11 DEF WriteState, Runs
  <2> QED BY <1>6, <2>1, <2>2, <2>3, <2>4, <2>5, <2>6, <2>7, <2>8, <2>9, <2>10, <2>11
<1>7. ASSUME NEW e \in Executions, OnMutate(e) PROVE TaskInv'
  <2>1. pc[e] = "on_mutate" /\ UNCHANGED <<setup, result, tries>>
    BY <1>7 DEF OnMutate, Runs
  <2>2. CASE (Goto(e, "mutating") \/ Goto(e, "context")) /\ UNCHANGED outcome
    BY <1>2, <2>1, <2>2
  <2>3. CASE (Goto(e, "reply") \/ Goto(e, "settle")) /\ outcome' = [outcome EXCEPT ![e] = "Error"]
    <3>1. PICK p \in {"reply", "settle"} : pc' = [pc EXCEPT ![e] = p]
      BY <2>3 DEF Goto
    <3>2. result[e] = "none" /\ ResultAt(p, "Error") = "none" /\ p \in Places /\ p \in Decided
      BY <2>1 DEF TaskInv, ResultAt, Places, Decided
    <3> QED BY <1>4, <2>1, <2>3, <3>1, <3>2 DEF Undecided
  <2> QED BY <1>7, <2>2, <2>3 DEF OnMutate
<1>8. ASSUME NEW e \in Executions, MutateOk(e) \/ MutateErr(e) PROVE TaskInv'
  <2>1. /\ pc[e] = "mutating" /\ UNCHANGED <<setup, result>> /\ outcome[e] = "none" /\ result[e] = "none"
        /\ \A p \in {"failed", "invalidate", "sleeping"}, o \in {"none", "Success", "Error"} :
             ResultAt(p, o) = "none" /\ p \in Places
    BY <1>8 DEF MutateOk, MutateErr, Runs, TaskInv, Undecided, ResultAt, Places, Suspended
  <2>2. CASE Goto(e, "invalidate") /\ outcome' = [outcome EXCEPT ![e] = "Success"] /\ UNCHANGED tries
    BY <1>4, <2>1, <2>2 DEF Goto, Undecided, Decided
  <2>3. CASE Goto(e, "failed") /\ outcome' = [outcome EXCEPT ![e] = "Error"] /\ UNCHANGED tries
    BY <1>4, <2>1, <2>3 DEF Goto, Undecided, Decided
  <2>4. CASE Goto(e, "sleeping") /\ tries' = [tries EXCEPT ![e] = @ + 1] /\ tries[e] < setup.retry /\ UNCHANGED outcome
    <3>1. PICK t : t = tries[e] + 1
      OBVIOUS
    <3>2. t \in 0 .. setup.retry
      BY <2>4, <3>1, SetupFacts DEF TaskInv
    <3>3. tries' = [tries EXCEPT ![e] = t]
      BY <2>4, <3>1
    <3> QED BY <1>4, <2>1, <2>4, <3>2, <3>3 DEF Goto, Undecided, Decided
  <2> QED BY <1>8, <2>2, <2>3, <2>4 DEF MutateOk, MutateErr
<1>9. ASSUME NEW e \in Executions, Reply(e) PROVE TaskInv'
  <2>1. /\ pc[e] = "reply" /\ pc' = [pc EXCEPT ![e] = "done"] /\ result' = [result EXCEPT ![e] = outcome[e]]
        /\ UNCHANGED <<setup, tries, outcome>>
    BY <1>9 DEF Reply, Runs, Goto
  <2>2. outcome[e] = ResultAt("done", outcome[e]) /\ outcome[e] \in {"Success", "Error"} /\ "done" \in Places
    BY <2>1 DEF ResultAt, TaskInv, Decided, Places, Over
  <2> QED BY <1>4, <2>1, <2>2 DEF Undecided
<1>10. ASSUME NEW e \in Executions, Abort(e) \/ Panic(e) PROVE TaskInv'
  <2>1. PICK p \in {"aborted", "panicked"} :
          /\ pc[e] \in Suspended /\ pc' = [pc EXCEPT ![e] = p]
          /\ result' = [result EXCEPT ![e] = "Cancelled"] /\ UNCHANGED <<setup, tries, outcome>>
    BY <1>10 DEF Abort, Panic, Runs, Goto, Suspended
  <2>2. outcome[e] = "none" /\ ResultAt(p, "none") = "Cancelled" /\ p \in Places /\ p \notin Decided
    BY <2>1 DEF TaskInv, Undecided, Suspended, ResultAt, Places, Over, Decided
  <2> QED BY <1>4, <2>1, <2>2
<1>11. ASSUME NEW e \in Executions, TaskStep(e) PROVE TaskInv'
  BY <1>6, <1>7, <1>8, <1>9, <1>11 DEF TaskStep
<1>12. ASSUME NEW e \in Executions, OuterStep(e) \/ AbortOuter(e) \/ RemoveEntry(e) PROVE TaskInv'
  BY <1>1, <1>12 DEF OuterStep, AbortOuter, RemoveEntry
<1>13. CASE StreamNext \/ Reset \/ ResetState \/ ClearEntries \/ ClearSend \/ SetIsRestoring
  BY <1>1, <1>13 DEF StreamNext, Reset, ResetState, ClearEntries, ClearSend, SetIsRestoring
<1>14. CASE UNCHANGED vars
  BY <1>1, <1>14 DEF vars
<1> QED BY <1>3, <1>5, <1>10, <1>11, <1>12, <1>13, <1>14 DEF Next

-----------------------------------------------------------------------------
(***************************************************************************)
(* The observer                                                            *)
(***************************************************************************)

LEMMA InitObserver == Init => ObserverInv
<1> SUFFICES ASSUME Init PROVE ObserverInv
  OBVIOUS
<1>1. setup.budget \in Nat
  BY SetupFacts, TrackingAssumption DEF Init
<1>2. generation \in 0 .. ops /\ ops \in 0 .. setup.budget
  BY <1>1 DEF Init
<1>5. resetting \in BOOLEAN /\ crossed \in BOOLEAN
  BY DEF Init
<1>3. /\ observed \in [Executions -> 0 .. generation] /\ latest \in Executions \cup {Nobody}
      /\ tracked \in [st : {"Idle", "Loading", "Success", "Error"}, by : Executions \cup {Nobody}]
      /\ tracked.st # "Loading" /\ tracked.by = Nobody
  BY DEF Init
<1>4. \A e \in Executions : pc[e] # "write"
  BY DEF Init
<1> QED BY <1>2, <1>3, <1>4, <1>5 DEF ObserverInv, ResetSticks

\* While the state is Loading and no reset is under way, the execution it belongs
\* to is not about to deliver.
Pending(p) == tracked.st = "Loading" /\ ~resetting => p \notin {"new", "reply", "done", "skipped"}

LEMMA ObserverKept ==
  ASSUME TaskInv, ObserverInv, NEW e \in Executions, NEW p,
         UNCHANGED <<setup, obsVars>>,
         ops' = ops \/ (ops < setup.budget /\ ops' = ops + 1),
         Goto(e, p) \/ UNCHANGED pc,
         pc' # pc /\ latest = e => Pending(p),
         pc' # pc /\ p = "write" => observed[e] = generation
  PROVE  ObserverInv'
<1>1. UNCHANGED <<generation, observed, tracked, latest, crossed, resetting, setup>>
  BY DEF obsVars
<1>2. setup.budget \in Nat
  BY SetupFacts, TrackingAssumption DEF TaskInv
<1>3. ops' \in 0 .. setup.budget /\ generation \in 0 .. ops'
  BY <1>2 DEF ObserverInv
<1>4. \A x \in Executions : pc'[x] = "write" => pc[x] = "write" \/ observed[x] = generation
  BY DEF Goto, TaskInv
<1>5. tracked.st = "Loading" /\ ~resetting => pc'[latest] \notin {"new", "reply", "done", "skipped"}
  <2> SUFFICES ASSUME tracked.st = "Loading", ~resetting PROVE pc'[latest] \notin {"new", "reply", "done", "skipped"}
    OBVIOUS
  <2>1. latest \in Executions /\ pc[latest] \notin {"new", "reply", "done", "skipped"}
    BY DEF ObserverInv
  <2>2. pc'[latest] = pc[latest] \/ (latest = e /\ pc' # pc /\ pc'[latest] = p)
    BY <2>1 DEF Goto, TaskInv
  <2> QED BY <2>1, <2>2 DEF Pending
<1>6. ResetSticks'
  BY <1>1 DEF ObserverInv, ResetSticks
<1>7. Observed(latest)' = Observed(latest)
  BY <1>1 DEF Observed
<1> QED BY <1>1, <1>3, <1>4, <1>5, <1>6, <1>7 DEF ObserverInv

LEMMA NextObserver == TaskInv /\ ObserverInv /\ [Next]_vars => ObserverInv'
<1> SUFFICES ASSUME TaskInv, ObserverInv, [Next]_vars PROVE ObserverInv'
  OBVIOUS
<1>1. CASE UNCHANGED <<setup, obsVars, ops, pc>>
  BY <1>1 DEF ObserverInv, obsVars, Observed, ResetSticks
<1>2. ASSUME NEW op, Calling(op), UNCHANGED <<setup, obsVars, pc>> PROVE ObserverInv'
  <2>1. ops < setup.budget /\ ops' = ops + 1 /\ setup.budget \in Nat
    BY <1>2, SetupFacts, TrackingAssumption DEF Calling, TaskInv
  <2>2. ops' \in 0 .. setup.budget /\ generation \in 0 .. ops'
    BY <2>1 DEF ObserverInv
  <2> QED BY <1>2, <2>2 DEF ObserverInv, obsVars, Observed, ResetSticks
<1>3. ASSUME NEW e \in Executions, NEW p, Goto(e, p), UNCHANGED <<setup, obsVars, ops>>,
             \/ p \in Places \ {"new", "reply", "done", "skipped", "write"}
             \/ setup.start = "spawn" /\ p # "write"
             \/ pc[e] = "check" /\ p = IF generation = observed[e] THEN "write" ELSE "reply"
             \/ ~Observed(e) /\ p # "write"
             \/ pc[e] = "reply" /\ p = "done"
      PROVE  ObserverInv'
  <2>1. latest = e => Pending(p)
    BY <1>3 DEF ObserverInv, Observed, Pending
  <2>2. p = "write" => observed[e] = generation
    BY <1>3
  <2> QED BY <1>3, <2>1, <2>2, ObserverKept
<1>4. ASSUME NEW e \in Executions, AddEntry(e) \/ HookId(e) \/ SendAdded(e) \/ Context(e) \/ RetryDelay(e) PROVE ObserverInv'
  <2>1. \E p \in {"hooking", "on_mutate", "added", "mutating"} : Goto(e, p)
    BY <1>4 DEF AddEntry, HookId, SendAdded, Context, RetryDelay
  <2>2. UNCHANGED <<setup, obsVars, ops>>
    BY <1>4 DEF AddEntry, HookId, SendAdded, Context, RetryDelay
  <2> QED BY <1>3, <2>1, <2>2 DEF Places, Suspended
<1>5. ASSUME NEW e \in Executions, OnMutate(e) \/ Rollback(e) \/ Invalidate(e) PROVE ObserverInv'
  <2>1. \/ \E p \in {"mutating", "context", "settle"} : Goto(e, p)
        \/ setup.start = "spawn" /\ Goto(e, "reply")
    BY <1>5 DEF OnMutate, Rollback, Invalidate
  <2>2. UNCHANGED <<setup, obsVars, ops>>
    BY <1>5 DEF OnMutate, Rollback, Invalidate
  <2> QED BY <1>3, <2>1, <2>2 DEF Places, Suspended
<1>6. ASSUME NEW e \in Executions, MutateOk(e) \/ MutateErr(e) \/ Settle(e) PROVE ObserverInv'
  <2>1. \E p \in {"invalidate", "sleeping", "failed", "updated"} : Goto(e, p)
    BY <1>6 DEF MutateOk, MutateErr, Settle
  <2>2. UNCHANGED <<setup, obsVars, ops>>
    BY <1>6 DEF MutateOk, MutateErr, Settle
  <2> QED BY <1>3, <2>1, <2>2 DEF Places, Suspended
<1>7. ASSUME NEW e \in Executions, Updated(e) \/ CheckGeneration(e) \/ Reply(e) PROVE ObserverInv'
  <2>1. UNCHANGED <<setup, obsVars, ops>>
    BY <1>7 DEF Updated, CheckGeneration, Reply
  <2>2. CASE Updated(e)
    BY <1>3, <2>1, <2>2 DEF Updated, Places
  <2>3. CASE CheckGeneration(e)
    BY <1>3, <2>1, <2>3 DEF CheckGeneration, Runs
  <2>4. CASE Reply(e)
    BY <1>3, <2>1, <2>4 DEF Reply, Runs
  <2> QED BY <1>7, <2>2, <2>3, <2>4
<1>8. ASSUME NEW e \in Executions, WriteState(e) PROVE ObserverInv'
  <2>1. /\ pc[e] = "write" /\ tracked' = [st |-> outcome[e], by |-> e] /\ pc' = [pc EXCEPT ![e] = "reply"]
        /\ UNCHANGED <<setup, generation, observed, latest, crossed, resetting, ops>>
    BY <1>8 DEF WriteState, Runs, Goto
  <2>2. outcome[e] \in {"Success", "Error"}
    BY <2>1 DEF TaskInv, Decided
  <2>3. tracked' \in [st : {"Idle", "Loading", "Success", "Error"}, by : Executions \cup {Nobody}]
    BY <2>1, <2>2
  <2>4. tracked'.st # "Loading" /\ tracked'.by = e
    BY <2>1, <2>2
  <2>5. \A x \in Executions : pc'[x] = "write" => pc[x] = "write"
    BY <2>1 DEF TaskInv
  <2>6. ~setup.pool => observed[e] = generation
    BY <2>1 DEF ObserverInv
  <2>7. ResetSticks'
    BY <2>1, <2>4, <2>6 DEF ResetSticks
  <2> QED BY <2>1, <2>3, <2>4, <2>5, <2>7 DEF ObserverInv
<1>9. ASSUME NEW e \in Executions, Submit(e) PROVE ObserverInv'
  <2>1. pc[e] = "new" /\ Goto(e, "ready") /\ ~resetting /\ UNCHANGED <<setup, generation, resetting, ops>>
    BY <1>9 DEF Submit, AppFree
  <2>2. CASE ~Observed(e)
    <3>1. UNCHANGED obsVars
      BY <1>9, <2>2 DEF Submit, obsVars
    <3> QED BY <1>3, <2>1, <3>1 DEF Places, Suspended
  <2>3. CASE Observed(e)
    <3>1. /\ tracked' = [st |-> "Loading", by |-> e]
          /\ observed' = [observed EXCEPT ![e] = generation]
          /\ latest' = e /\ crossed' \in BOOLEAN
      BY <1>9, <2>3 DEF Submit
    <3>2. /\ tracked' \in [st : {"Idle", "Loading", "Success", "Error"}, by : Executions \cup {Nobody}]
          /\ tracked'.by = e
      BY <3>1
    <3>3. observed' \in [Executions -> 0 .. generation] /\ observed'[e] = generation
      BY <3>1 DEF ObserverInv
    <3>4. pc'[e] = "ready" /\ \A x \in Executions \ {e} : pc'[x] = pc[x] /\ observed'[x] = observed[x]
      BY <2>1, <3>1 DEF Goto, TaskInv, ObserverInv
    <3>5. ResetSticks'
      BY <2>1, <3>2, <3>3 DEF ResetSticks
    <3>6. \A x \in Executions : ~setup.pool /\ pc'[x] = "write" => observed'[x] = generation
      BY <3>3, <3>4 DEF ObserverInv
    <3>7. Observed(e)'
      BY <2>1, <2>3 DEF Observed
    <3> QED BY <2>1, <3>1, <3>2, <3>3, <3>4, <3>5, <3>6, <3>7 DEF ObserverInv
  <2> QED BY <2>2, <2>3
<1>10. ASSUME NEW e \in Executions, SpawnMutation(e) PROVE ObserverInv'
  <2>1. setup.start = "spawn" /\ UNCHANGED <<setup, obsVars, ops>> /\ \E p \in {"ready", "skipped"} : Goto(e, p)
    BY <1>10 DEF SpawnMutation
  <2> QED BY <1>3, <2>1
<1>11. ASSUME NEW e \in Executions, Abort(e) PROVE ObserverInv'
  <2>1. ops < setup.budget /\ ops' = ops + 1 /\ Goto(e, "aborted") /\ UNCHANGED <<setup, obsVars>>
    BY <1>11 DEF Abort, Calling, obsVars
  <2> QED BY <2>1, ObserverKept DEF Pending
<1>12. ASSUME NEW e \in Executions, Panic(e) PROVE ObserverInv'
  <2>1. Goto(e, "panicked") /\ UNCHANGED <<setup, obsVars, ops>>
    BY <1>12 DEF Panic
  <2> QED BY <1>3, <2>1 DEF Places, Over
<1>13. CASE Reset
  <2>1. /\ ops < setup.budget /\ ops' = ops + 1 /\ generation' = generation + 1 /\ resetting' = TRUE
        /\ UNCHANGED <<setup, pc, observed, tracked, latest, crossed>> /\ AppFree
    BY <1>13 DEF Reset, Calling, taskVars
  <2>2. setup.budget \in Nat
    BY SetupFacts, TrackingAssumption DEF TaskInv
  <2>3. generation' \in 0 .. ops' /\ ops' \in 0 .. setup.budget /\ observed' \in [Executions -> 0 .. generation']
    BY <2>1, <2>2 DEF ObserverInv
  <2>4. ~setup.pool => \A x \in Executions : pc[x] # "write"
    BY <2>1 DEF AppFree, MayRun, Suspended, Over
  <2>5. ResetSticks'
    BY <2>1 DEF ResetSticks
  <2> QED BY <2>1, <2>3, <2>4, <2>5 DEF ObserverInv, Observed
<1>14. CASE ResetState
  <2>1. /\ tracked' = [st |-> "Idle", by |-> Nobody] /\ resetting' = FALSE
        /\ UNCHANGED <<setup, pc, generation, observed, latest, crossed, ops>>
    BY <1>14 DEF ResetState, taskVars
  <2>2. /\ tracked' \in [st : {"Idle", "Loading", "Success", "Error"}, by : Executions \cup {Nobody}]
        /\ tracked'.st # "Loading" /\ tracked'.by = Nobody
    BY <2>1
  <2>3. ResetSticks'
    BY <2>2 DEF ResetSticks
  <2> QED BY <2>1, <2>2, <2>3 DEF ObserverInv
<1>15. ASSUME NEW e \in Executions, OuterStep(e) PROVE ObserverInv'
  BY <1>1, <1>15 DEF OuterStep, taskVars
<1>16. CASE StreamNext \/ ClearSend
  BY <1>1, <1>16 DEF StreamNext, ClearSend, taskVars
<1>17. ASSUME NEW e \in Executions, RemoveEntry(e) \/ AbortOuter(e) PROVE ObserverInv'
  BY <1>2, <1>17 DEF RemoveEntry, AbortOuter, taskVars
<1>18. CASE ClearEntries \/ SetIsRestoring
  BY <1>2, <1>18 DEF ClearEntries, SetIsRestoring, taskVars
<1>19. CASE UNCHANGED vars
  BY <1>1, <1>19 DEF vars, taskVars
<1>20. ASSUME NEW e \in Executions, TaskStep(e) PROVE ObserverInv'
  BY <1>4, <1>5, <1>6, <1>7, <1>8, <1>20 DEF TaskStep
<1> QED BY <1>9, <1>10, <1>11, <1>12, <1>13, <1>14, <1>15, <1>16, <1>17, <1>18, <1>19, <1>20 DEF Next

LEMMA InitNewest == Init => WritersInv /\ NewestInv
  BY DEF Init, WritersInv, NewestInv

LEMMA NextWriters == TaskInv /\ ObserverInv /\ WritersInv /\ [Next]_vars => WritersInv'
<1> SUFFICES ASSUME TaskInv, ObserverInv, WritersInv, [Next]_vars PROVE WritersInv'
  OBVIOUS
<1>1. CASE UNCHANGED <<setup, obsVars, pc>>
  BY <1>1 DEF WritersInv, Observed, obsVars
<1>2. ASSUME NEW e \in Executions, NEW p, Goto(e, p), UNCHANGED <<setup, obsVars>>,
             p \in {"check", "write"} => Observed(e)
      PROVE  WritersInv'
  <2>1. pc'[e] = p /\ \A x \in Executions \ {e} : pc'[x] = pc[x]
    BY <1>2 DEF Goto, TaskInv
  <2> QED BY <1>2, <2>1 DEF WritersInv, Observed, obsVars
<1>3. ASSUME NEW e \in Executions,
             AddEntry(e) \/ HookId(e) \/ SendAdded(e) \/ OnMutate(e) \/ Context(e) \/ MutateOk(e) \/ MutateErr(e)
      PROVE  WritersInv'
  <2>1. UNCHANGED <<setup, obsVars>>
    BY <1>3 DEF AddEntry, HookId, SendAdded, OnMutate, Context, MutateOk, MutateErr
  <2>2. \E p \in Places \ {"check", "write"} : Goto(e, p)
    BY <1>3 DEF AddEntry, HookId, SendAdded, OnMutate, Context, MutateOk, MutateErr, Places, Suspended
  <2> QED BY <1>2, <2>1, <2>2
<1>4. ASSUME NEW e \in Executions,
             RetryDelay(e) \/ Rollback(e) \/ Invalidate(e) \/ Settle(e) \/ Reply(e) \/ SpawnMutation(e)
               \/ Abort(e) \/ Panic(e)
      PROVE  WritersInv'
  <2>1. UNCHANGED <<setup, obsVars>>
    BY <1>4 DEF RetryDelay, Rollback, Invalidate, Settle, Reply, SpawnMutation, Abort, Panic
  <2>2. \E p \in Places \ {"check", "write"} : Goto(e, p)
    BY <1>4 DEF RetryDelay, Rollback, Invalidate, Settle, Reply, SpawnMutation, Abort, Panic, Places,
                Suspended, Over
  <2> QED BY <1>2, <2>1, <2>2
<1>5. ASSUME NEW e \in Executions, Updated(e) PROVE WritersInv'
  BY <1>2, <1>5 DEF Updated
<1>6. ASSUME NEW e \in Executions, CheckGeneration(e) PROVE WritersInv'
  <2>1. Observed(e)
    BY <1>6 DEF CheckGeneration, Runs, WritersInv
  <2> QED BY <1>2, <1>6, <2>1 DEF CheckGeneration
<1>7. ASSUME NEW e \in Executions, WriteState(e) PROVE WritersInv'
  <2>1. Goto(e, "reply") /\ UNCHANGED <<setup, observed, latest, generation, resetting>>
    BY <1>7 DEF WriteState
  <2>2. \A x \in Executions : pc'[x] \in {"check", "write"} => pc[x] \in {"check", "write"}
    BY <2>1 DEF Goto, TaskInv
  <2> QED BY <2>1, <2>2 DEF WritersInv, Observed
<1>8. ASSUME NEW e \in Executions, Submit(e) PROVE WritersInv'
  <2>1. Goto(e, "ready") /\ UNCHANGED <<setup, resetting>> /\ ~resetting
    BY <1>8 DEF Submit, AppFree
  <2>2. \A x \in Executions : pc'[x] \in {"check", "write"} => pc[x] \in {"check", "write"}
    BY <2>1 DEF Goto, TaskInv
  <2> QED BY <2>1, <2>2 DEF WritersInv, Observed
<1>9. CASE Reset
  <2>1. generation' = generation + 1 /\ UNCHANGED <<setup, pc, observed, latest>>
    BY <1>9 DEF Reset, taskVars
  <2>2. latest # Nobody => observed[latest] # generation'
    BY <2>1 DEF ObserverInv
  <2> QED BY <2>1, <2>2 DEF WritersInv, Observed
<1>10. CASE ResetState
  BY <1>10 DEF ResetState, WritersInv, Observed, taskVars
<1>11. ASSUME NEW e \in Executions, OuterStep(e) \/ AbortOuter(e) \/ RemoveEntry(e) PROVE WritersInv'
  BY <1>1, <1>11 DEF OuterStep, AbortOuter, RemoveEntry, taskVars
<1>12. CASE StreamNext \/ ClearEntries \/ ClearSend \/ SetIsRestoring
  BY <1>1, <1>12 DEF StreamNext, ClearEntries, ClearSend, SetIsRestoring, taskVars
<1>13. CASE UNCHANGED vars
  BY <1>1, <1>13 DEF vars, taskVars
<1>14. ASSUME NEW e \in Executions, TaskStep(e) PROVE WritersInv'
  BY <1>3, <1>4, <1>5, <1>6, <1>7, <1>14 DEF TaskStep
<1> QED BY <1>4, <1>8, <1>9, <1>10, <1>11, <1>12, <1>13, <1>14 DEF Next

\* A move of one execution that is under way keeps what is shown, when it does
\* not pass the place where the state is written.
LEMMA NewestKept ==
  ASSUME TaskInv, ObserverInv, NewestInv, NEW e \in Executions, NEW p,
         UNCHANGED <<setup, obsVars>>, Goto(e, p),
         pc[e] # "new" \/ ~Observed(e),
         \/ /\ pc[e] \notin Over \cup {"reply", "write"} /\ p # "write"
            /\ p \in {"reply", "done"} => ~Observed(e)
         \/ pc[e] = "check" /\ p = IF generation = observed[e] THEN "write" ELSE "reply"
         \/ pc[e] = "reply" /\ p = "done"
         \/ ~Observed(e),
         \A x \in Executions : x # e \/ pc[x] \in {"reply", "done"} => outcome'[x] = outcome[x],
         p # "new"
  PROVE  NewestInv'
<1>1. UNCHANGED <<generation, observed, tracked, latest, crossed, setup>>
  BY DEF obsVars
<1>2. pc'[e] = p /\ \A x \in Executions \ {e} : pc'[x] = pc[x]
  BY DEF Goto, TaskInv
<1> SUFFICES ASSUME ~crossed, latest # Nobody, observed[latest] = generation
             PROVE  /\ Observed(latest) /\ pc'[latest] # "new"
                    /\ tracked = Shown(latest)'
                    /\ \A x \in Executions \ {latest} : ~MayWrite(x)'
  BY <1>1 DEF NewestInv, Observed
<1>3. /\ latest \in Executions /\ Observed(latest) /\ pc[latest] # "new" /\ tracked = Shown(latest)
      /\ \A x \in Executions \ {latest} : ~MayWrite(x)
  BY DEF NewestInv, ObserverInv
<1>4. pc'[latest] # "new"
  BY <1>2, <1>3
<1>5. Shown(latest)' = Shown(latest)
  <2>1. CASE latest # e
    BY <1>1, <1>2, <1>3, <2>1 DEF Shown
  <2>2. CASE latest = e /\ pc[e] = "reply" /\ p = "done"
    BY <1>1, <1>2, <2>2 DEF Shown
  <2>3. CASE latest = e /\ pc[e] \notin {"reply", "done"} /\ p \notin {"reply", "done"}
    BY <1>1, <1>2, <2>3 DEF Shown
  <2>4. latest = e => \/ pc[e] = "reply" /\ p = "done"
                      \/ pc[e] \notin {"reply", "done"} /\ p \notin {"reply", "done"}
    BY <1>3 DEF Over
  <2> QED BY <2>1, <2>2, <2>3, <2>4
<1>6. ASSUME NEW x \in Executions \ {latest} PROVE ~MayWrite(x)'
  <2>1. ~MayWrite(x) /\ (Observed(x)' <=> Observed(x))
    BY <1>1, <1>3 DEF Observed
  <2>2. CASE x # e
    BY <1>1, <1>2, <2>1, <2>2 DEF MayWrite
  <2>3. CASE x = e /\ Observed(e)
    BY <1>1, <1>2, <2>1, <2>3 DEF MayWrite, Over
  <2>4. CASE x = e /\ ~Observed(e)
    BY <2>1, <2>4 DEF MayWrite
  <2> QED BY <2>2, <2>3, <2>4
<1> QED BY <1>1, <1>3, <1>4, <1>5, <1>6

LEMMA NextNewest == TaskInv /\ ObserverInv /\ WritersInv /\ NewestInv /\ [Next]_vars => NewestInv'
<1> SUFFICES ASSUME TaskInv, ObserverInv, WritersInv, NewestInv, [Next]_vars PROVE NewestInv'
  OBVIOUS
<1>1. CASE UNCHANGED <<setup, obsVars, pc, outcome>>
  BY <1>1 DEF NewestInv, MayWrite, Shown, Observed, obsVars
<1>2. ASSUME NEW e \in Executions,
             AddEntry(e) \/ HookId(e) \/ SendAdded(e) \/ Context(e) \/ RetryDelay(e) \/ Settle(e)
      PROVE  NewestInv'
  <2>1. /\ UNCHANGED <<setup, obsVars, outcome>>
        /\ pc[e] \in {"ready", "hooking", "added", "context", "sleeping", "settle"}
        /\ \E p \in {"hooking", "on_mutate", "added", "mutating", "updated"} : Goto(e, p)
    BY <1>2 DEF AddEntry, HookId, SendAdded, Context, RetryDelay, Settle, Runs
  <2> QED BY <2>1, NewestKept DEF Over
<1>3. ASSUME NEW e \in Executions, OnMutate(e) \/ Rollback(e) \/ Invalidate(e) PROVE NewestInv'
  <2>1. /\ UNCHANGED <<setup, obsVars>> /\ pc[e] \in {"on_mutate", "failed", "invalidate"}
        /\ outcome' = outcome \/ outcome' = [outcome EXCEPT ![e] = "Error"]
    BY <1>3 DEF OnMutate, Rollback, Invalidate, Runs
  <2>2. \/ \E p \in {"mutating", "context", "settle"} : Goto(e, p)
        \/ setup.start = "spawn" /\ Goto(e, "reply")
    BY <1>3 DEF OnMutate, Rollback, Invalidate
  <2>3. \A x \in Executions : x # e \/ pc[x] \in {"reply", "done"} => outcome'[x] = outcome[x]
    BY <2>1 DEF TaskInv
  <2>4. setup.start = "spawn" => ~Observed(e)
    BY DEF Observed
  <2> QED BY <2>1, <2>2, <2>3, <2>4, NewestKept DEF Over
<1>4. ASSUME NEW e \in Executions, MutateOk(e) \/ MutateErr(e) PROVE NewestInv'
  <2>1. /\ UNCHANGED <<setup, obsVars>> /\ pc[e] = "mutating"
        /\ outcome' = outcome \/ \E o : outcome' = [outcome EXCEPT ![e] = o]
        /\ \E p \in {"invalidate", "sleeping", "failed"} : Goto(e, p)
    BY <1>4 DEF MutateOk, MutateErr, Runs
  <2>2. \A x \in Executions : x # e \/ pc[x] \in {"reply", "done"} => outcome'[x] = outcome[x]
    BY <2>1 DEF TaskInv
  <2> QED BY <2>1, <2>2, NewestKept DEF Over
<1>5. ASSUME NEW e \in Executions, Updated(e) \/ CheckGeneration(e) \/ Reply(e) PROVE NewestInv'
  <2>1. UNCHANGED <<setup, obsVars, outcome>>
    BY <1>5 DEF Updated, CheckGeneration, Reply
  <2>2. CASE Updated(e)
    <3>1. pc[e] = "updated" /\ Goto(e, IF Observed(e) THEN "check" ELSE "reply")
      BY <2>2 DEF Updated, Runs
    <3> QED BY <2>1, <3>1, NewestKept DEF Over
  <2>3. CASE CheckGeneration(e)
    <3>1. pc[e] = "check" /\ Goto(e, IF generation = observed[e] THEN "write" ELSE "reply")
      BY <2>3 DEF CheckGeneration, Runs
    <3> QED BY <2>1, <3>1, NewestKept
  <2>4. CASE Reply(e)
    <3>1. pc[e] = "reply" /\ Goto(e, "done")
      BY <2>4 DEF Reply, Runs
    <3> QED BY <2>1, <3>1, NewestKept
  <2> QED BY <1>5, <2>2, <2>3, <2>4
<1>6. ASSUME NEW e \in Executions, WriteState(e) PROVE NewestInv'
  <2>1. /\ pc[e] = "write" /\ tracked' = [st |-> outcome[e], by |-> e] /\ Goto(e, "reply")
        /\ UNCHANGED <<setup, generation, observed, latest, crossed, outcome>>
    BY <1>6 DEF WriteState, Runs
  <2>2. pc'[e] = "reply" /\ \A x \in Executions \ {e} : pc'[x] = pc[x]
    BY <2>1 DEF Goto, TaskInv
  <2>3. CASE Observed(e)
    <3> SUFFICES ASSUME ~crossed, latest # Nobody, observed[latest] = generation
                 PROVE  /\ Observed(latest) /\ pc'[latest] # "new"
                        /\ tracked' = Shown(latest)'
                        /\ \A x \in Executions \ {latest} : ~MayWrite(x)'
      BY <2>1 DEF NewestInv, Observed
    <3>1. MayWrite(e)
      BY <2>1, <2>3 DEF MayWrite, Over
    <3>2. latest = e
      BY <3>1 DEF NewestInv
    <3>3. tracked' = Shown(latest)'
      BY <2>1, <2>2, <3>2 DEF Shown
    <3>4. \A x \in Executions \ {latest} : ~MayWrite(x)'
      BY <2>1, <2>2, <3>2 DEF NewestInv, MayWrite, Observed
    <3> QED BY <2>2, <2>3, <3>2, <3>3, <3>4
  <2>4. Observed(e)
    BY <2>1 DEF WritersInv
  <2> QED BY <2>3, <2>4
<1>7. ASSUME NEW e \in Executions, Submit(e) PROVE NewestInv'
  <2>1. pc[e] = "new" /\ Goto(e, "ready") /\ UNCHANGED <<setup, generation, outcome>>
    BY <1>7 DEF Submit
  <2>2. pc'[e] = "ready" /\ \A x \in Executions \ {e} : pc'[x] = pc[x]
    BY <2>1 DEF Goto, TaskInv
  <2>3. CASE ~Observed(e)
    <3>1. UNCHANGED <<setup, obsVars, outcome>>
      BY <1>7, <2>1, <2>3 DEF Submit, obsVars
    <3> QED BY <2>1, <2>3, <3>1, NewestKept
  <2>4. CASE Observed(e)
    <3>1. /\ tracked' = [st |-> "Loading", by |-> e] /\ latest' = e
          /\ observed' = [observed EXCEPT ![e] = generation]
          /\ ~crossed' => \A x \in Executions \ {e} : ~MayWrite(x)
      BY <1>7, <2>4 DEF Submit
    <3>2. \A x \in Executions \ {e} : observed'[x] = observed[x]
      BY <3>1 DEF ObserverInv
    <3>3. ~crossed' => \A x \in Executions \ {e} : ~MayWrite(x)'
      BY <2>1, <2>2, <3>1, <3>2 DEF MayWrite, Observed
    <3>4. tracked' = Shown(e)' /\ Observed(e)'
      BY <2>1, <2>2, <2>4, <3>1 DEF Shown, Observed
    <3> QED BY <2>2, <3>1, <3>3, <3>4 DEF NewestInv
  <2> QED BY <2>3, <2>4
<1>8. ASSUME NEW e \in Executions, SpawnMutation(e) PROVE NewestInv'
  <2>1. /\ setup.start = "spawn" /\ UNCHANGED <<setup, obsVars, outcome>>
        /\ \E p \in {"ready", "skipped"} : Goto(e, p)
    BY <1>8 DEF SpawnMutation
  <2> QED BY <2>1, NewestKept DEF Observed
<1>9. ASSUME NEW e \in Executions, Abort(e) \/ Panic(e) PROVE NewestInv'
  <2>1. /\ UNCHANGED <<setup, obsVars, outcome>> /\ pc[e] \in Suspended
        /\ \E p \in {"aborted", "panicked"} : Goto(e, p)
    BY <1>9 DEF Abort, Panic, Runs, Suspended
  <2> QED BY <2>1, NewestKept DEF Over, Suspended
<1>10. CASE Reset
  <2>1. generation' = generation + 1 /\ UNCHANGED <<observed, latest>>
    BY <1>10 DEF Reset
  <2>2. latest # Nobody => observed[latest] # generation'
    BY <2>1 DEF ObserverInv
  <2> QED BY <2>1, <2>2 DEF NewestInv
<1>11. CASE ResetState
  <2>1. UNCHANGED <<generation, observed, latest>> /\ resetting
    BY <1>11 DEF ResetState
  <2>2. latest # Nobody => observed[latest] # generation
    BY <2>1 DEF WritersInv
  <2> QED BY <2>1, <2>2 DEF NewestInv
<1>12. ASSUME NEW e \in Executions, OuterStep(e) \/ AbortOuter(e) \/ RemoveEntry(e) PROVE NewestInv'
  BY <1>1, <1>12 DEF OuterStep, AbortOuter, RemoveEntry, taskVars
<1>13. CASE StreamNext \/ ClearEntries \/ ClearSend \/ SetIsRestoring
  BY <1>1, <1>13 DEF StreamNext, ClearEntries, ClearSend, SetIsRestoring, taskVars
<1>14. CASE UNCHANGED vars
  BY <1>1, <1>14 DEF vars, taskVars
<1>15. ASSUME NEW e \in Executions, TaskStep(e) PROVE NewestInv'
  BY <1>2, <1>3, <1>4, <1>5, <1>6, <1>15 DEF TaskStep
<1> QED BY <1>7, <1>8, <1>9, <1>10, <1>11, <1>12, <1>13, <1>14, <1>15 DEF Next

-----------------------------------------------------------------------------
(***************************************************************************)
(* The hook, the cache and its event stream                                *)
(***************************************************************************)

LEMMA InitHook == Init => HookInv /\ CacheInv
  BY DEF Init, HookInv, CacheInv

LEMMA NextHook == HookInv /\ [Next]_vars => HookInv'
<1> SUFFICES ASSUME HookInv, [Next]_vars PROVE HookInv'
  OBVIOUS
<1>1. CASE UNCHANGED hookVars
  BY <1>1 DEF HookInv, hookVars
<1>2. ASSUME NEW e \in Executions, Submit(e) \/ OuterStep(e) \/ Abort(e) \/ AbortOuter(e) PROVE HookInv'
  BY <1>2 DEF Submit, OuterStep, Abort, AbortOuter, HookInv
<1>3. ASSUME NEW e \in Executions, TaskStep(e) PROVE UNCHANGED hookVars
  BY <1>3 DEF TaskStep, AddEntry, HookId, SendAdded, OnMutate, Context, MutateOk, MutateErr, RetryDelay,
              Rollback, Invalidate, Settle, Updated, CheckGeneration, WriteState, Reply
<1>4. ASSUME NEW e \in Executions, SpawnMutation(e) \/ Panic(e) \/ RemoveEntry(e) PROVE UNCHANGED hookVars
  BY <1>4 DEF SpawnMutation, Panic, RemoveEntry
<1>5. CASE ResetState
  BY <1>5 DEF ResetState, HookInv
<1>6. CASE StreamNext \/ Reset \/ ClearEntries \/ ClearSend \/ SetIsRestoring
  BY <1>1, <1>6 DEF StreamNext, Reset, ClearEntries, ClearSend, SetIsRestoring
<1>7. CASE UNCHANGED vars
  BY <1>1, <1>7 DEF vars
<1> QED BY <1>1, <1>2, <1>3, <1>4, <1>5, <1>6, <1>7 DEF Next

LEMMA NextCache == TaskInv /\ CacheInv /\ [Next]_vars => CacheInv'
<1> SUFFICES ASSUME TaskInv, CacheInv, [Next]_vars PROVE CacheInv'
  OBVIOUS
<1>1. CASE UNCHANGED <<setup, ids, entries>>
  BY <1>1 DEF CacheInv
<1>2. ASSUME NEW e \in Executions, AddEntry(e) \/ HookId(e) PROVE CacheInv'
  BY <1>2 DEF AddEntry, HookId, CacheInv, Observed, NewEntry
<1>3. ASSUME NEW e \in Executions, Settle(e) PROVE CacheInv'
  <2>1. outcome[e] \in {"Success", "Error"}
    BY <1>3 DEF Settle, Runs, TaskInv, Decided
  <2> QED BY <1>3, <2>1 DEF Settle, CacheInv
<1>4. ASSUME NEW e \in Executions, RemoveEntry(e) PROVE CacheInv'
  BY <1>4 DEF RemoveEntry, CacheInv
<1>5. CASE ClearEntries
  BY <1>5 DEF ClearEntries, CacheInv
<1>6. ASSUME NEW e \in Executions,
             SendAdded(e) \/ OnMutate(e) \/ Context(e) \/ MutateOk(e) \/ MutateErr(e) \/ RetryDelay(e)
             \/ Rollback(e) \/ Invalidate(e) \/ Updated(e) \/ CheckGeneration(e) \/ WriteState(e) \/ Reply(e)
      PROVE  UNCHANGED <<setup, ids, entries>>
  BY <1>6 DEF SendAdded, OnMutate, Context, MutateOk, MutateErr, RetryDelay, Rollback, Invalidate,
              Updated, CheckGeneration, WriteState, Reply, cacheVars
<1>7. ASSUME NEW e \in Executions, Submit(e) \/ SpawnMutation(e) \/ OuterStep(e) \/ Abort(e) \/ AbortOuter(e) \/ Panic(e)
      PROVE  UNCHANGED <<setup, ids, entries>>
  BY <1>7 DEF Submit, SpawnMutation, OuterStep, Abort, AbortOuter, Panic, cacheVars
<1>8. CASE StreamNext \/ Reset \/ ResetState \/ ClearSend \/ SetIsRestoring
  BY <1>1, <1>8 DEF StreamNext, Reset, ResetState, ClearSend, SetIsRestoring, cacheVars
<1>9. CASE UNCHANGED vars
  BY <1>1, <1>9 DEF vars, cacheVars
<1>10. ASSUME NEW e \in Executions, TaskStep(e) PROVE CacheInv'
  BY <1>1, <1>2, <1>3, <1>6, <1>10 DEF TaskStep
<1> QED BY <1>1, <1>4, <1>5, <1>7, <1>8, <1>9, <1>10 DEF Next

LEMMA InitStream == Init => StreamInv
<1>1. <<>> \in Seq(Events) /\ Len(<<>>) = 0
  BY EmptySeq
<1>2. Cap \in Nat
  BY CapacityAssumption DEF Cap
<1> QED BY <1>1, <1>2 DEF Init, StreamInv

\* The receiver's queue does not grow beyond the capacity of the channel.
LEMMA SendKeeps ==
  ASSUME StreamInv, NEW v \in Events, Send(v)
  PROVE  queue' \in Seq(Events) /\ Len(queue') <= Cap /\ missed' \in Nat
<1>1. CASE ~setup.stream
  BY <1>1 DEF Send, streamVars, StreamInv
<1>2. CASE setup.stream
  <2>1. queue' = Queued(queue, v) /\ missed' = Missed(queue, missed)
    BY <1>2 DEF Send
  <2>2. Cap \in Nat \ {0}
    BY CapacityAssumption DEF Cap
  <2>3. PICK n \in Nat : n = Len(queue)
    BY DEF StreamInv
  <2>4. missed' \in Nat
    BY <2>1 DEF Missed, StreamInv
  <2>5. CASE n >= Cap
    <3>1. Tail(queue) \in Seq(Events) /\ Len(Tail(queue)) = n - 1
      <4>1. queue # <<>>
        BY <2>2, <2>3, <2>5, EmptySeq
      <4> QED BY <2>3, <4>1, HeadTailProperties DEF StreamInv
    <3>2. queue' = Append(Tail(queue), v)
      BY <2>1, <2>3, <2>5 DEF Queued
    <3>3. queue' \in Seq(Events) /\ Len(queue') = n - 1 + 1
      BY <3>1, <3>2, AppendProperties
    <3> QED BY <2>3, <2>4, <3>3 DEF StreamInv
  <2>6. CASE ~(n >= Cap)
    <3>1. queue' = Append(queue, v)
      BY <2>1, <2>3, <2>6 DEF Queued
    <3>2. queue' \in Seq(Events) /\ Len(queue') = n + 1
      BY <2>3, <3>1, AppendProperties DEF StreamInv
    <3> QED BY <2>2, <2>4, <2>6, <3>2
  <2> QED BY <2>5, <2>6
<1> QED BY <1>1, <1>2

\* MutationCache::clear has an event for every entry, and a last one.
LEMMA RemovalsAreEvents ==
  ASSUME NEW S \in SUBSET Executions
  PROVE  LET gone == Append(Removals(S), Event("Cleared", Nobody)) IN
         gone \in Seq(Events) /\ \A i \in 1 .. Len(gone) : gone[i].what \in {"Removed", "Cleared"}
<1> DEFINE n == Cardinality(S)
           Q == [1 .. n -> {Event("Removed", e) : e \in S}]
<1>1. IsFiniteSet(S) /\ n \in Nat
  BY FS_Subset, FS_CardinalityType, TrackingAssumption
<1>2. PICK f \in [1 .. n -> S] : \A e \in S : \E i \in 1 .. n : f[i] = e
  <2>1. PICK m \in Nat : ExistsBijection(1 .. m, S)
    BY <1>1, FS_NatBijection
  <2>2. n = m
    BY <2>1, FS_CountingElements
  <2> QED BY <2>1, <2>2 DEF ExistsBijection, Bijection, Surjection
<1> DEFINE q == [i \in 1 .. n |-> Event("Removed", f[i])]
<1>3. q \in Q /\ \A e \in S : \E i \in DOMAIN q : q[i].id = e
  BY <1>2 DEF Event
<1>4. Removals(S) \in Q
  BY <1>3 DEF Removals
<1>5. \A e \in S : Event("Removed", e) \in Events
  BY DEF Event, Events
<1>6. Removals(S) \in Seq(Events)
  BY <1>1, <1>4, <1>5
<1>7. Event("Cleared", Nobody) \in Events
  BY DEF Event, Events
<1>8. \A i \in 1 .. n : Removals(S)[i].what = "Removed"
  BY <1>4 DEF Event
<1>9. Len(Removals(S)) = n
  BY <1>1, <1>4
<1>10. Event("Cleared", Nobody).what = "Cleared"
  BY DEF Event
<1> DEFINE r == Removals(S)
           all == Append(r, Event("Cleared", Nobody))
<1>11. r \in Seq(Events) /\ Len(r) = n /\ \A i \in 1 .. n : r[i].what = "Removed"
  BY <1>6, <1>8, <1>9
<1> HIDE DEF r
<1>12. all \in Seq(Events) /\ Len(all) = n + 1 /\ all[n + 1] = Event("Cleared", Nobody) /\ \A i \in 1 .. n : all[i] = r[i]
  BY <1>1, <1>7, <1>11, AppendProperties
<1> HIDE DEF all
<1>13. \A i \in 1 .. Len(all) : all[i].what \in {"Removed", "Cleared"}
  BY <1>1, <1>10, <1>11, <1>12
<1> QED BY <1>12, <1>13 DEF all, r

LEMMA NextStream == StreamInv /\ [Next]_vars => StreamInv'
<1> SUFFICES ASSUME StreamInv, [Next]_vars PROVE StreamInv'
  OBVIOUS
<1>1. CASE UNCHANGED <<queue, missed, clearing>>
  BY <1>1 DEF StreamInv
<1>2. ASSUME NEW e \in Executions, NEW what \in {"Added", "Updated", "Removed"}, Send(Event(what, e)), UNCHANGED clearing
      PROVE  StreamInv'
  <2>1. Event(what, e) \in Events
    BY DEF Event, Events
  <2> QED BY <1>2, <2>1, SendKeeps DEF StreamInv
<1>3. ASSUME NEW e \in Executions, SendAdded(e) \/ Context(e) \/ Updated(e) \/ RemoveEntry(e) PROVE StreamInv'
  <2>1. UNCHANGED clearing
    BY <1>3 DEF SendAdded, Context, Updated, RemoveEntry, cacheVars
  <2>2. (\E what \in {"Added", "Updated", "Removed"} : Send(Event(what, e))) \/ UNCHANGED <<queue, missed>>
    BY <1>3 DEF SendAdded, Context, Updated, SendUpdated, RemoveEntry, streamVars
  <2> QED BY <1>1, <1>2, <2>1, <2>2
<1>4. CASE StreamNext
  <2>1. UNCHANGED clearing
    BY <1>4 DEF StreamNext, cacheVars
  <2>2. CASE missed' = 0 /\ UNCHANGED queue
    BY <2>1, <2>2 DEF StreamInv
  <2>3. CASE queue # <<>> /\ queue' = Tail(queue) /\ UNCHANGED missed
    <3>1. PICK n \in Nat : n = Len(queue)
      BY DEF StreamInv
    <3>2. queue' \in Seq(Events) /\ Len(queue') = n - 1
      BY <2>3, <3>1, HeadTailProperties DEF StreamInv
    <3>3. Cap \in Nat
      BY CapacityAssumption DEF Cap
    <3> QED BY <2>1, <2>3, <3>1, <3>2, <3>3 DEF StreamInv
  <2> QED BY <1>4, <2>2, <2>3 DEF StreamNext
<1>5. CASE ClearEntries
  <2>1. UNCHANGED <<queue, missed>> /\ clearing' \in Seq(Events)
    BY <1>5, RemovalsAreEvents DEF ClearEntries, streamVars
  <2> QED BY <2>1 DEF StreamInv
<1>6. CASE ClearSend
  <2>1. clearing # <<>> /\ Send(Head(clearing)) /\ clearing' = Tail(clearing)
    BY <1>6 DEF ClearSend
  <2>2. Head(clearing) \in Events /\ clearing' \in Seq(Events)
    BY <2>1, HeadTailProperties DEF StreamInv
  <2> QED BY <2>1, <2>2, SendKeeps DEF StreamInv
<1>7. ASSUME NEW e \in Executions,
             AddEntry(e) \/ HookId(e) \/ OnMutate(e) \/ MutateOk(e) \/ MutateErr(e) \/ RetryDelay(e) \/ Rollback(e)
             \/ Invalidate(e) \/ Settle(e) \/ CheckGeneration(e) \/ WriteState(e) \/ Reply(e)
      PROVE  UNCHANGED <<queue, missed, clearing>>
  BY <1>7 DEF AddEntry, HookId, OnMutate, MutateOk, MutateErr, RetryDelay, Rollback, Invalidate, Settle,
              CheckGeneration, WriteState, Reply, cacheVars, streamVars
<1>8. ASSUME NEW e \in Executions, Submit(e) \/ SpawnMutation(e) \/ OuterStep(e) \/ Abort(e) \/ AbortOuter(e) \/ Panic(e)
      PROVE  UNCHANGED <<queue, missed, clearing>>
  BY <1>8 DEF Submit, SpawnMutation, OuterStep, Abort, AbortOuter, Panic, cacheVars, streamVars
<1>9. CASE Reset \/ ResetState \/ SetIsRestoring
  BY <1>1, <1>9 DEF Reset, ResetState, SetIsRestoring, cacheVars, streamVars
<1>10. CASE UNCHANGED vars
  BY <1>1, <1>10 DEF vars, cacheVars, streamVars
<1>11. ASSUME NEW e \in Executions, TaskStep(e) PROVE StreamInv'
  BY <1>1, <1>3, <1>7, <1>11 DEF TaskStep
<1> QED BY <1>1, <1>3, <1>4, <1>5, <1>6, <1>8, <1>9, <1>10, <1>11 DEF Next

-----------------------------------------------------------------------------
(***************************************************************************)
(* What the stream owes its reader                                         *)
(***************************************************************************)

\* The events read and those still queued, by position; those the stream promised.
EventAt(s, q, j) == IF j <= Len(s) THEN s[j] ELSE q[j - Len(s)]
DueAt(s, q, known, j) ==
  Promised(EventAt(s, q, j)) /\ (j > Len(s) => Relevant(EventAt(s, q, j), known))

\* f says where each event of o stands among those: in order, and all that are due.
Trace(f, o, s, q, known) ==
  /\ f \in [1 .. Len(o) -> 1 .. (Len(s) + Len(q))]
  /\ \A i, k \in 1 .. Len(o) : i < k => f[i] < f[k]
  /\ \A i \in 1 .. Len(o) : o[i] = EventAt(s, q, f[i])
  /\ \A j \in 1 .. (Len(s) + Len(q)) : DueAt(s, q, known, j) <=> \E i \in 1 .. Len(o) : f[i] = j

\* What Append returns, position by position.
LEMMA AppendFacts ==
  ASSUME NEW S, NEW a \in Seq(S), NEW v \in S, NEW n \in Nat, n = Len(a)
  PROVE  /\ Len(Append(a, v)) = n + 1 /\ Append(a, v)[n + 1] = v
         /\ \A j \in 1 .. n : Append(a, v)[j] = a[j]
<1>1. Len(Append(a, v)) = n + 1
  BY AppendProperties
<1>2. Append(a, v)[n + 1] = v
  BY AppendProperties
<1>3. \A j \in 1 .. n : Append(a, v)[j] = a[j]
  BY AppendProperties
<1> QED BY <1>1, <1>2, <1>3

\* A send puts one more event at the end of the queue ...
LEMMA TraceUnpromised ==
  ASSUME NEW o \in Seq(Events), NEW s \in Seq(Events), NEW q \in Seq(Events), NEW known, NEW f,
         NEW v \in Events, Trace(f, o, s, q, known), ~(Promised(v) /\ Relevant(v, known))
  PROVE  Trace(f, o, s, Append(q, v), known)
<1> DEFINE r == Append(q, v)
<1>1. PICK m \in Nat, n \in Nat, l \in Nat : m = Len(s) /\ n = Len(q) /\ l = Len(o)
  OBVIOUS
<1>2. Len(r) = n + 1 /\ r[n + 1] = v /\ \A j \in 1 .. n : r[j] = q[j]
  BY <1>1, AppendFacts, SMTT(30)
<1> HIDE DEF r
<1>3. ASSUME NEW j \in 1 .. (m + n) PROVE EventAt(s, r, j) = EventAt(s, q, j)
  <2>1. CASE j <= m
    BY <1>1, <2>1 DEF EventAt
  <2>2. CASE ~(j <= m)
    <3>1. j - m \in 1 .. n
      BY <2>2
    <3>2. r[j - m] = q[j - m]
      BY <1>2, <3>1
    <3> QED BY <1>1, <2>2, <3>2 DEF EventAt
  <2> QED BY <2>1, <2>2
<1>4. EventAt(s, r, m + n + 1) = v /\ m + n + 1 > m
  BY <1>1, <1>2 DEF EventAt
<1>5. f \in [1 .. l -> 1 .. (m + n)]
  BY <1>1 DEF Trace
<1>6. f \in [1 .. l -> 1 .. (m + (n + 1))]
  BY <1>5
<1>7. \A i \in 1 .. l : o[i] = EventAt(s, r, f[i])
  BY <1>1, <1>3, <1>5 DEF Trace
<1>8. ASSUME NEW j \in 1 .. (m + (n + 1)) PROVE DueAt(s, r, known, j) <=> \E i \in 1 .. l : f[i] = j
  <2>1. CASE j = m + n + 1
    <3>1. ~DueAt(s, r, known, j)
      BY <1>1, <1>4, <2>1 DEF DueAt
    <3>2. \A i \in 1 .. l : f[i] # j
      BY <1>5, <2>1
    <3> QED BY <3>1, <3>2
  <2>2. CASE j \in 1 .. (m + n)
    BY <1>1, <1>3, <2>2 DEF DueAt, Trace
  <2> QED BY <2>1, <2>2
<1> QED BY <1>1, <1>2, <1>6, <1>7, <1>8 DEF Trace, r

\* ... which is owed when the stream promised it.
LEMMA TracePromised ==
  ASSUME NEW o \in Seq(Events), NEW s \in Seq(Events), NEW q \in Seq(Events), NEW known, NEW f,
         NEW v \in Events, Trace(f, o, s, q, known), Promised(v), Relevant(v, known)
  PROVE  \E g : Trace(g, Append(o, v), s, Append(q, v), known)
<1> DEFINE r == Append(q, v)
           w == Append(o, v)
<1>1. PICK m \in Nat, n \in Nat, l \in Nat : m = Len(s) /\ n = Len(q) /\ l = Len(o)
  OBVIOUS
<1>2. Len(r) = n + 1 /\ r[n + 1] = v /\ \A j \in 1 .. n : r[j] = q[j]
  BY <1>1, AppendFacts, SMTT(30)
<1>3. Len(w) = l + 1 /\ w[l + 1] = v /\ \A j \in 1 .. l : w[j] = o[j]
  BY <1>1, AppendFacts, SMTT(30)
<1> HIDE DEF r, w
<1>4. ASSUME NEW j \in 1 .. (m + n) PROVE EventAt(s, r, j) = EventAt(s, q, j)
  <2>1. CASE j <= m
    BY <1>1, <2>1 DEF EventAt
  <2>2. CASE ~(j <= m)
    <3>1. j - m \in 1 .. n
      BY <2>2
    <3>2. r[j - m] = q[j - m]
      BY <1>2, <3>1
    <3> QED BY <1>1, <2>2, <3>2 DEF EventAt
  <2> QED BY <2>1, <2>2
<1>5. EventAt(s, r, m + n + 1) = v /\ m + n + 1 > m
  BY <1>1, <1>2 DEF EventAt
<1>6. f \in [1 .. l -> 1 .. (m + n)]
  BY <1>1 DEF Trace
<1> DEFINE g == [i \in 1 .. (l + 1) |-> IF i <= l THEN f[i] ELSE m + n + 1]
<1>7. g[l + 1] = m + n + 1 /\ \A i \in 1 .. l : g[i] = f[i] /\ g[i] \in 1 .. (m + n)
  BY <1>6
<1>8. g \in [1 .. (l + 1) -> 1 .. (m + (n + 1))]
  BY <1>6
<1> HIDE DEF g
<1>9. ASSUME NEW i \in 1 .. (l + 1), NEW k \in 1 .. (l + 1), i < k PROVE g[i] < g[k]
  <2>1. i \in 1 .. l /\ g[i] \in 1 .. (m + n) /\ g[i] = f[i]
    BY <1>7, <1>9
  <2>2. CASE k = l + 1
    BY <1>7, <2>1, <2>2
  <2>3. CASE k \in 1 .. l
    BY <1>1, <1>7, <1>9, <2>1, <2>3 DEF Trace
  <2> QED BY <2>2, <2>3
<1>10. \A i \in 1 .. (l + 1) : w[i] = EventAt(s, r, g[i])
  <2>1. ASSUME NEW i \in 1 .. l PROVE w[i] = EventAt(s, r, g[i])
    <3>1. w[i] = o[i] /\ o[i] = EventAt(s, q, f[i])
      BY <1>1, <1>3 DEF Trace
    <3> QED BY <1>4, <1>7, <3>1
  <2>2. w[l + 1] = EventAt(s, r, g[l + 1])
    <3>1. w[l + 1] = v /\ g[l + 1] = m + n + 1
      BY <1>3, <1>7
    <3> QED BY ONLY <3>1, <1>5
  <2>3. \A i \in 1 .. (l + 1) : i \in 1 .. l \/ i = l + 1
    BY <1>1
  <2> QED BY ONLY <2>1, <2>2, <2>3
<1>11. ASSUME NEW j \in 1 .. (m + (n + 1)) PROVE DueAt(s, r, known, j) <=> \E i \in 1 .. (l + 1) : g[i] = j
  <2>1. CASE j = m + n + 1
    BY <1>1, <1>5, <1>7, <2>1 DEF DueAt
  <2>2. CASE j \in 1 .. (m + n)
    <3>1. DueAt(s, r, known, j) <=> DueAt(s, q, known, j)
      BY <1>1, <1>4, <2>2 DEF DueAt
    <3>2. DueAt(s, q, known, j) <=> \E i \in 1 .. l : f[i] = j
      BY <1>1, <2>2 DEF Trace
    <3>3. (\E i \in 1 .. l : f[i] = j) <=> \E i \in 1 .. (l + 1) : g[i] = j
      <4>1. g[l + 1] # j
        BY <1>7, <2>2
      <4>2. \A i \in 1 .. (l + 1) : g[i] = j => i \in 1 .. l
        BY <4>1
      <4>3. \A i \in 1 .. l : i \in 1 .. (l + 1) /\ g[i] = f[i]
        BY <1>7
      <4> QED BY <4>2, <4>3
    <3> QED BY <3>1, <3>2, <3>3
  <2> QED BY <2>1, <2>2
<1>12. Trace(g, w, s, r, known)
  BY <1>1, <1>2, <1>3, <1>8, <1>9, <1>10, <1>11 DEF Trace
<1> QED BY <1>12 DEF w, r

\* A read moves the oldest queued event among those read ...
LEMMA TraceRead ==
  ASSUME NEW o \in Seq(Events), NEW s \in Seq(Events), NEW q \in Seq(Events), NEW known, NEW f,
         Trace(f, o, s, q, known), q # <<>>, Relevant(Head(q), known)
  PROVE  Trace(f, o, Append(s, Head(q)), Tail(q), known)
<1> DEFINE t == Append(s, Head(q))
           r == Tail(q)
<1>1. PICK m \in Nat, n \in Nat, l \in Nat : m = Len(s) /\ n = Len(q) /\ l = Len(o)
  OBVIOUS
<1>2. n > 0 /\ Head(q) = q[1]
  BY <1>1, EmptySeq
<1>3. Len(r) = n - 1 /\ \A j \in 1 .. (n - 1) : r[j] = q[j + 1]
  BY <1>1, <1>2, HeadTailProperties
<1>4. Len(t) = m + 1 /\ t[m + 1] = q[1] /\ \A j \in 1 .. m : t[j] = s[j]
  BY <1>1, <1>2, AppendProperties
<1>5. Relevant(q[1], known)
  BY <1>2
<1> HIDE DEF r, t
<1>6. ASSUME NEW j \in 1 .. (m + n) PROVE EventAt(t, r, j) = EventAt(s, q, j)
  <2>1. CASE j <= m
    BY <1>1, <1>4, <2>1 DEF EventAt
  <2>2. CASE j = m + 1
    BY <1>1, <1>4, <2>2 DEF EventAt
  <2>3. CASE j > m + 1
    <3>1. j - (m + 1) \in 1 .. (n - 1) /\ (j - (m + 1)) + 1 = j - m
      BY <1>2, <2>3
    <3>2. r[j - (m + 1)] = q[j - m]
      BY <1>3, <3>1
    <3> QED BY <1>1, <1>4, <2>3, <3>2 DEF EventAt
  <2> QED BY <2>1, <2>2, <2>3
<1>7. Len(t) + Len(r) = m + n
  BY <1>2, <1>3, <1>4
<1>8. f \in [1 .. l -> 1 .. (m + n)]
  BY <1>1 DEF Trace
<1>9. \A i \in 1 .. l : o[i] = EventAt(t, r, f[i])
  BY <1>1, <1>6, <1>8 DEF Trace
<1>10. ASSUME NEW j \in 1 .. (m + n) PROVE DueAt(t, r, known, j) <=> DueAt(s, q, known, j)
  <2>1. CASE j = m + 1
    <3>1. EventAt(s, q, j) = q[1]
      BY <1>1, <2>1 DEF EventAt
    <3> QED BY <1>1, <1>4, <1>5, <1>6, <2>1, <3>1 DEF DueAt
  <2>2. CASE j # m + 1
    BY <1>1, <1>4, <1>6, <2>2 DEF DueAt
  <2> QED BY <2>1, <2>2
<1>11. Trace(f, o, t, r, known)
  BY <1>1, <1>7, <1>8, <1>9, <1>10 DEF Trace
<1> QED BY <1>11 DEF t, r

\* ... or passes it over, and what was behind it moves up.
LEMMA TracePassed ==
  ASSUME NEW o \in Seq(Events), NEW s \in Seq(Events), NEW q \in Seq(Events), NEW known, NEW f,
         Trace(f, o, s, q, known), q # <<>>, ~(Promised(Head(q)) /\ Relevant(Head(q), known))
  PROVE  \E g : Trace(g, o, s, Tail(q), known)
<1> DEFINE r == Tail(q)
<1>1. PICK m \in Nat, n \in Nat, l \in Nat : m = Len(s) /\ n = Len(q) /\ l = Len(o)
  OBVIOUS
<1>2. n > 0 /\ Head(q) = q[1]
  BY <1>1, EmptySeq
<1>3. Len(r) = n - 1 /\ \A j \in 1 .. (n - 1) : r[j] = q[j + 1]
  BY <1>1, <1>2, HeadTailProperties
<1>4. ~(Promised(q[1]) /\ Relevant(q[1], known))
  BY <1>2
<1> HIDE DEF r
<1>5. \A j \in 1 .. m : EventAt(s, r, j) = EventAt(s, q, j)
  BY <1>1 DEF EventAt
<1>6. ASSUME NEW j \in (m + 1) .. (m + n - 1) PROVE EventAt(s, r, j) = EventAt(s, q, j + 1)
  <2>1. j - m \in 1 .. (n - 1) /\ (j - m) + 1 = (j + 1) - m /\ ~(j <= m) /\ ~(j + 1 <= m)
    OBVIOUS
  <2>2. r[j - m] = q[(j + 1) - m]
    BY <1>3, <2>1
  <2> QED BY <1>1, <2>1, <2>2 DEF EventAt
<1>7. f \in [1 .. l -> 1 .. (m + n)]
  BY <1>1 DEF Trace
<1>8. \A i \in 1 .. l : f[i] # m + 1
  <2>1. ~DueAt(s, q, known, m + 1)
    BY <1>1, <1>4 DEF DueAt, EventAt
  <2> QED BY <1>1, <1>2, <2>1 DEF Trace
<1> DEFINE g == [i \in 1 .. l |-> IF f[i] <= m THEN f[i] ELSE f[i] - 1]
<1>9. \A i \in 1 .. l : /\ f[i] \in 1 .. (m + n) /\ f[i] # m + 1
                        /\ g[i] = IF f[i] <= m THEN f[i] ELSE f[i] - 1
  BY <1>7, <1>8
<1>10. g \in [1 .. l -> 1 .. (m + (n - 1))]
  BY <1>2, <1>9
<1> HIDE DEF g
<1>11. \A i, k \in 1 .. l : i < k => g[i] < g[k]
  BY <1>1, <1>9 DEF Trace
<1>12. ASSUME NEW i \in 1 .. l PROVE o[i] = EventAt(s, r, g[i])
  <2>1. o[i] = EventAt(s, q, f[i])
    BY <1>1 DEF Trace
  <2>2. CASE f[i] <= m
    BY <1>5, <1>9, <2>1, <2>2
  <2>3. CASE f[i] > m
    <3>1. g[i] \in (m + 1) .. (m + n - 1) /\ g[i] + 1 = f[i]
      <4>1. PICK a \in 1 .. (m + n) : a = f[i]
        BY <1>9
      <4>2. a # m + 1 /\ a > m /\ g[i] = a - 1
        BY <1>9, <2>3, <4>1
      <4> QED BY <4>1, <4>2
    <3>2. EventAt(s, r, g[i]) = EventAt(s, q, g[i] + 1)
      BY <1>6, <3>1
    <3> QED BY <2>1, <3>1, <3>2
  <2> QED BY <1>9, <2>2, <2>3
<1>13. ASSUME NEW j \in 1 .. (m + (n - 1)) PROVE DueAt(s, r, known, j) <=> \E i \in 1 .. l : g[i] = j
  <2>1. \A h \in 1 .. (m + n) : DueAt(s, q, known, h) <=> \E i \in 1 .. l : f[i] = h
    BY <1>1 DEF Trace
  <2>2. CASE j <= m
    <3>1. DueAt(s, r, known, j) <=> DueAt(s, q, known, j)
      BY <1>1, <1>5, <2>2 DEF DueAt
    <3>2. \A i \in 1 .. l : f[i] = j <=> g[i] = j
      <4> TAKE i \in 1 .. l
      <4>1. PICK a \in 1 .. (m + n) : a = f[i]
        BY <1>9
      <4>2. a # m + 1 /\ g[i] = IF a <= m THEN a ELSE a - 1
        BY <1>9, <4>1
      <4> QED BY <2>2, <4>1, <4>2
    <3>3. j \in 1 .. (m + n)
      BY <1>2, <2>2
    <3>4. DueAt(s, q, known, j) <=> \E i \in 1 .. l : f[i] = j
      BY <2>1, <3>3
    <3> QED BY <3>1, <3>2, <3>4
  <2>3. CASE j > m
    <3>1. DueAt(s, r, known, j) <=> DueAt(s, q, known, j + 1)
      BY <1>1, <1>6, <2>3 DEF DueAt
    <3>2. \A i \in 1 .. l : f[i] = j + 1 <=> g[i] = j
      <4> TAKE i \in 1 .. l
      <4>1. PICK a \in 1 .. (m + n) : a = f[i]
        BY <1>9
      <4>2. a # m + 1 /\ g[i] = IF a <= m THEN a ELSE a - 1
        BY <1>9, <4>1
      <4>3. PICK b \in Int : b = g[i]
        BY <4>2
      <4>4. a = j + 1 <=> b = j
        BY <2>3, <4>2, <4>3
      <4> QED BY <4>1, <4>3, <4>4
    <3>3. j + 1 \in 1 .. (m + n)
      BY <1>2, <2>3
    <3>4. DueAt(s, q, known, j + 1) <=> \E i \in 1 .. l : f[i] = j + 1
      BY <2>1, <3>3
    <3> QED BY <3>1, <3>2, <3>4
  <2> QED BY <2>2, <2>3
<1>14. Trace(g, o, s, r, known)
  BY <1>1, <1>3, <1>10, <1>11, <1>12, <1>13 DEF Trace
<1> QED BY <1>14 DEF r

\* Up to a position there are as many due events as f puts there.
LEMMA TraceCounts ==
  ASSUME NEW o \in Seq(Events), NEW s \in Seq(Events), NEW q \in Seq(Events), NEW known, NEW f,
         Trace(f, o, s, q, known),
         NEW n \in 0 .. (Len(s) + Len(q)), NEW k \in 0 .. Len(o),
         \A i \in 1 .. Len(o) : f[i] <= n <=> i <= k
  PROVE  Cardinality({j \in 1 .. n : DueAt(s, q, known, j)}) = k
<1> DEFINE D == {j \in 1 .. n : DueAt(s, q, known, j)}
           g == [i \in 1 .. k |-> f[i]]
<1>1. PICK l \in Nat, z \in Nat : l = Len(o) /\ z = Len(s) + Len(q)
  OBVIOUS
<1>2. f \in [1 .. l -> 1 .. z] /\ \A i, h \in 1 .. l : i < h => f[i] < f[h]
  BY <1>1 DEF Trace
<1>3. \A j \in 1 .. z : DueAt(s, q, known, j) <=> \E i \in 1 .. l : f[i] = j
  BY <1>1 DEF Trace
<1>4. k \in Nat /\ k <= l /\ n \in Nat /\ n <= z
  BY <1>1
<1>5. \A i \in 1 .. k : i \in 1 .. l /\ g[i] = f[i] /\ g[i] \in 1 .. n
  BY <1>1, <1>2, <1>4, SMTT(30)
<1>6. g \in [1 .. k -> D]
  BY <1>3, <1>4, <1>5
<1>7. ASSUME NEW i \in 1 .. k, NEW h \in 1 .. k, g[i] = g[h] PROVE i = h
  <2>1. f[i] = f[h] /\ i \in 1 .. l /\ h \in 1 .. l /\ f[i] \in Nat
    BY <1>2, <1>5, <1>7
  <2>2. ~(i < h) /\ ~(h < i)
    BY <1>2, <2>1
  <2>3. i \in Int /\ h \in Int
    BY <2>1
  <2> QED BY ONLY <2>2, <2>3
<1>8. \A j \in D : \E i \in 1 .. k : g[i] = j
  BY <1>1, <1>3, <1>4, <1>5
<1> HIDE DEF g, D
<1>9. g \in Bijection(1 .. k, D)
  BY ONLY <1>6, <1>7, <1>8, Fun_IsBij
<1>10. Cardinality(D) = k
  BY <1>4, <1>9, FS_CountingElements DEF ExistsBijection
<1> QED BY <1>10 DEF D

\* Once its entry is announced, the observer knows the id of an execution of its
\* own; only those of MutationObserver and the hook are announced.
Announced == {"added", "on_mutate", "context", "mutating", "sleeping", "failed", "invalidate", "settle", "updated"}
Announcing == {"hooking", "added", "context", "settle", "updated"}
IdsInv ==
  /\ \A e \in Executions : pc[e] \in Announced /\ Observed(e) => e \in ids
  /\ \A e \in Executions : pc[e] \in Announcing => setup.start # "spawn"

\* The reader can tell the queued events that concern it; and until one was lost,
\* it was owed those that were read or are queued.
OwedInv ==
  /\ seen \in Seq(Events) /\ owed \in Seq(Events) /\ lagged \in BOOLEAN
  /\ \A i \in 1 .. Len(queue) :
       Promised(queue[i]) /\ Relevant(queue[i], setup.own) => Relevant(queue[i], ids)
  /\ \A i \in 1 .. Len(clearing) : clearing[i].what \in {"Removed", "Cleared"}
  /\ ~lagged => \E f : Trace(f, owed, seen, queue, setup.own)

LEMMA InitOwed == Init => IdsInv /\ OwedInv
<1> SUFFICES ASSUME Init PROVE IdsInv /\ OwedInv
  OBVIOUS
<1>1. /\ seen = <<>> /\ owed = <<>> /\ queue = <<>> /\ clearing = <<>> /\ lagged = FALSE
      /\ \A e \in Executions : pc[e] = "new"
  BY DEF Init
<1>2. IdsInv
  BY <1>1 DEF IdsInv, Announced, Announcing
<1>3. <<>> \in Seq(Events) /\ Len(<<>>) = 0
  BY EmptySeq
<1> DEFINE f == [i \in 1 .. 0 |-> i]
<1>4. Trace(f, owed, seen, queue, setup.own)
  BY <1>1, <1>3 DEF Trace
<1> HIDE DEF f
<1>5. \E g : Trace(g, owed, seen, queue, setup.own)
  BY <1>4
<1>6. \A i \in 1 .. Len(queue) : FALSE
  BY <1>1, <1>3
<1>7. \A i \in 1 .. Len(clearing) : FALSE
  BY <1>1, <1>3
<1> QED BY <1>1, <1>2, <1>3, <1>5, <1>6, <1>7 DEF OwedInv

LEMMA NextIds == TaskInv /\ CacheInv /\ IdsInv /\ [Next]_vars => IdsInv'
<1> SUFFICES ASSUME TaskInv, CacheInv, IdsInv, [Next]_vars PROVE IdsInv'
  OBVIOUS
<1>1. UNCHANGED setup /\ ids \subseteq ids' /\ pc \in [Executions -> Places]
  <2>1. UNCHANGED setup
    BY DEF Next, vars, Submit, SpawnMutation, TaskStep, OuterStep, Abort, AbortOuter, Panic, RemoveEntry, AddEntry, HookId,
           SendAdded, OnMutate, Context, MutateOk, MutateErr, RetryDelay, Rollback, Invalidate, Settle,
           Updated, CheckGeneration, WriteState, Reply, StreamNext, Reset, ResetState, ClearEntries,
           ClearSend, SetIsRestoring
  <2>2. ASSUME NEW e \in Executions, TaskStep(e) PROVE ids \subseteq ids'
    <3>1. HookId(e) => ids \subseteq ids'
      BY DEF HookId
    <3>2. ~HookId(e) => UNCHANGED ids
      BY <2>2 DEF TaskStep, cacheVars, AddEntry, SendAdded, OnMutate, Context, MutateOk, MutateErr, RetryDelay,
                  Rollback, Invalidate, Settle, Updated, CheckGeneration, WriteState, Reply
    <3> QED BY <3>1, <3>2
  <2>3. ASSUME NEW e \in Executions,
               Submit(e) \/ SpawnMutation(e) \/ OuterStep(e) \/ Abort(e) \/ AbortOuter(e) \/ Panic(e) \/ RemoveEntry(e)
        PROVE  UNCHANGED ids
    BY <2>3 DEF cacheVars, Submit, SpawnMutation, OuterStep, Abort, AbortOuter, Panic, RemoveEntry
  <2>4. StreamNext \/ Reset \/ ResetState \/ ClearEntries \/ ClearSend \/ SetIsRestoring => UNCHANGED ids
    BY DEF cacheVars, StreamNext, Reset, ResetState, ClearEntries, ClearSend, SetIsRestoring
  <2>5. UNCHANGED vars => UNCHANGED ids
    BY DEF vars, cacheVars
  <2>6. ids \subseteq ids'
    BY <2>2, <2>3, <2>4, <2>5 DEF Next
  <2> QED BY <2>1, <2>6 DEF TaskInv
<1>2. CASE UNCHANGED pc
  BY <1>1, <1>2 DEF IdsInv, Observed
<1>3. ASSUME NEW e \in Executions, NEW p, Goto(e, p),
             p \in Announced => (pc[e] \in Announced \/ (Observed(e) => e \in ids')),
             p \in Announcing => (pc[e] \in Announcing \/ setup.start # "spawn")
      PROVE  IdsInv'
  <2>1. pc'[e] = p /\ \A x \in Executions \ {e} : pc'[x] = pc[x]
    BY <1>1, <1>3 DEF Goto
  <2>2. ASSUME NEW x \in Executions, pc'[x] \in Announced, Observed(x) PROVE x \in ids'
    BY <1>1, <1>3, <2>1, <2>2 DEF IdsInv
  <2>3. ASSUME NEW x \in Executions, pc'[x] \in Announcing PROVE setup'.start # "spawn"
    BY <1>1, <1>3, <2>1, <2>3 DEF IdsInv
  <2> QED BY <1>1, <2>2, <2>3 DEF IdsInv, Observed
<1>4. ASSUME NEW e \in Executions, Submit(e) \/ SpawnMutation(e) \/ Abort(e) \/ Panic(e) \/ Reply(e) PROVE IdsInv'
  <2>1. PICK p \in {"ready", "skipped", "aborted", "panicked", "done"} : Goto(e, p)
    BY <1>4 DEF Submit, SpawnMutation, Abort, Panic, Reply
  <2> QED BY <1>3, <2>1 DEF Announced, Announcing
<1>5. ASSUME NEW e \in Executions, AddEntry(e) PROVE IdsInv'
  <2>1. (Goto(e, "hooking") /\ setup.start # "spawn") \/ (Goto(e, "on_mutate") /\ setup.start = "spawn")
    BY <1>5 DEF AddEntry, Goto
  <2> QED BY <1>3, <2>1 DEF Announced, Announcing, Observed
<1>6. ASSUME NEW e \in Executions, HookId(e) PROVE IdsInv'
  <2>1. Goto(e, "added") /\ pc[e] = "hooking" /\ (Observed(e) => e \in ids')
    BY <1>6 DEF HookId, Runs
  <2> QED BY <1>3, <2>1 DEF Announcing
<1>7. ASSUME NEW e \in Executions,
             SendAdded(e) \/ OnMutate(e) \/ Context(e) \/ MutateOk(e) \/ MutateErr(e) \/ RetryDelay(e)
             \/ Rollback(e) \/ Invalidate(e) \/ Settle(e) \/ Updated(e)
      PROVE  IdsInv'
  <2>1. pc[e] \in Announced
    BY <1>7 DEF SendAdded, OnMutate, Context, MutateOk, MutateErr, RetryDelay, Rollback, Invalidate, Settle,
                Updated, Runs, Announced
  <2>2. PICK p : Goto(e, p) /\ (p \in Announcing => (pc[e] \in Announcing \/ setup.start # "spawn"))
    <3>1. CASE SendAdded(e)
      BY <3>1 DEF SendAdded, Announcing
    <3>2. CASE OnMutate(e)
      BY <3>2 DEF OnMutate, Announcing
    <3>3. CASE Context(e)
      BY <3>3 DEF Context, Announcing
    <3>4. CASE MutateOk(e)
      BY <3>4 DEF MutateOk, Announcing
    <3>5. CASE MutateErr(e)
      BY <3>5 DEF MutateErr, Announcing
    <3>6. CASE RetryDelay(e)
      BY <3>6 DEF RetryDelay, Announcing
    <3>7. CASE Rollback(e)
      BY <3>7 DEF Rollback, Announcing
    <3>8. CASE Invalidate(e)
      BY <3>8 DEF Invalidate, Announcing
    <3>9. CASE Settle(e)
      BY <3>9 DEF Settle, Announcing, Runs
    <3>10. CASE Updated(e)
      BY <3>10 DEF Updated, Announcing
    <3> QED BY <1>7, <3>1, <3>2, <3>3, <3>4, <3>5, <3>6, <3>7, <3>8, <3>9, <3>10
  <2> QED BY <1>3, <2>1, <2>2
<1>8. ASSUME NEW e \in Executions, CheckGeneration(e) \/ WriteState(e) PROVE IdsInv'
  <2>1. PICK p \in {"write", "reply"} : Goto(e, p)
    BY <1>8 DEF CheckGeneration, WriteState
  <2> QED BY <1>3, <2>1 DEF Announced, Announcing
<1>9. ASSUME NEW e \in Executions, OuterStep(e) \/ AbortOuter(e) \/ RemoveEntry(e) PROVE UNCHANGED pc
  BY <1>9 DEF OuterStep, AbortOuter, RemoveEntry, taskVars
<1>10. CASE StreamNext \/ Reset \/ ResetState \/ ClearEntries \/ ClearSend \/ SetIsRestoring
  BY <1>2, <1>10 DEF StreamNext, Reset, ResetState, ClearEntries, ClearSend, SetIsRestoring, taskVars
<1>11. CASE UNCHANGED vars
  BY <1>2, <1>11 DEF vars, taskVars
<1>12. ASSUME NEW e \in Executions, TaskStep(e) PROVE IdsInv'
  BY <1>4, <1>5, <1>6, <1>7, <1>8, <1>12 DEF TaskStep
<1> QED BY <1>2, <1>4, <1>9, <1>10, <1>11, <1>12 DEF Next


\* A send keeps the reader's account when the observer can tell what it promised.
LEMMA SendOwes ==
  ASSUME StreamInv, OwedInv, NEW v \in Events, Send(v), UNCHANGED setup, ids \subseteq ids',
         Promised(v) /\ Relevant(v, setup.own) => Relevant(v, ids)
  PROVE  /\ seen' \in Seq(Events) /\ owed' \in Seq(Events) /\ lagged' \in BOOLEAN
         /\ \A i \in 1 .. Len(queue') :
              Promised(queue'[i]) /\ Relevant(queue'[i], setup'.own) => Relevant(queue'[i], ids')
         /\ ~lagged' => \E f : Trace(f, owed', seen', queue', setup'.own)
<1>1. \A x : Relevant(x, ids) => Relevant(x, ids')
  BY DEF Relevant
<1>2. CASE ~setup.stream
  <2>1. UNCHANGED <<queue, seen, owed, lagged>>
    BY <1>2 DEF Send, streamVars
  <2> QED BY <1>1, <2>1 DEF OwedInv
<1>3. CASE setup.stream
  <2>1. /\ queue' = Queued(queue, v) /\ missed' = Missed(queue, missed) /\ UNCHANGED seen
        /\ lagged' = (lagged \/ missed' > missed)
        /\ owed' = IF Promised(v) /\ Relevant(v, setup.own) THEN Append(owed, v) ELSE owed
    BY <1>3 DEF Send
  <2>2. owed' \in Seq(Events)
    BY <2>1, AppendProperties DEF OwedInv
  <2>3. PICK n \in Nat : n = Len(queue)
    BY DEF StreamInv
  <2>4. Cap \in Nat \ {0}
    BY CapacityAssumption DEF Cap
  <2>5. \A i \in 1 .. Len(queue') : queue'[i] = v \/ \E j \in 1 .. n : queue'[i] = queue[j]
    <3>1. CASE n >= Cap
      <4>1. queue # <<>>
        BY <2>3, <2>4, <3>1, EmptySeq
      <4> DEFINE t == Tail(queue)
      <4>2. t \in Seq(Events) /\ Len(t) = n - 1 /\ \A i \in 1 .. (n - 1) : t[i] = queue[i + 1]
        BY <2>3, <4>1, HeadTailProperties DEF StreamInv
      <4>3. queue' = Append(t, v)
        BY <2>1, <2>3, <3>1 DEF Queued
      <4> HIDE DEF t
      <4>4. Len(queue') = n /\ queue'[n] = v /\ \A i \in 1 .. (n - 1) : queue'[i] = t[i]
        <5>1. Len(queue') = Len(t) + 1 /\ queue'[Len(t) + 1] = v /\ \A i \in 1 .. Len(t) : queue'[i] = t[i]
          BY <4>2, <4>3, AppendProperties
        <5>2. n - 1 + 1 = n
          OBVIOUS
        <5> QED BY <4>2, <5>1, <5>2
      <4> QED BY <4>2, <4>4
    <3>2. CASE ~(n >= Cap)
      <4>1. queue' = Append(queue, v)
        BY <2>1, <2>3, <3>2 DEF Queued
      <4>2. Len(queue') = n + 1 /\ queue'[n + 1] = v /\ \A i \in 1 .. n : queue'[i] = queue[i]
        BY <2>3, <4>1, AppendProperties DEF StreamInv
      <4> QED BY <4>2
    <3> QED BY <3>1, <3>2
  <2>6. ASSUME NEW i \in 1 .. Len(queue'), Promised(queue'[i]), Relevant(queue'[i], setup'.own)
        PROVE  Relevant(queue'[i], ids')
    <3>1. CASE queue'[i] = v
      BY <1>1, <2>6, <3>1
    <3>2. ASSUME NEW j \in 1 .. n, queue'[i] = queue[j] PROVE Relevant(queue'[i], ids')
      <4>1. Promised(queue[j]) /\ Relevant(queue[j], setup.own)
        BY <2>6, <3>2
      <4>2. Relevant(queue[j], ids)
        BY <2>3, <4>1 DEF OwedInv
      <4> QED BY <1>1, <3>2, <4>2
    <3> QED BY <2>5, <3>1, <3>2
  <2>7. ASSUME ~lagged' PROVE \E f : Trace(f, owed', seen', queue', setup'.own)
    <3>1. ~lagged /\ ~(n >= Cap)
      <4>1. ~lagged /\ ~(missed' > missed)
        BY <2>1, <2>7
      <4>2. n >= Cap => missed' = missed + 1 /\ missed \in Nat
        BY <2>1, <2>3 DEF Missed, StreamInv
      <4>3. n >= Cap => missed' > missed
        BY <4>2
      <4> QED BY <4>1, <4>3
    <3>2. queue' = Append(queue, v)
      BY <2>1, <2>3, <3>1 DEF Queued
    <3>3. PICK f : Trace(f, owed, seen, queue, setup.own)
      BY <3>1 DEF OwedInv
    <3>4. /\ owed \in Seq(Events) /\ seen \in Seq(Events) /\ queue \in Seq(Events)
          /\ setup' = setup /\ seen' = seen
      BY <2>1 DEF OwedInv, StreamInv
    <3>5. CASE Promised(v) /\ Relevant(v, setup.own)
      BY <2>1, <3>2, <3>3, <3>4, <3>5, TracePromised
    <3>6. CASE ~(Promised(v) /\ Relevant(v, setup.own))
      BY <2>1, <3>2, <3>3, <3>4, <3>6, TraceUnpromised
    <3> QED BY <3>5, <3>6
  <2> QED BY <2>1, <2>2, <2>6, <2>7 DEF OwedInv
<1> QED BY <1>2, <1>3

\* The reader's account survives its own steps.
LEMMA ReadOwes ==
  ASSUME StreamInv, CacheInv, OwedInv, StreamNext
  PROVE  OwedInv'
<1>1. UNCHANGED <<setup, ids, clearing, owed, lagged>>
  BY DEF StreamNext, cacheVars
<1>2. CASE UNCHANGED <<queue, seen>>
  BY <1>1, <1>2 DEF OwedInv
<1>3. CASE /\ queue # <<>> /\ queue' = Tail(queue)
           /\ seen' = IF Relevant(Head(queue), ids) THEN Append(seen, Head(queue)) ELSE seen
  <2>1. PICK n \in Nat : n = Len(queue)
    BY DEF StreamInv
  <2>2. /\ n > 0 /\ Head(queue) = queue[1] /\ queue[1] \in Events
    BY <1>3, <2>1, EmptySeq DEF StreamInv
  <2>3. Len(queue') = n - 1 /\ \A i \in 1 .. (n - 1) : queue'[i] = queue[i + 1]
    BY <1>3, <2>1, HeadTailProperties DEF StreamInv
  <2>4. seen' \in Seq(Events)
    BY <1>3, <2>2, AppendProperties DEF OwedInv
  <2>5. ASSUME NEW i \in 1 .. (n - 1), Promised(queue'[i]) /\ Relevant(queue'[i], setup.own)
        PROVE  Relevant(queue'[i], ids)
    <3>1. i + 1 \in 1 .. n /\ queue'[i] = queue[i + 1]
      BY <2>3
    <3> QED BY <2>1, <2>5, <3>1 DEF OwedInv
  <2>6. ASSUME ~lagged PROVE \E f : Trace(f, owed, seen', queue', setup.own)
    <3>1. PICK f : Trace(f, owed, seen, queue, setup.own)
      BY <2>6 DEF OwedInv
    <3>2. owed \in Seq(Events) /\ seen \in Seq(Events) /\ queue \in Seq(Events)
      BY DEF OwedInv, StreamInv
    <3>3. CASE Relevant(Head(queue), ids)
      <4>1. Relevant(Head(queue), setup.own)
        BY <3>3 DEF CacheInv, Relevant
      <4> QED BY <1>3, <3>1, <3>2, <3>3, <4>1, TraceRead
    <3>4. CASE ~Relevant(Head(queue), ids)
      <4>1. ~(Promised(Head(queue)) /\ Relevant(Head(queue), setup.own))
        BY <2>1, <2>2, <3>4 DEF OwedInv
      <4> QED BY <1>3, <3>1, <3>2, <3>4, <4>1, TracePassed
    <3> QED BY <3>3, <3>4
  <2> QED BY <1>1, <2>3, <2>4, <2>5, <2>6 DEF OwedInv
<1> QED BY <1>2, <1>3 DEF StreamNext

LEMMA NextOwed == TaskInv /\ CacheInv /\ StreamInv /\ IdsInv /\ OwedInv /\ [Next]_vars => OwedInv'
<1> SUFFICES ASSUME TaskInv, CacheInv, StreamInv, IdsInv, OwedInv, [Next]_vars PROVE OwedInv'
  OBVIOUS
<1>1. CASE UNCHANGED <<setup, ids, streamVars, clearing>>
  BY <1>1 DEF OwedInv, streamVars
<1>2. ASSUME NEW v \in Events, Send(v), UNCHANGED <<setup, ids>>,
             Promised(v) /\ Relevant(v, setup.own) => Relevant(v, ids),
             \A i \in 1 .. Len(clearing') : clearing'[i].what \in {"Removed", "Cleared"}
      PROVE  OwedInv'
  BY <1>2, SendOwes DEF OwedInv
<1>3. ASSUME NEW e \in Executions, NEW what \in {"Added", "Updated", "Removed"},
             Send(Event(what, e)), UNCHANGED <<setup, ids, clearing>>,
             what # "Removed" => pc[e] \in Announced /\ setup.start # "spawn"
      PROVE  OwedInv'
  <2>1. Event(what, e) \in Events /\ Event(what, e).what = what /\ Event(what, e).id = e
    BY DEF Event, Events
  <2>2. Promised(Event(what, e)) /\ Relevant(Event(what, e), setup.own) => Relevant(Event(what, e), ids)
    BY <1>3, <2>1 DEF Promised, Relevant, IdsInv, Observed
  <2> QED BY <1>2, <1>3, <2>1, <2>2 DEF OwedInv
<1>4. ASSUME NEW e \in Executions, SendAdded(e) \/ Context(e) \/ Updated(e) PROVE OwedInv'
  <2>1. UNCHANGED <<setup, ids, clearing>>
    BY <1>4 DEF SendAdded, Context, Updated, cacheVars
  <2>2. pc[e] \in Announced /\ setup.start # "spawn"
    BY <1>4 DEF SendAdded, Context, Updated, Runs, Announced, Announcing, IdsInv
  <2>3. Send(Event("Added", e)) \/ Send(Event("Updated", e)) \/ UNCHANGED streamVars
    BY <1>4 DEF SendAdded, Context, Updated, SendUpdated
  <2> QED BY <1>1, <1>3, <2>1, <2>2, <2>3
<1>5. ASSUME NEW e \in Executions, RemoveEntry(e) PROVE OwedInv'
  <2>1. UNCHANGED <<setup, ids, clearing>> /\ Send(Event("Removed", e))
    BY <1>5 DEF RemoveEntry
  <2> QED BY <1>3, <2>1
<1>6. CASE StreamNext
  BY <1>6, ReadOwes
<1>7. CASE ClearEntries
  <2>1. UNCHANGED <<setup, ids, streamVars>>
    BY <1>7 DEF ClearEntries
  <2>2. \A i \in 1 .. Len(clearing') : clearing'[i].what \in {"Removed", "Cleared"}
    BY <1>7, RemovalsAreEvents DEF ClearEntries
  <2> QED BY <2>1, <2>2 DEF OwedInv, streamVars
<1>8. CASE ClearSend
  <2>1. clearing # <<>> /\ Send(Head(clearing)) /\ clearing' = Tail(clearing) /\ UNCHANGED <<setup, ids>>
    BY <1>8 DEF ClearSend
  <2>2. PICK n \in Nat : n = Len(clearing)
    BY DEF StreamInv
  <2>3. n > 0 /\ Head(clearing) = clearing[1] /\ clearing[1] \in Events
    BY <2>1, <2>2, EmptySeq DEF StreamInv
  <2>4. Len(clearing') = n - 1 /\ \A i \in 1 .. (n - 1) : clearing'[i] = clearing[i + 1]
    BY <2>1, <2>2, HeadTailProperties DEF StreamInv
  <2>5. \A i \in 1 .. n : clearing[i].what \in {"Removed", "Cleared"}
    BY <2>2 DEF OwedInv
  <2>6. ASSUME NEW i \in 1 .. (n - 1) PROVE clearing'[i].what \in {"Removed", "Cleared"}
    <3>1. i + 1 \in 1 .. n /\ clearing'[i] = clearing[i + 1]
      BY <2>4
    <3> QED BY <2>5, <3>1
  <2>7. Promised(Head(clearing)) => Relevant(Head(clearing), ids)
    BY <2>3, <2>5 DEF Promised, Relevant
  <2> QED BY <1>2, <2>1, <2>3, <2>4, <2>6, <2>7
<1>9. ASSUME NEW e \in Executions, HookId(e) PROVE OwedInv'
  <2>1. UNCHANGED <<setup, queue, seen, owed, lagged, clearing>> /\ ids \subseteq ids'
    BY <1>9 DEF HookId, streamVars
  <2>2. \A x : Relevant(x, ids) => Relevant(x, ids')
    BY <2>1 DEF Relevant
  <2> QED BY <2>1, <2>2 DEF OwedInv
<1>10. ASSUME NEW e \in Executions,
             AddEntry(e) \/ OnMutate(e) \/ MutateOk(e) \/ MutateErr(e) \/ RetryDelay(e) \/ Rollback(e)
             \/ Invalidate(e) \/ Settle(e) \/ CheckGeneration(e) \/ WriteState(e) \/ Reply(e)
      PROVE  UNCHANGED <<setup, ids, streamVars, clearing>>
  BY <1>10 DEF AddEntry, OnMutate, MutateOk, MutateErr, RetryDelay, Rollback, Invalidate, Settle,
              CheckGeneration, WriteState, Reply, cacheVars
<1>11. ASSUME NEW e \in Executions, Submit(e) \/ SpawnMutation(e) \/ OuterStep(e) \/ Abort(e) \/ AbortOuter(e) \/ Panic(e)
      PROVE  UNCHANGED <<setup, ids, streamVars, clearing>>
  BY <1>11 DEF Submit, SpawnMutation, OuterStep, Abort, AbortOuter, Panic, cacheVars
<1>12. CASE Reset \/ ResetState \/ SetIsRestoring
  BY <1>1, <1>12 DEF Reset, ResetState, SetIsRestoring, cacheVars
<1>13. CASE UNCHANGED vars
  BY <1>1, <1>13 DEF vars, cacheVars
<1>14. ASSUME NEW e \in Executions, TaskStep(e) PROVE OwedInv'
  BY <1>1, <1>4, <1>9, <1>10, <1>14 DEF TaskStep
<1> QED BY <1>1, <1>5, <1>6, <1>7, <1>8, <1>11, <1>12, <1>13, <1>14 DEF Next


-----------------------------------------------------------------------------
(***************************************************************************)
(* The count of mutations                                                  *)
(***************************************************************************)

Counted == {e \in Executions : Live(e)}

LEMMA CountedFinite == IsFiniteSet(Counted) /\ Cardinality(Counted) \in Nat
<1>1. Counted \in SUBSET Executions
  BY DEF Counted
<1> QED BY <1>1, FS_Subset, FS_CardinalityType, TrackingAssumption

LEMMA InitCount == Init => MutatingCountExact
<1> SUFFICES ASSUME Init PROVE MutatingCountExact
  OBVIOUS
<1>1. Counted = {}
  BY DEF Init, Counted, Live, Over
<1> QED BY <1>1, FS_EmptySet DEF Init, MutatingCountExact, Counted

LEMMA NextCount == TaskInv /\ MutatingCountExact /\ [Next]_vars => MutatingCountExact'
<1> SUFFICES ASSUME TaskInv, MutatingCountExact, [Next]_vars PROVE MutatingCountExact'
  OBVIOUS
<1>1. CASE UNCHANGED <<setup, mutating, pc>>
  BY <1>1 DEF MutatingCountExact, Live
<1>2. ASSUME NEW e \in Executions, NEW p, Goto(e, p), pc[e] \notin Over, p \notin Over, UNCHANGED <<setup, mutating>>
      PROVE  MutatingCountExact'
  <2>1. \A x \in Executions : Live(x)' <=> Live(x)
    BY <1>2 DEF Goto, TaskInv, Live
  <2>2. {x \in Executions : Live(x)}' = {x \in Executions : Live(x)}
    BY <2>1
  <2> QED BY <1>2, <2>2 DEF MutatingCountExact
<1>3. ASSUME setup.start # "spawn", UNCHANGED <<setup, mutating>> PROVE MutatingCountExact'
  BY <1>3 DEF MutatingCountExact
<1>4. ASSUME NEW e \in Executions, NEW p \in Over, Goto(e, p), pc[e] \notin Over, Uncount(e), UNCHANGED setup
      PROVE  MutatingCountExact'
  <2>1. CASE setup.start # "spawn"
    BY <1>3, <1>4, <2>1 DEF Uncount
  <2>2. CASE setup.start = "spawn"
    <3>1. e \in Counted /\ Counted' = Counted \ {e}
      BY <1>4 DEF Counted, Goto, TaskInv, Live
    <3>2. Cardinality(Counted') = Cardinality(Counted) - 1
      BY <3>1, CountedFinite, FS_RemoveElement
    <3> QED BY <1>4, <2>2, <3>2 DEF MutatingCountExact, Uncount, Counted
  <2> QED BY <2>1, <2>2
<1>5. ASSUME NEW e \in Executions, SpawnMutation(e) PROVE MutatingCountExact'
  <2>1. pc[e] = "new" /\ setup.start = "spawn" /\ UNCHANGED setup
    BY <1>5 DEF SpawnMutation
  <2>2. CASE Goto(e, "skipped") /\ UNCHANGED mutating
    <3>1. Counted' = Counted
      BY <2>1, <2>2 DEF Counted, Goto, TaskInv, Live, Over
    <3> QED BY <2>1, <2>2, <3>1 DEF MutatingCountExact, Counted
  <2>3. CASE Goto(e, "ready") /\ mutating' = mutating + 1
    <3>1. e \notin Counted /\ Counted' = Counted \cup {e}
      BY <2>1, <2>3 DEF Counted, Goto, TaskInv, Live, Over
    <3>2. Cardinality(Counted') = Cardinality(Counted) + 1
      BY <3>1, CountedFinite, FS_AddElement
    <3> QED BY <2>1, <2>3, <3>2 DEF MutatingCountExact, Counted
  <2> QED BY <1>5, <2>2, <2>3 DEF SpawnMutation
<1>6. ASSUME NEW e \in Executions, Submit(e) PROVE MutatingCountExact'
  BY <1>3, <1>6 DEF Submit
<1>7. ASSUME NEW e \in Executions, Abort(e) \/ Panic(e) \/ Reply(e) PROVE MutatingCountExact'
  <2>1. pc[e] \notin Over /\ Uncount(e) /\ UNCHANGED setup /\ \E p \in Over : Goto(e, p)
    BY <1>7 DEF Abort, Panic, Reply, Runs, Suspended, Over
  <2> QED BY <1>4, <2>1
<1>8. ASSUME NEW e \in Executions,
             AddEntry(e) \/ HookId(e) \/ SendAdded(e) \/ OnMutate(e) \/ Context(e) \/ MutateOk(e) \/ MutateErr(e)
               \/ RetryDelay(e) \/ Rollback(e) \/ Invalidate(e) \/ Settle(e)
      PROVE  MutatingCountExact'
  <2>1. /\ pc[e] \in {"ready", "hooking", "added", "on_mutate", "context", "mutating", "sleeping", "failed", "invalidate",
                      "settle"}
        /\ UNCHANGED <<setup, mutating>>
    BY <1>8 DEF AddEntry, HookId, SendAdded, OnMutate, Context, MutateOk, MutateErr, RetryDelay,
                Rollback, Invalidate, Settle, Runs
  <2>2. \E p \in {"hooking", "added", "on_mutate", "context", "mutating", "sleeping", "failed", "invalidate",
                  "settle", "updated", "reply"} : Goto(e, p)
    BY <1>8 DEF AddEntry, HookId, SendAdded, OnMutate, Context, MutateOk, MutateErr, RetryDelay,
                Rollback, Invalidate, Settle
  <2> QED BY <1>2, <2>1, <2>2 DEF Over
<1>9. ASSUME NEW e \in Executions, Updated(e) \/ CheckGeneration(e) \/ WriteState(e) PROVE MutatingCountExact'
  <2>1. pc[e] \in {"updated", "check", "write"} /\ UNCHANGED <<setup, mutating>>
    BY <1>9 DEF Updated, CheckGeneration, WriteState, Runs
  <2>2. \E p \in {"check", "write", "reply"} : Goto(e, p)
    BY <1>9 DEF Updated, CheckGeneration, WriteState
  <2> QED BY <1>2, <2>1, <2>2 DEF Over
<1>10. ASSUME NEW e \in Executions, OuterStep(e) \/ AbortOuter(e) \/ RemoveEntry(e) PROVE MutatingCountExact'
  BY <1>1, <1>10 DEF OuterStep, AbortOuter, RemoveEntry, taskVars
<1>11. CASE StreamNext \/ Reset \/ ResetState \/ ClearEntries \/ ClearSend \/ SetIsRestoring
  BY <1>1, <1>11 DEF StreamNext, Reset, ResetState, ClearEntries, ClearSend, SetIsRestoring, taskVars
<1>12. CASE UNCHANGED vars
  BY <1>1, <1>12 DEF vars, taskVars
<1>13. ASSUME NEW e \in Executions, TaskStep(e) PROVE MutatingCountExact'
  BY <1>7, <1>8, <1>9, <1>13 DEF TaskStep
<1> QED BY <1>5, <1>6, <1>7, <1>10, <1>11, <1>12, <1>13 DEF Next

-----------------------------------------------------------------------------
(***************************************************************************)
(* Optimistic updates                                                      *)
(***************************************************************************)

LEMMA InitData == Init => DataInv
<1> SUFFICES ASSUME Init PROVE DataInv
  OBVIOUS
<1>1. /\ data = Nobody /\ snap \in [Executions -> Executions \cup {Nobody}] /\ stale \in BOOLEAN /\ overlapped = FALSE
      /\ \A e \in Executions : pc[e] = "new"
  BY DEF Init
<1>2. \A e \in Executions : pc[e] \notin Standing
  BY <1>1 DEF Standing
<1> QED BY <1>1, <1>2 DEF DataInv, TraceInv, Sound, SuccessIsInvalidated

\* Steps that neither write the data nor raise or settle an update.
LEMMA TraceKept ==
  ASSUME TraceInv, UNCHANGED <<setup, data, snap, overlapped>>,
         \A x \in Executions : /\ pc'[x] \in Standing <=> pc[x] \in Standing
                               /\ pc[x] \in {"aborted", "panicked"} => pc'[x] \in {"aborted", "panicked"}
                               /\ outcome[x] = "Success" => outcome'[x] = "Success",
         data \in Executions \cup {Nobody}, snap \in [Executions -> Executions \cup {Nobody}]
  PROVE  TraceInv'
<1> SUFFICES ASSUME Calm' PROVE TraceInv'
  BY DEF TraceInv
<1>1. Calm
  BY DEF Calm
<1>2. \A x \in Executions \cup {Nobody} : Sound(x) => Sound(x)'
  BY TrackingAssumption DEF Sound
<1>3. CASE setup.optimistic /\ \E e \in Executions : pc[e] \in Standing
  <2>1. PICK e \in Executions : data = e /\ Sound(snap[e]) /\ \A x \in Executions : pc[x] \in Standing <=> x = e
    BY <1>1, <1>3 DEF TraceInv
  <2>2. Sound(snap[e])'
    BY <1>2, <2>1
  <2>3. data' = e /\ \A x \in Executions : pc'[x] \in Standing <=> x = e
    BY <2>1
  <2> QED BY <2>2, <2>3, <1>3 DEF TraceInv
<1>4. CASE ~(setup.optimistic /\ \E e \in Executions : pc[e] \in Standing)
  <2>1. Sound(data)
    BY <1>1, <1>4 DEF TraceInv
  <2>2. Sound(data)'
    BY <1>2, <2>1
  <2>3. ~(setup'.optimistic /\ \E e \in Executions : pc'[e] \in Standing)
    BY <1>4
  <2> QED BY <2>2, <2>3 DEF TraceInv
<1> QED BY <1>3, <1>4

\* What succeeded and waits to be invalidated does not slip by.
LEMMA InvalidatedKept ==
  ASSUME TaskInv, DataInv, NEW e, NEW o \in {"Success", "Error"},
         UNCHANGED <<setup, data, stale>>,
         \/ outcome' = outcome /\ \A x \in Executions : pc[x] = "invalidate" => pc'[x] = "invalidate"
         \/ /\ e \in Executions /\ outcome[e] = "none" /\ outcome' = [outcome EXCEPT ![e] = o]
            /\ o = "Success" => pc'[e] = "invalidate"
            /\ \A x \in Executions \ {e} : pc'[x] = pc[x]
  PROVE  SuccessIsInvalidated'
<1> SUFFICES ASSUME data # Nobody, outcome'[data] = "Success", pc'[data] \notin {"mutating", "invalidate"},
                    \A x \in Executions : outcome'[x] # "Error"
             PROVE  stale
  BY DEF SuccessIsInvalidated
<1>1. data \in Executions
  BY DEF DataInv
<1>2. CASE outcome' = outcome /\ \A x \in Executions : pc[x] = "invalidate" => pc'[x] = "invalidate"
  <2>1. outcome[data] = "Success" /\ pc[data] # "invalidate" /\ pc[data] # "mutating"
    BY <1>1, <1>2 DEF TaskInv, Undecided
  <2> QED BY <1>2, <2>1 DEF DataInv, SuccessIsInvalidated
<1>3. CASE /\ e \in Executions /\ outcome[e] = "none" /\ outcome' = [outcome EXCEPT ![e] = o]
           /\ o = "Success" => pc'[e] = "invalidate"
           /\ \A x \in Executions \ {e} : pc'[x] = pc[x]
  <2>1. data # e
    BY <1>3 DEF TaskInv
  <2>2. outcome[data] = "Success" /\ pc[data] \notin {"mutating", "invalidate"}
    BY <1>1, <1>3, <2>1 DEF TaskInv
  <2>3. \A x \in Executions : outcome[x] # "Error"
    BY <1>3 DEF TaskInv
  <2> QED BY <2>2, <2>3 DEF DataInv, SuccessIsInvalidated
<1> QED BY <1>2, <1>3

LEMMA DataKept ==
  ASSUME TaskInv, DataInv, UNCHANGED <<setup, dataVars, outcome>>,
         \A x \in Executions : /\ pc'[x] \in Standing <=> pc[x] \in Standing
                               /\ pc[x] \in {"aborted", "panicked"} => pc'[x] \in {"aborted", "panicked"}
                               /\ pc[x] = "invalidate" => pc'[x] = "invalidate"
  PROVE  DataInv'
<1>1. UNCHANGED <<data, snap, stale, overlapped>>
  BY DEF dataVars
<1>2. TraceInv'
  BY <1>1, TraceKept DEF DataInv
<1>3. SuccessIsInvalidated'
  BY <1>1, InvalidatedKept
<1> QED BY <1>1, <1>2, <1>3 DEF DataInv

LEMMA NextData == TaskInv /\ DataInv /\ [Next]_vars => DataInv'
<1> SUFFICES ASSUME TaskInv, DataInv, [Next]_vars PROVE DataInv'
  OBVIOUS
<1>1. CASE UNCHANGED <<setup, dataVars, outcome, pc>>
  BY <1>1, DataKept
<1>2. ASSUME NEW e \in Executions, NEW p, Goto(e, p), UNCHANGED <<setup, dataVars, outcome>>,
             p \in Standing <=> pc[e] \in Standing, pc[e] \notin {"aborted", "panicked", "invalidate"}
      PROVE  DataInv'
  <2>1. pc'[e] = p /\ \A x \in Executions \ {e} : pc'[x] = pc[x]
    BY <1>2 DEF Goto, TaskInv
  <2> QED BY <1>2, <2>1, DataKept
<1>3. ASSUME NEW e \in Executions, Submit(e) \/ SpawnMutation(e) PROVE DataInv'
  <2>1. /\ pc[e] = "new" /\ UNCHANGED <<setup, dataVars, outcome>>
        /\ \E p \in {"ready", "skipped"} : Goto(e, p)
    BY <1>3 DEF Submit, SpawnMutation
  <2> QED BY <1>2, <2>1 DEF Standing
<1>4. ASSUME NEW e \in Executions,
             AddEntry(e) \/ HookId(e) \/ SendAdded(e) \/ Settle(e) \/ Updated(e) \/ CheckGeneration(e)
               \/ WriteState(e) \/ Reply(e)
      PROVE  DataInv'
  <2>1. /\ pc[e] \in {"ready", "hooking", "added", "settle", "updated", "check", "write", "reply"}
        /\ UNCHANGED <<setup, dataVars, outcome>>
    BY <1>4 DEF AddEntry, HookId, SendAdded, Settle, Updated, CheckGeneration, WriteState, Reply, Runs
  <2>2. \E p \in {"hooking", "added", "on_mutate", "updated", "check", "write", "reply", "done"} : Goto(e, p)
    BY <1>4 DEF AddEntry, HookId, SendAdded, Settle, Updated, CheckGeneration, WriteState, Reply
  <2> QED BY <1>2, <2>1, <2>2 DEF Standing
<1>5. ASSUME NEW e \in Executions, Context(e) \/ RetryDelay(e) PROVE DataInv'
  <2>1. pc[e] \in {"context", "sleeping"} /\ Goto(e, "mutating") /\ UNCHANGED <<setup, dataVars, outcome>>
    BY <1>5 DEF Context, RetryDelay, Runs
  <2> QED BY <1>2, <2>1 DEF Standing
<1>6. ASSUME NEW e \in Executions, NEW p, NEW o \in {"Success", "Error"}, Goto(e, p),
             outcome[e] = "none", outcome' = [outcome EXCEPT ![e] = o], UNCHANGED <<setup, dataVars>>,
             o = "Success" => p = "invalidate",
             p \in Standing <=> pc[e] \in Standing, pc[e] \notin {"aborted", "panicked"}
      PROVE  DataInv'
  <2>1. pc'[e] = p /\ \A x \in Executions \ {e} : pc'[x] = pc[x] /\ outcome'[x] = outcome[x]
    BY <1>6 DEF Goto, TaskInv
  <2>2. UNCHANGED <<data, snap, stale, overlapped>>
    BY <1>6 DEF dataVars
  <2>3. TraceInv'
    BY <1>6, <2>1, <2>2, TraceKept DEF DataInv
  <2>4. SuccessIsInvalidated'
    BY <1>6, <2>1, <2>2, InvalidatedKept
  <2> QED BY <1>6, <2>2, <2>3, <2>4 DEF DataInv
<1>7. ASSUME NEW e \in Executions, MutateOk(e) \/ MutateErr(e) PROVE DataInv'
  <2>1. pc[e] = "mutating" /\ outcome[e] = "none" /\ UNCHANGED <<setup, dataVars>>
    BY <1>7 DEF MutateOk, MutateErr, Runs, TaskInv, Undecided
  <2>2. CASE Goto(e, "sleeping") /\ UNCHANGED outcome
    BY <1>2, <2>1, <2>2 DEF Standing
  <2>3. CASE Goto(e, "failed") /\ outcome' = [outcome EXCEPT ![e] = "Error"]
    BY <1>6, <2>1, <2>3 DEF Standing
  <2>4. CASE Goto(e, "invalidate") /\ outcome' = [outcome EXCEPT ![e] = "Success"]
    BY <1>6, <2>1, <2>4 DEF Standing
  <2> QED BY <1>7, <2>2, <2>3, <2>4 DEF MutateOk, MutateErr
<1>8. ASSUME NEW e \in Executions, Abort(e) \/ Panic(e) PROVE DataInv'
  <2>1. /\ pc[e] \in Suspended /\ UNCHANGED <<setup, outcome, data, snap, stale, overlapped>>
        /\ \E p \in {"aborted", "panicked"} : pc' = [pc EXCEPT ![e] = p]
    BY <1>8 DEF Abort, Panic, Runs, Goto, Suspended, dataVars
  <2>2. ~Calm'
    BY <2>1 DEF Calm, TaskInv
  <2>3. TraceInv'
    BY <2>2 DEF TraceInv
  <2>4. \A x \in Executions : pc[x] = "invalidate" => pc'[x] = "invalidate"
    BY <2>1 DEF TaskInv, Suspended
  <2>5. SuccessIsInvalidated'
    BY <2>1, <2>4, InvalidatedKept
  <2> QED BY <2>1, <2>3, <2>5 DEF DataInv
<1>9. ASSUME NEW e \in Executions, OnMutate(e) PROVE DataInv'
  <2>1. pc[e] = "on_mutate" /\ outcome[e] = "none" /\ UNCHANGED setup
    BY <1>9 DEF OnMutate, Runs, TaskInv, Undecided
  <2>2. CASE ~setup.optimistic /\ Goto(e, "mutating") /\ UNCHANGED <<outcome, dataVars>>
    <3>1. UNCHANGED <<data, snap, stale, overlapped>>
      BY <2>2 DEF dataVars
    <3>2. TraceInv'
      BY <2>1, <2>2, <3>1 DEF DataInv, TraceInv, Sound
    <3>3. \A x \in Executions : pc[x] = "invalidate" => pc'[x] = "invalidate"
      BY <2>1, <2>2 DEF TaskInv, Goto
    <3>4. SuccessIsInvalidated'
      BY <2>1, <2>2, <3>1, <3>3, InvalidatedKept
    <3> QED BY <2>1, <2>2, <3>1, <3>2, <3>4 DEF DataInv
  <2>3. CASE (Goto(e, "reply") \/ Goto(e, "settle")) /\ outcome' = [outcome EXCEPT ![e] = "Error"] /\ UNCHANGED dataVars
    BY <1>6, <2>1, <2>3 DEF Standing
  <2>4. CASE /\ setup.optimistic
             /\ snap' = [snap EXCEPT ![e] = data]
             /\ data' = e /\ stale' = FALSE
             /\ overlapped' = (overlapped \/ \E x \in Executions \ {e} : Live(x) /\ pc[x] \notin Early)
             /\ Goto(e, "mutating") \/ Goto(e, "context")
             /\ UNCHANGED outcome
    <3>1. pc'[e] \in Standing /\ pc'[e] # "invalidate" /\ \A x \in Executions \ {e} : pc'[x] = pc[x]
      BY <2>4 DEF TaskInv, Goto, Standing
    <3>2. ASSUME Calm'
          PROVE  /\ Sound(snap[e])'
                 /\ \A x \in Executions : pc'[x] \in Standing <=> x = e
      <4>1. Calm
        BY <2>1, <2>4, <3>1, <3>2 DEF Calm
      <4>2. \A x \in Executions \ {e} : pc[x] \notin Standing
        BY <2>4, <3>2 DEF Calm, Standing, Live, Over, Early
      <4>3. pc[e] \notin Standing
        BY <2>1 DEF Standing
      <4>4. Sound(data)
        BY <4>1, <4>2, <4>3 DEF DataInv, TraceInv
      <4>5. snap'[e] = data
        BY <2>4 DEF DataInv
      <4>6. Sound(snap[e])'
        BY <2>4, <4>4, <4>5 DEF Sound
      <4> QED BY <3>1, <4>2, <4>6
    <3>3. TraceInv'
      BY <2>1, <2>4, <3>1, <3>2 DEF TraceInv
    <3>4. SuccessIsInvalidated'
      BY <2>1, <2>4 DEF SuccessIsInvalidated
    <3>5. snap' \in [Executions -> Executions \cup {Nobody}] /\ overlapped' \in BOOLEAN
      BY <2>4 DEF DataInv
    <3> QED BY <2>1, <2>4, <3>3, <3>4, <3>5 DEF DataInv
  <2> QED BY <1>9, <2>2, <2>3, <2>4 DEF OnMutate
<1>10. ASSUME NEW e \in Executions, Rollback(e) \/ Invalidate(e) PROVE DataInv'
  <2>1. pc[e] \in {"failed", "invalidate"} /\ pc[e] \in Standing /\ UNCHANGED <<setup, outcome, snap, overlapped>>
    BY <1>10 DEF Rollback, Invalidate, Runs, Standing
  <2>2. \E p \in {"reply", "settle"} : Goto(e, p)
    BY <1>10 DEF Rollback, Invalidate
  <2>3. pc'[e] \in {"reply", "settle"} /\ \A x \in Executions \ {e} : pc'[x] = pc[x]
    BY <2>2 DEF TaskInv, Goto
  <2>4. CASE ~setup.optimistic
    <3>1. data' = data /\ stale' = stale /\ data = Nobody
      BY <1>10, <2>4 DEF Rollback, Invalidate, DataInv
    <3>2. TraceInv' /\ SuccessIsInvalidated'
      BY <2>1, <2>4, <3>1 DEF TraceInv, SuccessIsInvalidated, Sound
    <3> QED BY <2>1, <3>1, <3>2 DEF DataInv
  <2>5. CASE setup.optimistic
    <3>1. ASSUME Calm' PROVE data = e /\ Sound(snap[e]) /\ \A x \in Executions : pc'[x] \notin Standing
      <4>1. Calm
        BY <2>1, <2>3, <3>1 DEF Calm
      <4>2. PICK d \in Executions : /\ data = d /\ Sound(snap[d])
                                    /\ \A x \in Executions : pc[x] \in Standing <=> x = d
        BY <2>1, <2>5, <4>1 DEF DataInv, TraceInv
      <4>3. d = e
        BY <2>1, <4>2
      <4> QED BY <2>3, <4>2, <4>3 DEF Standing
    <3>2. CASE Rollback(e)
      <4>1. data' = snap[e] /\ stale' = FALSE /\ outcome[e] = "Error"
        BY <3>2, <2>5 DEF Rollback, Runs, TaskInv, DataInv
      <4>2. TraceInv'
        BY <2>1, <3>1, <4>1 DEF TraceInv, Sound
      <4>3. SuccessIsInvalidated'
        BY <2>1, <4>1 DEF SuccessIsInvalidated
      <4> QED BY <2>1, <2>5, <4>1, <4>2, <4>3 DEF DataInv
    <3>3. CASE Invalidate(e)
      <4>1. data' = data /\ stale' = TRUE /\ outcome[e] = "Success"
        BY <3>3, <2>5 DEF Invalidate, Runs, TaskInv
      <4>2. TraceInv'
        BY <2>1, <3>1, <4>1 DEF TraceInv, Sound
      <4>3. SuccessIsInvalidated'
        BY <4>1 DEF SuccessIsInvalidated
      <4> QED BY <2>1, <2>5, <4>1, <4>2, <4>3 DEF DataInv
    <3> QED BY <1>10, <3>2, <3>3
  <2> QED BY <2>4, <2>5 DEF DataInv
<1>11. ASSUME NEW e \in Executions, OuterStep(e) \/ AbortOuter(e) \/ RemoveEntry(e) PROVE DataInv'
  BY <1>1, <1>11 DEF OuterStep, AbortOuter, RemoveEntry, taskVars
<1>12. CASE StreamNext \/ Reset \/ ResetState \/ ClearEntries \/ ClearSend \/ SetIsRestoring
  BY <1>1, <1>12 DEF StreamNext, Reset, ResetState, ClearEntries, ClearSend, SetIsRestoring, taskVars
<1>13. CASE UNCHANGED vars
  BY <1>1, <1>13 DEF vars, taskVars
<1>14. ASSUME NEW e \in Executions, TaskStep(e) PROVE DataInv'
  BY <1>4, <1>5, <1>7, <1>9, <1>10, <1>14 DEF TaskStep
<1> QED BY <1>3, <1>8, <1>11, <1>12, <1>13, <1>14 DEF Next

-----------------------------------------------------------------------------
(***************************************************************************)
(* The theorems                                                            *)
(***************************************************************************)

LEMMA TrackingInvInit == Init => TrackingInv
  BY InitTask, InitObserver, InitNewest, InitHook, InitStream, InitCount, InitData DEF TrackingInv

LEMMA TrackingInvNext == TrackingInv /\ [Next]_vars => TrackingInv'
  BY NextTask, NextObserver, NextWriters, NextNewest, NextHook, NextCache, NextStream, NextCount, NextData
  DEF TrackingInv

\* What the application is shown of its mutations is true: the count that
\* spawn_mutation keeps (src/executor.rs) is that of the executions under way; the
\* state of an observer (src/mutation_observer.rs, mutate and reset) is that of
\* its newest execution since the reset, unless one was submitted while an older
\* one could still write; even then Loading is that of the newest, and on one
\* thread no result shows that was submitted before the reset.
THEOREM ShownStateIsTrue == Spec => []ShownIsTrue
<1>1. TrackingInv => ShownIsTrue
  <2> SUFFICES ASSUME TrackingInv PROVE ShownIsTrue
    OBVIOUS
  <2>1. MaxOps \in Nat /\ setup.budget \in 0 .. MaxOps
    BY SetupFacts, TrackingAssumption DEF TrackingInv, TaskInv
  <2>2. generation \in 0 .. MaxOps /\ ops \in 0 .. MaxOps /\ observed \in [Executions -> 0 .. MaxOps]
    <3>1. /\ generation \in 0 .. ops /\ ops \in 0 .. setup.budget /\ observed \in [Executions -> 0 .. generation]
      BY DEF TrackingInv, ObserverInv
    <3>2. 0 .. generation \subseteq 0 .. MaxOps
      BY <2>1, <3>1
    <3> QED BY <2>1, <3>1, <3>2
  <2>3. mutating \in Nat
    BY CountedFinite DEF TrackingInv, MutatingCountExact, Counted
  <2>4. LoadingMeansPending
    <3> SUFFICES ASSUME tracked.st = "Loading", ~resetting
                 PROVE  tracked.by = latest /\ result[latest] \in {"none", "Cancelled"}
      BY DEF LoadingMeansPending
    <3>1. tracked.by = latest /\ latest \in Executions /\ pc[latest] \notin {"done", "skipped"}
      BY DEF TrackingInv, ObserverInv
    <3>2. result[latest] = ResultAt(pc[latest], outcome[latest])
      BY <3>1 DEF TrackingInv, TaskInv
    <3> QED BY <3>1, <3>2 DEF ResultAt
  <2>5. TypeOK
    BY <2>2, <2>3 DEF TrackingInv, TaskInv, ObserverInv, HookInv, CacheInv, StreamInv, DataInv, TypeOK
  <2>6. NewestShows
    BY DEF TrackingInv, NewestInv, Shown, NewestShows
  <2> QED BY <2>4, <2>5, <2>6 DEF TrackingInv, ObserverInv, ShownIsTrue
<1> QED BY <1>1, TrackingInvInit, TrackingInvNext, PTL DEF Spec

\* An optimistic update of on_mutate (src/mutation.rs) is paid for: executions
\* that do not overlap and are not dropped leave no trace of one that failed, and
\* what an execution wrote that succeeded is marked for a refetch before anybody
\* learns of the success.
THEOREM OptimismIsPaidBack == Spec => []OptimismPaidBack
<1>1. TrackingInv => OptimismPaidBack
  <2> SUFFICES ASSUME TrackingInv PROVE FailedLeavesNoTrace
    BY DEF TrackingInv, DataInv, OptimismPaidBack
  <2> SUFFICES ASSUME ~overlapped, \A e \in Executions : pc[e] \in {"new", "done", "skipped"}
               PROVE  data = Nobody \/ outcome[data] = "Success"
    BY DEF FailedLeavesNoTrace
  <2>1. Calm /\ \A e \in Executions : pc[e] \notin Standing
    BY DEF Calm, Standing
  <2> QED BY <2>1 DEF TrackingInv, DataInv, TraceInv, Sound
<1> QED BY <1>1, TrackingInvInit, TrackingInvNext, PTL DEF Spec

\* The event stream of an observer (src/mutation_cache.rs, add_with_hook and
\* MutationEventStream::next) owes its reader the events of the observer's own
\* executions, and until the bounded channel drops one it delivers all of them
\* and in order, for any capacity: because the observer has an id before the
\* first event that carries it, nothing that is owed is passed over.
THEOREM StreamIsComplete == Spec => []StreamComplete
<1> DEFINE OInv == TaskInv /\ CacheInv /\ StreamInv /\ IdsInv /\ OwedInv
<1>1. Init => OInv
  BY InitTask, InitHook, InitStream, InitOwed
<1>2. OInv /\ [Next]_vars => OInv'
  BY NextTask, NextCache, NextStream, NextIds, NextOwed
<1>3. OInv => StreamComplete
  <2> SUFFICES ASSUME CacheInv, StreamInv, OwedInv, ~lagged PROVE StreamComplete
    BY DEF StreamComplete
  <2> DEFINE all == seen \o queue
             Due(j) == Promised(all[j]) /\ (j > Len(seen) => Relevant(all[j], ids))
             due(n) == {j \in 1 .. n : Due(j)}
  <2>1. PICK f : Trace(f, owed, seen, queue, setup.own)
    BY DEF OwedInv
  <2>2. seen \in Seq(Events) /\ queue \in Seq(Events) /\ owed \in Seq(Events)
    BY DEF StreamInv, OwedInv
  <2>3. PICK m \in Nat, n \in Nat, l \in Nat : m = Len(seen) /\ n = Len(queue) /\ l = Len(owed)
    BY <2>2
  <2>4. Len(all) = m + n /\ \A j \in 1 .. (m + n) : all[j] = EventAt(seen, queue, j)
    BY <2>2, <2>3 DEF EventAt
  <2> HIDE DEF all
  <2>5. ASSUME NEW j \in 1 .. (m + n) PROVE Due(j) <=> DueAt(seen, queue, setup.own, j)
    <3>1. all[j] = EventAt(seen, queue, j)
      BY <2>4
    <3>2. CASE j <= m
      BY <2>3, <3>1, <3>2 DEF DueAt
    <3>3. CASE j > m
      <4>1. j - m \in 1 .. n /\ EventAt(seen, queue, j) = queue[j - m]
        BY <2>3, <3>3 DEF EventAt
      <4>2. Promised(queue[j - m]) => (Relevant(queue[j - m], setup.own) <=> Relevant(queue[j - m], ids))
        BY <2>3, <4>1 DEF OwedInv, CacheInv, Relevant
      <4> QED BY <2>3, <3>1, <3>3, <4>1, <4>2 DEF DueAt
    <3> QED BY <3>2, <3>3
  <2>6. ASSUME NEW k \in 0 .. (m + n) PROVE due(k) = {j \in 1 .. k : DueAt(seen, queue, setup.own, j)}
    <3>1. \A j \in 1 .. k : j \in 1 .. (m + n)
      OBVIOUS
    <3> QED BY <2>5, <3>1
  <2>7. f \in [1 .. l -> 1 .. (m + n)] /\ \A i, k \in 1 .. l : i < k => f[i] < f[k]
    BY <2>1, <2>3 DEF Trace
  <2> HIDE DEF Due
  <2>8. Cardinality(due(Len(all))) = l
    <3>1. \A i \in 1 .. l : f[i] <= m + n <=> i <= l
      BY <2>7
    <3>2. m + n \in 0 .. (m + n) /\ l \in 0 .. l
      OBVIOUS
    <3> HIDE DEF due
    <3>3. due(m + n) = {j \in 1 .. (m + n) : DueAt(seen, queue, setup.own, j)}
      BY <2>6, <3>2
    <3>4. Cardinality({j \in 1 .. (m + n) : DueAt(seen, queue, setup.own, j)}) = l
      BY <2>1, <2>2, <2>3, <3>1, <3>2, TraceCounts
    <3> QED BY <2>4, <3>3, <3>4
  <2>9. ASSUME NEW j \in due(Len(all)) PROVE owed[Cardinality(due(j))] = all[j]
    <3>1. j \in 1 .. (m + n) /\ DueAt(seen, queue, setup.own, j)
      BY <2>4, <2>5, <2>9
    <3>2. PICK i \in 1 .. l : f[i] = j
      BY <2>1, <2>3, <3>1 DEF Trace
    <3>3. \A h \in 1 .. l : f[h] <= j <=> h <= i
      <4> TAKE h \in 1 .. l
      <4>1. f[h] \in 1 .. (m + n) /\ f[i] \in 1 .. (m + n)
        BY <2>7
      <4>2. (i < h => f[i] < f[h]) /\ (h < i => f[h] < f[i])
        BY <2>7
      <4>3. h = i => f[h] = f[i]
        OBVIOUS
      <4> HIDE DEF due
      <4> QED BY <3>2, <4>1, <4>2, <4>3
    <3>4. j \in 0 .. (m + n) /\ i \in 0 .. l
      BY <3>1
    <3>5. Cardinality({h \in 1 .. j : DueAt(seen, queue, setup.own, h)}) = i
      BY <2>1, <2>2, <2>3, <3>3, <3>4, TraceCounts
    <3>6. Cardinality(due(j)) = i
      BY <2>6, <3>4, <3>5
    <3>7. owed[i] = EventAt(seen, queue, j)
      BY <2>1, <2>3, <3>2 DEF Trace
    <3> HIDE DEF due
    <3> QED BY <2>4, <3>1, <3>6, <3>7
  <2> QED BY <2>3, <2>8, <2>9 DEF StreamComplete, all, Due
<1> QED BY <1>1, <1>2, <1>3, PTL DEF Spec
===============================================================================
