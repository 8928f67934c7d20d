-------------------------- MODULE QueriesObserver --------------------------
(***************************************************************************)
(* QueriesObserver (src/queries_observer.rs): a list of specs, a result    *)
(* per spec, and a buffer of completed executions shared with the tasks.   *)
(* set_specs replaces the buffer, and a task keeps the buffer and the      *)
(* index it was spawned with.                                              *)
(***************************************************************************)
EXTENDS Integers, Sequences, SequencesExt, FiniteSets, Functions

CONSTANTS
  Keys,      \* cache keys
  NoData,    \* no data
  MaxTasks   \* bound: tasks running at a time

VARIABLES
  plan,      \* calls left, spec lists and keys: disabled, in flight, with initial data
  cache,     \* key -> its data, NoData if absent, and its staleness
  made,      \* data made so far: its number says which fetch it is from
  specs,     \* the observed keys, in order
  results,   \* the result of every spec
  buffers,   \* every buffer made so far; the last one is the observer's
  tasks,     \* the running executions, in the order they were spawned
  lostKeys   \* keys with a handle dropped, or kept by set_specs while a task was running

vars == <<plan, cache, made, specs, results, buffers, tasks, lostKeys>>

Quiet == [calls |-> 0, lists |-> {}, disabled |-> {}, flying |-> {}, seeded |-> {}, first |-> <<>>]

State(s, d) == [s |-> s, data |-> d]
Idle == State("Idle", NoData)
Datum(k, n) == [key |-> k, n |-> n]

\* initial_result: the cache, or the initial data put into it, or nothing.
Seeds(k) == cache[k].data = NoData /\ k \in plan.seeded
InitialData(k) == IF Seeds(k) THEN Datum(k, 0) ELSE cache[k].data
InitialResult(k) ==
  LET d == InitialData(k) IN
  CASE d # NoData /\ k \in plan.flying -> State("Refetching", d)
    [] d # NoData /\ k \notin plan.flying -> State(IF ~Seeds(k) /\ cache[k].stale THEN "Stale" ELSE "Success", d)
    [] d = NoData /\ k \in plan.flying -> State("Loading", NoData)
    [] OTHER -> Idle
Seeded(ks) == [k \in Keys |-> IF k \in ks /\ Seeds(k) THEN [data |-> Datum(k, 0), stale |-> FALSE] ELSE cache[k]]

\* The plan names the first list; the constructor seeds and reads the cache.
InitFor(p) ==
  /\ plan = p
  /\ specs = p.first
  /\ cache = [k \in Keys |-> [data |-> IF k \in p.seeded \cap ToSet(p.first) THEN Datum(k, 0) ELSE NoData,
                              stale |-> FALSE]]
  /\ results = [i \in DOMAIN p.first |->
       IF p.first[i] \in p.seeded
       THEN State(IF p.first[i] \in p.flying THEN "Refetching" ELSE "Success", Datum(p.first[i], 0))
       ELSE IF p.first[i] \in p.flying THEN State("Loading", NoData) ELSE Idle]
  /\ buffers = <<[i \in DOMAIN p.first |-> Idle]>>
  /\ made = 0
  /\ tasks = <<>>
  /\ lostKeys = {}

\* A slot that holds no state is Idle: an execution never ends in Idle here.
Buffer == Last(buffers)

Call ==
  /\ plan.calls > 0
  /\ plan' = [plan EXCEPT !.calls = @ - 1]

\* run_indices: the optimistic mark and a task for every enabled spec.
Marked(rs, ks, is) ==
  [i \in DOMAIN rs |-> IF i \notin is \/ ks[i] \in plan.disabled THEN rs[i]
     ELSE IF rs[i].data = NoData THEN State("Loading", NoData) ELSE State("Refetching", rs[i].data)]
Spawned(ks, is, b) ==
  LET todo == SetToSortSeq({i \in is : ks[i] \notin plan.disabled}, <) IN
  tasks \o [n \in DOMAIN todo |-> [at |-> "fetching", key |-> ks[todo[n]], index |-> todo[n],
                                   buffer |-> b, state |-> Idle]]

-----------------------------------------------------------------------------

RunAll ==
  /\ Call
  /\ results' = Marked(results, specs, DOMAIN specs)
  /\ tasks' = Spawned(specs, DOMAIN specs, Len(buffers)) /\ Len(tasks') <= MaxTasks
  /\ UNCHANGED <<cache, made, specs, buffers, lostKeys>>

Refresh(i) ==
  /\ Call /\ i \in DOMAIN specs
  /\ results' = Marked(results, specs, {i})
  /\ tasks' = Spawned(specs, {i}, Len(buffers)) /\ Len(tasks') <= MaxTasks
  /\ UNCHANGED <<cache, made, specs, buffers, lostKeys>>

\* The specs of new and their results: the first spec with the key of an old one
\* takes its result and a copy of its slot, a second one with that key gets the
\* default, and the others are new and run.
OldIndex(k) == IF \E i \in DOMAIN specs : specs[i] = k
               THEN CHOOSE i \in DOMAIN specs : specs[i] = k /\ \A j \in 1 .. i - 1 : specs[j] # k
               ELSE 0
FirstUse(new, i) == \A j \in 1 .. i - 1 : new[j] # new[i]
NewIndices(new) == {i \in DOMAIN new : OldIndex(new[i]) = 0}

\* A buffer of its own, so that tasks of the old one cannot land at a wrong index.
NewBuffers(new) ==
  Append(buffers, [i \in DOMAIN new |-> IF OldIndex(new[i]) = 0 THEN Idle ELSE Buffer[OldIndex(new[i])]])

SetSpecs(new) ==
  LET kept == [i \in DOMAIN new |->
        IF OldIndex(new[i]) = 0 THEN InitialResult(new[i])
        ELSE IF FirstUse(new, i) THEN results[OldIndex(new[i])] ELSE Idle] IN
  /\ Call /\ new \in plan.lists
  /\ specs' = new
  /\ results' = Marked(kept, new, NewIndices(new))
  /\ buffers' = NewBuffers(new)
  /\ tasks' = Spawned(new, NewIndices(new), Len(buffers')) /\ Len(tasks') <= MaxTasks
  /\ cache' = Seeded({new[i] : i \in NewIndices(new)})
  /\ lostKeys' = lostKeys \cup {t.key : t \in ToSet(tasks)}
  /\ UNCHANGED made

\* sync: a completed execution becomes the result, a missing one changes nothing.
Sync ==
  /\ results' = [i \in DOMAIN results |-> IF Buffer[i] = Idle THEN results[i] ELSE Buffer[i]]
  /\ results' # results
  /\ UNCHANGED <<plan, cache, made, specs, buffers, tasks, lostKeys>>

\* execute_query ends: with new data in the cache, or with an error and what was
\* cached as stale data.
Execute(n, ok) ==
  /\ tasks[n].at = "fetching"
  /\ LET k == tasks[n].key IN
     IF ok
     THEN /\ made' = made + 1
          /\ cache' = [cache EXCEPT ![k] = [data |-> Datum(k, made + 1), stale |-> FALSE]]
          /\ tasks' = [tasks EXCEPT ![n].at = "fetched", ![n].state = State("Success", Datum(k, made + 1))]
     ELSE /\ tasks' = [tasks EXCEPT ![n].at = "fetched", ![n].state = State("Error", cache[k].data)]
          /\ UNCHANGED <<made, cache>>
  /\ UNCHANGED <<plan, specs, results, buffers, lostKeys>>

\* The task puts its state into the buffer it was spawned with, at its index.
Deposit(n) ==
  /\ tasks[n].at = "fetched"
  /\ tasks' = RemoveAt(tasks, n)
  /\ buffers' = IF tasks[n].index \in DOMAIN buffers[tasks[n].buffer]
                THEN [buffers EXCEPT ![tasks[n].buffer][tasks[n].index] = tasks[n].state]
                ELSE buffers
  /\ UNCHANGED <<plan, cache, made, specs, results, lostKeys>>

\* The returned handle is dropped, which aborts the task where it awaits.
DropHandle(n) ==
  /\ Call /\ tasks[n].at = "fetching"
  /\ tasks' = RemoveAt(tasks, n)
  /\ lostKeys' = lostKeys \cup {tasks[n].key}
  /\ UNCHANGED <<cache, made, specs, results, buffers>>

Invalidate(k) ==
  /\ Call /\ cache[k].data # NoData /\ ~cache[k].stale
  /\ cache' = [cache EXCEPT ![k].stale = TRUE]
  /\ UNCHANGED <<made, specs, results, buffers, tasks, lostKeys>>

Next ==
  \/ RunAll \/ Sync
  \/ \E i \in DOMAIN specs : Refresh(i)
  \/ \E new \in plan.lists : SetSpecs(new)
  \/ \E n \in DOMAIN tasks : (\E ok \in BOOLEAN : Execute(n, ok)) \/ Deposit(n) \/ DropHandle(n)
  \/ \E k \in Keys : Invalidate(k)

-----------------------------------------------------------------------------

Data == {NoData} \cup [key : Keys, n : 0 .. made]
States == [s : {"Idle", "Loading", "Refetching", "Success", "Stale", "Error"}, data : Data]

\* Type invariant.
TypeOK ==
  /\ plan.calls \in Nat
  /\ cache \in [Keys -> [data : Data, stale : BOOLEAN]]
  /\ specs \in Seq(Keys) /\ results \in Seq(States)
  /\ Len(results) = Len(specs) /\ Len(Buffer) = Len(specs)
  /\ \A b \in ToSet(buffers) : b \in Seq(States)
  /\ \A t \in ToSet(tasks) : t.at \in {"fetching", "fetched"} /\ t.state \in States

\* Whatever is reordered, removed and added while tasks are running, a result and a
\* completed slot are about the key of their spec and not of one that used to be at
\* that position.
OwnKeyOnly ==
  \A i \in DOMAIN specs : \A s \in {results[i], Buffer[i]} : s.data # NoData => s.data.key = specs[i]

\* The optimistic mark is paid back: a result that says Loading or Refetching has a
\* task that will land in the current buffer, or has landed there, unless the handle
\* was dropped, somebody else is fetching the key, or set_specs kept the key while
\* its task was running (that task lands in the buffer nobody reads any more).
MarkIsOwed ==
  \A i \in DOMAIN specs :
    results[i].s \in {"Loading", "Refetching"} =>
      \/ \E t \in ToSet(tasks) : t.key = specs[i] /\ t.buffer = Len(buffers)
      \/ Buffer[i] # Idle
      \/ specs[i] \in plan.flying \cup lostKeys
=============================================================================
