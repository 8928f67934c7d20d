------------------------- MODULE QueryFetch_proofs -------------------------
(***************************************************************************)
(* Proofs about the client and the executor, for any number of keys,       *)
(* executions and callers, any retry budget, network mode and channel      *)
(* capacity.  Types and the count of fetches hold on one thread and on a   *)
(* pool; the registry, coalescing and freshness, whose steps a pool can    *)
(* interleave, are proved for one thread.                                  *)
(***************************************************************************)
EXTENDS QueryFetch, FiniteSetTheorems, TLAPS

(***************************************************************************)
(* The inductive invariant                                                 *)
(***************************************************************************)

CacheType == [has : BOOLEAN, stale : BOOLEAN, epoch : Nat]
ChanType == [queue : Seq(Variants), missed : Nat]
CallType == [op : AllOps \cup {"none", "trigger_refetch"},
             at : {"idle", "loop", "flag", "cache", "notify", "spawn",
                   "register", "cancel", "drain", "wipe"},
             key : Keys \cup {NoKey},
             todo : SUBSET Keys,
             hit : BOOLEAN,
             proc : Procs \cup {NoProc}]

\* Only spawned tasks clear the registry, hold a guard or can be aborted.
TaskInv ==
  \A p \in Procs :
    /\ pc[p] = "new" => kind[p] = "none"
    /\ pc[p] # "new" => key[p] \in Keys
    /\ pc[p] \in {"clear", "end"} => kind[p] = "spawn"
    /\ aborted[p] => kind[p] = "spawn"

\* Only spawned tasks are registered in flight.
RegistryInv == \A k \in Keys : inFlight[k] # NoProc => kind[inFlight[k]] = "spawn"

\* Where the next attempt is still within the budget.
Unspent == {"new", "called", "ready", "gate", "loop", "sleeping", "offline"}
TriesInv == \A p \in Procs : pc[p] \in Unspent => tries[p] <= MaxRetries

\* A caller that is yet to hand its execution to the runtime, and no other
\* caller, owns that execution.
Pending(c) == call[c].at = "spawn" \/ (call[c].op = "refetch" /\ call[c].at # "register")
CallInv ==
  /\ \A c \in Callers : Pending(c) => /\ call[c].proc \in Procs
                                      /\ pc[call[c].proc] = "called"
                                      /\ kind[call[c].proc] = "spawn"
  /\ \A c \in Callers : call[c].at = "register" => /\ call[c].proc \in Procs
                                                   /\ kind[call[c].proc] = "spawn"
  /\ \A c, d \in Callers : Pending(c) /\ Pending(d) /\ call[c].proc = call[d].proc => c = d

FetchInv == TypeOK /\ TaskInv /\ RegistryInv /\ TriesInv /\ CallInv /\ FetchingCountExact

(***************************************************************************)
(* The pieces the steps are made of                                        *)
(***************************************************************************)

\* Sender::send keeps a queue a queue.
LEMMA QueueType ==
  ASSUME NEW S, NEW q \in Seq(S), NEW v \in S, NEW n \in Nat
  PROVE  Queued(q, v) \in Seq(S) /\ Missed(q, n) \in Nat
<1>1. Cap \in Nat /\ Cap >= 1
  BY CapacityAssumption DEF Cap
<1>2. CASE Len(q) >= Cap
  <2>1. q # <<>>
    BY <1>1, <1>2
  <2>2. Tail(q) \in Seq(S)
    BY <2>1
  <2> QED
    BY <1>2, <2>2 DEF Queued, Missed
<1>3. CASE ~(Len(q) >= Cap)
  BY <1>3 DEF Queued, Missed
<1> QED
  BY <1>2, <1>3

\* notify_subscribers keeps the subscriptions well formed.
LEMMA NotifyType ==
  ASSUME TypeOK, NEW k, NEW v \in Variants, Notify(k, v)
  PROVE  chan' \in [Procs -> ChanType]
<1>1. \A p \in Procs : chan[p].queue \in Seq(Variants) /\ chan[p].missed \in Nat
  BY DEF TypeOK
<1>2. ASSUME NEW p \in Procs
      PROVE  /\ Queued(chan[p].queue, v) \in Seq(Variants)
             /\ Missed(chan[p].queue, chan[p].missed) \in Nat
  BY <1>1, QueueType
<1> QED
  BY <1>2 DEF Notify, ChanType, TypeOK

\* What an operation tells the subscribers is one of the four variants.
LEMMA MessageType == \A op : Message(op) \in Variants
  BY DEF Message, Variants

\* cancelling and aborting a registered fetch: what is registered or aborted
\* stays a spawned task.
LEMMA KillFacts ==
  ASSUME TypeOK, TaskInv, RegistryInv, NEW k \in Keys, Kill(k)
  PROVE  /\ inFlight' \in [Keys -> Procs \cup {NoProc}]
         /\ token' \in [Procs -> BOOLEAN]
         /\ aborted' \in [Procs -> BOOLEAN]
         /\ \A j \in Keys : inFlight'[j] # NoProc => kind[inFlight'[j]] = "spawn"
         /\ \A p \in Procs : aborted'[p] => kind[p] = "spawn"
<1>1. CASE inFlight[k] = NoProc
  BY <1>1 DEF Kill, TypeOK, TaskInv, RegistryInv
<1>2. CASE inFlight[k] # NoProc
  <2> DEFINE r == inFlight[k]
  <2>1. /\ r \in Procs /\ kind[r] = "spawn"
        /\ inFlight' = [inFlight EXCEPT ![k] = NoProc]
        /\ token' = [token EXCEPT ![r] = TRUE]
        /\ aborted' = [aborted EXCEPT ![r] = TRUE]
    BY <1>2 DEF Kill, TypeOK, RegistryInv
  <2> HIDE DEF r
  <2>2. /\ inFlight' \in [Keys -> Procs \cup {NoProc}]
        /\ token' \in [Procs -> BOOLEAN]
        /\ aborted' \in [Procs -> BOOLEAN]
    BY <2>1 DEF TypeOK
  <2>3. \A j \in Keys : inFlight'[j] # NoProc => kind[inFlight'[j]] = "spawn"
    BY <2>1 DEF RegistryInv, TypeOK
  <2>4. \A p \in Procs : aborted'[p] => kind[p] = "spawn"
    BY <2>1 DEF TaskInv, TypeOK
  <2> QED
    BY <2>2, <2>3, <2>4
<1> QED
  BY <1>1, <1>2

\* The guards are finitely many, and one more or one less counts as one.
LEMMA GuardsFinite == IsFiniteSet(Guards) /\ Cardinality(Guards) \in Nat
<1>1. Guards \in SUBSET Procs
  BY DEF Guards
<1> QED
  BY <1>1, FS_Subset, FS_CardinalityType, QueryFetchAssumption

\* inc_fetching in spawn_query ...
LEMMA GuardAdded ==
  ASSUME FetchingCountExact, NEW p, p \notin Guards, Guards' = Guards \cup {p},
         fetching' = fetching + 1
  PROVE  FetchingCountExact' /\ fetching' \in Nat
  BY GuardsFinite, FS_AddElement DEF FetchingCountExact

\* ... and dec_fetching when the FetchingGuard drops, which never underflows.
LEMMA GuardRemoved ==
  ASSUME FetchingCountExact, NEW p, p \in Guards, Guards' = Guards \ {p},
         fetching' = fetching - 1
  PROVE  FetchingCountExact' /\ fetching' \in Nat
<1>1. Cardinality(Guards') = Cardinality(Guards) - 1
  BY GuardsFinite, FS_RemoveElement
<1>2. Cardinality(Guards) # 0
  BY GuardsFinite, FS_EmptySet
<1> QED
  BY <1>1, <1>2, GuardsFinite DEF FetchingCountExact

(***************************************************************************)
(* A step of an execution that keeps its guard                             *)
(***************************************************************************)
ProcMove(p) ==
  /\ pc[p] \notin Inactive
  /\ \E x \in Places \ {"new", "called"} :
       /\ pc' = [pc EXCEPT ![p] = x]
       /\ kind[p] = "spawn" => x \notin Inactive
       /\ x \in {"clear", "end"} => kind[p] = "spawn"
       /\ x \in Unspent => tries'[p] <= MaxRetries
  /\ result' \in [Procs -> Results]
  /\ tries' \in [Procs -> 0..(MaxRetries + 1)]
  /\ \A q \in Procs : q # p => tries'[q] = tries[q]
  /\ cache' \in [Keys -> CacheType]
  /\ began' \in [Procs -> Nat]
  /\ chan' \in [Procs -> ChanType]
  /\ inFlight' \in [Keys -> Procs \cup {NoProc}]
  /\ \A k \in Keys : inFlight'[k] \in {inFlight[k], NoProc}
  /\ UNCHANGED <<kind, key, token, aborted, fetching, epoch, envVars, call, calls>>

\* Such a step keeps the invariant, whatever part of the executor it is.
LEMMA ProcMoveKeeps ==
  ASSUME FetchInv, NEW p \in Procs, ProcMove(p)
  PROVE  FetchInv'
<1>0. PICK x \in Places \ {"new", "called"} :
        /\ pc' = [pc EXCEPT ![p] = x]
        /\ kind[p] = "spawn" => x \notin Inactive
        /\ x \in {"clear", "end"} => kind[p] = "spawn"
        /\ x \in Unspent => tries'[p] <= MaxRetries
  BY DEF ProcMove
<1>a. /\ pc[p] \notin Inactive
      /\ UNCHANGED <<kind, key, token, aborted, fetching, epoch, online, restoring,
                     flips, call, calls>>
      /\ \A k \in Keys : inFlight'[k] \in {inFlight[k], NoProc}
      /\ \A q \in Procs : q # p => tries'[q] = tries[q]
      /\ result' \in [Procs -> Results]
      /\ tries' \in [Procs -> 0..(MaxRetries + 1)]
      /\ cache' \in [Keys -> CacheType]
      /\ began' \in [Procs -> Nat]
      /\ chan' \in [Procs -> ChanType]
      /\ inFlight' \in [Keys -> Procs \cup {NoProc}]
  BY DEF ProcMove, envVars
<1>b. /\ TypeOK /\ TaskInv /\ RegistryInv /\ TriesInv /\ CallInv /\ FetchingCountExact
      /\ pc \in [Procs -> Places]
  BY DEF FetchInv, TypeOK
<1>c. pc[p] # "new" /\ pc[p] # "called"
  BY <1>a DEF Inactive
<1>1. TypeOK'
  BY <1>0, <1>a, <1>b DEF TypeOK, CacheType, ChanType
<1>2. TaskInv'
  BY <1>0, <1>a, <1>b, <1>c DEF TaskInv
<1>3. RegistryInv'
  BY <1>a, <1>b DEF RegistryInv
<1>4. TriesInv'
  BY <1>0, <1>a, <1>b DEF TriesInv
<1>5. CallInv'
  <2>1. \A q \in Procs : pc[q] = "called" => pc'[q] = "called"
    BY <1>0, <1>b, <1>c
  <2> QED
    BY <1>a, <1>b, <2>1 DEF CallInv, Pending
<1>6. FetchingCountExact'
  <2>1. Guards' = Guards
    BY <1>0, <1>a, <1>b DEF Guards
  <2> QED
    BY <1>a, <1>b, <2>1 DEF FetchingCountExact
<1> QED
  BY <1>1, <1>2, <1>3, <1>4, <1>5, <1>6 DEF FetchInv

-----------------------------------------------------------------------------
\* The places an execution passes through, and where it is not running.
LEMMA PlaceFacts ==
  /\ {"clear", "done", "end", "gate", "subscribe", "recheck", "waiting", "loop", "polling",
      "parked", "resolving", "insert", "notify", "read", "sleeping", "offline", "ready"}
       \subseteq Places \ {"new", "called"}
  /\ Inactive = {"new", "called", "done", "dropped"}
  BY DEF Places, Inactive, Suspended

\* What the rest of the state does in such a step.
Rest(p) ==
  /\ tries' \in [Procs -> 0..(MaxRetries + 1)]
  /\ \A q \in Procs : q # p => tries'[q] = tries[q]
  /\ cache' \in [Keys -> CacheType]
  /\ began' \in [Procs -> Nat]
  /\ chan' \in [Procs -> ChanType]
  /\ inFlight' \in [Keys -> Procs \cup {NoProc}]
  /\ \A k \in Keys : inFlight'[k] \in {inFlight[k], NoProc}
  /\ UNCHANGED <<kind, key, token, aborted, fetching, epoch, envVars, call, calls>>

\* Going on inside execute_query_inner ...
LEMMA GotoMove ==
  ASSUME TypeOK, NEW p \in Procs, Rest(p), pc[p] \notin Inactive,
         NEW x \in Places \ {"new", "called"}, Goto(p, x), x \notin Inactive,
         x \in {"clear", "end"} => kind[p] = "spawn",
         x \in Unspent => tries'[p] <= MaxRetries
  PROVE  ProcMove(p)
<1>1. result' \in [Procs -> Results] /\ pc' = [pc EXCEPT ![p] = x]
  BY DEF Goto, TypeOK
<1> QED
  BY <1>1 DEF ProcMove, Rest

\* ... and returning from it are such steps.
LEMMA FinishMove ==
  ASSUME TypeOK, NEW p \in Procs, Rest(p), pc[p] \notin Inactive,
         NEW r \in Results, Finish(p, r)
  PROVE  ProcMove(p)
<1>1. result' \in [Procs -> Results]
  BY DEF Finish, TypeOK
<1>2. PICK x \in {"clear", "done"} : /\ pc' = [pc EXCEPT ![p] = x]
                                     /\ x = "clear" <=> kind[p] = "spawn"
  BY DEF Finish
<1>3. /\ x \in Places \ {"new", "called"}
      /\ kind[p] = "spawn" => x \notin Inactive
      /\ x \in {"clear", "end"} => kind[p] = "spawn"
      /\ x \notin Unspent
  BY <1>2, PlaceFacts DEF Unspent
<1> QED
  BY <1>1, <1>2, <1>3 DEF ProcMove, Rest

\* Every step of the executor but EndTask and DropTask is such a step.
LEMMA ProcStepMoves ==
  ASSUME FetchInv, NEW p \in Procs, ProcStep(p), ~EndTask(p), ~DropTask(p)
  PROVE  ProcMove(p)
<1>0. TypeOK /\ TaskInv /\ TriesInv
  BY DEF FetchInv
<1>a. ASSUME UNCHANGED <<tries, cache, began, chan, inFlight, kind, key, token, aborted,
                         fetching, epoch, envVars, call, calls>>
      PROVE  Rest(p)
  BY <1>0, <1>a DEF Rest, TypeOK, CacheType, ChanType
<1>b. ASSUME chan' \in [Procs -> ChanType],
             UNCHANGED <<tries, cache, began, inFlight, kind, key, token, aborted,
                         fetching, epoch, envVars, call, calls>>
      PROVE  Rest(p)
  BY <1>0, <1>b DEF Rest, TypeOK, CacheType, ChanType
<1>e. ASSUME chan' = [chan EXCEPT ![p] = NoChan] PROVE chan' \in [Procs -> ChanType]
  BY <1>0, <1>e DEF TypeOK, ChanType, NoChan
<1>1. CASE Begin(p)
  <2>1. pc[p] = "ready" /\ UNCHANGED <<tries, cache, began, inFlight, kind, key, token,
                   aborted, fetching, epoch, envVars, call, calls>>
    BY <1>1 DEF Begin, Resumes, Runs, storeVars
  <2>2. CASE Finish(p, "Idle") /\ UNCHANGED chan
    BY <1>0, <1>a, <2>1, <2>2, FinishMove, PlaceFacts DEF Results
  <2>3. CASE Goto(p, "subscribe") /\ UNCHANGED chan
    BY <1>0, <1>a, <2>1, <2>3, GotoMove, PlaceFacts DEF Unspent
  <2>4. CASE Goto(p, "gate") /\ Notify(key[p], "Loading")
    <3>1. chan' \in [Procs -> ChanType]
      BY <1>0, <2>4, NotifyType DEF Variants
    <3>2. Rest(p)
      BY <1>b, <2>1, <3>1
    <3>3. tries'[p] <= MaxRetries
      BY <1>0, <2>1 DEF TriesInv, Unspent
    <3> QED
      BY <1>0, <2>1, <2>4, <3>2, <3>3, GotoMove, PlaceFacts
  <2> QED
    BY <1>1, <2>2, <2>3, <2>4 DEF Begin
<1>2. CASE Subscribe(p)
  <2>1. /\ pc[p] = "subscribe" /\ Goto(p, "recheck") /\ chan' = [chan EXCEPT ![p] = NoChan]
        /\ UNCHANGED <<tries, cache, began, inFlight, kind, key, token, aborted,
                       fetching, epoch, envVars, call, calls>>
    BY <1>2 DEF Subscribe, Runs, storeVars
  <2>2. Rest(p)
    BY <1>b, <1>e, <2>1
  <2> QED
    BY <1>0, <2>1, <2>2, GotoMove, PlaceFacts DEF Unspent
<1>3. CASE Recheck(p)
  <2>1. /\ pc[p] = "recheck"
        /\ UNCHANGED <<tries, cache, began, inFlight, kind, key, token, aborted,
                       fetching, epoch, envVars, call, calls>>
    BY <1>3 DEF Recheck, Runs, storeVars
  <2>2. CASE Goto(p, "waiting") /\ UNCHANGED chan
    BY <1>0, <1>a, <2>1, <2>2, GotoMove, PlaceFacts DEF Unspent
  <2>3. CASE (Finish(p, "Stale") \/ Finish(p, "Success")) /\ chan' = [chan EXCEPT ![p] = NoChan]
    <3>1. Rest(p)
      BY <1>b, <1>e, <2>1, <2>3
    <3> QED
      BY <1>0, <2>1, <2>3, <3>1, FinishMove, PlaceFacts DEF Results
  <2> QED
    BY <1>3, <2>2, <2>3 DEF Recheck
<1>4. CASE Receive(p)
  <2>1. /\ pc[p] = "waiting"
        /\ UNCHANGED <<tries, cache, began, inFlight, kind, key, token, aborted,
                       fetching, epoch, envVars, call, calls>>
    BY <1>4 DEF Receive, Runs, storeVars
  <2>2. CASE /\ \E r \in {"Loading", "Success", "Stale", "Error"} : Finish(p, r)
             /\ chan' = [chan EXCEPT ![p] = NoChan]
    <3>1. Rest(p)
      BY <1>b, <1>e, <2>1, <2>2
    <3> QED
      BY <1>0, <2>1, <2>2, <3>1, FinishMove, PlaceFacts DEF Results
  <2>3. CASE /\ chan[p].queue # <<>>
             /\ chan' = [chan EXCEPT ![p].queue = Tail(chan[p].queue)]
             /\ UNCHANGED <<pc, result>>
    <3>1. chan[p].queue \in Seq(Variants)
      BY <1>0 DEF TypeOK
    <3>2. Tail(chan[p].queue) \in Seq(Variants)
      BY <2>3, <3>1
    <3>3. chan' \in [Procs -> ChanType]
      BY <1>0, <2>3, <3>2 DEF TypeOK, ChanType
    <3>4. Rest(p)
      BY <1>b, <2>1, <3>3
    <3>5. Goto(p, "waiting")
      BY <1>0, <2>1, <2>3 DEF Goto, TypeOK
    <3> QED
      BY <1>0, <2>1, <3>4, <3>5, GotoMove, PlaceFacts DEF Unspent
  <2> QED
    BY <1>4, <2>2, <2>3 DEF Receive
<1>5. CASE Gate(p)
  <2>1. /\ pc[p] = "gate" /\ Rest(p)
    BY <1>5, <1>a DEF Gate, Runs, storeVars
  <2>2. tries'[p] <= MaxRetries
    BY <1>0, <1>5, <2>1 DEF TriesInv, Unspent, Gate
  <2>3. CASE Goto(p, "loop")
    BY <1>0, <2>1, <2>2, <2>3, GotoMove, PlaceFacts
  <2>4. CASE Finish(p, "Paused")
    BY <1>0, <2>1, <2>4, FinishMove, PlaceFacts DEF Results
  <2> QED
    BY <1>5, <2>3, <2>4 DEF Gate
<1>6. CASE Attempt(p)
  <2>1. pc[p] = "loop"
    BY <1>6 DEF Attempt, Runs
  <2>2. CASE token[p]
    <3>1. Rest(p) /\ Finish(p, "Cancelled")
      BY <1>6, <1>a, <2>2 DEF Attempt, storeVars
    <3> QED
      BY <1>0, <2>1, <3>1, FinishMove, PlaceFacts DEF Results
  <2>3. CASE ~token[p]
    <3>1. /\ tries' = [tries EXCEPT ![p] = tries[p] + 1]
          /\ began' = [began EXCEPT ![p] = epoch[key[p]]]
          /\ Goto(p, "polling")
          /\ UNCHANGED <<cache, chan, inFlight, kind, key, token, aborted,
                         fetching, epoch, envVars, call, calls>>
      BY <1>6, <2>3 DEF Attempt, storeVars
    <3>2. tries[p] \in Nat /\ tries[p] <= MaxRetries /\ key[p] \in Keys
      BY <1>0, <2>1, QueryFetchAssumption DEF TypeOK, TriesInv, TaskInv, Unspent
    <3>3. tries[p] + 1 \in 0..(MaxRetries + 1) /\ epoch[key[p]] \in Nat
      BY <1>0, <3>2, QueryFetchAssumption DEF TypeOK
    <3>4. Rest(p)
      BY <1>0, <3>1, <3>3 DEF Rest, TypeOK, CacheType, ChanType
    <3> QED
      BY <1>0, <2>1, <3>1, <3>4, GotoMove, PlaceFacts DEF Unspent
  <2> QED
    BY <2>2, <2>3
<1>7. CASE FetchPending(p)
  <2>1. pc[p] \in {"polling"} /\ Rest(p) /\ Goto(p, "parked")
    BY <1>7, <1>a DEF FetchPending, Runs, Resumes, InFetch, storeVars
  <2> QED
    BY <1>0, <2>1, GotoMove, PlaceFacts DEF Unspent
<1>8. CASE FetchWoken(p)
  <2>1. pc[p] \in {"parked"} /\ Rest(p) /\ Goto(p, "resolving")
    BY <1>8, <1>a DEF FetchWoken, Runs, Resumes, InFetch, storeVars
  <2> QED
    BY <1>0, <2>1, GotoMove, PlaceFacts DEF Unspent
<1>9. CASE FetchOk(p)
  <2>1. pc[p] \in {"polling", "resolving"} /\ Rest(p) /\ Goto(p, "insert")
    BY <1>9, <1>a DEF FetchOk, Runs, Resumes, InFetch, storeVars
  <2> QED
    BY <1>0, <2>1, GotoMove, PlaceFacts DEF Unspent
<1>10. CASE FetchCancelled(p)
  <2>1. pc[p] \in {"polling", "resolving"} /\ Rest(p) /\ Finish(p, "Cancelled")
    BY <1>10, <1>a DEF FetchCancelled, Runs, InFetch, storeVars
  <2> QED
    BY <1>0, <2>1, FinishMove, PlaceFacts DEF Results
<1>11. CASE FetchRetry(p)
  <2>1. /\ pc[p] \in {"polling", "resolving"} /\ Rest(p)
        /\ \E x \in {"sleeping", "offline"} : Goto(p, x)
        /\ tries[p] - 1 < Budget(p) /\ tries' = tries
    BY <1>11, <1>a DEF FetchRetry, Runs, InFetch, storeVars
  <2>2. tries'[p] <= MaxRetries
    BY <1>0, <2>1, QueryFetchAssumption DEF TypeOK, Budget
  <2> QED
    BY <1>0, <2>1, <2>2, GotoMove, PlaceFacts
<1>12. CASE FetchFail(p)
  <2>1. /\ pc[p] \in {"polling", "resolving"} /\ Finish(p, "Error") /\ Notify(key[p], "Error")
        /\ UNCHANGED <<tries, cache, began, inFlight, kind, key, token, aborted,
                       fetching, epoch, envVars, call, calls>>
    BY <1>12 DEF FetchFail, Runs, InFetch, storeVars
  <2>2. chan' \in [Procs -> ChanType]
    BY <1>0, <2>1, NotifyType DEF Variants
  <2>3. Rest(p)
    BY <1>b, <2>1, <2>2
  <2> QED
    BY <1>0, <2>1, <2>3, FinishMove, PlaceFacts DEF Results
<1>13. CASE FetchPanic(p)
  <2>1. pc[p] \in {"polling", "resolving"} /\ Rest(p) /\ Finish(p, "FetchPanic")
    BY <1>13, <1>a DEF FetchPanic, Runs, InFetch, storeVars
  <2> QED
    BY <1>0, <2>1, FinishMove, PlaceFacts DEF Results
<1>14. CASE Resume(p)
  <2>1. pc[p] = "offline" /\ Rest(p) /\ tries' = tries
    BY <1>14, <1>a DEF Resume, Resumes, Runs, storeVars
  <2>2. tries'[p] <= MaxRetries
    BY <1>0, <2>1 DEF TriesInv, Unspent
  <2>3. CASE Goto(p, "sleeping")
    BY <1>0, <2>1, <2>2, <2>3, GotoMove, PlaceFacts
  <2>4. CASE Finish(p, "Cancelled")
    BY <1>0, <2>1, <2>4, FinishMove, PlaceFacts DEF Results
  <2> QED
    BY <1>14, <2>3, <2>4 DEF Resume
<1>15. CASE Backoff(p)
  <2>1. pc[p] = "sleeping" /\ Rest(p) /\ tries' = tries /\ Goto(p, "loop")
    BY <1>15, <1>a DEF Backoff, Resumes, Runs, storeVars
  <2>2. tries'[p] <= MaxRetries
    BY <1>0, <2>1 DEF TriesInv, Unspent
  <2> QED
    BY <1>0, <2>1, <2>2, GotoMove, PlaceFacts
<1>16. CASE WriteData(p)
  <2>1. /\ pc[p] = "insert" /\ Goto(p, "notify") /\ Insert(key[p], began[p])
        /\ UNCHANGED <<tries, began, chan, inFlight, kind, key, token, aborted,
                       fetching, epoch, envVars, call, calls>>
    BY <1>16 DEF WriteData, Runs
  <2>2. cache' \in [Keys -> CacheType]
    BY <1>0, <2>1 DEF Insert, TypeOK, CacheType
  <2>3. Rest(p)
    BY <1>0, <2>1, <2>2 DEF Rest, TypeOK, ChanType
  <2> QED
    BY <1>0, <2>1, <2>3, GotoMove, PlaceFacts DEF Unspent
<1>17. CASE NotifySuccess(p)
  <2>1. /\ pc[p] = "notify" /\ Goto(p, "read") /\ Notify(key[p], "Success")
        /\ UNCHANGED <<tries, cache, began, inFlight, kind, key, token, aborted,
                       fetching, epoch, envVars, call, calls>>
    BY <1>17 DEF NotifySuccess, Runs, storeVars
  <2>2. chan' \in [Procs -> ChanType]
    BY <1>0, <2>1, NotifyType DEF Variants
  <2>3. Rest(p)
    BY <1>b, <2>1, <2>2
  <2> QED
    BY <1>0, <2>1, <2>3, GotoMove, PlaceFacts DEF Unspent
<1>18. CASE ReadBack(p)
  <2>1. /\ pc[p] = "read" /\ Rest(p)
        /\ \E r \in {"Success", "ExpectPanic"} : Finish(p, r)
    BY <1>18, <1>a DEF ReadBack, Runs, storeVars
  <2> QED
    BY <1>0, <2>1, FinishMove, PlaceFacts DEF Results
<1>19. CASE ClearInFlight(p)
  <2>1. /\ pc[p] = "clear" /\ Goto(p, "end") /\ inFlight' = [inFlight EXCEPT ![key[p]] = NoProc]
        /\ UNCHANGED <<tries, cache, began, chan, kind, key, token, aborted,
                       fetching, epoch, envVars, call, calls>>
    BY <1>19 DEF ClearInFlight, Runs
  <2>2. Rest(p)
    BY <1>0, <2>1 DEF Rest, TypeOK, CacheType, ChanType
  <2>3. kind[p] = "spawn"
    BY <1>0, <2>1 DEF TaskInv
  <2> QED
    BY <1>0, <2>1, <2>2, <2>3, GotoMove, PlaceFacts DEF Unspent
<1> QED
  BY <1>1, <1>2, <1>3, <1>4, <1>5, <1>6, <1>7, <1>8, <1>9, <1>10, <1>11, <1>12,
     <1>13, <1>14, <1>15, <1>16, <1>17, <1>18, <1>19 DEF ProcStep

(***************************************************************************)
(* A step of a caller that starts no execution                             *)
(***************************************************************************)
CallMove(c) ==
  /\ \E r \in CallType :
       /\ call' = [call EXCEPT ![c] = r]
       /\ r.at = "spawn" \/ (r.op = "refetch" /\ r.at # "register")
            => Pending(c) /\ r.proc = call[c].proc
       /\ r.at # "register"
  /\ cache' \in [Keys -> CacheType]
  /\ inFlight' \in [Keys -> Procs \cup {NoProc}]
  /\ \A k \in Keys : inFlight'[k] # NoProc => kind[inFlight'[k]] = "spawn"
  /\ token' \in [Procs -> BOOLEAN]
  /\ aborted' \in [Procs -> BOOLEAN]
  /\ \A p \in Procs : aborted'[p] => kind[p] = "spawn"
  /\ chan' \in [Procs -> ChanType]
  /\ epoch' \in [Keys -> Nat]
  /\ calls' \in Nat
  /\ UNCHANGED <<kind, key, pc, tries, result, began, fetching, online, restoring, flips>>

\* Such a step keeps the invariant, whatever method the caller is in.
LEMMA CallMoveKeeps ==
  ASSUME FetchInv, NEW c \in Callers, CallMove(c)
  PROVE  FetchInv'
<1>0. PICK r \in CallType :
       /\ call' = [call EXCEPT ![c] = r]
       /\ r.at = "spawn" \/ (r.op = "refetch" /\ r.at # "register")
            => Pending(c) /\ r.proc = call[c].proc
       /\ r.at # "register"
  BY DEF CallMove
<1>a. TypeOK /\ TaskInv /\ RegistryInv /\ TriesInv /\ CallInv /\ FetchingCountExact
  BY DEF FetchInv
<1>b. call \in [Callers -> CallType]
  BY <1>a DEF TypeOK, CallType
<1>1. TypeOK'
  <2>1. call' \in [Callers -> CallType]
    BY <1>0, <1>b
  <2> QED
    BY <1>a, <2>1 DEF TypeOK, CacheType, ChanType, CallType, CallMove
<1>2. TaskInv'
  BY <1>a DEF TaskInv, CallMove
<1>3. RegistryInv'
  BY DEF RegistryInv, CallMove
<1>4. TriesInv'
  BY <1>a DEF TriesInv, CallMove
<1>5. CallInv'
  <2>1. \A d \in Callers : /\ Pending(d)' => Pending(d) /\ call'[d].proc = call[d].proc
                           /\ call'[d].at = "register" => d # c /\ call'[d] = call[d]
    BY <1>0, <1>b DEF Pending
  <2> QED
    BY <1>a, <2>1 DEF CallInv, CallMove
<1>6. FetchingCountExact'
  BY <1>a DEF FetchingCountExact, Guards, CallMove
<1> QED
  BY <1>1, <1>2, <1>3, <1>4, <1>5, <1>6 DEF FetchInv

\* The steps inside a method, except the one that spawns the task.
LEMMA CallerStepMoves ==
  ASSUME FetchInv, NEW c \in Callers, CallerStep(c), ~SpawnTask(c)
  PROVE  CallMove(c)
<1>0. TypeOK /\ TaskInv /\ RegistryInv /\ CallInv
  BY DEF FetchInv
<1>a. /\ cache \in [Keys -> CacheType] /\ inFlight \in [Keys -> Procs \cup {NoProc}]
      /\ \A k \in Keys : inFlight[k] # NoProc => kind[inFlight[k]] = "spawn"
      /\ token \in [Procs -> BOOLEAN] /\ aborted \in [Procs -> BOOLEAN]
      /\ \A p \in Procs : aborted[p] => kind[p] = "spawn"
      /\ chan \in [Procs -> ChanType] /\ epoch \in [Keys -> Nat] /\ calls \in Nat
      /\ call \in [Callers -> CallType] /\ call[c] \in CallType
  BY <1>0 DEF TypeOK, TaskInv, RegistryInv, CacheType, ChanType, CallType
<1>1. CASE NextKey(c)
  <2>0. PICK k \in call[c].todo :
          LET op == call[c].op
              skip == op \in Skipping /\ ~cache[k].has
              kills == op \in Killing /\ ~skip
          IN /\ call' = [call EXCEPT ![c].todo = @ \ {k},
                                     ![c].key = k,
                                     ![c].hit = kills /\ inFlight[k] # NoProc,
                                     ![c].at = IF skip THEN "loop" ELSE "cache"]
             /\ IF kills THEN Kill(k) ELSE UNCHANGED <<inFlight, token, aborted>>
    BY <1>1 DEF NextKey
  <2>1. k \in Keys /\ call[c].at = "loop"
    BY <1>1, <1>a DEF NextKey, At, CallType
  <2>2. Kill(k) \/ UNCHANGED <<inFlight, token, aborted>>
    BY <2>0
  <2>3. /\ inFlight' \in [Keys -> Procs \cup {NoProc}]
        /\ token' \in [Procs -> BOOLEAN]
        /\ aborted' \in [Procs -> BOOLEAN]
        /\ \A j \in Keys : inFlight'[j] # NoProc => kind[inFlight'[j]] = "spawn"
        /\ \A p \in Procs : aborted'[p] => kind[p] = "spawn"
    BY <1>0, <1>a, <2>1, <2>2, KillFacts
  <2>4. PICK h \in BOOLEAN, a \in {"loop", "cache"} :
          call' = [call EXCEPT ![c].todo = @ \ {k}, ![c].key = k, ![c].hit = h, ![c].at = a]
    BY <2>0
  <2> DEFINE r == [call[c] EXCEPT !.todo = @ \ {k}, !.key = k, !.hit = h, !.at = a]
  <2>5. r \in CallType /\ call' = [call EXCEPT ![c] = r] /\ r.op = call[c].op
        /\ r.proc = call[c].proc /\ r.at \in {"loop", "cache"}
    BY <1>a, <2>1, <2>4 DEF CallType
  <2>6. UNCHANGED <<kind, key, pc, tries, result, began, fetching, online, restoring, flips,
                    cache, chan, epoch, calls>>
    BY <1>1 DEF NextKey, envVars
  <2> HIDE DEF r
  <2> QED
    BY <1>a, <2>1, <2>3, <2>5, <2>6 DEF CallMove, Pending
<1>2. CASE UpdateCache(c)
  <2>1. /\ call[c].at = "cache"
        /\ UNCHANGED <<kind, key, pc, tries, result, began, fetching, online, restoring, flips,
                       token, aborted, inFlight, calls>>
    BY <1>2 DEF UpdateCache, At, procVars, envVars
  <2> DEFINE k == call[c].key
  <2>2. \E a \in {"loop", "notify"} : call' = [call EXCEPT ![c].at = a]
    BY <1>2 DEF UpdateCache
  <2>3. \/ cache' = cache \/ MarkStale(k) \/ Insert(k, epoch[k])
        \/ cache' = [cache EXCEPT ![k] = NoEntry]
    BY <1>2 DEF UpdateCache
  <2>4. chan' = chan \/ Notify(k, "Stale")
    BY <1>2 DEF UpdateCache
  <2>5. epoch' = epoch \/ epoch' = [epoch EXCEPT ![k] = @ + 1]
    BY <1>2 DEF UpdateCache
  <2> HIDE DEF k
  <2>6. cache' \in [Keys -> CacheType]
    <3>1. CASE cache' = cache
      BY <1>a, <3>1
    <3>2. CASE MarkStale(k)
      <4> DEFINE e == [cache[k] EXCEPT !.stale = TRUE]
      <4>1. cache' = cache \/ cache' = [cache EXCEPT ![k] = e]
        BY <3>2 DEF MarkStale
      <4>2. k \in Keys => e \in CacheType
        BY <1>a DEF CacheType
      <4> HIDE DEF e
      <4> QED
        BY <1>a, <4>1, <4>2
    <3>3. CASE Insert(k, epoch[k])
      BY <1>a, <3>3 DEF Insert, CacheType
    <3>4. CASE cache' = [cache EXCEPT ![k] = NoEntry]
      BY <1>a, <3>4 DEF NoEntry, CacheType
    <3> QED
      BY <2>3, <3>1, <3>2, <3>3, <3>4
  <2>7. chan' \in [Procs -> ChanType]
    BY <1>0, <1>a, <2>4, NotifyType DEF Variants
  <2>8. epoch' \in [Keys -> Nat]
    BY <1>a, <2>5
  <2>9. PICK a \in {"loop", "notify"} : call' = [call EXCEPT ![c].at = a]
    BY <2>2
  <2> DEFINE r == [call[c] EXCEPT !.at = a]
  <2>10. r \in CallType /\ call' = [call EXCEPT ![c] = r] /\ r.op = call[c].op
         /\ r.proc = call[c].proc /\ r.at \in {"loop", "notify"}
    BY <1>a, <2>9 DEF CallType
  <2> HIDE DEF r
  <2> QED
    BY <1>a, <2>1, <2>6, <2>7, <2>8, <2>10 DEF CallMove, Pending
<1>3. CASE NotifyKey(c)
  <2>1. /\ call[c].at = "notify"
        /\ UNCHANGED <<kind, key, pc, tries, result, began, fetching, online, restoring, flips,
                       cache, token, aborted, inFlight, epoch, calls>>
        /\ chan' = chan \/ Notify(call[c].key, Message(call[c].op))
        /\ call' = [call EXCEPT ![c].at = IF call[c].op = "refetch" THEN "spawn" ELSE "loop"]
    BY <1>3 DEF NotifyKey, At, procVars, envVars, storeVars
  <2>2. chan' \in [Procs -> ChanType]
    BY <1>0, <1>a, <2>1, NotifyType, MessageType
  <2> DEFINE r == [call[c] EXCEPT !.at = IF call[c].op = "refetch" THEN "spawn" ELSE "loop"]
  <2>3. r \in CallType /\ call' = [call EXCEPT ![c] = r] /\ r.op = call[c].op
         /\ r.proc = call[c].proc /\ r.at = IF call[c].op = "refetch" THEN "spawn" ELSE "loop"
    BY <1>a, <2>1 DEF CallType
  <2> HIDE DEF r
  <2> QED
    BY <1>a, <2>1, <2>2, <2>3 DEF CallMove, Pending
<1>4. CASE FlagMatches(c)
  <2>1. /\ cache' = [k \in Keys |-> IF k \in call[c].todo /\ cache[k].has
                                    THEN [cache[k] EXCEPT !.stale = TRUE] ELSE cache[k]]
        /\ UNCHANGED <<kind, key, pc, tries, result, began, fetching, online, restoring, flips,
                       token, aborted, inFlight, epoch, chan, calls>>
    BY <1>4 DEF FlagMatches, procVars, envVars
  <2>2. cache' \in [Keys -> CacheType]
    BY <1>a, <2>1 DEF CacheType
  <2>3. PICK selected \in SUBSET call[c].todo :
          call' = [call EXCEPT ![c].op = "trigger_refetch", ![c].at = "loop",
                               ![c].todo = selected]
    BY <1>4 DEF FlagMatches
  <2> DEFINE r == [call[c] EXCEPT !.op = "trigger_refetch", !.at = "loop", !.todo = selected]
  <2>4. r \in CallType /\ call' = [call EXCEPT ![c] = r] /\ r.op = "trigger_refetch"
        /\ r.at = "loop"
    BY <1>a, <2>3 DEF CallType
  <2> HIDE DEF r
  <2> QED
    BY <1>a, <2>1, <2>2, <2>4 DEF CallMove
<1>5. CASE RegisterTask(c)
  <2>1. NoCall \in CallType
    BY DEF NoCall, CallType
  <2>2. call[c].proc \in Procs /\ kind[call[c].proc] = "spawn"
    BY <1>0, <1>5 DEF RegisterTask, At, CallInv
  <2>3. UNCHANGED <<kind, key, pc, tries, result, began, fetching, online, restoring, flips,
                    cache, token, aborted, chan, epoch, calls>>
    BY <1>5 DEF RegisterTask, procVars, envVars
  <2>4. /\ inFlight' = [inFlight EXCEPT ![call[c].key] = call[c].proc]
        /\ call' = [call EXCEPT ![c] = NoCall]
    BY <1>5 DEF RegisterTask
  <2>5. inFlight' \in [Keys -> Procs \cup {NoProc}]
    BY <1>a, <2>2, <2>4
  <2>6. \A k \in Keys : inFlight'[k] # NoProc => kind[inFlight'[k]] = "spawn"
    BY <1>a, <2>2, <2>4
  <2> QED
    BY <1>a, <2>1, <2>3, <2>4, <2>5, <2>6 DEF CallMove, NoCall
<1>6. CASE ClearCancel(c)
  <2>1. /\ call[c].at = "cancel" /\ call' = [call EXCEPT ![c].at = "drain"]
        /\ UNCHANGED <<kind, key, pc, tries, result, began, fetching, online, restoring, flips,
                       cache, inFlight, epoch, chan, calls>>
        /\ token' = [p \in Procs |-> token[p] \/ p \in {inFlight[k] : k \in Keys}]
        /\ aborted' = [p \in Procs |-> aborted[p] \/ p \in {inFlight[k] : k \in Keys}]
    BY <1>6 DEF ClearCancel, At, envVars, storeVars
  <2> DEFINE r == [call[c] EXCEPT !.at = "drain"]
  <2>2. r \in CallType /\ call' = [call EXCEPT ![c] = r] /\ r.op = call[c].op
        /\ r.proc = call[c].proc /\ r.at = "drain"
    BY <1>a, <2>1 DEF CallType
  <2> HIDE DEF r
  <2>3. token' \in [Procs -> BOOLEAN] /\ aborted' \in [Procs -> BOOLEAN]
    BY <2>1
  <2>4. \A p \in Procs : aborted'[p] => kind[p] = "spawn"
    BY <1>a, <2>1, QueryFetchAssumption
  <2> QED
    BY <1>a, <2>1, <2>2, <2>3, <2>4 DEF CallMove, Pending
<1>7. CASE ClearRegistry(c)
  <2>1. /\ call[c].at = "drain" /\ call' = [call EXCEPT ![c].at = "wipe"]
        /\ UNCHANGED <<kind, key, pc, tries, result, began, fetching, online, restoring, flips,
                       cache, token, aborted, epoch, chan, calls>>
        /\ inFlight' = [k \in Keys |-> NoProc]
    BY <1>7 DEF ClearRegistry, At, procVars, envVars
  <2> DEFINE r == [call[c] EXCEPT !.at = "wipe"]
  <2>2. r \in CallType /\ call' = [call EXCEPT ![c] = r] /\ r.op = call[c].op
        /\ r.proc = call[c].proc /\ r.at = "wipe"
    BY <1>a, <2>1 DEF CallType
  <2> HIDE DEF r
  <2> QED
    BY <1>a, <2>1, <2>2 DEF CallMove, Pending
<1>8. CASE ClearCache(c)
  <2>1. /\ call[c].at = "wipe" /\ call' = [call EXCEPT ![c].at = "loop"]
        /\ UNCHANGED <<kind, key, pc, tries, result, began, fetching, online, restoring, flips,
                       inFlight, token, aborted, epoch, chan, calls>>
        /\ cache' = [k \in Keys |-> NoEntry]
    BY <1>8 DEF ClearCache, At, procVars, envVars
  <2> DEFINE r == [call[c] EXCEPT !.at = "loop"]
  <2>2. r \in CallType /\ call' = [call EXCEPT ![c] = r] /\ r.op = call[c].op
        /\ r.proc = call[c].proc /\ r.at = "loop"
    BY <1>a, <2>1 DEF CallType
  <2> HIDE DEF r
  <2>3. cache' \in [Keys -> CacheType]
    BY <2>1 DEF NoEntry, CacheType
  <2> QED
    BY <1>a, <2>1, <2>2, <2>3 DEF CallMove, Pending
<1>9. CASE Return(c)
  <2>1. NoCall \in CallType
    BY DEF NoCall, CallType
  <2>3. UNCHANGED <<kind, key, pc, tries, result, began, fetching, online, restoring, flips,
                    cache, inFlight, token, aborted, chan, epoch, calls>>
    BY <1>9 DEF Return, procVars, envVars, storeVars
  <2>4. call' = [call EXCEPT ![c] = NoCall]
    BY <1>9 DEF Return
  <2> QED
    BY <1>a, <2>1, <2>3, <2>4 DEF CallMove, NoCall
<1> QED
  BY <1>1, <1>2, <1>3, <1>4, <1>5, <1>6, <1>7, <1>8, <1>9 DEF CallerStep

\* Entering a method that starts no execution.
LEMMA CallMoves ==
  ASSUME FetchInv, NEW c \in Callers,
         \/ CallClear(c)
         \/ \E k \in Keys : CallCancelQuery(c, k) \/ CallSetQueryData(c, k)
         \/ \E op \in FilteredOps, filter \in SUBSET Keys \ {{}} : CallFiltered(c, op, filter)
  PROVE  CallMove(c)
<1>0. TypeOK /\ TaskInv /\ RegistryInv
  BY DEF FetchInv
<1> DEFINE Entered == \E r \in CallType :
                        /\ call' = [call EXCEPT ![c] = r] /\ calls' = calls + 1
                        /\ r.op # "refetch" /\ r.at \notin {"spawn", "register"}
<1>1. Entered
  <2>1. CASE CallClear(c)
    <3>1. [NoCall EXCEPT !.op = "clear", !.at = "cancel"] \in CallType
      BY DEF NoCall, CallType, AllOps
    <3> QED
      BY <2>1, <3>1 DEF CallClear, Enter, NoCall
  <2>2. ASSUME NEW k \in Keys, CallCancelQuery(c, k) PROVE Entered
    <3>1. [NoCall EXCEPT !.op = "cancel_query", !.at = "loop", !.todo = {k}] \in CallType
      BY DEF NoCall, CallType, AllOps
    <3> QED
      BY <2>2, <3>1 DEF CallCancelQuery, Enter, NoCall
  <2>3. ASSUME NEW k \in Keys, CallSetQueryData(c, k) PROVE Entered
    <3>1. [NoCall EXCEPT !.op = "set_query_data", !.at = "cache", !.key = k] \in CallType
      BY DEF NoCall, CallType, AllOps
    <3> QED
      BY <2>3, <3>1 DEF CallSetQueryData, Enter, NoCall
  <2>4. ASSUME NEW op \in FilteredOps, NEW filter \in SUBSET Keys, CallFiltered(c, op, filter)
        PROVE  Entered
    <3> DEFINE r == [NoCall EXCEPT !.op = op, !.todo = filter \cap Cached,
                        !.at = IF op = "invalidate_filtered" THEN "flag" ELSE "loop"]
    <3>1. r \in CallType /\ r.op # "refetch" /\ r.at \notin {"spawn", "register"}
      BY DEF NoCall, CallType, AllOps, FilteredOps, Cached
    <3>2. call' = [call EXCEPT ![c] = r] /\ calls' = calls + 1
      BY <2>4 DEF CallFiltered, Enter
    <3> QED
      BY <3>1, <3>2
  <2> QED
    BY <2>1, <2>2, <2>3, <2>4
<1>2. UNCHANGED <<kind, key, pc, tries, result, began, fetching, online, restoring, flips,
                  cache, inFlight, token, aborted, epoch, chan>>
  BY DEF CallClear, CallCancelQuery, CallSetQueryData, CallFiltered,
         procVars, storeVars, envVars
<1>3. /\ cache \in [Keys -> CacheType] /\ inFlight \in [Keys -> Procs \cup {NoProc}]
      /\ \A k \in Keys : inFlight[k] # NoProc => kind[inFlight[k]] = "spawn"
      /\ token \in [Procs -> BOOLEAN] /\ aborted \in [Procs -> BOOLEAN]
      /\ \A p \in Procs : aborted[p] => kind[p] = "spawn"
      /\ chan \in [Procs -> ChanType] /\ epoch \in [Keys -> Nat] /\ calls \in Nat
  BY <1>0 DEF TypeOK, TaskInv, RegistryInv, CacheType, ChanType
<1>4. calls' \in Nat
  BY <1>1, <1>3
<1> QED
  BY <1>1, <1>2, <1>3, <1>4 DEF CallMove

(***************************************************************************)
(* The steps that start and end an execution                               *)
(***************************************************************************)

\* An execution leaves its last place: nobody's call is about it.
LEMMA LeaveKeeps ==
  ASSUME FetchInv, NEW p \in Procs, pc[p] \notin Inactive, NEW x \in {"done", "dropped"},
         kind[p] = "spawn", pc' = [pc EXCEPT ![p] = x], result' \in [Procs -> Results],
         fetching' = fetching - 1,
         UNCHANGED <<kind, key, tries, token, aborted, began, cache, inFlight, epoch,
                     envVars, chan, call, calls>>
  PROVE  FetchInv'
<1>0. /\ TypeOK /\ TaskInv /\ RegistryInv /\ TriesInv /\ CallInv /\ FetchingCountExact
      /\ pc \in [Procs -> Places]
  BY DEF FetchInv, TypeOK
<1>1. Guards' = Guards \ {p} /\ p \in Guards
  BY <1>0 DEF Guards, Inactive
<1>2. FetchingCountExact' /\ fetching' \in Nat
  BY <1>0, <1>1, GuardRemoved
<1>3. TypeOK'
  <2>1. pc' \in [Procs -> Places]
    BY <1>0 DEF Places, Inactive
  <2> QED
    BY <1>0, <1>2, <2>1 DEF TypeOK, envVars
<1>4. TaskInv' /\ RegistryInv'
  BY <1>0 DEF TaskInv, RegistryInv, Inactive
<1>5. TriesInv'
  BY <1>0 DEF TriesInv, Unspent
<1>6. CallInv'
  <2>1. \A q \in Procs : pc[q] = "called" => pc'[q] = "called"
    BY <1>0 DEF Inactive
  <2> QED
    BY <1>0, <2>1 DEF CallInv, Pending
<1> QED
  BY <1>2, <1>3, <1>4, <1>5, <1>6 DEF FetchInv

\* Every step of the executor keeps the invariant.
LEMMA ProcStepKeeps ==
  ASSUME FetchInv, NEW p \in Procs, ProcStep(p)
  PROVE  FetchInv'
<1>0. TypeOK /\ TaskInv
  BY DEF FetchInv
<1>1. CASE EndTask(p)
  <2>1. /\ pc[p] = "end" /\ pc' = [pc EXCEPT ![p] = "done"] /\ result' = result
        /\ fetching' = fetching - 1
        /\ UNCHANGED <<kind, key, tries, token, aborted, began, cache, inFlight, epoch,
                       envVars, chan, call, calls>>
    BY <1>1 DEF EndTask, Runs, Goto
  <2>2. kind[p] = "spawn" /\ result' \in [Procs -> Results] /\ pc[p] \notin Inactive
    BY <1>0, <2>1 DEF TaskInv, TypeOK, Inactive
  <2> QED
    BY <2>1, <2>2, LeaveKeeps
<1>2. CASE DropTask(p)
  <2>1. /\ pc[p] \in Suspended /\ aborted[p] /\ pc' = [pc EXCEPT ![p] = "dropped"]
        /\ result' = [result EXCEPT ![p] = "Cancelled"]
        /\ fetching' = fetching - 1
        /\ UNCHANGED <<kind, key, tries, token, aborted, began, cache, inFlight, epoch,
                       envVars, chan, call, calls>>
    BY <1>2 DEF DropTask
  <2>2. kind[p] = "spawn" /\ pc[p] \notin Inactive
    BY <1>0, <2>1 DEF TaskInv, Inactive, Suspended
  <2>3. result' \in [Procs -> Results]
    BY <1>0, <2>1 DEF TypeOK, Results
  <2> QED
    BY <2>1, <2>2, <2>3, LeaveKeeps
<1> QED
  BY <1>1, <1>2, ProcStepMoves, ProcMoveKeeps

\* spawn_query and refetch take a fresh execution.
LEMMA CallSpawnKeeps ==
  ASSUME FetchInv, NEW c \in Callers, NEW p \in Procs, NEW k \in Keys,
         NEW op \in {"spawn", "refetch"}, CallSpawn(c, p, k, op)
  PROVE  FetchInv'
<1>0. TypeOK /\ TaskInv /\ RegistryInv /\ TriesInv /\ CallInv /\ FetchingCountExact
  BY DEF FetchInv
<1>1. /\ pc[p] = "new" /\ pc' = [pc EXCEPT ![p] = "called"]
      /\ kind' = [kind EXCEPT ![p] = "spawn"] /\ key' = [key EXCEPT ![p] = k]
      /\ UNCHANGED <<tries, token, aborted, began, cache, inFlight, fetching, epoch,
                     online, restoring, flips, chan, result>>
      /\ calls' = calls + 1
  BY DEF CallSpawn, Enter, Goto, storeVars, envVars
<1>2. PICK r \in CallType : /\ call' = [call EXCEPT ![c] = r]
                            /\ r.proc = p /\ r.at # "register"
  <2>1. CASE op = "spawn"
    <3>1. [NoCall EXCEPT !.op = op, !.at = "spawn", !.key = k, !.proc = p] \in CallType
      BY <2>1 DEF NoCall, CallType, AllOps, StartOps
    <3> QED
      BY <2>1, <3>1 DEF CallSpawn, Enter, NoCall
  <2>2. CASE op = "refetch"
    <3>1. [NoCall EXCEPT !.op = op, !.at = "loop", !.todo = {k}, !.proc = p] \in CallType
      BY <2>2 DEF NoCall, CallType, AllOps, StartOps
    <3> QED
      BY <2>2, <3>1 DEF CallSpawn, Enter, NoCall
  <2> QED
    BY <2>1, <2>2
<1>3. TypeOK'
  <2>1. call' \in [Callers -> CallType]
    BY <1>0, <1>2 DEF TypeOK, CallType
  <2>2. /\ pc' \in [Procs -> Places]
        /\ kind' \in [Procs -> {"none", "spawn", "execute", "fetch"}]
        /\ key' \in [Procs -> Keys \cup {NoKey}]
        /\ calls' \in Nat
    BY <1>0, <1>1 DEF TypeOK, Places, Inactive
  <2> QED
    BY <1>0, <1>1, <2>1, <2>2 DEF TypeOK, CallType
<1>4. TaskInv'
  BY <1>0, <1>1 DEF TaskInv, TypeOK
<1>5. RegistryInv'
  BY <1>0, <1>1 DEF RegistryInv, TypeOK
<1>6. TriesInv'
  BY <1>0, <1>1 DEF TriesInv, TypeOK, Unspent
<1>7. CallInv'
  <2>1. \A d \in Callers : d # c => call'[d] = call[d]
    BY <1>0, <1>2 DEF TypeOK
  <2>2. call'[c] = r
    BY <1>0, <1>2 DEF TypeOK
  <2>3. /\ pc'[p] = "called" /\ kind'[p] = "spawn"
        /\ \A q \in Procs : pc[q] = "called" => q # p /\ pc'[q] = "called"
        /\ \A q \in Procs : kind[q] = "spawn" => kind'[q] = "spawn"
    BY <1>0, <1>1 DEF TypeOK
  <2>4. \A d \in Callers : d # c /\ Pending(d)' => Pending(d) /\ call[d].proc # p
    BY <1>0, <2>1, <2>3 DEF CallInv, Pending
  <2>5. /\ \A d \in Callers : Pending(d)' => /\ call'[d].proc \in Procs
                                             /\ pc'[call'[d].proc] = "called"
                                             /\ kind'[call'[d].proc] = "spawn"
        /\ \A d \in Callers : call'[d].at = "register" => /\ call'[d].proc \in Procs
                                                   /\ kind'[call'[d].proc] = "spawn"
    BY <1>0, <1>2, <2>1, <2>2, <2>3, <2>4 DEF CallInv
  <2>6. ASSUME NEW d \in Callers, NEW e \in Callers, Pending(d)', Pending(e)',
               call'[d].proc = call'[e].proc
        PROVE  d = e
    BY <1>0, <1>2, <2>1, <2>2, <2>4, <2>6 DEF CallInv
  <2> QED
    BY <2>5, <2>6 DEF CallInv
<1>8. FetchingCountExact'
  <2>1. Guards' = Guards
    BY <1>0, <1>1 DEF Guards, Inactive, TypeOK
  <2> QED
    BY <1>0, <1>1, <2>1 DEF FetchingCountExact
<1> QED
  BY <1>3, <1>4, <1>5, <1>6, <1>7, <1>8 DEF FetchInv

\* spawn_query counts the task it hands to the runtime, or skips it while a
\* restore is under way.
LEMMA SpawnTaskKeeps ==
  ASSUME FetchInv, NEW c \in Callers, SpawnTask(c)
  PROVE  FetchInv'
<1> DEFINE p == call[c].proc
<1>0. TypeOK /\ TaskInv /\ RegistryInv /\ TriesInv /\ CallInv /\ FetchingCountExact
  BY DEF FetchInv
<1>1. /\ call[c].at = "spawn" /\ Pending(c)
      /\ UNCHANGED <<kind, key, tries, token, aborted, began, cache, inFlight, epoch,
                     online, restoring, flips, chan, calls>>
  BY DEF SpawnTask, At, Pending, envVars
<1>2. p \in Procs /\ pc[p] = "called" /\ kind[p] = "spawn"
  BY <1>0, <1>1 DEF CallInv
<1>3. PICK r \in CallType, x \in {"done", "ready"} :
        /\ call' = [call EXCEPT ![c] = r] /\ pc' = [pc EXCEPT ![p] = x]
        /\ ~(r.at = "spawn" \/ (r.op = "refetch" /\ r.at # "register"))
        /\ r.at = "register" => r.proc = p
        /\ x = "ready" => fetching' = fetching + 1
        /\ x = "done" => fetching' = fetching
        /\ result' \in [Procs -> Results]
  <2>1. CASE restoring
    <3>1. NoCall \in CallType
      BY DEF NoCall, CallType
    <3>2. /\ pc' = [pc EXCEPT ![p] = "done"] /\ result' = [result EXCEPT ![p] = "Idle"]
          /\ call' = [call EXCEPT ![c] = NoCall] /\ fetching' = fetching
      BY <2>1 DEF SpawnTask
    <3>3. result' \in [Procs -> Results]
      BY <1>0, <3>2 DEF TypeOK, Results
    <3> QED
      BY <3>1, <3>2, <3>3 DEF NoCall
  <2>2. CASE ~restoring
    <3> DEFINE r == [call[c] EXCEPT !.at = "register"]
    <3>1. r \in CallType /\ r.at = "register" /\ r.proc = p
      BY <1>0 DEF TypeOK, CallType
    <3>2. /\ pc' = [pc EXCEPT ![p] = "ready"] /\ result' = result
          /\ call' = [call EXCEPT ![c] = r] /\ fetching' = fetching + 1
      BY <2>2 DEF SpawnTask, Goto
    <3>3. result' \in [Procs -> Results]
      BY <1>0, <3>2 DEF TypeOK
    <3> HIDE DEF r, p
    <3> QED
      BY <3>1, <3>2, <3>3
  <2> QED
    BY <2>1, <2>2
<1> HIDE DEF p
<1>4. FetchingCountExact' /\ fetching' \in Nat
  <2>1. CASE x = "ready"
    <3>1. Guards' = Guards \cup {p} /\ p \notin Guards
      BY <1>0, <1>1, <1>2, <1>3, <2>1 DEF Guards, Inactive, TypeOK
    <3> QED
      BY <1>0, <1>3, <2>1, <3>1, GuardAdded
  <2>2. CASE x = "done"
    <3>1. Guards' = Guards
      BY <1>0, <1>1, <1>2, <1>3, <2>2 DEF Guards, Inactive, TypeOK
    <3> QED
      BY <1>0, <1>3, <2>2, <3>1 DEF FetchingCountExact, TypeOK
  <2> QED
    BY <1>3, <2>1, <2>2
<1>5. TypeOK'
  <2>1. call' \in [Callers -> CallType] /\ pc' \in [Procs -> Places]
    BY <1>0, <1>3 DEF TypeOK, CallType, Places, Inactive, Suspended
  <2> QED
    BY <1>0, <1>1, <1>3, <1>4, <2>1 DEF TypeOK, CallType
<1>6. TaskInv' /\ RegistryInv'
  BY <1>0, <1>1, <1>2, <1>3 DEF TaskInv, RegistryInv, TypeOK
<1>7. TriesInv'
  BY <1>0, <1>1, <1>2, <1>3 DEF TriesInv, TypeOK, Unspent
<1>8. CallInv'
  <2>1. call'[c] = r /\ ~Pending(c)'
    BY <1>0, <1>3 DEF TypeOK, Pending
  <2>2. \A d \in Callers : d # c => call'[d] = call[d]
    BY <1>0, <1>3 DEF TypeOK
  <2>3. \A q \in Procs : q # p => pc'[q] = pc[q]
    BY <1>0, <1>3 DEF TypeOK
  <2>4. \A d \in Callers : Pending(d)' => d # c /\ Pending(d) /\ call[d].proc # p
    BY <1>0, <1>1, <2>1, <2>2 DEF CallInv, Pending, p
  <2> QED
    BY <1>0, <1>1, <1>2, <1>3, <2>1, <2>2, <2>3, <2>4 DEF CallInv
<1> QED
  BY <1>4, <1>5, <1>6, <1>7, <1>8 DEF FetchInv

\* execute_query, fetch_query and ensure_query_data take a fresh execution
\* that holds no guard.
LEMMA StartKeeps ==
  ASSUME FetchInv, NEW p \in Procs, NEW k \in Keys,
         (\E op \in {"execute", "fetch"} : StartDirect(p, k, op)) \/ StartEnsure(p, k)
  PROVE  FetchInv'
<1>0. TypeOK /\ TaskInv /\ RegistryInv /\ TriesInv /\ CallInv /\ FetchingCountExact
  BY DEF FetchInv
<1>1. /\ pc[p] = "new" /\ key' = [key EXCEPT ![p] = k]
      /\ UNCHANGED <<tries, token, aborted, began, cache, inFlight, fetching, epoch,
                     online, restoring, flips, chan, call, calls>>
  BY DEF StartDirect, StartEnsure, storeVars, envVars
<1>2. PICK x \in {"ready", "done"}, op \in {"execute", "fetch"} :
        pc' = [pc EXCEPT ![p] = x] /\ kind' = [kind EXCEPT ![p] = op]
  BY DEF StartDirect, StartEnsure, Goto
<1>3. result' = result \/ result' = [result EXCEPT ![p] = "Success"]
  BY DEF StartDirect, StartEnsure, Goto
<1>4. TypeOK'
  <2>1. /\ pc' \in [Procs -> Places]
        /\ kind' \in [Procs -> {"none", "spawn", "execute", "fetch"}]
        /\ key' \in [Procs -> Keys \cup {NoKey}]
    BY <1>0, <1>1, <1>2 DEF TypeOK, Places, Inactive, Suspended
  <2>2. result' \in [Procs -> Results]
    BY <1>0, <1>3 DEF TypeOK, Results
  <2> QED
    BY <1>0, <1>1, <2>1, <2>2 DEF TypeOK
<1>5. kind[p] = "none" /\ ~aborted[p] /\ \A j \in Keys : inFlight[j] # p
  BY <1>0, <1>1, QueryFetchAssumption, ZenonT(30) DEF TaskInv, RegistryInv, TypeOK
<1>6. TaskInv'
  BY <1>0, <1>1, <1>2, <1>5 DEF TaskInv, TypeOK
<1>7. RegistryInv'
  BY <1>0, <1>1, <1>2, <1>5 DEF RegistryInv, TypeOK
<1>8. TriesInv'
  BY <1>0, <1>1, <1>2 DEF TriesInv, TypeOK, Unspent
<1>9. CallInv'
  <2>1. \A q \in Procs : kind[q] = "spawn" => kind'[q] = "spawn" /\ pc'[q] = pc[q]
    BY <1>0, <1>2, <1>5 DEF TypeOK
  <2> QED
    BY <1>0, <1>1, <2>1 DEF CallInv, Pending
<1>10. FetchingCountExact'
  <2>1. Guards' = Guards
    BY <1>0, <1>1, <1>2, <1>5 DEF Guards, Inactive, TypeOK
  <2> QED
    BY <1>0, <1>1, <2>1 DEF FetchingCountExact
<1> QED
  BY <1>4, <1>6, <1>7, <1>8, <1>9, <1>10 DEF FetchInv

\* Cancelling a token, dropping a handle, garbage collection, connectivity and
\* the restore flag move no execution.
LEMMA EnvKeeps ==
  ASSUME FetchInv,
         \/ \E p \in Procs : CancelToken(p) \/ DropHandle(p)
         \/ \E expired \in SUBSET Keys : Gc(expired)
         \/ \E b \in BOOLEAN : SetOnline(b) \/ SetRestoring(b)
  PROVE  FetchInv'
<1>0. TypeOK /\ TaskInv /\ RegistryInv /\ TriesInv /\ CallInv /\ FetchingCountExact
  BY DEF FetchInv
<1>1. UNCHANGED <<kind, key, pc, tries, result, began, inFlight, fetching, epoch, chan,
                  call, calls>>
  BY DEF CancelToken, DropHandle, Gc, SetOnline, SetRestoring, procVars, storeVars
<1>2. token' \in [Procs -> BOOLEAN]
  BY <1>0 DEF TypeOK, CancelToken, DropHandle, Gc, SetOnline, SetRestoring, procVars
<1>3. aborted' \in [Procs -> BOOLEAN] /\ \A p \in Procs : aborted'[p] => kind[p] = "spawn"
  <2>1. aborted' = aborted \/ \E p \in Procs : /\ kind[p] = "spawn"
                                              /\ aborted' = [aborted EXCEPT ![p] = TRUE]
    BY DEF CancelToken, DropHandle, Gc, SetOnline, SetRestoring, procVars
  <2>2. aborted \in [Procs -> BOOLEAN] /\ \A p \in Procs : aborted[p] => kind[p] = "spawn"
    BY <1>0 DEF TypeOK, TaskInv
  <2> QED
    BY <2>1, <2>2
<1>4. cache' \in [Keys -> CacheType]
  <2>1. cache' = cache \/ \E expired \in SUBSET Keys :
          cache' = [k \in Keys |-> IF k \in expired THEN NoEntry ELSE cache[k]]
    BY DEF CancelToken, DropHandle, Gc, SetOnline, SetRestoring, storeVars
  <2>2. cache \in [Keys -> CacheType] /\ NoEntry \in CacheType
    BY <1>0 DEF TypeOK, CacheType, NoEntry
  <2> QED
    BY <2>1, <2>2
<1>5. online' \in BOOLEAN /\ restoring' \in BOOLEAN /\ flips' \in Nat
  BY <1>0 DEF TypeOK, CancelToken, DropHandle, Gc, SetOnline, SetRestoring, envVars
<1>6. TypeOK'
  BY <1>0, <1>1, <1>2, <1>3, <1>4, <1>5 DEF TypeOK, CacheType
<1>7. TaskInv' /\ RegistryInv' /\ TriesInv' /\ CallInv' /\ FetchingCountExact'
  BY <1>0, <1>1, <1>3 DEF TaskInv, RegistryInv, TriesInv, CallInv, Pending,
                          FetchingCountExact, Guards
<1> QED
  BY <1>6, <1>7 DEF FetchInv

-----------------------------------------------------------------------------
\* The invariant holds in a new client ...
LEMMA FetchInvInit == Init => FetchInv
<1> SUFFICES ASSUME Init PROVE FetchInv
  OBVIOUS
<1>1. TypeOK
  <2>1. "new" \in Places /\ "none" \in Results /\ 0 \in 0..(MaxRetries + 1)
    BY QueryFetchAssumption DEF Places, Inactive, Results
  <2>2. NoCall \in CallType /\ NoEntry \in CacheType /\ NoChan \in ChanType
    BY DEF NoCall, CallType, NoEntry, CacheType, NoChan, ChanType
  <2>3. /\ cache \in [Keys -> CacheType] /\ chan \in [Procs -> ChanType]
        /\ call \in [Callers -> CallType]
    BY <2>2 DEF Init
  <2>4. /\ inFlight \in [Keys -> Procs \cup {NoProc}] /\ fetching \in Nat
        /\ online \in BOOLEAN /\ restoring \in BOOLEAN
        /\ kind \in [Procs -> {"none", "spawn", "execute", "fetch"}]
        /\ key \in [Procs -> Keys \cup {NoKey}] /\ pc \in [Procs -> Places]
    BY <2>1 DEF Init
  <2>5. /\ tries \in [Procs -> 0..(MaxRetries + 1)] /\ token \in [Procs -> BOOLEAN]
        /\ aborted \in [Procs -> BOOLEAN] /\ result \in [Procs -> Results]
        /\ epoch \in [Keys -> Nat] /\ began \in [Procs -> Nat] /\ calls \in Nat /\ flips \in Nat
    BY <2>1 DEF Init
  <2> QED
    BY <2>3, <2>4, <2>5 DEF TypeOK, CallType, CacheType, ChanType
<1>2. TaskInv /\ RegistryInv /\ TriesInv
  BY QueryFetchAssumption DEF Init, TaskInv, RegistryInv, TriesInv
<1>3. CallInv
  BY DEF Init, CallInv, Pending, NoCall
<1>4. FetchingCountExact
  <2>1. Guards = {}
    BY DEF Init, Guards
  <2> QED
    BY <2>1, FS_EmptySet DEF Init, FetchingCountExact
<1> QED
  BY <1>1, <1>2, <1>3, <1>4 DEF FetchInv

\* ... and every step keeps it.
LEMMA FetchInvStep == FetchInv /\ [Next]_vars => FetchInv'
<1> SUFFICES ASSUME FetchInv, [Next]_vars PROVE FetchInv'
  OBVIOUS
<1>1. CASE UNCHANGED vars
  <2>1. /\ UNCHANGED <<kind, key, pc, tries, token, aborted, result, began>>
        /\ UNCHANGED <<cache, inFlight, fetching, epoch>>
        /\ UNCHANGED <<online, restoring, flips>>
        /\ UNCHANGED <<chan, call, calls>>
    BY <1>1 DEF vars, procVars, storeVars, envVars
  <2>2. TypeOK'
    BY <2>1 DEF FetchInv, TypeOK
  <2>3. TaskInv' /\ RegistryInv' /\ TriesInv' /\ CallInv' /\ FetchingCountExact'
    BY <2>1 DEF FetchInv, TaskInv, RegistryInv, TriesInv, CallInv, Pending,
                FetchingCountExact, Guards
  <2> QED
    BY <2>2, <2>3 DEF FetchInv
<1>2. ASSUME NEW p \in Procs, ProcStep(p) PROVE FetchInv'
  BY <1>2, ProcStepKeeps
<1>3. ASSUME NEW c \in Callers, CallerStep(c) PROVE FetchInv'
  BY <1>3, CallerStepMoves, CallMoveKeeps, SpawnTaskKeeps
<1>4. ASSUME NEW c \in Callers, Call(c) PROVE FetchInv'
  <2>1. CASE \E p \in Procs, k \in Keys, op \in {"spawn", "refetch"} : CallSpawn(c, p, k, op)
    BY <2>1, CallSpawnKeeps
  <2>2. CASE \/ CallClear(c)
             \/ \E k \in Keys : CallCancelQuery(c, k) \/ CallSetQueryData(c, k)
             \/ \E op \in FilteredOps, filter \in SUBSET Keys \ {{}} : CallFiltered(c, op, filter)
    BY <2>2, CallMoves, CallMoveKeeps
  <2> QED
    BY <1>4, <2>1, <2>2 DEF Call
<1>5. CASE \/ \E p \in Procs : CancelToken(p) \/ DropHandle(p)
           \/ \E expired \in SUBSET Keys : Gc(expired)
           \/ \E b \in BOOLEAN : SetOnline(b) \/ SetRestoring(b)
  BY <1>5, EnvKeeps
<1>6. ASSUME NEW p \in Procs, NEW k \in Keys,
             (\E op \in {"execute", "fetch"} : StartDirect(p, k, op)) \/ StartEnsure(p, k)
      PROVE  FetchInv'
  BY <1>6, StartKeeps
<1> QED
  BY <1>1, <1>2, <1>3, <1>4, <1>5, <1>6 DEF Next

\* Type correctness for every instance: no count wraps below zero and no
\* execution makes more attempts than its retry budget (executor.rs retry loop).
THEOREM FetchTypeCorrect == Spec => []TypeOK
<1>1. FetchInv => TypeOK
  BY DEF FetchInv
<1> QED
  BY <1>1, FetchInvInit, FetchInvStep, PTL DEF Spec

\* is_fetching is exact for every instance: fetching_count equals the number of
\* spawned tasks that have started and neither ended nor been dropped, however
\* success, error, panic, cancellation, abort and restore interleave
\* (client.rs inc_fetching and dec_fetching, executor.rs FetchingGuard).
THEOREM FetchingCountIsExact == Spec => []FetchingCountExact
<1>1. FetchInv => FetchingCountExact
  BY DEF FetchInv
<1> QED
  BY <1>1, FetchInvInit, FetchInvStep, PTL DEF Spec

-----------------------------------------------------------------------------
(***************************************************************************)
(* One thread: the invariants of wasm32 and of a UI executor               *)
(***************************************************************************)

\* A refetch works on the key of the execution that it will start.
Refetches(r) ==
  /\ r.at \in {"loop", "cache", "notify", "spawn", "register"}
  /\ IF r.at = "loop" THEN r.todo \subseteq {key[r.proc]} ELSE r.key = key[r.proc]

\* Between two suspension points only one process or caller is under way; what
\* runs was not aborted, a task in front of set_in_flight has not run yet, and
\* an entry of the registry is a task of its key that was started.
ThreadInv ==
  /\ \A p, q \in Procs : RunningProc(p) /\ RunningProc(q) => p = q
  /\ \A p \in Procs, c \in Callers : ~(RunningProc(p) /\ RunningCaller(c))
  /\ \A c, d \in Callers : RunningCaller(c) /\ RunningCaller(d) => c = d
  /\ \A p \in Procs : pc[p] \in {"subscribe", "recheck", "waiting"} => kind[p] # "spawn"
  /\ \A p \in Procs : RunningProc(p) \/ pc[p] \in {"new", "called"} => ~aborted[p]
  /\ \A k \in Keys : inFlight[k] # NoProc => /\ pc[inFlight[k]] \notin {"new", "called"}
                                             /\ key[inFlight[k]] = k
  /\ \A c \in Callers :
       /\ call[c].at = "register" => pc[call[c].proc] = "ready" /\ ~aborted[call[c].proc]
       /\ call[c].at \in {"spawn", "register"} => key[call[c].proc] = call[c].key
       /\ call[c].op = "refetch" => Refetches(call[c])

\* A registered task is alive, except while clear() is emptying the registry.
EntriesLive ==
  \A k \in Keys : inFlight[k] # NoProc =>
    /\ pc[inFlight[k]] \notin Inactive \cup {"end"}
    /\ aborted[inFlight[k]] => \E c \in Callers : call[c].at = "drain"

\* A task that may still run its fetch or write its data.
Live(p) == pc[p] \notin Inactive \cup {"end"} /\ ~aborted[p]

\* It is in an attempt, or about to insert its data.
Writing(p) == pc[p] \in {"polling", "parked", "resolving", "insert"}

\* refetch and invalidate_queries have killed the fetch of their key.
Cleared(c) ==
  \/ call[c].op = "refetch" /\ call[c].at \in {"cache", "notify", "spawn", "register"}
  \/ call[c].op = "invalidate" /\ call[c].at = "cache"

\* When fetches are started by refetch alone: every live task is registered, so
\* killing the registered one leaves no other of its key, and the data that a
\* live attempt will write is as new as the last invalidation.
CoalesceInv ==
  /\ \A p \in Procs : kind[p] \in {"none", "spawn"}
  /\ \A c \in Callers : call[c].at \in {"spawn", "register"} => call[c].op = "refetch"
  /\ \A p \in Procs : Live(p) => \/ inFlight[key[p]] = p
                                 \/ \E c \in Callers : call[c].at = "register" /\ call[c].proc = p
  /\ \A c \in Callers, p \in Procs :
       Cleared(c) /\ key[p] = call[c].key => ~Live(p) \/ (call[c].op = "refetch" /\ p = call[c].proc)
  /\ \A c \in Callers, p \in Procs : call[c].at = "drain" => ~Live(p)
  /\ \A p \in Procs : Live(p) /\ Writing(p) => began[p] = epoch[key[p]]
  /\ FreshMeansCurrent

\* One step of an execution: it alone moves, and an aborted one only to its end.
LEMMA ProcFacts ==
  ASSUME FetchInv, ThreadInv, NEW p \in Procs, ProcStep(p)
  PROVE  /\ ProcMayRun(p) /\ pc[p] \notin Inactive
         /\ \E x \in Places \ {"new", "called"} :
              /\ pc' = [pc EXCEPT ![p] = x]
              /\ x \notin Inactive => ~aborted[p]
              /\ x \in {"subscribe", "recheck", "waiting"} => kind[p] # "spawn"
              /\ x \in Inactive => kind[p] # "spawn" \/ aborted[p] \/ pc[p] = "end"
              /\ x = "end" => inFlight' = [inFlight EXCEPT ![key[p]] = NoProc]
         /\ \A k \in Keys : inFlight'[k] \in {inFlight[k], NoProc}
         /\ UNCHANGED <<kind, key, aborted, call, epoch>>
<1>0. /\ pc \in [Procs -> Places] /\ inFlight \in [Keys -> Procs \cup {NoProc}]
      /\ pc[p] \in {"subscribe", "recheck", "waiting"} => kind[p] # "spawn"
      /\ kind[p] # "spawn" => ~aborted[p]
      /\ RunningProc(p) => ~aborted[p]
  BY DEF FetchInv, TypeOK, TaskInv, ThreadInv
<1>1. ProcMayRun(p)
  BY DEF ProcStep, Begin, Subscribe, Recheck, Receive, Gate, Attempt, FetchPending, FetchWoken,
         FetchOk, FetchCancelled, FetchRetry, FetchFail, FetchPanic, Resume, Backoff, WriteData,
         NotifySuccess, ReadBack, ClearInFlight, EndTask, DropTask, InFetch, Resumes, Runs
<1>2. CASE EndTask(p) \/ DropTask(p)
  <2>1. /\ \E x \in {"done", "dropped"} : pc' = [pc EXCEPT ![p] = x]
        /\ pc[p] = "end" \/ (aborted[p] /\ pc[p] \in Suspended)
        /\ UNCHANGED <<kind, key, aborted, call, epoch, inFlight>>
    BY <1>2 DEF EndTask, DropTask, Runs, Goto
  <2> QED
    BY <1>0, <1>1, <2>1 DEF Places, Inactive, Suspended
<1>3. CASE ~(EndTask(p) \/ DropTask(p))
  <2>1. ProcMove(p)
    BY <1>3, ProcStepMoves
  <2>2. PICK x \in Places \ {"new", "called"} :
          pc' = [pc EXCEPT ![p] = x] /\ (kind[p] = "spawn" => x \notin Inactive)
    BY <2>1 DEF ProcMove
  <2>3. /\ pc[p] \notin Inactive /\ UNCHANGED <<kind, key, aborted, call, epoch>>
        /\ \A k \in Keys : inFlight'[k] \in {inFlight[k], NoProc}
    BY <2>1 DEF ProcMove
  <2>4. ~aborted[p]
    BY <1>0, <1>3 DEF ProcStep, Begin, Subscribe, Recheck, Receive, Gate, Attempt, FetchPending,
         FetchWoken, FetchOk, FetchCancelled, FetchRetry, FetchFail, FetchPanic, Resume, Backoff,
         WriteData, NotifySuccess, ReadBack, ClearInFlight, InFetch, Resumes, Runs, RunningProc,
         Suspended, Inactive
  <2>5. /\ pc'[p] \in {"subscribe", "recheck", "waiting"} => kind[p] # "spawn"
        /\ pc'[p] = "end" => inFlight' = [inFlight EXCEPT ![key[p]] = NoProc]
    BY <1>0, <1>3 DEF ProcStep, Begin, Subscribe, Recheck, Receive, Gate, Attempt, FetchPending,
         FetchWoken, FetchOk, FetchCancelled, FetchRetry, FetchFail, FetchPanic, Resume, Backoff,
         WriteData, NotifySuccess, ReadBack, ClearInFlight, InFetch, Resumes, Runs, Goto, Finish
  <2>6. pc'[p] = x
    BY <1>0, <2>2
  <2> QED
    BY <1>1, <2>2, <2>3, <2>4, <2>5, <2>6
<1> QED
  BY <1>2, <1>3

LEMMA ProcThread ==
  ASSUME ~Threaded, FetchInv, ThreadInv, NEW p \in Procs, ProcStep(p)
  PROVE  ThreadInv'
<1>1. /\ \A q \in Procs \ {p} : ~RunningProc(q)
      /\ \A c \in Callers : ~RunningCaller(c)
  BY ProcFacts DEF ProcMayRun
<1>2. PICK x \in Places \ {"new", "called"} :
        /\ pc' = [pc EXCEPT ![p] = x]
        /\ x \notin Inactive => ~aborted[p]
        /\ x \in {"subscribe", "recheck", "waiting"} => kind[p] # "spawn"
  BY ProcFacts
<1>3. /\ pc[p] \notin Inactive /\ UNCHANGED <<kind, key, aborted, call, epoch>>
      /\ \A k \in Keys : inFlight'[k] \in {inFlight[k], NoProc}
  BY ProcFacts
<1>4. pc'[p] = x /\ \A q \in Procs \ {p} : pc'[q] = pc[q]
  BY <1>2 DEF FetchInv, TypeOK
<1>5. \A q \in Procs : pc'[q] \in {"new", "called"} => pc[q] = pc'[q]
  BY <1>2, <1>4
<1>6. \A q \in Procs : RunningProc(q)' => q = p
  BY <1>1, <1>4 DEF RunningProc
<1>7. \A c \in Callers : call'[c] = call[c] /\ ~RunningCaller(c)' /\ call[c].at = "idle"
  BY <1>1, <1>3 DEF RunningCaller
<1>8. RunningProc(p)' => ~aborted[p]
  BY <1>2, <1>4 DEF RunningProc
<1>9. inFlight \in [Keys -> Procs \cup {NoProc}] /\ NoProc \notin Procs
  BY QueryFetchAssumption DEF FetchInv, TypeOK
<1>10. /\ \A q \in Procs : pc'[q] \in {"subscribe", "recheck", "waiting"} => kind'[q] # "spawn"
       /\ \A q \in Procs : RunningProc(q)' \/ pc'[q] \in {"new", "called"} => ~aborted'[q]
  BY <1>2, <1>3, <1>4, <1>5, <1>6, <1>8 DEF ThreadInv
<1>11. \A k \in Keys : inFlight'[k] # NoProc => /\ pc'[inFlight'[k]] \notin {"new", "called"}
                                                /\ key'[inFlight'[k]] = k
  BY <1>3, <1>5, <1>9 DEF ThreadInv
<1>12. \A c \in Callers :
         /\ call'[c].at \notin {"spawn", "register"}
         /\ call'[c].op = "refetch" => Refetches(call[c])'
  BY <1>3, <1>7 DEF ThreadInv, Refetches
<1> QED
  BY <1>6, <1>7, <1>10, <1>11, <1>12 DEF ThreadInv

\* A step of a caller that hands nothing over: nobody else is under way.
LEMMA CallerThread ==
  ASSUME ~Threaded, FetchInv, ThreadInv, NEW c \in Callers, CallerMayRun(c),
         NEW r, call' = [call EXCEPT ![c] = r], UNCHANGED <<kind, key, pc>>,
         \A k \in Keys : inFlight'[k] \in {inFlight[k], NoProc},
         \A p \in Procs : aborted'[p] => aborted[p] \/ \E k \in Keys : inFlight[k] = p,
         r.at # "register",
         r.at = "spawn" => key[r.proc] = r.key,
         r.op = "refetch" => Refetches(r)
  PROVE  ThreadInv'
<1>1. /\ \A q \in Procs : ~RunningProc(q)
      /\ \A d \in Callers \ {c} : ~RunningCaller(d)
  BY DEF CallerMayRun
<1>2. /\ inFlight \in [Keys -> Procs \cup {NoProc}] /\ NoProc \notin Procs
      /\ call'[c] = r /\ \A d \in Callers \ {c} : call'[d] = call[d] /\ call[d].at = "idle"
  BY <1>1, QueryFetchAssumption DEF FetchInv, TypeOK, RunningCaller
<1>3. /\ \A q \in Procs : ~RunningProc(q)'
      /\ \A d \in Callers \ {c} : ~RunningCaller(d)'
  BY <1>1, <1>2 DEF RunningProc, RunningCaller
<1>4. \A p \in Procs : pc[p] \in {"new", "called"} => ~aborted'[p]
  BY <1>2 DEF ThreadInv
<1>5. \A d \in Callers :
        /\ call'[d].at # "register"
        /\ call'[d].at = "spawn" => key[call'[d].proc] = call'[d].key
        /\ call'[d].op = "refetch" => Refetches(call[d])'
  BY <1>2 DEF ThreadInv, Refetches
<1>6. \A k \in Keys : inFlight'[k] # NoProc => /\ pc'[inFlight'[k]] \notin {"new", "called"}
                                               /\ key'[inFlight'[k]] = k
  BY <1>2 DEF ThreadInv
<1>7. \A q \in Procs : pc'[q] \in {"subscribe", "recheck", "waiting"} => kind'[q] # "spawn"
  BY DEF ThreadInv
<1> QED
  BY <1>3, <1>4, <1>5, <1>6, <1>7 DEF ThreadInv

LEMMA KillMoves ==
  ASSUME FetchInv, NEW k \in Keys, Kill(k)
  PROVE  /\ \A j \in Keys : inFlight'[j] = IF j = k THEN NoProc ELSE inFlight[j]
         /\ \A p \in Procs : aborted'[p] <=> aborted[p] \/ p = inFlight[k]
<1>1. /\ inFlight \in [Keys -> Procs \cup {NoProc}] /\ NoProc \notin Procs
      /\ aborted \in [Procs -> BOOLEAN]
  BY QueryFetchAssumption DEF FetchInv, TypeOK
<1> QED
  BY <1>1 DEF Kill

\* The methods that hand no task over.
LEMMA CallerStepThread ==
  ASSUME ~Threaded, FetchInv, ThreadInv, NEW c \in Callers,
         CallerStep(c), ~SpawnTask(c), ~RegisterTask(c)
  PROVE  ThreadInv'
<1>0. /\ inFlight \in [Keys -> Procs \cup {NoProc}] /\ call \in [Callers -> CallType]
      /\ aborted \in [Procs -> BOOLEAN]
      /\ call[c].op = "refetch" => Refetches(call[c])
  BY DEF FetchInv, TypeOK, CallType, ThreadInv
<1>1. CallerMayRun(c) /\ UNCHANGED <<kind, key, pc>>
  BY DEF CallerStep, NextKey, UpdateCache, NotifyKey, FlagMatches, ClearCancel, ClearRegistry,
         ClearCache, Return, At, procVars
<1>2. CASE NextKey(c)
  <2>1. PICK k \in call[c].todo :
          LET skip == call[c].op \in Skipping /\ ~cache[k].has
              kills == call[c].op \in Killing /\ ~skip
          IN /\ call' = [call EXCEPT ![c].todo = @ \ {k},
                                     ![c].key = k,
                                     ![c].hit = kills /\ inFlight[k] # NoProc,
                                     ![c].at = IF skip THEN "loop" ELSE "cache"]
             /\ IF kills THEN Kill(k) ELSE UNCHANGED <<inFlight, token, aborted>>
    BY <1>2 DEF NextKey
  <2>2. call[c].at = "loop" /\ k \in Keys
    BY <1>0, <1>2 DEF NextKey, At, CallType
  <2>3. PICK b \in BOOLEAN, a \in {"loop", "cache"} :
          /\ call' = [call EXCEPT ![c] = [call[c] EXCEPT !.todo = @ \ {k}, !.key = k,
                                                         !.hit = b, !.at = a]]
          /\ call[c].op = "refetch" => a = "cache"
    BY <1>0, <2>1 DEF Skipping, CallType
  <2>4. /\ \A j \in Keys : inFlight'[j] \in {inFlight[j], NoProc}
        /\ \A p \in Procs : aborted'[p] => aborted[p] \/ \E j \in Keys : inFlight[j] = p
    BY <2>1, <2>2, KillMoves
  <2> DEFINE r == [call[c] EXCEPT !.todo = @ \ {k}, !.key = k, !.hit = b, !.at = a]
  <2>5. /\ r.at \notin {"register", "spawn"} /\ r.at = a /\ r.key = k
        /\ r.proc = call[c].proc /\ r.op = call[c].op
    BY <1>0, <2>3 DEF CallType
  <2>6. r.op = "refetch" => Refetches(r)
    BY <1>0, <2>2, <2>3, <2>5 DEF Refetches
  <2> HIDE DEF r
  <2> QED
    BY <1>1, <2>3, <2>4, <2>5, <2>6, CallerThread DEF r
<1>3. ASSUME UNCHANGED inFlight, UNCHANGED aborted,
             NEW a, call' = [call EXCEPT ![c].at = a],
             a # "register",
             a = "spawn" => call[c].op = "refetch" /\ call[c].at = "notify",
             call[c].op = "refetch" => a \in {"notify", "spawn"} /\ call[c].at # "loop"
      PROVE  ThreadInv'
  <2> DEFINE r == [call[c] EXCEPT !.at = a]
  <2>1. r.at = a /\ r.key = call[c].key /\ r.proc = call[c].proc /\ r.op = call[c].op
    BY <1>0 DEF CallType
  <2>2. call' = [call EXCEPT ![c] = r]
    BY <1>0, <1>3
  <2>3. r.op = "refetch" => Refetches(r)
    BY <1>0, <1>3, <2>1 DEF Refetches
  <2>4. r.at = "spawn" => key[r.proc] = r.key
    BY <1>0, <1>3, <2>1 DEF Refetches
  <2> HIDE DEF r
  <2> QED
    BY <1>1, <1>3, <2>1, <2>2, <2>3, <2>4, CallerThread
<1>4. CASE UpdateCache(c)
  <2>1. PICK a \in {"loop", "notify"} : /\ call' = [call EXCEPT ![c].at = a]
                                        /\ call[c].op = "refetch" => a = "notify"
    BY <1>4 DEF UpdateCache
  <2> QED
    BY <1>3, <1>4, <2>1 DEF UpdateCache, At, procVars
<1>5. CASE NotifyKey(c)
  <2>1. PICK a \in {"loop", "spawn"} : /\ call' = [call EXCEPT ![c].at = a]
                                       /\ call[c].op = "refetch" <=> a = "spawn"
    BY <1>5 DEF NotifyKey
  <2> QED
    BY <1>3, <1>5, <2>1 DEF NotifyKey, At, procVars, storeVars
<1>6. CASE FlagMatches(c)
  <2>1. PICK selected : call' = [call EXCEPT ![c].op = "trigger_refetch", ![c].at = "loop",
                                             ![c].todo = selected]
    BY <1>6 DEF FlagMatches
  <2> DEFINE r == [call[c] EXCEPT !.op = "trigger_refetch", !.at = "loop", !.todo = selected]
  <2>2. r.at = "loop" /\ r.op = "trigger_refetch" /\ call' = [call EXCEPT ![c] = r]
    BY <1>0, <2>1 DEF CallType
  <2> HIDE DEF r
  <2> QED
    BY <1>1, <1>6, <2>2, CallerThread DEF FlagMatches, procVars
<1>7. CASE ClearCancel(c) \/ ClearRegistry(c) \/ ClearCache(c)
  <2>1. call[c].op # "refetch"
    BY <1>0, <1>7 DEF ClearCancel, ClearRegistry, ClearCache, At, Refetches
  <2>2. PICK a \in {"drain", "wipe", "loop"} : call' = [call EXCEPT ![c].at = a]
    BY <1>7 DEF ClearCancel, ClearRegistry, ClearCache
  <2>3. /\ \A j \in Keys : inFlight'[j] \in {inFlight[j], NoProc}
        /\ \A p \in Procs : aborted'[p] => aborted[p] \/ \E j \in Keys : inFlight[j] = p
    BY <1>0, <1>7 DEF ClearCancel, ClearRegistry, ClearCache, procVars, storeVars
  <2> DEFINE r == [call[c] EXCEPT !.at = a]
  <2>4. r.at \in {"drain", "wipe", "loop"} /\ r.op # "refetch" /\ call' = [call EXCEPT ![c] = r]
    BY <1>0, <2>1, <2>2 DEF CallType
  <2> HIDE DEF r
  <2> QED
    BY <1>1, <2>3, <2>4, CallerThread
<1>8. CASE Return(c)
  <2>1. call' = [call EXCEPT ![c] = NoCall] /\ NoCall.at = "idle" /\ NoCall.op = "none"
    BY <1>8 DEF Return, NoCall
  <2> QED
    BY <1>1, <1>8, <2>1, CallerThread DEF Return, procVars, storeVars
<1> QED
  BY <1>2, <1>4, <1>5, <1>6, <1>7, <1>8 DEF CallerStep

\* spawn_query hands the task over ...
LEMMA SpawnTaskThread ==
  ASSUME ~Threaded, FetchInv, ThreadInv, NEW c \in Callers, SpawnTask(c)
  PROVE  ThreadInv'
<1> DEFINE p == call[c].proc
<1>1. /\ \A q \in Procs : ~RunningProc(q)
      /\ \A d \in Callers \ {c} : call[d].at = "idle"
      /\ call[c].at = "spawn"
  BY DEF SpawnTask, At, CallerMayRun, RunningCaller
<1>2. /\ p \in Procs /\ pc[p] = "called" /\ kind[p] = "spawn" /\ ~aborted[p]
      /\ key[p] = call[c].key
  BY <1>1 DEF FetchInv, CallInv, Pending, ThreadInv
<1>3. /\ inFlight \in [Keys -> Procs \cup {NoProc}] /\ call \in [Callers -> CallType]
      /\ pc \in [Procs -> Places]
  BY DEF FetchInv, TypeOK, CallType
<1>4. PICK x \in {"done", "ready"}, r \in {NoCall, [call[c] EXCEPT !.at = "register"]} :
        /\ pc' = [pc EXCEPT ![p] = x] /\ call' = [call EXCEPT ![c] = r]
        /\ r # NoCall => x = "ready"
  <2>1. CASE restoring
    BY <2>1 DEF SpawnTask
  <2>2. CASE ~restoring
    BY <1>3, <2>2 DEF SpawnTask, Goto
  <2> QED
    BY <2>1, <2>2
<1>5. UNCHANGED <<kind, key, aborted, inFlight>>
  BY DEF SpawnTask
<1> HIDE DEF p
<1>6. /\ pc'[p] = x /\ \A q \in Procs \ {p} : pc'[q] = pc[q]
      /\ call'[c] = r /\ \A d \in Callers \ {c} : call'[d] = call[d]
  BY <1>2, <1>3, <1>4
<1>7. \A q \in Procs : ~RunningProc(q)'
  BY <1>1, <1>4, <1>6 DEF RunningProc, Suspended, Inactive
<1>8. \A d \in Callers \ {c} : ~RunningCaller(d)'
  BY <1>1, <1>6 DEF RunningCaller
<1>9. /\ \A q \in Procs : pc'[q] \in {"subscribe", "recheck", "waiting"} => kind'[q] # "spawn"
      /\ \A q \in Procs : pc'[q] \in {"new", "called"} => ~aborted'[q]
      /\ \A k \in Keys : inFlight'[k] # NoProc => /\ pc'[inFlight'[k]] \notin {"new", "called"}
                                                  /\ key'[inFlight'[k]] = k
  BY <1>2, <1>3, <1>4, <1>5, <1>6 DEF ThreadInv
<1>10. r.at = "register" => /\ r.op = call[c].op /\ r.proc = p /\ r.key = call[c].key /\ x = "ready"
  BY <1>3, <1>4 DEF NoCall, CallType, p
<1>11. r.at \in {"register", "idle"} /\ (r.at = "idle" => r.op = "none")
  BY <1>3, <1>4 DEF NoCall, CallType
<1>12. \A d \in Callers :
         /\ call'[d].at = "register" => pc'[call'[d].proc] = "ready" /\ ~aborted'[call'[d].proc]
         /\ call'[d].at \in {"spawn", "register"} => key'[call'[d].proc] = call'[d].key
         /\ call'[d].op = "refetch" => Refetches(call[d])'
  BY <1>1, <1>2, <1>5, <1>6, <1>10, <1>11 DEF ThreadInv, Refetches
<1> QED
  BY <1>7, <1>8, <1>9, <1>12 DEF ThreadInv

\* ... and set_in_flight registers it before it runs.
LEMMA RegisterTaskThread ==
  ASSUME ~Threaded, FetchInv, ThreadInv, NEW c \in Callers, RegisterTask(c)
  PROVE  ThreadInv'
<1> DEFINE p == call[c].proc
<1>1. /\ \A q \in Procs : ~RunningProc(q)
      /\ \A d \in Callers \ {c} : call[d].at = "idle"
      /\ call[c].at = "register"
  BY DEF RegisterTask, At, CallerMayRun, RunningCaller
<1>2. p \in Procs /\ pc[p] = "ready" /\ key[p] = call[c].key
  BY <1>1 DEF FetchInv, CallInv, ThreadInv
<1>3. /\ inFlight \in [Keys -> Procs \cup {NoProc}] /\ call \in [Callers -> CallType]
      /\ UNCHANGED <<kind, key, aborted, pc>>
      /\ call' = [call EXCEPT ![c] = NoCall]
      /\ inFlight' = [inFlight EXCEPT ![call[c].key] = p]
  BY DEF FetchInv, TypeOK, CallType, RegisterTask, procVars
<1>4. /\ \A d \in Callers : call'[d].at = "idle"
      /\ \A d \in Callers : call'[d].op = "refetch" => d # c /\ call'[d] = call[d]
  BY <1>1, <1>3 DEF NoCall
<1>5. \A k \in Keys : inFlight'[k] # NoProc => /\ pc'[inFlight'[k]] \notin {"new", "called"}
                                               /\ key'[inFlight'[k]] = k
  BY <1>2, <1>3 DEF ThreadInv
<1>6. /\ \A q \in Procs : ~RunningProc(q)'
      /\ \A d \in Callers : ~RunningCaller(d)'
  BY <1>1, <1>3, <1>4 DEF RunningProc, RunningCaller
<1>7. /\ \A q \in Procs : pc'[q] \in {"subscribe", "recheck", "waiting"} => kind'[q] # "spawn"
      /\ \A q \in Procs : pc'[q] \in {"new", "called"} => ~aborted'[q]
  BY <1>3 DEF ThreadInv
<1>8. \A d \in Callers :
        /\ call'[d].at \notin {"spawn", "register"}
        /\ call'[d].op = "refetch" => Refetches(call[d])'
  BY <1>3, <1>4 DEF ThreadInv, Refetches
<1> QED
  BY <1>5, <1>6, <1>7, <1>8 DEF ThreadInv

\* Entering a method.
LEMMA CallThread ==
  ASSUME ~Threaded, FetchInv, ThreadInv, NEW c \in Callers, Call(c)
  PROVE  ThreadInv'
<1>0. /\ inFlight \in [Keys -> Procs \cup {NoProc}] /\ call \in [Callers -> CallType]
      /\ pc \in [Procs -> Places] /\ key \in [Procs -> Keys \cup {NoKey}]
      /\ kind \in [Procs -> {"none", "spawn", "execute", "fetch"}]
  BY DEF FetchInv, TypeOK, CallType
<1>1. CallerMayRun(c) /\ call[c].at = "idle" /\ UNCHANGED <<inFlight, aborted>>
  BY DEF Call, CallClear, CallCancelQuery, CallSetQueryData, CallSpawn, CallFiltered, Enter,
         procVars, storeVars
<1>2. ASSUME NEW r, call' = [call EXCEPT ![c] = r], r.at \notin {"register", "spawn"}, r.op # "refetch",
             UNCHANGED <<kind, key, pc>>
      PROVE  ThreadInv'
  BY <1>1, <1>2, CallerThread
<1>3. CASE CallClear(c)
  <2> DEFINE r == [NoCall EXCEPT !.op = "clear", !.at = "cancel"]
  <2>1. r.at = "cancel" /\ r.op = "clear"
    BY DEF NoCall
  <2>2. call' = [call EXCEPT ![c] = r] /\ UNCHANGED <<kind, key, pc>>
    BY <1>3 DEF CallClear, Enter, procVars
  <2> QED
    BY <1>2, <2>1, <2>2
<1>4. ASSUME NEW k \in Keys, CallCancelQuery(c, k) \/ CallSetQueryData(c, k) PROVE ThreadInv'
  <2> DEFINE r == [NoCall EXCEPT !.op = "cancel_query", !.at = "loop", !.todo = {k}]
             s == [NoCall EXCEPT !.op = "set_query_data", !.at = "cache", !.key = k]
  <2>1. r.at = "loop" /\ r.op = "cancel_query" /\ s.at = "cache" /\ s.op = "set_query_data"
    BY DEF NoCall
  <2>2. call' = [call EXCEPT ![c] = r] \/ call' = [call EXCEPT ![c] = s]
    BY <1>4 DEF CallCancelQuery, CallSetQueryData, Enter
  <2>3. UNCHANGED <<kind, key, pc>>
    BY <1>4 DEF CallCancelQuery, CallSetQueryData, procVars
  <2> QED
    BY <1>2, <2>1, <2>2, <2>3
<1>5. ASSUME NEW op \in FilteredOps, NEW filter \in SUBSET Keys, CallFiltered(c, op, filter)
      PROVE  ThreadInv'
  <2> DEFINE r == [NoCall EXCEPT !.op = op, !.todo = filter \cap Cached,
                                 !.at = IF op = "invalidate_filtered" THEN "flag" ELSE "loop"]
  <2>1. r.at \in {"flag", "loop"} /\ r.op # "refetch"
    BY DEF NoCall, FilteredOps
  <2>2. call' = [call EXCEPT ![c] = r] /\ UNCHANGED <<kind, key, pc>>
    BY <1>5 DEF CallFiltered, Enter, procVars
  <2> QED
    BY <1>2, <2>1, <2>2
<1>6. ASSUME NEW p \in Procs, NEW k \in Keys, NEW op \in {"spawn", "refetch"}, CallSpawn(c, p, k, op)
      PROVE  ThreadInv'
  <2>1. /\ pc[p] = "new" /\ pc' = [pc EXCEPT ![p] = "called"]
        /\ kind' = [kind EXCEPT ![p] = "spawn"] /\ key' = [key EXCEPT ![p] = k]
    BY <1>6 DEF CallSpawn, Goto
  <2>2. PICK r : /\ call' = [call EXCEPT ![c] = r] /\ r.proc = p /\ r.at \in {"spawn", "loop"}
                 /\ r.at = "spawn" => r.op = "spawn" /\ r.key = k
                 /\ r.at = "loop" => r.todo = {k}
    <3>1. CASE op = "spawn"
      <4> DEFINE s == [NoCall EXCEPT !.op = op, !.at = "spawn", !.key = k, !.proc = p]
      <4>1. s.proc = p /\ s.at = "spawn" /\ s.op = op /\ s.key = k
        BY DEF NoCall
      <4>2. call' = [call EXCEPT ![c] = s]
        BY <1>6, <3>1 DEF CallSpawn, Enter
      <4> QED
        BY <3>1, <4>1, <4>2
    <3>2. CASE op = "refetch"
      <4> DEFINE s == [NoCall EXCEPT !.op = op, !.at = "loop", !.todo = {k}, !.proc = p]
      <4>1. s.proc = p /\ s.at = "loop" /\ s.op = op /\ s.todo = {k}
        BY DEF NoCall
      <4>2. call' = [call EXCEPT ![c] = s]
        BY <1>6, <3>2 DEF CallSpawn, Enter
      <4> QED
        BY <3>2, <4>1, <4>2
    <3> QED
      BY <3>1, <3>2
  <2>3. /\ pc'[p] = "called" /\ \A q \in Procs \ {p} : pc'[q] = pc[q]
        /\ kind'[p] = "spawn" /\ \A q \in Procs \ {p} : kind'[q] = kind[q]
        /\ key'[p] = k /\ \A q \in Procs \ {p} : key'[q] = key[q]
        /\ call'[c] = r /\ \A d \in Callers \ {c} : call'[d] = call[d]
    BY <1>0, <2>1, <2>2
  <2>4. /\ \A q \in Procs : ~RunningProc(q)'
        /\ \A d \in Callers \ {c} : call'[d].at = "idle" /\ ~RunningCaller(d)'
    BY <1>1, <2>3 DEF CallerMayRun, RunningProc, RunningCaller, Inactive
  <2>5. /\ \A q \in Procs : pc'[q] \in {"subscribe", "recheck", "waiting"} => kind'[q] # "spawn"
        /\ \A q \in Procs : pc'[q] \in {"new", "called"} => ~aborted'[q]
    BY <1>1, <2>1, <2>3 DEF ThreadInv
  <2>6. \A j \in Keys : inFlight'[j] # NoProc => /\ pc'[inFlight'[j]] \notin {"new", "called"}
                                                 /\ key'[inFlight'[j]] = j
    BY <1>0, <1>1, <2>1, <2>3 DEF ThreadInv
  <2>7. \A d \in Callers :
          /\ call'[d].at # "register"
          /\ call'[d].at = "spawn" => key'[call'[d].proc] = call'[d].key
          /\ call'[d].op = "refetch" => Refetches(call[d])'
    <3>1. ASSUME NEW d \in Callers \ {c} PROVE call'[d].op # "refetch"
      BY <2>3, <2>4 DEF ThreadInv, Refetches
    <3> QED
      BY <2>2, <2>3, <2>4, <3>1 DEF Refetches
  <2> QED
    BY <2>4, <2>5, <2>6, <2>7 DEF ThreadInv
<1> QED
  BY <1>3, <1>4, <1>5, <1>6 DEF Call

\* The rest happens between two calls and two polls, but for garbage collection,
\* which moves no execution and no caller.
LEMMA RestThread ==
  ASSUME ~Threaded, FetchInv, ThreadInv,
         \/ \E p \in Procs : CancelToken(p) \/ DropHandle(p)
         \/ \E p \in Procs, k \in Keys :
              (\E op \in {"execute", "fetch"} : StartDirect(p, k, op)) \/ StartEnsure(p, k)
         \/ \E expired \in SUBSET Keys : Gc(expired)
         \/ \E b \in BOOLEAN : SetOnline(b) \/ SetRestoring(b)
  PROVE  ThreadInv'
<1>0. /\ inFlight \in [Keys -> Procs \cup {NoProc}] /\ aborted \in [Procs -> BOOLEAN]
      /\ pc \in [Procs -> Places] /\ key \in [Procs -> Keys \cup {NoKey}]
      /\ kind \in [Procs -> {"none", "spawn", "execute", "fetch"}]
  BY DEF FetchInv, TypeOK
<1>g. CASE \E expired \in SUBSET Keys : Gc(expired)
  <2>1. UNCHANGED <<kind, key, pc, aborted, call, inFlight>>
    BY <1>g DEF Gc, procVars
  <2> QED
    BY <2>1 DEF ThreadInv, RunningProc, RunningCaller, Refetches
<1> SUFFICES ASSUME ~\E expired \in SUBSET Keys : Gc(expired) PROVE ThreadInv'
  BY <1>g
<1>1. /\ \A q \in Procs : ~RunningProc(q)
      /\ \A d \in Callers : call[d].at = "idle"
  BY DEF CancelToken, DropHandle, StartDirect, StartEnsure, SetOnline, SetRestoring, Quiet,
         RunningCaller
<1>2. UNCHANGED <<call, inFlight>>
  BY DEF CancelToken, DropHandle, StartDirect, StartEnsure, SetOnline, SetRestoring,
         storeVars
<1>3. \A d \in Callers : call[d].op # "refetch"
  BY <1>1 DEF ThreadInv, Refetches
<1>4. ASSUME NEW p \in Procs, NEW k \in Keys,
             (\E op \in {"execute", "fetch"} : StartDirect(p, k, op)) \/ StartEnsure(p, k)
      PROVE  ThreadInv'
  <2>1. PICK x \in {"ready", "done"}, o \in {"execute", "fetch"} :
          /\ pc[p] = "new" /\ pc' = [pc EXCEPT ![p] = x] /\ key' = [key EXCEPT ![p] = k]
          /\ kind' = [kind EXCEPT ![p] = o]
    BY <1>4 DEF StartDirect, StartEnsure, Goto
  <2>2. aborted' = aborted
    BY <1>4 DEF StartDirect, StartEnsure
  <2>3. /\ pc'[p] = x /\ \A q \in Procs \ {p} : pc'[q] = pc[q]
        /\ \A q \in Procs \ {p} : kind'[q] = kind[q]
        /\ \A q \in Procs \ {p} : key'[q] = key[q]
    BY <1>0, <2>1
  <2>4. /\ \A q \in Procs : ~RunningProc(q)'
        /\ \A d \in Callers : ~RunningCaller(d)'
    BY <1>1, <1>2, <2>1, <2>3 DEF RunningProc, RunningCaller, Inactive, Suspended
  <2>5. \A q \in Procs : pc'[q] \in {"subscribe", "recheck", "waiting"} => kind'[q] # "spawn"
    BY <2>1, <2>3 DEF ThreadInv
  <2>6. \A q \in Procs : pc'[q] \in {"new", "called"} => ~aborted'[q]
    BY <2>1, <2>2, <2>3 DEF ThreadInv
  <2>7. \A j \in Keys : inFlight'[j] # NoProc => /\ pc'[inFlight'[j]] \notin {"new", "called"}
                                                 /\ key'[inFlight'[j]] = j
    BY <1>0, <1>2, <2>1, <2>3 DEF ThreadInv
  <2> QED
    BY <1>1, <1>2, <1>3, <2>4, <2>5, <2>6, <2>7 DEF ThreadInv
<1>5. ASSUME UNCHANGED <<kind, key, pc>>,
             \A q \in Procs : aborted'[q] => aborted[q] \/ pc[q] \notin {"new", "called"}
      PROVE  ThreadInv'
  BY <1>1, <1>2, <1>3, <1>5 DEF ThreadInv, RunningProc, RunningCaller
<1>6. ASSUME NEW p \in Procs, DropHandle(p) PROVE ThreadInv'
  BY <1>0, <1>5, <1>6 DEF DropHandle, Inactive
<1>7. CASE \/ \E p \in Procs : CancelToken(p)
           \/ \E b \in BOOLEAN : SetOnline(b) \/ SetRestoring(b)
  BY <1>5, <1>7 DEF CancelToken, SetOnline, SetRestoring, procVars
<1> QED
  BY <1>4, <1>6, <1>7

LEMMA ThreadInvInit == Init => ThreadInv
  BY DEF Init, ThreadInv, RunningProc, RunningCaller, Inactive, NoCall

LEMMA ThreadInvStep ==
  ASSUME ~Threaded
  PROVE  FetchInv /\ ThreadInv /\ [Next]_vars => ThreadInv'
<1> SUFFICES ASSUME FetchInv, ThreadInv, [Next]_vars PROVE ThreadInv'
  OBVIOUS
<1>1. CASE UNCHANGED vars
  BY <1>1 DEF vars, procVars, storeVars, ThreadInv, RunningProc, RunningCaller, Refetches
<1> QED
  BY <1>1, ProcThread, CallerStepThread, SpawnTaskThread, RegisterTaskThread, CallThread,
     RestThread DEF Next

-----------------------------------------------------------------------------
(***************************************************************************)
(* One thread: the registry names tasks that are alive                     *)
(***************************************************************************)

LEMMA EntriesLiveStep ==
  ASSUME ~Threaded, "drop_handle" \notin Ops
  PROVE  FetchInv /\ ThreadInv /\ EntriesLive /\ [Next]_vars => EntriesLive'
<1> SUFFICES ASSUME FetchInv, ThreadInv, EntriesLive, [Next]_vars PROVE EntriesLive'
  OBVIOUS
<1>0. /\ inFlight \in [Keys -> Procs \cup {NoProc}] /\ NoProc \notin Procs
      /\ pc \in [Procs -> Places] /\ aborted \in [Procs -> BOOLEAN] /\ call \in [Callers -> CallType]
      /\ kind \in [Procs -> {"none", "spawn", "execute", "fetch"}]
      /\ RegistryInv /\ CallInv
  BY QueryFetchAssumption DEF FetchInv, TypeOK, CallType
\* Nothing is added to the registry, nothing in it is aborted or ends, and
\* nobody leaves the middle of clear().
<1>1. ASSUME \A k \in Keys : inFlight'[k] \in {inFlight[k], NoProc},
             \A k \in Keys : inFlight'[k] # NoProc =>
               /\ pc'[inFlight[k]] \notin Inactive \cup {"end"}
               /\ aborted'[inFlight[k]] =>
                    aborted[inFlight[k]] \/ \E c \in Callers : call'[c].at = "drain",
             \A c \in Callers : call[c].at = "drain" => call'[c].at = "drain"
      PROVE  EntriesLive'
  BY <1>0, <1>1 DEF EntriesLive
<1>2. CASE UNCHANGED vars
  BY <1>2 DEF vars, procVars, storeVars, EntriesLive
<1>3. ASSUME NEW p \in Procs, ProcStep(p) PROVE EntriesLive'
  <2>1. /\ pc[p] \notin Inactive
        /\ \A c \in Callers : ~RunningCaller(c)
        /\ \A k \in Keys : inFlight'[k] \in {inFlight[k], NoProc}
        /\ UNCHANGED <<kind, key, aborted, call, epoch>>
    BY <1>3, ProcFacts DEF ProcMayRun
  <2>2. PICK x \in Places \ {"new", "called"} :
          /\ pc' = [pc EXCEPT ![p] = x]
          /\ x \in Inactive => kind[p] # "spawn" \/ aborted[p] \/ pc[p] = "end"
          /\ x = "end" => inFlight' = [inFlight EXCEPT ![key[p]] = NoProc]
    BY <1>3, ProcFacts
  <2>3. \A c \in Callers : call[c].at # "drain"
    BY <2>1 DEF RunningCaller
  <2>4. \A q \in Procs \ {p} : pc'[q] = pc[q]
    BY <1>0, <2>2
  <2>5. ASSUME NEW k \in Keys, inFlight'[k] # NoProc, inFlight[k] = p
        PROVE  pc'[p] \notin Inactive \cup {"end"}
    <3>1. kind[p] = "spawn" /\ ~aborted[p] /\ pc[p] # "end" /\ key[p] = k
      BY <1>0, <2>3, <2>5 DEF RegistryInv, EntriesLive, ThreadInv
    <3>2. x # "end"
      BY <1>0, <2>2, <2>5, <3>1
    <3> QED
      BY <1>0, <2>2, <3>1, <3>2
  <2>6. \A k \in Keys : inFlight'[k] # NoProc => pc'[inFlight[k]] \notin Inactive \cup {"end"}
    BY <1>0, <2>1, <2>4, <2>5 DEF EntriesLive
  <2> QED
    BY <1>1, <2>1, <2>3, <2>6
<1>4. ASSUME NEW c \in Callers, CallerStep(c) PROVE EntriesLive'
  <2>1. CASE SpawnTask(c)
    <3>1. /\ call[c].at = "spawn" /\ UNCHANGED <<inFlight, aborted>>
          /\ \A d \in Callers \ {c} : call'[d] = call[d]
      BY <1>0, <2>1 DEF SpawnTask, At
    <3>2. PICK x : pc' = [pc EXCEPT ![call[c].proc] = x]
      BY <2>1 DEF SpawnTask, Goto
    <3>3. pc[call[c].proc] = "called"
      BY <1>0, <3>1 DEF CallInv, Pending
    <3>4. \A q \in Procs : pc[q] # "called" => pc'[q] = pc[q]
      BY <1>0, <3>2, <3>3
    <3> QED
      BY <1>0, <3>1, <3>4, <1>1 DEF EntriesLive, Inactive
  <2>2. CASE RegisterTask(c)
    <3>1. /\ call[c].at = "register" /\ UNCHANGED <<pc, aborted>>
          /\ \A d \in Callers \ {c} : call'[d] = call[d]
          /\ inFlight' = [inFlight EXCEPT ![call[c].key] = call[c].proc]
      BY <1>0, <2>2 DEF RegisterTask, At, procVars
    <3>2. /\ pc[call[c].proc] = "ready" /\ ~aborted[call[c].proc]
          /\ "ready" \notin Inactive \cup {"end"}
      BY <3>1 DEF ThreadInv, Inactive
    <3> QED
      BY <1>0, <3>1, <3>2 DEF EntriesLive
  <2>3. CASE ClearCancel(c)
    <3>1. call'[c].at = "drain" /\ UNCHANGED <<inFlight, pc>>
      BY <1>0, <2>3 DEF ClearCancel, CallType, storeVars
    <3> QED
      BY <1>0, <3>1 DEF EntriesLive
  <2>4. CASE ClearRegistry(c)
    BY <2>4 DEF ClearRegistry, EntriesLive
  <2>5. CASE NextKey(c)
    <3>1. PICK k \in call[c].todo : Kill(k) \/ UNCHANGED <<inFlight, token, aborted>>
      BY <2>5 DEF NextKey
    <3>2. k \in Keys /\ call[c].at = "loop" /\ UNCHANGED pc
      BY <1>0, <2>5 DEF NextKey, At, CallType
    <3>3. /\ \A j \in Keys : inFlight'[j] \in {inFlight[j], NoProc}
          /\ \A j \in Keys : inFlight'[j] # NoProc /\ aborted'[inFlight[j]] => aborted[inFlight[j]]
      <4>1. CASE Kill(k)
        <5>1. \A j \in Keys \ {k} : inFlight[j] # NoProc => inFlight[j] # inFlight[k]
          BY <3>2 DEF ThreadInv
        <5> QED
          BY <1>0, <3>2, <4>1, <5>1, KillMoves
      <4> QED
        BY <3>1, <4>1
    <3>4. \A d \in Callers : call[d].at = "drain" => call'[d].at = "drain"
      BY <1>0, <2>5, <3>2 DEF NextKey
    <3> QED
      BY <1>0, <1>1, <3>2, <3>3, <3>4 DEF EntriesLive
  <2>6. CASE UpdateCache(c) \/ NotifyKey(c) \/ FlagMatches(c) \/ ClearCache(c) \/ Return(c)
    <3>1. /\ call[c].at # "drain" /\ UNCHANGED <<inFlight, aborted, pc>>
          /\ \A d \in Callers \ {c} : call'[d] = call[d]
      BY <1>0, <2>6 DEF UpdateCache, NotifyKey, FlagMatches, ClearCache, Return, At, procVars, storeVars
    <3> QED
      BY <1>0, <1>1, <3>1 DEF EntriesLive
  <2> QED
    BY <1>4, <2>1, <2>2, <2>3, <2>4, <2>5, <2>6 DEF CallerStep
<1>5. ASSUME NEW c \in Callers, Call(c) PROVE EntriesLive'
  <2>1. /\ call[c].at = "idle" /\ UNCHANGED <<inFlight, aborted>>
        /\ \A d \in Callers \ {c} : call'[d] = call[d]
    BY <1>0, <1>5, ZenonT(30) DEF Call, CallClear, CallCancelQuery, CallSetQueryData, CallSpawn, CallFiltered,
         Enter, procVars, storeVars
  <2>2. \A q \in Procs : pc[q] # "new" => pc'[q] = pc[q]
    BY <1>0, <1>5 DEF Call, CallClear, CallCancelQuery, CallSetQueryData, CallSpawn, CallFiltered,
         Goto, procVars
  <2> QED
    BY <1>0, <1>1, <2>1, <2>2 DEF EntriesLive, Inactive
<1>6. CASE \/ \E p \in Procs : CancelToken(p) \/ DropHandle(p)
           \/ \E p \in Procs, k \in Keys :
                (\E op \in {"execute", "fetch"} : StartDirect(p, k, op)) \/ StartEnsure(p, k)
           \/ \E expired \in SUBSET Keys : Gc(expired)
           \/ \E b \in BOOLEAN : SetOnline(b) \/ SetRestoring(b)
  <2>1. UNCHANGED <<inFlight, aborted, call>>
    BY <1>6 DEF CancelToken, DropHandle, StartDirect, StartEnsure, Gc, SetOnline, SetRestoring,
                procVars, storeVars
  <2>2. \A q \in Procs : pc[q] # "new" => pc'[q] = pc[q]
    BY <1>0, <1>6 DEF CancelToken, DropHandle, StartDirect, StartEnsure, Gc, SetOnline, SetRestoring,
                Goto, procVars
  <2> QED
    BY <1>0, <1>1, <2>1, <2>2 DEF EntriesLive, Inactive
<1> QED
  BY <1>2, <1>3, <1>4, <1>5, <1>6 DEF Next

\* On one thread an in-flight entry always names an execution that still runs,
\* so a deduplicated call waits for somebody and `fetching` is not reported for
\* a dead fetch, as long as no handle of a task is dropped: that aborts it and
\* leaves its entry behind (client.rs set_in_flight, clear_in_flight, clear).
THEOREM RegistryIsLive ==
  ASSUME ~Threaded, "drop_handle" \notin Ops
  PROVE  Spec => []InFlightIsLive
<1>1. Init => FetchInv /\ ThreadInv /\ EntriesLive
  BY FetchInvInit, ThreadInvInit DEF Init, EntriesLive
<1>2. FetchInv /\ ThreadInv /\ EntriesLive /\ [Next]_vars => (FetchInv /\ ThreadInv /\ EntriesLive)'
  BY FetchInvStep, ThreadInvStep, EntriesLiveStep
<1>3. EntriesLive => InFlightIsLive
  BY DEF EntriesLive, InFlightIsLive
<1> QED
  BY <1>1, <1>2, <1>3, PTL DEF Spec

-----------------------------------------------------------------------------
(***************************************************************************)
(* One thread, fetches started by refetch: coalescing and freshness        *)
(***************************************************************************)

\* What an execution writes to the shared state.
LEMMA ProcWrites ==
  ASSUME FetchInv, NEW p \in Procs, ProcStep(p)
  PROVE  /\ \/ inFlight' = inFlight
            \/ pc[p] = "clear" /\ pc'[p] = "end" /\ inFlight' = [inFlight EXCEPT ![key[p]] = NoProc]
         /\ cache' = cache \/ (pc[p] = "insert" /\ Insert(key[p], began[p]))
         /\ \A q \in Procs \ {p} : began'[q] = began[q]
         /\ Writing(p)' => \/ began'[p] = epoch[key[p]]
                           \/ Writing(p) /\ began'[p] = began[p]
         /\ pc[p] = "end" => pc'[p] \in Inactive
<1>0. pc \in [Procs -> Places] /\ began \in [Procs -> Nat]
  BY DEF FetchInv, TypeOK
<1> USE DEF ProcStep, Resumes, Runs, InFetch, Goto, Finish, storeVars
<1>1. \/ inFlight' = inFlight
      \/ /\ pc[p] = "clear" /\ pc'[p] = "end"
         /\ inFlight' = [inFlight EXCEPT ![key[p]] = NoProc]
  BY <1>0 DEF Begin, Subscribe, Recheck, Receive, Gate, Attempt, FetchPending, FetchWoken,
         FetchOk, FetchCancelled, FetchRetry, FetchFail, FetchPanic, Resume, Backoff, WriteData,
         NotifySuccess, ReadBack, ClearInFlight, EndTask, DropTask
<1>2. cache' = cache \/ (pc[p] = "insert" /\ Insert(key[p], began[p]))
  BY DEF Begin, Subscribe, Recheck, Receive, Gate, Attempt, FetchPending, FetchWoken,
         FetchOk, FetchCancelled, FetchRetry, FetchFail, FetchPanic, Resume, Backoff, WriteData,
         NotifySuccess, ReadBack, ClearInFlight, EndTask, DropTask
<1>3. \/ Attempt(p)
      \/ UNCHANGED began
  BY DEF Begin, Subscribe, Recheck, Receive, Gate, Attempt, FetchPending, FetchWoken,
         FetchOk, FetchCancelled, FetchRetry, FetchFail, FetchPanic, Resume, Backoff, WriteData,
         NotifySuccess, ReadBack, ClearInFlight, EndTask, DropTask
<1>4. /\ Attempt(p) \/ ~(Writing(p)' /\ ~Writing(p))
      /\ pc[p] = "end" => pc'[p] \in Inactive
  BY <1>0 DEF Begin, Subscribe, Recheck, Receive, Gate, Attempt, FetchPending, FetchWoken,
         FetchOk, FetchCancelled, FetchRetry, FetchFail, FetchPanic, Resume, Backoff, WriteData,
         NotifySuccess, ReadBack, ClearInFlight, EndTask, DropTask, Writing, Inactive, Suspended
<1>5. CASE Attempt(p)
  <2>1. \A q \in Procs \ {p} : began'[q] = began[q]
    BY <1>0, <1>5 DEF Attempt
  <2>2. Writing(p)' => began'[p] = epoch[key[p]]
    BY <1>0, <1>5 DEF Attempt, Writing
  <2> QED
    BY <1>1, <1>2, <1>4, <2>1, <2>2
<1> QED
  BY <1>1, <1>2, <1>3, <1>4, <1>5

LEMMA CoalesceProc ==
  ASSUME ~Threaded, FetchInv, ThreadInv, CoalesceInv, NEW p \in Procs, ProcStep(p)
  PROVE  CoalesceInv'
<1>0. /\ pc \in [Procs -> Places] /\ inFlight \in [Keys -> Procs \cup {NoProc}]
      /\ cache \in [Keys -> CacheType] /\ TaskInv
  BY DEF FetchInv, TypeOK, CacheType
<1>1. /\ \A q \in Procs \ {p} : ~RunningProc(q)
      /\ \A c \in Callers : ~RunningCaller(c)
      /\ pc[p] \notin Inactive /\ UNCHANGED <<kind, key, aborted, call, epoch>>
  BY ProcFacts DEF ProcMayRun
<1>2. /\ \A c \in Callers : call[c].at = "idle"
      /\ \A q \in Procs \ {p} : pc'[q] = pc[q]
  BY <1>0, <1>1, ProcFacts DEF RunningCaller
<1>3. \A q \in Procs : Live(q) => inFlight[key[q]] = q
  BY <1>2 DEF CoalesceInv
<1>4. \A q \in Procs : Live(q)' => Live(q)
  BY <1>1, <1>2, ProcWrites DEF Live
<1>5. ASSUME NEW q \in Procs, Live(q)' PROVE inFlight'[key'[q]] = q
  <2>1. inFlight[key[q]] = q /\ key'[q] = key[q]
    BY <1>1, <1>3, <1>4, <1>5
  <2>2. CASE /\ pc[p] = "clear" /\ pc'[p] = "end"
             /\ inFlight' = [inFlight EXCEPT ![key[p]] = NoProc]
    <3>1. q # p
      BY <1>5, <2>2 DEF Live
    <3>2. RunningProc(p)
      BY <2>2 DEF RunningProc, Suspended, Inactive
    <3>3. Live(p)
      BY <2>2, <3>2 DEF Live, ThreadInv, RunningProc, Inactive
    <3> QED
      BY <1>0, <1>3, <2>1, <2>2, <3>1, <3>3
  <2> QED
    BY <2>1, <2>2, ProcWrites
<1>6. \A q \in Procs : Live(q)' /\ Writing(q)' => began'[q] = epoch'[key'[q]]
  BY <1>1, <1>2, <1>4, ProcWrites DEF CoalesceInv, Writing
<1>7. FreshMeansCurrent'
  <2>1. CASE cache' = cache
    BY <1>1, <2>1 DEF CoalesceInv, FreshMeansCurrent
  <2>2. CASE pc[p] = "insert" /\ Insert(key[p], began[p])
    <3>1. RunningProc(p) /\ Writing(p) /\ key[p] \in Keys
      BY <1>0, <2>2 DEF RunningProc, Suspended, Inactive, Writing, TaskInv
    <3>2. Live(p)
      BY <2>2, <3>1 DEF Live, ThreadInv, RunningProc
    <3>3. began[p] = epoch[key[p]]
      BY <3>1, <3>2 DEF CoalesceInv
    <3> QED
      BY <1>0, <1>1, <2>2, <3>1, <3>3 DEF CoalesceInv, FreshMeansCurrent, Insert
  <2> QED
    BY <2>1, <2>2, ProcWrites
<1> QED
  BY <1>1, <1>2, <1>5, <1>6, <1>7 DEF CoalesceInv, Cleared

\* A caller that is under way is alone, and what lives is registered unless it
\* is the task that this caller is about to register.
LEMMA CallerAlone ==
  ASSUME ~Threaded, CoalesceInv, NEW c \in Callers, CallerMayRun(c)
  PROVE  /\ \A d \in Callers \ {c} : call[d].at = "idle"
         /\ call[c].at # "register" => \A q \in Procs : Live(q) => inFlight[key[q]] = q
<1>1. \A d \in Callers \ {c} : call[d].at = "idle"
  BY DEF CallerMayRun, RunningCaller
<1> QED
  BY <1>1 DEF CoalesceInv

\* Such a step of it that makes nothing live and leaves the registry, the
\* epochs and fresh data alone.
LEMMA CoalesceQuiet ==
  ASSUME CoalesceInv, NEW c \in Callers, call \in [Callers -> CallType],
         \A d \in Callers \ {c} : call[d].at = "idle", call[c].at # "register",
         NEW r, call' = [call EXCEPT ![c] = r],
         UNCHANGED <<kind, key, inFlight, epoch, began>>,
         \A p \in Procs : Live(p)' => Live(p) /\ pc'[p] = pc[p],
         r.at \notin {"register", "drain"}, r.at = "spawn" => r.op = "refetch",
         Cleared(c)' => /\ r.key = call[c].key /\ r.proc = call[c].proc /\ r.op = call[c].op
                        /\ Cleared(c),
         FreshMeansCurrent'
  PROVE  CoalesceInv'
<1>1. call'[c] = r /\ \A d \in Callers \ {c} : call'[d] = call[d]
  OBVIOUS
<1>2. /\ \A p \in Procs : kind'[p] \in {"none", "spawn"}
      /\ \A d \in Callers : call'[d].at \in {"spawn", "register"} => call'[d].op = "refetch"
      /\ \A d \in Callers, p \in Procs : call'[d].at = "drain" => ~Live(p)'
  BY <1>1 DEF CoalesceInv
<1>3. \A p \in Procs : Live(p)' => inFlight'[key'[p]] = p
  BY DEF CoalesceInv
<1>4. \A p \in Procs : Live(p)' /\ Writing(p)' => began'[p] = epoch'[key'[p]]
  BY DEF CoalesceInv, Writing
<1>5. \A d \in Callers, p \in Procs :
        Cleared(d)' /\ key'[p] = call'[d].key => ~Live(p)' \/ (call'[d].op = "refetch" /\ p = call'[d].proc)
  <2>1. \A d \in Callers \ {c} : ~Cleared(d)'
    BY <1>1 DEF Cleared
  <2> QED
    BY <1>1, <2>1 DEF CoalesceInv
<1> QED
  BY <1>2, <1>3, <1>4, <1>5 DEF CoalesceInv

LEMMA CoalesceNextKey ==
  ASSUME ~Threaded, FetchInv, ThreadInv, CoalesceInv, NEW c \in Callers, NextKey(c)
  PROVE  CoalesceInv'
<1>0. /\ inFlight \in [Keys -> Procs \cup {NoProc}] /\ call \in [Callers -> CallType]
      /\ aborted \in [Procs -> BOOLEAN]
  BY DEF FetchInv, TypeOK, CallType
<1>1. /\ CallerMayRun(c) /\ call[c].at = "loop"
      /\ UNCHANGED <<kind, key, pc, began, cache, epoch>>
  BY DEF NextKey, At
<1>2. /\ \A d \in Callers \ {c} : call[d].at = "idle"
      /\ \A q \in Procs : Live(q) => inFlight[key[q]] = q
  BY <1>1, CallerAlone
<1>3. PICK k \in call[c].todo :
        LET skip == call[c].op \in Skipping /\ ~cache[k].has
            kills == call[c].op \in Killing /\ ~skip
        IN /\ call' = [call EXCEPT ![c].todo = @ \ {k},
                                   ![c].key = k,
                                   ![c].hit = kills /\ inFlight[k] # NoProc,
                                   ![c].at = IF skip THEN "loop" ELSE "cache"]
           /\ IF kills THEN Kill(k) ELSE UNCHANGED <<inFlight, token, aborted>>
  BY DEF NextKey
<1>4. k \in Keys
  BY <1>0, <1>3 DEF CallType
<1>5. /\ call'[c].op = call[c].op /\ call'[c].key = k /\ call'[c].at \in {"loop", "cache"}
      /\ \A d \in Callers \ {c} : call'[d] = call[d]
  BY <1>0, <1>3 DEF CallType
<1>6. Kill(k) \/ UNCHANGED <<inFlight, aborted>>
  BY <1>3
<1>7. call[c].op \in {"refetch", "invalidate"} => Kill(k)
  BY <1>3 DEF Killing, Skipping
<1>8. ASSUME NEW q \in Procs, Live(q)'
      PROVE  Live(q) /\ inFlight'[key[q]] = q /\ (Kill(k) => key[q] # k)
  <2>1. CASE Kill(k)
    <3>1. aborted[q] => aborted'[q]
      BY <2>1, KillMoves, <1>4
    <3>2. Live(q) /\ inFlight[key[q]] = q
      BY <1>1, <1>2, <1>8, <3>1 DEF Live
    <3>3. key[q] # k
      BY <1>4, <1>8, <2>1, <3>2, KillMoves DEF Live
    <3>4. key[q] \in Keys
      BY <3>2 DEF FetchInv, TaskInv, Live, Inactive
    <3> QED
      BY <1>4, <2>1, <3>2, <3>3, <3>4, KillMoves
  <2>2. CASE UNCHANGED <<inFlight, aborted>> /\ ~Kill(k)
    BY <1>1, <1>2, <1>8, <2>2 DEF Live
  <2> QED
    BY <1>6, <2>1, <2>2
<1>9. \A d \in Callers, p \in Procs :
        Cleared(d)' /\ key'[p] = call'[d].key => ~Live(p)' \/ (call'[d].op = "refetch" /\ p = call'[d].proc)
  BY <1>1, <1>2, <1>5, <1>7, <1>8 DEF Cleared
<1> QED
  BY <1>1, <1>2, <1>5, <1>8, <1>9 DEF CoalesceInv, FreshMeansCurrent, Writing

LEMMA CoalesceUpdate ==
  ASSUME ~Threaded, FetchInv, ThreadInv, CoalesceInv, NEW c \in Callers, UpdateCache(c)
  PROVE  CoalesceInv'
<1>0. /\ call \in [Callers -> CallType] /\ cache \in [Keys -> CacheType] /\ epoch \in [Keys -> Nat]
  BY DEF FetchInv, TypeOK, CallType, CacheType
<1>1. /\ CallerMayRun(c) /\ call[c].at = "cache"
      /\ UNCHANGED <<kind, key, pc, began, aborted, inFlight>>
  BY DEF UpdateCache, At, procVars
<1> DEFINE k == call[c].key
<1>2. /\ \A d \in Callers \ {c} : call[d].at = "idle"
      /\ \A q \in Procs : Live(q) => inFlight[key[q]] = q
  BY <1>1, CallerAlone
<1>3. \A q \in Procs : Live(q)' => Live(q) /\ pc'[q] = pc[q]
  BY <1>1 DEF Live
<1>4. CASE call[c].op = "invalidate"
  <2>1. /\ call' = [call EXCEPT ![c].at = "loop"] /\ MarkStale(k)
        /\ epoch' = IF cache[k].has THEN [epoch EXCEPT ![k] = @ + 1] ELSE epoch
    BY <1>4 DEF UpdateCache, Skipping
  <2>2. \A q \in Procs : key[q] = k => ~Live(q)
    BY <1>1, <1>4 DEF CoalesceInv, Cleared
  <2>3. \A q \in Procs : Live(q) => epoch'[key[q]] = epoch[key[q]]
    BY <1>0, <2>1, <2>2
  <2>4. FreshMeansCurrent'
    <3>1. CASE cache[k].has
      <4>1. \A j \in Keys : IF j = k THEN cache'[j].stale
                                     ELSE cache'[j] = cache[j] /\ epoch'[j] = epoch[j]
        BY <1>0, <2>1, <3>1 DEF MarkStale, CacheType
      <4> QED
        BY <4>1 DEF CoalesceInv, FreshMeansCurrent
    <3>2. CASE ~cache[k].has
      BY <2>1, <3>2 DEF MarkStale, CoalesceInv, FreshMeansCurrent
    <3> QED
      BY <3>1, <3>2
  <2>5. call'[c].at = "loop" /\ \A d \in Callers \ {c} : call'[d] = call[d]
    BY <1>0, <2>1 DEF CallType
  <2>6. \A d \in Callers : call'[d].at \in {"idle", "loop"}
    BY <1>2, <2>5
  <2>7. \A d \in Callers : ~Cleared(d)'
    BY <2>6 DEF Cleared
  <2> QED
    BY <1>1, <1>2, <1>3, <2>3, <2>4, <2>6, <2>7 DEF CoalesceInv, Writing
<1>5. CASE call[c].op # "invalidate"
  <2>1. epoch' = epoch /\ call' = [call EXCEPT ![c].at = "notify"]
    BY <1>5 DEF UpdateCache
  <2> DEFINE r == [call[c] EXCEPT !.at = "notify"]
  <2>2. /\ call' = [call EXCEPT ![c] = r] /\ r.at = "notify" /\ r.key = call[c].key
        /\ r.proc = call[c].proc /\ r.op = call[c].op
    BY <1>0, <2>1 DEF CallType
  <2>3. Cleared(c)' => Cleared(c)
    BY <1>0, <1>1, <2>2 DEF Cleared
  <2>4. FreshMeansCurrent'
    <3>1. \/ cache' = cache
          \/ cache' = [cache EXCEPT ![k] = NoEntry]
          \/ cache[k].has /\ cache' = [cache EXCEPT ![k].stale = TRUE]
          \/ Insert(k, epoch[k])
      BY <1>5 DEF UpdateCache, MarkStale
    <3>2. \A j \in Keys : \/ cache'[j] = cache[j]
                          \/ ~cache'[j].has \/ cache'[j].stale
                          \/ cache'[j].epoch = epoch[j]
      BY <1>0, <3>1 DEF NoEntry, Insert, CacheType
    <3> QED
      BY <2>1, <3>2 DEF CoalesceInv, FreshMeansCurrent
  <2>5. /\ call[c].at # "register" /\ r.at \notin {"register", "drain", "spawn"}
        /\ UNCHANGED <<kind, key, inFlight, epoch, began>>
    BY <1>1, <2>1, <2>2
  <2> HIDE DEF r
  <2> QED
    BY <1>0, <1>2, <1>3, <2>2, <2>3, <2>4, <2>5, CoalesceQuiet
<1> QED
  BY <1>4, <1>5

LEMMA CoalesceHand ==
  ASSUME ~Threaded, FetchInv, ThreadInv, CoalesceInv, NEW c \in Callers,
         SpawnTask(c) \/ RegisterTask(c)
  PROVE  CoalesceInv'
<1>0. /\ call \in [Callers -> CallType] /\ inFlight \in [Keys -> Procs \cup {NoProc}]
      /\ pc \in [Procs -> Places] /\ CallInv /\ TaskInv
  BY DEF FetchInv, TypeOK, CallType
<1>1. /\ CallerMayRun(c) /\ call[c].at \in {"spawn", "register"}
      /\ UNCHANGED <<kind, key, began, aborted, cache, epoch>>
  BY DEF SpawnTask, RegisterTask, At, procVars
<1>2. \A d \in Callers \ {c} : call[d].at = "idle"
  BY <1>1, CallerAlone
<1>p. PICK p \in Procs : p = call[c].proc
  BY <1>0, <1>1 DEF CallInv, Pending, CoalesceInv
<1>3. /\ key[p] = call[c].key /\ call[c].op = "refetch" /\ Cleared(c)
      /\ call[c].at = "spawn" => pc[p] = "called"
      /\ call[c].at = "register" => pc[p] = "ready"
  BY <1>0, <1>1, <1>p DEF CallInv, Pending, ThreadInv, CoalesceInv, Cleared
<1>4. \A q \in Procs \ {p} : key[q] = key[p] => ~Live(q)
  BY <1>p, <1>3 DEF CoalesceInv
<1>5. \A q \in Procs \ {p} : Live(q) => inFlight[key[q]] = q
  BY <1>1, <1>2, <1>p DEF CoalesceInv
<1>6. FreshMeansCurrent'
  BY <1>1 DEF CoalesceInv, FreshMeansCurrent
<1>7. ASSUME \A q \in Procs \ {p} : Live(q)' => Live(q) /\ pc'[q] = pc[q] /\ inFlight'[key[q]] = q,
             Live(p)' => ~Writing(p)',
             Live(p)' => \/ inFlight'[key[p]] = p
                         \/ call'[c].at = "register" /\ call'[c].proc = p,
             \/ call'[c].at = "idle"
             \/ /\ call'[c].at = "register" /\ call'[c].op = "refetch" /\ call'[c].proc = p
                /\ call'[c].key = key[p],
             \A d \in Callers \ {c} : call'[d] = call[d]
      PROVE  CoalesceInv'
  <2>1. \A d \in Callers, q \in Procs :
          Cleared(d)' /\ key'[q] = call'[d].key =>
            ~Live(q)' \/ (call'[d].op = "refetch" /\ q = call'[d].proc)
    BY <1>1, <1>2, <1>4, <1>7 DEF Cleared
  <2>2. \A q \in Procs : Live(q)' => \/ inFlight'[key'[q]] = q
                                     \/ \E d \in Callers : call'[d].at = "register" /\ call'[d].proc = q
    BY <1>1, <1>7
  <2>3. \A q \in Procs : Live(q)' /\ Writing(q)' => began'[q] = epoch'[key'[q]]
    BY <1>1, <1>7 DEF CoalesceInv, Writing
  <2>4. \A d \in Callers : /\ call'[d].at \in {"spawn", "register"} => call'[d].op = "refetch"
                           /\ call'[d].at # "drain"
    BY <1>2, <1>7
  <2> QED
    BY <1>1, <1>6, <2>1, <2>2, <2>3, <2>4 DEF CoalesceInv
<1>8. CASE SpawnTask(c)
  <2>1. call[c].at = "spawn" /\ inFlight' = inFlight
    BY <1>8 DEF SpawnTask, At
  <2>2. \/ pc' = [pc EXCEPT ![p] = "done"] /\ call' = [call EXCEPT ![c] = NoCall]
        \/ pc' = [pc EXCEPT ![p] = "ready"] /\ call' = [call EXCEPT ![c].at = "register"]
    BY <1>p, <1>8 DEF SpawnTask, Goto
  <2>3. \A q \in Procs \ {p} : pc'[q] = pc[q]
    BY <1>0, <2>2
  <2>4. pc'[p] \in {"done", "ready"} /\ (pc'[p] = "ready" => call'[c].at = "register")
    BY <1>0, <1>3, <2>2 DEF CallType
  <2>5. \/ call'[c].at = "idle"
        \/ /\ call'[c].at = "register" /\ call'[c].op = "refetch" /\ call'[c].proc = p
           /\ call'[c].key = key[p]
    BY <1>0, <1>p, <1>3, <2>2 DEF CallType, NoCall
  <2>6. \A d \in Callers \ {c} : call'[d] = call[d]
    BY <1>0, <2>2
  <2>7. \A q \in Procs \ {p} : Live(q)' => Live(q) /\ pc'[q] = pc[q] /\ inFlight'[key[q]] = q
    BY <1>1, <1>5, <2>1, <2>3 DEF Live
  <2>8. /\ Live(p)' => ~Writing(p)'
        /\ Live(p)' => call'[c].at = "register" /\ call'[c].proc = p
    BY <2>4, <2>5 DEF Live, Writing, Inactive
  <2> QED
    BY <1>7, <2>5, <2>6, <2>7, <2>8
<1>9. CASE RegisterTask(c)
  <2>1. /\ call[c].at = "register" /\ pc' = pc /\ call' = [call EXCEPT ![c] = NoCall]
        /\ inFlight' = [inFlight EXCEPT ![key[p]] = p]
    BY <1>p, <1>3, <1>9 DEF RegisterTask, At, procVars
  <2>2. \A q \in Procs \ {p} : Live(q)' => Live(q) /\ key[q] # key[p]
    BY <1>1, <1>4, <2>1 DEF Live
  <2>3. \A q \in Procs \ {p} : Live(q)' => Live(q) /\ pc'[q] = pc[q] /\ inFlight'[key[q]] = q
    BY <1>0, <1>5, <2>1, <2>2
  <2>4. Live(p)' => ~Writing(p)' /\ inFlight'[key[p]] = p
    <3>1. pc[p] = "ready" /\ key[p] \in Keys
      BY <1>0, <1>3, <2>1 DEF TaskInv
    <3> QED
      BY <1>0, <2>1, <3>1 DEF Writing
  <2>5. call'[c].at = "idle" /\ \A d \in Callers \ {c} : call'[d] = call[d]
    BY <1>0, <2>1 DEF NoCall
  <2> QED
    BY <1>7, <2>3, <2>4, <2>5
<1> QED
  BY <1>8, <1>9

LEMMA CoalesceClear ==
  ASSUME ~Threaded, FetchInv, ThreadInv, CoalesceInv, NEW c \in Callers,
         ClearCancel(c) \/ ClearRegistry(c)
  PROVE  CoalesceInv'
<1>0. /\ call \in [Callers -> CallType] /\ inFlight \in [Keys -> Procs \cup {NoProc}]
      /\ aborted \in [Procs -> BOOLEAN] /\ TaskInv
  BY DEF FetchInv, TypeOK, CallType
<1>1. /\ CallerMayRun(c) /\ call[c].at \in {"cancel", "drain"}
      /\ UNCHANGED <<kind, key, pc, began, cache, epoch>>
  BY DEF ClearCancel, ClearRegistry, At, procVars, storeVars
<1>2. /\ \A d \in Callers \ {c} : call[d].at = "idle"
      /\ \A q \in Procs : Live(q) => inFlight[key[q]] = q
  BY <1>1, CallerAlone
<1>3. \A q \in Procs : ~Live(q)'
  <2>1. CASE ClearCancel(c)
    <3>1. ASSUME NEW q \in Procs, Live(q) PROVE aborted'[q]
      <4>1. key[q] \in Keys /\ inFlight[key[q]] = q
        BY <1>0, <1>2, <3>1 DEF TaskInv, Live, Inactive
      <4> QED
        BY <2>1, <4>1 DEF ClearCancel
    <3>2. \A q \in Procs : aborted[q] => aborted'[q]
      BY <2>1 DEF ClearCancel
    <3> QED
      BY <1>1, <3>1, <3>2 DEF Live
  <2>2. CASE ClearRegistry(c)
    BY <2>2 DEF ClearRegistry, At, procVars, CoalesceInv, Live
  <2> QED
    BY <2>1, <2>2
<1>4. \A d \in Callers : call'[d].at \in {"idle", "drain", "wipe"}
  BY <1>0, <1>2 DEF ClearCancel, ClearRegistry, CallType
<1>5. FreshMeansCurrent'
  BY <1>1 DEF CoalesceInv, FreshMeansCurrent
<1> QED
  BY <1>1, <1>3, <1>4, <1>5 DEF CoalesceInv

LEMMA CoalesceCaller ==
  ASSUME ~Threaded, FetchInv, ThreadInv, CoalesceInv, NEW c \in Callers, CallerStep(c)
  PROVE  CoalesceInv'
<1>0. call \in [Callers -> CallType] /\ cache \in [Keys -> CacheType]
  BY DEF FetchInv, TypeOK, CallType, CacheType
<1>1. CASE NotifyKey(c)
  <2>1. PICK a \in {"loop", "spawn"} : /\ call' = [call EXCEPT ![c].at = a]
                                       /\ call[c].op = "refetch" <=> a = "spawn"
    BY <1>1 DEF NotifyKey
  <2> DEFINE r == [call[c] EXCEPT !.at = a]
  <2>2. /\ call' = [call EXCEPT ![c] = r] /\ r.at = a /\ r.key = call[c].key
        /\ r.proc = call[c].proc /\ r.op = call[c].op
    BY <1>0, <2>1 DEF CallType
  <2>3. /\ CallerMayRun(c) /\ call[c].at = "notify"
        /\ UNCHANGED <<kind, key, pc, began, aborted, cache, inFlight, epoch>>
    BY <1>1 DEF NotifyKey, At, procVars, storeVars
  <2>4. /\ Cleared(c)' => Cleared(c)
        /\ \A q \in Procs : Live(q)' => Live(q) /\ pc'[q] = pc[q]
        /\ FreshMeansCurrent'
    BY <1>0, <2>1, <2>2, <2>3 DEF Cleared, Live, CoalesceInv, FreshMeansCurrent
  <2>5. /\ call[c].at # "register" /\ r.at \notin {"register", "drain"}
        /\ r.at = "spawn" => r.op = "refetch"
        /\ UNCHANGED <<kind, key, inFlight, epoch, began>>
        /\ \A d \in Callers \ {c} : call[d].at = "idle"
    BY <2>1, <2>2, <2>3, CallerAlone
  <2> HIDE DEF r
  <2> QED
    BY <1>0, <2>2, <2>4, <2>5, CoalesceQuiet
<1>2. CASE FlagMatches(c) \/ ClearCache(c) \/ Return(c)
  <2>1. /\ CallerMayRun(c) /\ call[c].at \in {"flag", "wipe", "loop"}
        /\ UNCHANGED <<kind, key, pc, began, aborted, inFlight, epoch>>
    BY <1>2 DEF FlagMatches, ClearCache, Return, At, procVars, storeVars
  <2>2. PICK r : call' = [call EXCEPT ![c] = r] /\ r.at \in {"loop", "idle"}
    <3>1. CASE FlagMatches(c)
      <4>1. PICK selected : call' = [call EXCEPT ![c].op = "trigger_refetch", ![c].at = "loop",
                                                 ![c].todo = selected]
        BY <3>1 DEF FlagMatches
      <4> DEFINE s == [call[c] EXCEPT !.op = "trigger_refetch", !.at = "loop", !.todo = selected]
      <4>2. call' = [call EXCEPT ![c] = s] /\ s.at = "loop"
        BY <1>0, <4>1 DEF CallType
      <4> QED
        BY <4>2
    <3>2. CASE ClearCache(c)
      <4> DEFINE s == [call[c] EXCEPT !.at = "loop"]
      <4>1. call' = [call EXCEPT ![c] = s] /\ s.at = "loop"
        BY <1>0, <3>2 DEF CallType, ClearCache
      <4> QED
        BY <4>1
    <3>3. CASE Return(c)
      <4>1. call' = [call EXCEPT ![c] = NoCall] /\ NoCall.at = "idle"
        BY <3>3 DEF Return, NoCall
      <4> QED
        BY <4>1
    <3> QED
      BY <1>2, <3>1, <3>2, <3>3
  <2>3. /\ ~Cleared(c)'
        /\ \A q \in Procs : Live(q)' => Live(q) /\ pc'[q] = pc[q]
    BY <1>0, <2>1, <2>2 DEF Cleared, Live
  <2>4. FreshMeansCurrent'
    <3>1. \A k \in Keys : cache'[k] = cache[k] \/ ~cache'[k].has \/ cache'[k].stale
      BY <1>0, <1>2 DEF FlagMatches, ClearCache, Return, storeVars, NoEntry, CacheType
    <3> QED
      BY <2>1, <3>1 DEF CoalesceInv, FreshMeansCurrent
  <2> QED
    BY <1>0, <2>1, <2>2, <2>3, <2>4, CoalesceQuiet, CallerAlone
<1> QED
  BY <1>1, <1>2, CoalesceNextKey, CoalesceUpdate, CoalesceHand, CoalesceClear DEF CallerStep

LEMMA CoalesceCall ==
  ASSUME ~Threaded, FetchInv, ThreadInv, CoalesceInv, "spawn" \notin Ops,
         NEW c \in Callers, Call(c)
  PROVE  CoalesceInv'
<1>0. /\ call \in [Callers -> CallType] /\ pc \in [Procs -> Places]
      /\ key \in [Procs -> Keys \cup {NoKey}]
      /\ kind \in [Procs -> {"none", "spawn", "execute", "fetch"}]
  BY DEF FetchInv, TypeOK, CallType
<1>1. /\ CallerMayRun(c) /\ call[c].at = "idle"
      /\ UNCHANGED <<inFlight, cache, epoch, began, aborted>>
  BY DEF Call, CallClear, CallCancelQuery, CallSetQueryData, CallSpawn, CallFiltered, Enter,
         procVars, storeVars
<1>2. /\ \A d \in Callers : call[d].at = "idle"
      /\ \A q \in Procs : Live(q) => inFlight[key[q]] = q
  BY <1>1, CallerAlone
<1>3. PICK r : /\ call' = [call EXCEPT ![c] = r]
               /\ r.at \in {"loop", "flag", "cache", "cancel"}
               /\ (r.at = "cache" => r.op = "set_query_data")
  <2>1. CASE CallClear(c)
    <3> DEFINE s == [NoCall EXCEPT !.op = "clear", !.at = "cancel"]
    <3>1. call' = [call EXCEPT ![c] = s] /\ s.at = "cancel"
      BY <2>1 DEF CallClear, Enter, NoCall
    <3> QED
      BY <3>1
  <2>2. CASE \E k \in Keys : CallCancelQuery(c, k)
    <3>1. PICK k \in Keys : CallCancelQuery(c, k)
      BY <2>2
    <3> DEFINE s == [NoCall EXCEPT !.op = "cancel_query", !.at = "loop", !.todo = {k}]
    <3>2. call' = [call EXCEPT ![c] = s] /\ s.at = "loop"
      BY <3>1 DEF CallCancelQuery, Enter, NoCall
    <3> QED
      BY <3>2
  <2>3. CASE \E k \in Keys : CallSetQueryData(c, k)
    <3>1. PICK k \in Keys : CallSetQueryData(c, k)
      BY <2>3
    <3> DEFINE s == [NoCall EXCEPT !.op = "set_query_data", !.at = "cache", !.key = k]
    <3>2. call' = [call EXCEPT ![c] = s] /\ s.at = "cache" /\ s.op = "set_query_data"
      BY <3>1 DEF CallSetQueryData, Enter, NoCall
    <3> QED
      BY <3>2
  <2>4. CASE \E p \in Procs, k \in Keys, op \in {"spawn", "refetch"} : CallSpawn(c, p, k, op)
    <3>1. PICK p \in Procs, k \in Keys, op \in {"spawn", "refetch"} : CallSpawn(c, p, k, op)
      BY <2>4
    <3> DEFINE s == [NoCall EXCEPT !.op = "refetch", !.at = "loop", !.todo = {k}, !.proc = p]
               w == [NoCall EXCEPT !.op = "spawn", !.at = "spawn", !.key = k, !.proc = p]
    <3>2. w.op = "spawn" /\ s.op = "refetch" /\ s.at = "loop"
      BY DEF NoCall
    <3>3. \/ op = "spawn" /\ Enter(c, [NoCall EXCEPT !.op = op, !.at = "spawn", !.key = k, !.proc = p])
          \/ op = "refetch" /\ Enter(c, [NoCall EXCEPT !.op = op, !.at = "loop", !.todo = {k}, !.proc = p])
      BY <3>1 DEF CallSpawn
    <3>4. Enter(c, w) \/ Enter(c, s)
      BY <3>3
    <3>5. Enter(c, s)
      BY <3>2, <3>4 DEF Enter
    <3>6. call' = [call EXCEPT ![c] = s]
      BY <3>5 DEF Enter
    <3> QED
      BY <3>2, <3>6
  <2>5. CASE \E op \in FilteredOps, filter \in SUBSET Keys \ {{}} : CallFiltered(c, op, filter)
    <3>1. PICK op \in FilteredOps, filter \in (SUBSET Keys \ {{}}) : CallFiltered(c, op, filter)
      BY <2>5
    <3> DEFINE s == [NoCall EXCEPT !.op = op, !.todo = filter \cap Cached,
                                   !.at = IF op = "invalidate_filtered" THEN "flag" ELSE "loop"]
    <3>2. call' = [call EXCEPT ![c] = s] /\ s.at \in {"flag", "loop"}
      BY <3>1 DEF CallFiltered, Enter, NoCall
    <3> QED
      BY <3>2
  <2> QED
    BY <2>1, <2>2, <2>3, <2>4, <2>5 DEF Call
<1>4. call'[c] = r /\ \A d \in Callers \ {c} : call'[d] = call[d]
  BY <1>0, <1>3
<1>5. \/ UNCHANGED <<kind, key, pc>>
      \/ \E p \in Procs, k \in Keys :
           /\ pc[p] = "new" /\ kind' = [kind EXCEPT ![p] = "spawn"]
           /\ key' = [key EXCEPT ![p] = k] /\ pc' = [pc EXCEPT ![p] = "called"]
  BY DEF Call, CallClear, CallCancelQuery, CallSetQueryData, CallSpawn, CallFiltered,
         procVars, Goto
<1>6. \A q \in Procs : /\ kind'[q] \in {kind[q], "spawn"}
                       /\ Live(q)' => Live(q) /\ pc'[q] = pc[q] /\ key'[q] = key[q]
  <2>1. CASE UNCHANGED <<kind, key, pc>>
    BY <1>1, <2>1 DEF Live
  <2>2. CASE \E p \in Procs, k \in Keys :
               /\ pc[p] = "new" /\ kind' = [kind EXCEPT ![p] = "spawn"]
               /\ key' = [key EXCEPT ![p] = k] /\ pc' = [pc EXCEPT ![p] = "called"]
    <3>1. PICK p \in Procs, k \in Keys :
               /\ pc[p] = "new" /\ kind' = [kind EXCEPT ![p] = "spawn"]
               /\ key' = [key EXCEPT ![p] = k] /\ pc' = [pc EXCEPT ![p] = "called"]
      BY <2>2
    <3>2. ~Live(p)' /\ kind'[p] = "spawn"
      BY <1>0, <3>1 DEF Live, Inactive
    <3>3. \A q \in Procs \ {p} : pc'[q] = pc[q] /\ key'[q] = key[q] /\ kind'[q] = kind[q]
      BY <1>0, <3>1
    <3> QED
      BY <1>1, <3>2, <3>3 DEF Live
  <2> QED
    BY <1>5, <2>1, <2>2
<1>7. \A d \in Callers : /\ call'[d].at \notin {"spawn", "register", "drain"}
                         /\ ~Cleared(d)'
  BY <1>2, <1>3, <1>4 DEF Cleared
<1>8. \A p \in Procs : kind'[p] \in {"none", "spawn"}
  BY <1>6 DEF CoalesceInv
<1>9. FreshMeansCurrent'
  BY <1>1 DEF CoalesceInv, FreshMeansCurrent
<1>10. \A q \in Procs : Live(q)' => /\ inFlight'[key'[q]] = q
                                    /\ Writing(q)' => began'[q] = epoch'[key'[q]]
  BY <1>1, <1>2, <1>6 DEF CoalesceInv, Writing
<1> QED
  BY <1>7, <1>8, <1>9, <1>10 DEF CoalesceInv

LEMMA CoalesceRest ==
  ASSUME ~Threaded, FetchInv, CoalesceInv, Ops \cap {"execute", "fetch", "ensure"} = {},
         \/ \E p \in Procs : CancelToken(p) \/ DropHandle(p)
         \/ \E p \in Procs, k \in Keys :
              (\E op \in {"execute", "fetch"} : StartDirect(p, k, op)) \/ StartEnsure(p, k)
         \/ \E expired \in SUBSET Keys : Gc(expired)
         \/ \E b \in BOOLEAN : SetOnline(b) \/ SetRestoring(b)
  PROVE  CoalesceInv'
<1>0. aborted \in [Procs -> BOOLEAN]
  BY DEF FetchInv, TypeOK
<1>g. CASE \E expired \in SUBSET Keys : Gc(expired)
  <2>1. /\ UNCHANGED <<kind, key, pc, aborted, began, inFlight, epoch, call>>
        /\ \A k \in Keys : cache'[k] = cache[k] \/ ~cache'[k].has
    BY <1>g DEF Gc, procVars, NoEntry
  <2>2. FreshMeansCurrent'
    BY <2>1 DEF CoalesceInv, FreshMeansCurrent
  <2> QED
    BY <2>1, <2>2 DEF CoalesceInv, Live, Writing, Cleared
<1> SUFFICES ASSUME ~\E expired \in SUBSET Keys : Gc(expired) PROVE CoalesceInv'
  BY <1>g
<1>1. /\ Quiet /\ UNCHANGED <<kind, key, pc, began, inFlight, epoch, call>>
      /\ \A k \in Keys : cache'[k] = cache[k] \/ ~cache'[k].has
      /\ aborted' = aborted \/ \E p \in Procs : aborted' = [aborted EXCEPT ![p] = TRUE]
  BY DEF CancelToken, DropHandle, StartDirect, StartEnsure, SetOnline, SetRestoring,
         procVars, storeVars
<1>2. \A q \in Procs : Live(q)' => Live(q) /\ pc'[q] = pc[q]
  BY <1>0, <1>1 DEF Live
<1>3. \A d \in Callers : call'[d] = call[d] /\ call[d].at = "idle" /\ ~Cleared(d)'
  BY <1>1 DEF Quiet, RunningCaller, Cleared
<1>4. FreshMeansCurrent'
  BY <1>1 DEF CoalesceInv, FreshMeansCurrent
<1>5. \A q \in Procs : Live(q)' => /\ inFlight'[key'[q]] = q
                                   /\ Writing(q)' => began'[q] = epoch'[key'[q]]
  BY <1>1, <1>2, <1>3 DEF CoalesceInv, Writing
<1>6. \A p \in Procs : kind'[p] \in {"none", "spawn"}
  BY <1>1 DEF CoalesceInv
<1> QED
  BY <1>3, <1>4, <1>5, <1>6 DEF CoalesceInv

LEMMA CoalesceInvStep ==
  ASSUME ~Threaded, Ops \cap StartOps \subseteq {"refetch"}
  PROVE  FetchInv /\ ThreadInv /\ CoalesceInv /\ [Next]_vars => CoalesceInv'
<1> SUFFICES ASSUME FetchInv, ThreadInv, CoalesceInv, [Next]_vars PROVE CoalesceInv'
  OBVIOUS
<1>0. "spawn" \notin Ops /\ Ops \cap {"execute", "fetch", "ensure"} = {}
  BY DEF StartOps
<1>1. CASE UNCHANGED vars
  BY <1>1 DEF vars, procVars, storeVars, CoalesceInv, Live, Cleared, Writing, FreshMeansCurrent
<1> QED
  BY <1>0, <1>1, CoalesceProc, CoalesceCaller, CoalesceCall, CoalesceRest DEF Next

LEMMA CoalesceAlways ==
  ASSUME ~Threaded, Ops \cap StartOps \subseteq {"refetch"}
  PROVE  Spec => [](FetchInv /\ ThreadInv /\ CoalesceInv)
<1>1. Init => FetchInv /\ ThreadInv /\ CoalesceInv
  BY FetchInvInit, ThreadInvInit
     DEF Init, CoalesceInv, Live, Inactive, Cleared, FreshMeansCurrent, NoCall, NoEntry
<1>2. FetchInv /\ ThreadInv /\ CoalesceInv /\ [Next]_vars => (FetchInv /\ ThreadInv /\ CoalesceInv)'
  BY FetchInvStep, ThreadInvStep, CoalesceInvStep
<1> QED
  BY <1>1, <1>2, PTL DEF Spec

\* README "concurrent fetches for a key coalesce": on one thread, when fetches
\* are started by UseQuery::refetch, no two executions that were not aborted
\* have a fetch function outstanding for one key, whatever else the application
\* calls (invalidate, cancel, reset, remove, clear, set_query_data, dropped
\* handles) between any two suspension points.
THEOREM RefetchCoalesces ==
  ASSUME ~Threaded, Ops \cap StartOps \subseteq {"refetch"}
  PROVE  Spec => []OneFetchPerKey
<1>1. FetchInv /\ ThreadInv /\ CoalesceInv => OneFetchPerKey
  <2> SUFFICES ASSUME FetchInv, ThreadInv, CoalesceInv, NEW k \in Keys, NEW p \in Procs, NEW q \in Procs,
                      key[p] = k, pc[p] \in {"polling", "parked", "resolving"}, ~aborted[p],
                      key[q] = k, pc[q] \in {"polling", "parked", "resolving"}, ~aborted[q]
               PROVE  p = q
    BY DEF OneFetchPerKey
  <2>1. Live(p) /\ Live(q)
    BY DEF Live, Inactive
  <2>2. \A c \in Callers : call[c].at = "register" => call[c].proc \notin {p, q}
    BY DEF ThreadInv
  <2> QED
    BY <2>1, <2>2 DEF CoalesceInv
<1> QED
  BY <1>1, CoalesceAlways, PTL

\* invalidate_queries kills the fetch of a key before it sets the flag, so data
\* without the flag is always data of an attempt that began after the last
\* invalidation (or was written by set_query_data after it): on one thread,
\* with fetches started by refetch.
THEOREM FreshIsCurrent ==
  ASSUME ~Threaded, Ops \cap StartOps \subseteq {"refetch"}
  PROVE  Spec => []FreshMeansCurrent
<1>1. CoalesceInv => FreshMeansCurrent
  BY DEF CoalesceInv
<1> QED
  BY <1>1, CoalesceAlways, PTL

-----------------------------------------------------------------------------
(***************************************************************************)
(* One thread: no fetch begins during a restore                            *)
(***************************************************************************)

\* An execution in an attempt or between two has counted one; and one that is
\* past the check of a restore and has not begun runs without suspending, so
\* that no restore starts meanwhile.
AttemptInv ==
  /\ \A p \in Procs :
       pc[p] \in {"polling", "parked", "resolving", "offline", "sleeping"} => tries[p] # 0
  /\ \A p \in Procs : pc[p] \in {"gate", "loop"} /\ tries[p] = 0 => ~restoring

LEMMA AttemptInvStep ==
  ~Threaded /\ FetchInv /\ AttemptInv /\ [Next]_vars => AttemptInv'
<1> SUFFICES ASSUME ~Threaded, FetchInv, AttemptInv, [Next]_vars PROVE AttemptInv'
  OBVIOUS
<1>0. pc \in [Procs -> Places] /\ tries \in [Procs -> 0 .. MaxRetries + 1] /\ MaxRetries \in Nat
  BY QueryFetchAssumption DEF FetchInv, TypeOK
<1>1. ASSUME NEW p \in Procs, ProcStep(p) PROVE AttemptInv'
  <2>1. restoring' = restoring
    BY <1>1 DEF ProcStep, Begin, Subscribe, Recheck, Receive, Gate, Attempt, FetchPending, FetchWoken,
       FetchOk, FetchCancelled, FetchRetry, FetchFail, FetchPanic, Resume, Backoff, WriteData,
       NotifySuccess, ReadBack, ClearInFlight, EndTask, DropTask, envVars
  <2>2. CASE Attempt(p)
    <3>1. tries[p] + 1 # 0
      BY <1>0
    <3>2. \/ tries' = tries /\ \E x \in {"clear", "done"} : pc' = [pc EXCEPT ![p] = x]
          \/ tries' = [tries EXCEPT ![p] = tries[p] + 1] /\ pc' = [pc EXCEPT ![p] = "polling"]
      BY <2>2 DEF Attempt, Finish, Goto
    <3> QED
      BY <1>0, <2>1, <3>1, <3>2 DEF AttemptInv
  <2>3. CASE ~Attempt(p)
    <3>1. tries' = tries
      BY <1>1, <2>3 DEF ProcStep, Begin, Subscribe, Recheck, Receive, Gate, FetchPending, FetchWoken,
         FetchOk, FetchCancelled, FetchRetry, FetchFail, FetchPanic, Resume, Backoff, WriteData,
         NotifySuccess, ReadBack, ClearInFlight, EndTask, DropTask
    <3>2. PICK x : /\ pc' = [pc EXCEPT ![p] = x]
                   /\ x \in {"polling", "parked", "resolving", "offline", "sleeping"} =>
                        pc[p] \in {"polling", "parked", "resolving", "offline", "sleeping"}
                   /\ x = "gate" => ~restoring
                   /\ x = "loop" => pc[p] \in {"gate", "sleeping"}
      <4>1. CASE Begin(p) \/ Subscribe(p) \/ Recheck(p) \/ Receive(p) \/ Gate(p)
        BY <1>0, <4>1 DEF Begin, Subscribe, Recheck, Receive, Gate, Finish, Goto, Runs, Resumes
      <4>2. CASE FetchPending(p) \/ FetchWoken(p) \/ FetchOk(p) \/ FetchCancelled(p) \/ FetchRetry(p)
                 \/ FetchFail(p) \/ FetchPanic(p) \/ Resume(p) \/ Backoff(p)
        BY <4>2 DEF FetchPending, FetchWoken, FetchOk, FetchCancelled, FetchRetry, FetchFail, FetchPanic,
           Resume, Backoff, InFetch, Finish, Goto, Runs, Resumes
      <4>3. CASE WriteData(p) \/ NotifySuccess(p) \/ ReadBack(p) \/ ClearInFlight(p) \/ EndTask(p)
                 \/ DropTask(p)
        BY <4>3 DEF WriteData, NotifySuccess, ReadBack, ClearInFlight, EndTask, DropTask, Finish, Goto
      <4> QED
        BY <1>1, <2>3, <4>1, <4>2, <4>3 DEF ProcStep
    <3> QED
      BY <1>0, <2>1, <3>1, <3>2 DEF AttemptInv
  <2> QED
    BY <2>2, <2>3
\* A restore starts only where nobody is between two suspension points.
<1>2. ASSUME NEW b \in BOOLEAN, SetRestoring(b) PROVE AttemptInv'
  <2>1. \A p \in Procs : pc[p] \notin {"gate", "loop"}
    BY <1>2 DEF SetRestoring, Quiet, RunningProc, Suspended, Inactive
  <2>2. UNCHANGED <<pc, tries>>
    BY <1>2 DEF SetRestoring, procVars
  <2> QED
    BY <2>1, <2>2 DEF AttemptInv
<1>3. ASSUME UNCHANGED <<tries, restoring>>,
             \A p \in Procs : pc'[p] = pc[p] \/ pc'[p] \in {"ready", "called", "done"}
      PROVE  AttemptInv'
  BY <1>3 DEF AttemptInv
<1>4. ASSUME NEW c \in Callers, CallerStep(c) PROVE AttemptInv'
  <2>1. ASSUME UNCHANGED procVars, UNCHANGED envVars PROVE AttemptInv'
    BY <1>3, <2>1 DEF procVars, envVars
  <2>2. CASE NextKey(c) \/ ClearCancel(c)
    <3>1. UNCHANGED <<pc, tries>> /\ UNCHANGED envVars
      <4>1. CASE NextKey(c)
        BY <4>1, ZenonT(20) DEF NextKey
      <4>2. CASE ClearCancel(c)
        BY <4>2, ZenonT(20) DEF ClearCancel
      <4> QED
        BY <2>2, <4>1, <4>2
    <3>2. UNCHANGED <<pc, tries, restoring>>
      BY <3>1 DEF envVars
    <3> QED
      BY <1>3, <3>2
  <2>3. CASE SpawnTask(c)
    <3>1. UNCHANGED <<tries, restoring>>
      BY <2>3 DEF SpawnTask, envVars
    <3>2. \E p, x : pc' = [pc EXCEPT ![p] = x] /\ x \in {"ready", "done"}
      BY <2>3 DEF SpawnTask, Goto
    <3> QED
      BY <1>0, <1>3, <3>1, <3>2
  <2>4. CASE UpdateCache(c) \/ NotifyKey(c) \/ FlagMatches(c)
    BY <2>1, <2>4 DEF UpdateCache, NotifyKey, FlagMatches
  <2>5. CASE RegisterTask(c) \/ ClearRegistry(c) \/ ClearCache(c) \/ Return(c)
    BY <2>1, <2>5 DEF RegisterTask, ClearRegistry, ClearCache, Return
  <2> QED
    BY <1>4, <2>2, <2>3, <2>4, <2>5 DEF CallerStep
<1>5. ASSUME NEW c \in Callers, Call(c) PROVE AttemptInv'
  <2>1. ASSUME UNCHANGED procVars, UNCHANGED envVars PROVE AttemptInv'
    BY <1>3, <2>1 DEF procVars, envVars
  <2>2. CASE CallClear(c)
    BY <2>1, <2>2 DEF CallClear
  <2>3. CASE \E k \in Keys : CallCancelQuery(c, k) \/ CallSetQueryData(c, k)
    BY <2>1, <2>3 DEF CallCancelQuery, CallSetQueryData
  <2>4. ASSUME NEW p \in Procs, NEW k \in Keys, NEW op \in {"spawn", "refetch"}, CallSpawn(c, p, k, op)
        PROVE  AttemptInv'
    <3>1. UNCHANGED <<tries, restoring>>
      BY <2>4 DEF CallSpawn, envVars
    <3>2. pc' = [pc EXCEPT ![p] = "called"]
      BY <2>4 DEF CallSpawn, Goto
    <3> QED
      BY <1>0, <1>3, <3>1, <3>2
  <2>5. CASE \E op \in FilteredOps, filter \in SUBSET Keys \ {{}} : CallFiltered(c, op, filter)
    BY <2>1, <2>5 DEF CallFiltered
  <2> QED
    BY <1>5, <2>2, <2>3, <2>4, <2>5 DEF Call
<1>6. ASSUME \E p \in Procs, k \in Keys :
               (\E op \in {"execute", "fetch"} : StartDirect(p, k, op)) \/ StartEnsure(p, k)
      PROVE  AttemptInv'
  <2>1. UNCHANGED <<tries, restoring>>
    BY <1>6 DEF StartDirect, StartEnsure, envVars
  <2>2. \E p, x : pc' = [pc EXCEPT ![p] = x] /\ x \in {"ready", "done"}
    BY <1>6 DEF StartDirect, StartEnsure, Goto
  <2> QED
    BY <1>0, <1>3, <2>1, <2>2
<1>7. ASSUME \/ \E p \in Procs : CancelToken(p) \/ DropHandle(p)
             \/ \E expired \in SUBSET Keys : Gc(expired)
             \/ \E b \in BOOLEAN : SetOnline(b)
             \/ UNCHANGED vars
      PROVE  AttemptInv'
  <2>1. UNCHANGED <<pc, tries, restoring>>
    BY <1>7 DEF CancelToken, DropHandle, Gc, SetOnline, vars, procVars, envVars
  <2> QED
    BY <1>3, <2>1
<1> QED
  BY <1>1, <1>2, <1>4, <1>5, <1>6, <1>7 DEF Next

\* Only the top of the retry loop counts an attempt.
LEMMA OnlyAttemptsCount == [Next]_vars => tries' = tries \/ \E p \in Procs : Attempt(p)
<1> SUFFICES ASSUME [Next]_vars, \A p \in Procs : ~Attempt(p) PROVE tries' = tries
  OBVIOUS
<1>1. ASSUME NEW p \in Procs, ProcStep(p) PROVE tries' = tries
  BY <1>1 DEF ProcStep, Begin, Subscribe, Recheck, Receive, Gate, FetchPending, FetchWoken,
     FetchOk, FetchCancelled, FetchRetry, FetchFail, FetchPanic, Resume, Backoff, WriteData,
     NotifySuccess, ReadBack, ClearInFlight, EndTask, DropTask
<1>2. ASSUME NEW p \in Procs, CancelToken(p) \/ DropHandle(p) PROVE tries' = tries
  BY <1>2 DEF CancelToken, DropHandle
<1>3. ASSUME NEW p \in Procs, NEW k \in Keys, NEW op, StartDirect(p, k, op) PROVE tries' = tries
  BY <1>3 DEF StartDirect
<1>4. ASSUME NEW p \in Procs, NEW k \in Keys, StartEnsure(p, k) PROVE tries' = tries
  BY <1>4 DEF StartEnsure
<1>5. ASSUME NEW c \in Callers, CallerStep(c) PROVE tries' = tries
  <2>1. CASE NextKey(c) \/ ClearCancel(c) \/ SpawnTask(c)
    <3>1. CASE NextKey(c)
      BY <3>1, ZenonT(20) DEF NextKey
    <3>2. CASE ClearCancel(c) \/ SpawnTask(c)
      BY <3>2 DEF ClearCancel, SpawnTask
    <3> QED
      BY <2>1, <3>1, <3>2
  <2>2. CASE UpdateCache(c) \/ NotifyKey(c) \/ FlagMatches(c)
    BY <2>2 DEF UpdateCache, NotifyKey, FlagMatches, procVars
  <2>3. CASE RegisterTask(c) \/ ClearRegistry(c) \/ ClearCache(c) \/ Return(c)
    BY <2>3 DEF RegisterTask, ClearRegistry, ClearCache, Return, procVars
  <2> QED
    BY <1>5, <2>1, <2>2, <2>3 DEF CallerStep
<1>6. ASSUME NEW c \in Callers, Call(c) PROVE tries' = tries
  <2>1. CASE CallClear(c) \/ \E k \in Keys : CallCancelQuery(c, k) \/ CallSetQueryData(c, k)
    <3>1. UNCHANGED procVars
      BY <2>1, ZenonT(20) DEF CallClear, CallCancelQuery, CallSetQueryData
    <3> QED
      BY <3>1 DEF procVars
  <2>2. ASSUME NEW p, NEW k, NEW op, CallSpawn(c, p, k, op) PROVE tries' = tries
    BY <2>2, ZenonT(20) DEF CallSpawn
  <2>3. ASSUME NEW op, NEW filter, CallFiltered(c, op, filter) PROVE tries' = tries
    BY <2>3 DEF CallFiltered, procVars
  <2> QED
    BY <1>6, <2>1, <2>2, <2>3 DEF Call
<1>7. ASSUME NEW expired, Gc(expired) PROVE tries' = tries
  BY <1>7 DEF Gc, procVars
<1>8. ASSUME NEW b, SetOnline(b) \/ SetRestoring(b) PROVE tries' = tries
  BY <1>8 DEF SetOnline, SetRestoring, procVars
<1>9. CASE UNCHANGED vars
  BY <1>9 DEF vars, procVars
<1> QED
  BY <1>1, <1>2, <1>3, <1>4, <1>5, <1>6, <1>7, <1>8, <1>9 DEF Next

\* executor.rs:142 "while client.is_restoring(), no fetch is started": on one
\* thread, the first attempt of an execution never begins during a restore,
\* though the check is made once and the network gate lies between.
THEOREM RestoreHoldsBack == ASSUME ~Threaded PROVE Spec => NoStartWhileRestoring
<1>1. Init => FetchInv /\ AttemptInv
  BY FetchInvInit DEF Init, AttemptInv
<1>2. FetchInv /\ AttemptInv /\ [Next]_vars => FetchInv' /\ AttemptInv'
  BY FetchInvStep, AttemptInvStep
<1>3. FetchInv /\ AttemptInv /\ [Next]_vars =>
        [\A p \in Procs : tries[p] = 0 /\ tries'[p] = 1 => ~restoring]_vars
  <2> SUFFICES ASSUME FetchInv, AttemptInv, [Next]_vars, NEW p \in Procs, tries[p] = 0, tries'[p] = 1
               PROVE  ~restoring
    OBVIOUS
  <2>1. PICK q \in Procs : Attempt(q)
    <3>1. tries' # tries
      BY DEF FetchInv, TypeOK
    <3> QED
      BY <3>1, OnlyAttemptsCount
  <2>2. pc[q] = "loop" /\ (tries' = tries \/ tries' = [tries EXCEPT ![q] = tries[q] + 1])
    BY <2>1 DEF Attempt, Runs
  <2>3. q = p
    <3>1. p \in DOMAIN tries
      BY DEF FetchInv, TypeOK
    <3> QED
      BY <2>2, <3>1
  <2> QED
    BY <2>2, <2>3 DEF AttemptInv
<1> QED
  BY <1>1, <1>2, <1>3, PTL DEF Spec, NoStartWhileRestoring
=============================================================================
