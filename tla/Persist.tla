------------------------------- MODULE Persist -------------------------------
(***************************************************************************)
(* Persistence of a client: the query persister of src/persister.rs, which *)
(* keeps one text per query in a key-value storage, and the persisted      *)
(* client of src/persist_client.rs, which keeps one snapshot of the whole  *)
(* cache and saves it in a loop.  Storages outlive the process.            *)
(*                                                                         *)
(* A call of a storage is an await: its effect is one step, and other      *)
(* tasks run before and after it.  The in-memory storages of the crate are *)
(* eager: they resolve at once, so a caller is not suspended.  Every call  *)
(* of a storage may fail.                                                  *)
(***************************************************************************)
EXTENDS Hydration

CONSTANTS
  Keys,       \* cache keys, in the order of their hashes
  Foreign,    \* storage keys of persisters with other prefixes
  Kin,        \* those of them whose text begins with this prefix and a dash
  Tasks,      \* tasks of the application
  Loop,       \* the task of the save loop
  Setups,     \* what may be going on (AllSetups)
  MaxAge,     \* max_age, in milliseconds
  StaleTime,  \* the stale_time given to restored data
  Start,      \* the clock initially
  MaxNow,     \* bound: the clock
  MaxOps,     \* bound: operations started
  MaxRetries  \* MAX_RESTORE_RETRIES

QueryOps == {"persist_query", "restore_query", "restore_queries", "remove_queries", "persister_gc"}
ClientOps == {"restore_client", "persist_query_client", "persist_with_retry", "save"}
OtherOps == {"write", "unsubscribe"}
Unlimited == 100

NoText == [kind |-> "none", buster |-> 0, data_json |-> serialize_entry_data(Opaque), updated |-> NoTime]
NoBlob == [timestamp_ms |-> NoTime, buster |-> 0,
           state |-> [dehydrated_at_ms |-> 0, queries |-> <<>>]]

\* What a storage may hold under a key: text that parses or not, whose data
\* fits the type or not, or that has no data; saved by now.
Texts == [kind : {"ok", "corrupt", "misfit", "empty"}, buster : 0 .. 1,
          data_json : {serialize_entry_data(1)}, updated : NoTime .. Ms(Start)]

\* A setup says where tasks run, whether storages are eager, how many storage
\* calls may fail, how often the process may crash, what is in the storages at
\* first (under keys, under those of Kin, and for a snapshot, when it was taken),
\* whether restored data may be refetched, whether the retry strategy has a
\* replacement, and which operations are started, how many.
AllSetups ==
  [pool : BOOLEAN, eager : BOOLEAN, faults : {0, 1, Unlimited}, crashes : 0 .. 1,
   texts : SUBSET Texts, kin : SUBSET Texts, blobs : SUBSET (NoTime .. Start), refetch : BOOLEAN,
   replaces : BOOLEAN, ops : SUBSET (QueryOps \cup ClientOps \cup OtherOps), budget : 0 .. MaxOps]

ASSUME PersistAssumption ==
  /\ IsFiniteSet(Keys) /\ Keys # {} /\ Keys \subseteq Nat /\ Keys \cap Foreign = {}
  /\ IsFiniteSet(Kin) /\ Kin \subseteq Foreign \cap Nat
  /\ Loop \notin Tasks
  /\ \A s \in Setups : s \in AllSetups
  /\ MaxAge \in Nat /\ StaleTime \in Nat /\ MaxRetries \in Nat /\ MaxOps \in Nat
  /\ MaxNow \in Nat /\ Start \in 0 .. MaxNow
  /\ PerMs \in Nat \ {0}

VARIABLES
  setup,    \* the setup, chosen initially
  now,      \* the wall clock and the monotonic clock
  boot,     \* when the monotonic clock began
  born,     \* born[d] is when data d was first written
  buster,   \* the buster this version of the application uses
  cache,    \* the cache of the client
  store,    \* the key-value storage of the query persister
  blob,     \* the snapshot the client persister holds
  task,     \* task -> the operation it is in
  flag,     \* the unsubscribe flag of the save loop's handle
  stop,     \* its stop signal was sent
  faults,   \* storage calls that may still fail
  crashes,  \* crashes that may still happen
  ops       \* operations started (bounded by the setup's budget)

storageVars == <<store, blob, faults>>
handleVars == <<flag, stop>>
vars == <<setup, now, boot, born, buster, cache, storageVars, task, handleVars, crashes, ops>>

Everyone == Tasks \cup {Loop}

\* The storage keys that begin with the persister's prefix and a dash.
Prefixed == Keys \cup Kin

\* A task: its operation, where it stands, the keys still to do, the text, the
\* entries or the snapshot in hand, the queries still to hydrate, when it read the
\* storage, and the errors persist_with_retry counted.
NoTask == [op |-> "none", at |-> "idle", todo |-> <<>>, text |-> NoText,
           entries |-> [k \in Prefixed |-> NoText], blob |-> NoBlob,
           qs |-> <<>>, read |-> NoTime, errs |-> 0]

Awaits == {"p_set", "r_get", "r_del", "m_get", "m_del", "g_list", "g_del",
           "c_get", "c_drop", "c_remove", "c_put", "s_put"}
Suspended(t) == task[t].at \in {"idle", "off", "sleep"} \/ (~setup.eager /\ task[t].at \in Awaits)

\* On a framework's executor a task keeps the thread until it is suspended.
MayRun(t) == setup.pool \/ \A u \in Everyone \ {t} : Suspended(u)

Blob(ts) ==
  IF ts = NoTime THEN NoBlob
  ELSE [timestamp_ms |-> Ms(ts), buster |-> 0,
        state |-> dehydrate_state([k \in Keys |-> NewEntry(1, StaleTime, Monus(ts, 1))], ts)]

\* The storages hold what an earlier process left there.  What else shares the
\* storage need not be texts of a persister.
Init ==
  /\ setup \in Setups
  /\ now = Start /\ boot = 0
  /\ born = <<0>>
  /\ buster = 0
  /\ cache = NoCache
  /\ \E f \in [Keys -> setup.texts \cup {NoText}], g \in [Kin -> setup.kin \cup {NoText}] :
       store = [k \in Keys \cup Foreign |->
                  IF k \in Keys THEN f[k] ELSE IF k \in Kin THEN g[k] ELSE [NoText EXCEPT !.kind = "corrupt"]]
  /\ blob \in {Blob(ts) : ts \in setup.blobs \cup {NoTime}}
  /\ task = [t \in Everyone |-> IF t = Loop THEN [NoTask EXCEPT !.at = "off"] ELSE NoTask]
  /\ flag = FALSE /\ stop = FALSE
  /\ faults = setup.faults
  /\ crashes = setup.crashes
  /\ ops = 0

Tick ==
  /\ now < MaxNow
  /\ now' = now + 1
  /\ UNCHANGED <<setup, boot, born, buster, cache, storageVars, task, handleVars, crashes, ops>>

\* The process dies and a new one starts: perhaps another version of the
\* application, perhaps after a reboot.
Crash ==
  /\ crashes > 0
  /\ crashes' = crashes - 1
  /\ \E v \in {0, 1} : buster' = (buster + v) % 2
  /\ boot' \in {boot, now}
  /\ cache' = NoCache
  /\ task' = [t \in Everyone |-> IF t = Loop THEN [NoTask EXCEPT !.at = "off"] ELSE NoTask]
  /\ flag' = FALSE /\ stop' = FALSE
  /\ UNCHANGED <<setup, now, born, storageVars, ops>>

-----------------------------------------------------------------------------
(***************************************************************************)
(* Steps of a task                                                         *)
(***************************************************************************)

Runs(t, place) ==
  /\ MayRun(t) /\ task[t].at = place
  /\ UNCHANGED <<setup, now, boot, born, buster, handleVars, crashes, ops>>

Goes(t, place) == task' = [task EXCEPT ![t].at = place]
Returns(t) == task' = [task EXCEPT ![t] = IF t = Loop THEN [NoTask EXCEPT !.at = "sleep"] ELSE NoTask]

\* A storage call that fails, while any may.
Fails == faults > 0 /\ faults' = (IF faults = Unlimited THEN faults ELSE faults - 1)
Works == faults' = faults

Begin(t, op) ==
  /\ MayRun(t) /\ t \in Tasks /\ task[t].at = "idle"
  /\ op \in setup.ops /\ ops < setup.budget
  /\ ops' = ops + 1
  /\ UNCHANGED <<setup, now, boot, buster, storageVars, crashes>>

HasString(k) == k \in DOMAIN cache /\ default_should_dehydrate_query(cache[k])

\* A fetch or the application writes new data.
Write(t, k) ==
  /\ Begin(t, "write")
  /\ born' = Append(born, now)
  /\ cache' = Put(cache, k, NewEntry(Len(born) + 1, 0, now))
  /\ UNCHANGED <<task, handleVars>>

-----------------------------------------------------------------------------
(***************************************************************************)
(* The query persister                                                     *)
(***************************************************************************)

MutExpiredOrBusted(text, at) == text.buster # buster \/ text.updated = NoTime

\* is_expired_or_busted.
is_expired_or_busted(text, at) ==
  \/ text.buster # buster
  \/ text.updated = NoTime
  \/ Monus(Ms(at), text.updated) > MaxAge

\* A text the persister can use.
Usable(text, at) == text.kind # "corrupt" /\ ~is_expired_or_busted(text, at)

\* persist_query reads the data, if there is any, and stamps it now.
PersistQuery(t, k) ==
  /\ Begin(t, "persist_query")
  /\ task' = IF ~HasString(k) THEN task
             ELSE [task EXCEPT ![t] = [NoTask EXCEPT
                     !.op = "persist_query", !.at = "p_set", !.todo = <<k>>,
                     !.text = [kind |-> "ok", buster |-> buster,
                               data_json |-> serialize_entry_data(cache[k].data), updated |-> Ms(now)]]]
  /\ UNCHANGED <<born, cache, handleVars>>

\* storage.set.
StoreText(t) ==
  /\ Runs(t, "p_set")
  /\ \/ Works /\ store' = [store EXCEPT ![Head(task[t].todo)] = task[t].text]
     \/ Fails /\ UNCHANGED store
  /\ Returns(t)
  /\ UNCHANGED <<cache, blob>>

\* restore_query returns at once when the client has data.
RestoreQuery(t, k) ==
  /\ Begin(t, "restore_query")
  /\ task' = IF HasString(k) THEN task
             ELSE [task EXCEPT ![t] = [NoTask EXCEPT !.op = "restore_query", !.at = "r_get", !.todo = <<k>>]]
  /\ UNCHANGED <<born, cache, handleVars>>

\* restore_queries and remove_queries go over their keys; persister_gc lists
\* the storage first.
StartBulk(t, op, place) ==
  /\ Begin(t, op)
  /\ task' = [task EXCEPT ![t] = [NoTask EXCEPT !.op = op, !.at = place, !.todo = Sorted(Keys)]]
  /\ UNCHANGED <<born, cache, handleVars>>

BulkOp(t) ==
  \/ StartBulk(t, "restore_queries", "r_get")
  \/ StartBulk(t, "remove_queries", "m_get")
  \/ StartBulk(t, "persister_gc", "g_list")

NextKey(t, place) ==
  IF Len(task[t].todo) <= 1 THEN Returns(t)
  ELSE task' = [task EXCEPT ![t].todo = Tail(@), ![t].at = place]

Holds(t, text, place) == task' = [task EXCEPT ![t].at = place, ![t].text = text, ![t].read = now]

\* retrieve_query: storage.get, and what becomes of the text.
GetText(t) ==
  /\ Runs(t, "r_get")
  /\ \/ Fails /\ Returns(t)
     \/ LET text == store[Head(task[t].todo)]
        IN /\ Works
           /\ IF text.kind = "none" THEN NextKey(t, "r_get")
              ELSE IF text.kind = "corrupt" THEN Holds(t, text, "r_del")
              ELSE IF is_expired_or_busted(text, now) \/ text.kind = "empty" THEN NextKey(t, "r_get")
              ELSE IF text.kind = "misfit" THEN Holds(t, text, "r_del")
              ELSE Holds(t, text, "r_apply")
  /\ UNCHANGED <<cache, store, blob>>

\* A text that cannot be used is removed.
DropText(t) ==
  /\ Runs(t, "r_del")
  /\ \/ Fails /\ UNCHANGED store /\ Returns(t)
     \/ Works /\ store' = [store EXCEPT ![Head(task[t].todo)] = NoText] /\ NextKey(t, "r_get")
  /\ UNCHANGED <<cache, blob>>

\* apply_restored_data: set_query_data ...
ApplyText(t) ==
  /\ Runs(t, "r_apply")
  /\ cache' = Put(cache, Head(task[t].todo),
                  NewEntry(deserialize_entry_data(task[t].text.data_json), StaleTime, now))
  /\ Goes(t, "r_stale")
  /\ UNCHANGED storageVars

\* ... and the stale flag, decided once.
MarkRestored(t) ==
  LET k == Head(task[t].todo)
      stale == setup.refetch /\ Monus(Ms(now), task[t].text.updated) >= StaleTime
  IN /\ Runs(t, "r_stale")
     /\ cache' = IF stale /\ k \in DOMAIN cache THEN [cache EXCEPT ![k].stale = TRUE] ELSE cache
     /\ NextKey(t, "r_get")
     /\ UNCHANGED storageVars

\* remove_queries: storage.get, storage.remove, and the entry of the cache.
FindText(t) ==
  /\ Runs(t, "m_get")
  /\ (Fails /\ Returns(t)) \/ (Works /\ Goes(t, "m_del"))
  /\ UNCHANGED <<cache, store, blob>>

RemoveText(t) ==
  /\ Runs(t, "m_del")
  /\ \/ Fails /\ UNCHANGED store /\ Returns(t)
     \/ Works /\ store' = [store EXCEPT ![Head(task[t].todo)] = NoText] /\ Goes(t, "m_cache")
  /\ UNCHANGED <<cache, blob>>

RemoveEntry(t) ==
  /\ Runs(t, "m_cache")
  /\ cache' = Without(cache, {Head(task[t].todo)})
  /\ NextKey(t, "m_get")
  /\ UNCHANGED storageVars

\* The entries persister_gc drops: those whose key begins with its prefix and a
\* dash, be they its own or of a persister with a longer prefix, that it cannot use.
Garbage == {k \in Prefixed : store[k].kind # "none" /\ ~Usable(store[k], now)}

Lists(t, bad) ==
  IF bad = {} THEN Returns(t)
  ELSE task' = [task EXCEPT ![t].todo = Sorted(bad), ![t].at = "g_del", ![t].read = now,
                            ![t].entries = [k \in Prefixed |-> store[k]]]

MutGcList(t) ==
  /\ Runs(t, "g_list")
  /\ \/ Fails /\ Returns(t)
     \/ Works /\ Lists(t, {k \in Keys \cup Foreign : store[k].kind # "none" /\ ~Usable(store[k], now)})
  /\ UNCHANGED <<cache, store, blob>>

\* persister_gc: storage.entries() and the clock, read once.
GcList(t) ==
  /\ Runs(t, "g_list")
  /\ (Fails /\ Returns(t)) \/ (Works /\ Lists(t, Garbage))
  /\ UNCHANGED <<cache, store, blob>>

GcRemove(t) ==
  /\ Runs(t, "g_del")
  /\ \/ Fails /\ UNCHANGED store /\ Returns(t)
     \/ Works /\ store' = [store EXCEPT ![Head(task[t].todo)] = NoText] /\ Goes(t, "g_stale")
  /\ UNCHANGED <<cache, blob>>

\* invalidate_queries matches hashes by their text: that of 11 begins with that
\* of 1.
StartsWith(k, p) == k = p \/ k \div 10 = p

GcInvalidate(t) ==
  /\ Runs(t, "g_stale")
  /\ cache' = [k \in DOMAIN cache |->
                 IF StartsWith(k, Head(task[t].todo)) THEN [cache[k] EXCEPT !.stale = TRUE] ELSE cache[k]]
  /\ NextKey(t, "g_del")
  /\ UNCHANGED storageVars

QueryStep(t) ==
  \/ StoreText(t) \/ GetText(t) \/ DropText(t) \/ ApplyText(t) \/ MarkRestored(t)
  \/ FindText(t) \/ RemoveText(t) \/ RemoveEntry(t) \/ GcList(t) \/ GcRemove(t) \/ GcInvalidate(t)

-----------------------------------------------------------------------------
(***************************************************************************)
(* The persisted client                                                    *)
(***************************************************************************)

\* persist_query_client_restore, alone or as the first thing that
\* persist_query_client and persist_with_retry do.  The strategy of the latter
\* has kept a copy of the last snapshot.  One save loop at a time: the client is
\* persisted again only after the loop has ended.
ClientOp(t, op) ==
  /\ Begin(t, op) /\ op \in {"restore_client", "persist_query_client", "persist_with_retry"}
  /\ op = "persist_query_client" =>
       task[Loop].at = "off" /\ \A u \in Tasks : task[u].op # "persist_query_client"
  /\ task' = [task EXCEPT ![t] = [NoTask EXCEPT !.op = op, !.at = "c_get", !.blob = blob]]
  /\ UNCHANGED <<born, cache, handleVars>>

\* Busted, without a timestamp, or expired.
Discards(b) ==
  \/ b.buster # buster
  \/ b.timestamp_ms = 0
  \/ Monus(Ms(now), b.timestamp_ms) > MaxAge

\* The restore returned Ok.
Restored(t) == IF task[t].op # "persist_query_client" THEN Returns(t) ELSE Goes(t, "c_ok")

\* The rest of persist_query_client: a loop, and a handle with a flag and a stop
\* signal of its own.
StartLoop(t) ==
  /\ MayRun(t) /\ task[t].at = "c_ok"
  /\ task' = [task EXCEPT ![t] = NoTask, ![Loop] = [NoTask EXCEPT !.at = "sleep"]]
  /\ flag' = FALSE /\ stop' = FALSE
  /\ UNCHANGED <<setup, now, boot, born, buster, cache, storageVars, crashes, ops>>

\* restore_client.
GetBlob(t) ==
  /\ Runs(t, "c_get")
  /\ \/ Fails /\ Goes(t, "c_drop")
     \/ /\ Works
        /\ IF blob = NoBlob THEN Restored(t)
           ELSE IF Discards(blob) THEN Goes(t, "c_remove")
           ELSE task' = [task EXCEPT ![t].at = "h_next", ![t].blob = blob, ![t].read = now,
                                     ![t].qs = blob.state.queries]
  /\ UNCHANGED <<cache, store, blob>>

\* remove_client of a snapshot that is of no use: an error is returned.
RemoveBlob(t) ==
  /\ Runs(t, "c_remove")
  /\ \/ Fails /\ UNCHANGED blob /\ Goes(t, "c_err")
     \/ Works /\ blob' = NoBlob /\ Restored(t)
  /\ UNCHANGED <<cache, store>>

\* remove_client as a precaution: its own error is not looked at.
DropBlob(t) ==
  /\ Runs(t, "c_drop")
  /\ \/ Fails /\ UNCHANGED blob
     \/ Works /\ blob' = NoBlob
  /\ Goes(t, "c_err")
  /\ UNCHANGED <<cache, store>>

\* remove_oldest_query: the first of the queries with the smallest fetch time.
Stamp(q) == IF q.fetched_at_ms = NoTime THEN 0 ELSE q.fetched_at_ms
remove_oldest_query(qs) ==
  LET oldest == CHOOSE i \in DOMAIN qs :
                  /\ \A j \in DOMAIN qs : Stamp(qs[i]) <= Stamp(qs[j])
                  /\ \A j \in 1 .. i - 1 : Stamp(qs[i]) < Stamp(qs[j])
  IN RemoveAt(qs, oldest)

\* The restore returned an error: persist_with_retry counts it and asks its
\* strategy, which has a smaller snapshot, or lets the restore be tried again.
RestoreError(t) ==
  /\ Runs(t, "c_err")
  /\ LET tk == task[t]
         qs == tk.blob.state.queries
     IN IF tk.op # "persist_with_retry" \/ tk.errs + 1 > MaxRetries THEN Returns(t)
        ELSE IF setup.replaces /\ qs # <<>>
        THEN task' = [task EXCEPT ![t].errs = @ + 1, ![t].at = "h_next", ![t].op = "replace",
                                  ![t].blob.state.queries = remove_oldest_query(qs),
                                  ![t].qs = remove_oldest_query(qs)]
        ELSE task' = [task EXCEPT ![t].errs = @ + 1, ![t].at = "c_get"]
  /\ UNCHANGED <<cache, storageVars>>

\* hydrate with the default options, query by query (see Hydration).
Captured(t) == task[t].blob.state.dehydrated_at_ms

HydrateNext(t) ==
  /\ Runs(t, "h_next")
  /\ IF task[t].qs = <<>>
     THEN IF task[t].op = "replace" THEN Goes(t, "c_put") ELSE Restored(t)
     ELSE IF payload_wins(cache, Captured(t), Head(task[t].qs), TRUE, now) THEN Goes(t, "h_set")
     ELSE task' = [task EXCEPT ![t].qs = Tail(@)]
  /\ UNCHANGED <<cache, storageVars>>

HydrateSet(t) ==
  /\ Runs(t, "h_set")
  /\ cache' = Hydrated(cache, Head(task[t].qs), now)
  /\ Goes(t, "h_restore")
  /\ UNCHANGED storageVars

HydrateRestore(t) ==
  /\ Runs(t, "h_restore")
  /\ cache' = restore_entry_staleness(cache, Captured(t), Head(task[t].qs), now, boot)
  /\ task' = [task EXCEPT ![t].at = "h_next", ![t].qs = Tail(@)]
  /\ UNCHANGED storageVars

\* The replacement is saved as it was hydrated; a failure is only logged.
PutReplacement(t) ==
  /\ Runs(t, "c_put")
  /\ \/ Fails /\ UNCHANGED blob
     \/ Works /\ blob' = task[t].blob
  /\ Returns(t)
  /\ UNCHANGED <<cache, store>>

Snapshot == [timestamp_ms |-> Ms(now), buster |-> buster, state |-> dehydrate_state(cache, now)]

\* persist_query_client_save.
Save(t) ==
  /\ Begin(t, "save")
  /\ task' = [task EXCEPT ![t] = [NoTask EXCEPT !.op = "save", !.at = "s_put", !.blob = Snapshot]]
  /\ UNCHANGED <<born, cache, handleVars>>

MutPutBlob(t) ==
  /\ Runs(t, "s_put")
  /\ \/ Fails /\ UNCHANGED blob /\ Goes(t, IF t = Loop THEN "off" ELSE "idle")
     \/ Works /\ blob' = task[t].blob /\ Returns(t)
  /\ UNCHANGED <<cache, store>>

\* persist_client; the loop only logs a failure.
PutBlob(t) ==
  /\ Runs(t, "s_put")
  /\ \/ Fails /\ UNCHANGED blob
     \/ Works /\ blob' = task[t].blob
  /\ Returns(t)
  /\ UNCHANGED <<cache, store>>

ClientStep(t) ==
  \/ GetBlob(t) \/ RemoveBlob(t) \/ DropBlob(t) \/ RestoreError(t) \/ HydrateNext(t)
  \/ HydrateSet(t) \/ HydrateRestore(t) \/ StartLoop(t) \/ PutReplacement(t) \/ PutBlob(t)

\* The loop: select polls the stop signal first, and looks at the flag when the
\* interval is over, then saves.
LoopStops ==
  /\ Runs(Loop, "sleep") /\ (stop \/ flag)
  /\ Goes(Loop, "off")
  /\ UNCHANGED <<cache, storageVars>>

LoopSaves ==
  /\ Runs(Loop, "sleep") /\ ~stop /\ ~flag
  /\ task' = [task EXCEPT ![Loop].at = "s_put", ![Loop].blob = Snapshot]
  /\ UNCHANGED <<cache, storageVars>>

\* unsubscribe, into_task and dropping the handle.
Unsubscribe(t) ==
  /\ Begin(t, "unsubscribe")
  /\ task[Loop].at # "off" /\ ~flag
  /\ flag' = TRUE /\ stop' = TRUE
  /\ UNCHANGED <<born, cache, task>>

Operation(t) ==
  \/ \E k \in Keys : Write(t, k) \/ PersistQuery(t, k) \/ RestoreQuery(t, k)
  \/ BulkOp(t) \/ (\E op \in ClientOps : ClientOp(t, op)) \/ Save(t) \/ Unsubscribe(t)

TaskStep(t) == QueryStep(t) \/ ClientStep(t)
LoopStep == LoopStops \/ LoopSaves

Next == Tick \/ Crash \/ LoopStep \/ \E t \in Everyone : Operation(t) \/ TaskStep(t)

\* A task that can go on does; the interval of the loop comes to its end.
Fairness == WF_vars(LoopStep) /\ \A t \in Everyone : WF_vars(TaskStep(t))

Spec == Init /\ [][Next]_vars /\ Fairness

-----------------------------------------------------------------------------
(***************************************************************************)
(* Properties                                                              *)
(***************************************************************************)

Places == Awaits \cup {"idle", "off", "sleep", "r_apply", "r_stale", "m_cache", "g_stale",
                       "c_err", "c_ok", "h_next", "h_set", "h_restore"}
Data == 0 .. Len(born)

\* Type invariant: no entry was fetched in the future, and what the storages
\* hold decodes to data that was written.
TypeOK ==
  /\ setup \in Setups
  /\ now \in Start .. MaxNow /\ boot \in 0 .. now
  /\ buster \in 0 .. 1
  /\ DOMAIN cache \subseteq Keys
  /\ \A k \in DOMAIN cache :
       cache[k] \in [data : Data \ {Opaque}, fetched : 0 .. now, stale : BOOLEAN, life : Nat]
  /\ \A k \in Keys \cup Foreign :
       /\ store[k].kind \in {"none", "ok", "corrupt", "misfit", "empty"}
       /\ store[k].updated <= now
       /\ deserialize_entry_data(store[k].data_json) \in Data
  /\ blob.timestamp_ms \in NoTime .. now
  /\ \A t \in Everyone : task[t].at \in Places /\ task[t].errs \in 0 .. MaxRetries
  /\ flag \in BOOLEAN /\ stop \in BOOLEAN
  /\ faults \in 0 .. setup.faults /\ crashes \in 0 .. setup.crashes /\ ops \in 0 .. setup.budget

\* Whatever a restore brings into the cache was saved by this version of the
\* application and had not passed max_age when it was read, over crashes,
\* upgrades and everything that happened between the read and the write.
OnlyUsableRestored ==
  [][\A t \in Tasks :
       LET tk == task[t] IN
       /\ tk.at = "r_apply" /\ task'[t].at = "r_stale" =>
            tk.text.buster = buster /\ tk.text.updated # NoTime /\ Ms(tk.read) - tk.text.updated <= MaxAge
       /\ tk.at = "h_set" /\ task'[t].at = "h_restore" /\ tk.op # "replace" =>
            tk.blob.buster = buster /\ tk.blob.timestamp_ms > 0
            /\ Ms(tk.read) - tk.blob.timestamp_ms <= MaxAge]_vars

\* With an eager storage and one thread, restore_query brings data back only
\* where the client has none.  (Another storage suspends the caller between
\* the two, and a fetch that ends then is overwritten.)
YieldsToData ==
  [][\A t \in Tasks :
       (/\ setup.eager /\ ~setup.pool /\ task[t].op = "restore_query"
        /\ task[t].at = "r_apply" /\ task'[t].at = "r_stale")
       => ~HasString(Head(task[t].todo))]_vars

Unfit(text, at) == ~Usable(text, at) \/ text.kind = "misfit"

\* A text leaves the storage only where remove_queries was given its key, or where
\* the task that removes it had read a text of no use under that very key: a text
\* that was good when it was read is never removed by a restore or a clean-up, and
\* the texts of others stay, but for those whose keys begin with this prefix and
\* a dash.  This is so for every storage and scheduling.  With an eager storage and
\* one thread the text removed is still the one that was read, or is of no use
\* either; another storage suspends the task between its check and the removal,
\* and what was saved in between goes.
NothingUsableLost ==
  [][\A k \in Keys \cup Foreign :
       (store[k].kind # "none" /\ store'[k].kind = "none")
       => \E t \in Tasks :
            /\ task[t].at \in {"m_del", "r_del", "g_del"} /\ Head(task[t].todo) = k
            /\ task[t].at = "m_del" => k \in Keys
            /\ task[t].at = "r_del" => k \in Keys /\ Unfit(task[t].text, task[t].read)
            /\ task[t].at = "g_del" => k \in Prefixed /\ ~Usable(task[t].entries[k], task[t].read)
            /\ task[t].at # "m_del" /\ setup.eager /\ ~setup.pool => Unfit(store[k], now)]_vars

\* A restore that returns after it found a snapshot it could use has left every
\* key of the snapshot in the cache, unless keys were removed meanwhile.
RestoreComplete ==
  [][\A t \in Tasks :
       (/\ task[t].at = "h_next" /\ task'[t].at \in {"idle", "c_ok", "c_put"} /\ cache' # NoCache
        /\ "remove_queries" \notin setup.ops)
       => \A i \in DOMAIN task[t].blob.state.queries :
            task[t].blob.state.queries[i].key \in DOMAIN cache]_vars

Saved(k) ==
  \E i \in DOMAIN blob.state.queries :
    LET q == blob.state.queries[i]
    IN q.key = k /\ deserialize_entry_data(q.data_json) = cache[k].data

\* While the loop has not been told to stop, what is in the cache comes to
\* be what is saved, whatever saves fail in between.
SavedEventually ==
  (setup.faults # Unlimited /\ task[Loop].at # "off") ~> (flag \/ \A k \in DOMAIN cache : Saved(k))

\* Every operation returns, with a storage that always fails too.
OperationsEnd == \A t \in Tasks : (task[t].at # "idle") ~> (task[t].at = "idle")

\* The loop ends once it is told to, wherever it stood.
StopEndsLoop == flag ~> (task[Loop].at = "off")

\* A restore brings back what may be used and all of it.
RestoresExactly == []TypeOK /\ OnlyUsableRestored /\ RestoreComplete

\* Nothing of use is lost: no data in the cache to a restore with an eager storage
\* and one thread, and with any storage no text that was good when it was read.
NothingLost == YieldsToData /\ NothingUsableLost

\* Saving catches up with the cache, operations return and a stopped loop ends, with
\* a storage that fails now and then, and the last two with one that always fails.
WorkEnds == SavedEventually /\ OperationsEnd /\ StopEndsLoop
=============================================================================
