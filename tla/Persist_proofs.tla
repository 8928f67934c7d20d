---------------------------- MODULE Persist_proofs ----------------------------
(***************************************************************************)
(* Proofs about what persistence saves and restores, for any number of     *)
(* tasks and keys, any storage contents, bounds and setups.                *)
(***************************************************************************)
EXTENDS Persist, FiniteSetTheorems, FunctionTheorems, SequenceTheorems, TLAPS

-----------------------------------------------------------------------------
(***************************************************************************)
(* Milliseconds                                                            *)
(***************************************************************************)

LEMMA PerMsFact == PerMs \in Nat \ {0} /\ Keys \subseteq Nat /\ IsFiniteSet(Keys) /\ Keys # {}
  BY PersistAssumption

\* The keys a clean-up goes over.
LEMMA PrefixedFacts ==
  /\ Prefixed \subseteq Nat /\ IsFiniteSet(Prefixed)
  /\ Keys \subseteq Prefixed /\ Prefixed \subseteq Keys \cup Foreign
<1>1. IsFiniteSet(Keys) /\ IsFiniteSet(Kin) /\ Keys \subseteq Nat /\ Kin \subseteq Foreign \cap Nat
  BY PersistAssumption
<1>2. IsFiniteSet(Keys \cup Kin)
  BY <1>1, FS_Union
<1> QED BY <1>1, <1>2 DEF Prefixed

\* A sequence over a set is one over every larger set.
LEMMA SmallerSeq == ASSUME NEW S, NEW T, S \subseteq T PROVE Seq(S) \subseteq Seq(T)
<1> SUFFICES ASSUME NEW s \in Seq(S) PROVE s \in Seq(T)
  OBVIOUS
<1>1. PICK n \in Nat : n = Len(s)
  OBVIOUS
<1>2. s \in [1 .. n -> S]
  BY <1>1
<1>3. s \in [1 .. n -> T]
  BY <1>2
<1> QED BY <1>3

\* A number of ticks is less than a millisecond above its milliseconds.
LEMMA MsBounds ==
  ASSUME NEW x \in Nat
  PROVE  /\ Ms(x) \in Nat /\ PerMs * Ms(x) \in Nat
         /\ PerMs * Ms(x) <= x /\ x < PerMs * Ms(x) + PerMs
<1>1. PICK p \in Nat \ {0} : p = PerMs
  BY PerMsFact
<1>2. x \div p \in Nat /\ p * (x \div p) <= x /\ x < p * (x \div p) + p
  OBVIOUS
<1> QED BY <1>1, <1>2 DEF Ms

LEMMA MsMonotone ==
  ASSUME NEW x \in Nat, NEW y \in Nat, x <= y
  PROVE  Ms(x) <= Ms(y)
<1>1. PICK p \in Nat \ {0} : p = PerMs
  BY PerMsFact
<1>2. PICK a \in Nat, b \in Nat : a = Ms(x) /\ b = Ms(y)
  BY MsBounds
<1>3. p * a <= x /\ y < p * b + p
  BY <1>1, <1>2, MsBounds
<1>4. ASSUME a > b PROVE FALSE
  <2>1. PICK c \in Nat : a = b + 1 + c
    <3>1. a - b - 1 \in Nat /\ a = b + 1 + (a - b - 1)
      BY <1>4
    <3> QED BY <3>1
  <2>2. p * a = p * b + p + p * c /\ p * c \in Nat /\ p * b \in Nat
    BY <2>1
  <2> QED BY <1>3, <2>2
<1> QED BY <1>2, <1>4

\* There are no more milliseconds than ticks.
LEMMA MsWithin == ASSUME NEW x \in Nat PROVE Ms(x) <= x
<1>1. PICK p \in Nat \ {0}, y \in Nat : p = PerMs /\ y = Ms(x)
  BY PerMsFact, MsBounds
<1>2. p * y <= x
  BY <1>1, MsBounds
<1>3. PICK c \in Nat : p = c + 1
  <2>1. p - 1 \in Nat /\ p = (p - 1) + 1
    OBVIOUS
  <2> QED BY <2>1
<1>4. p * y = c * y + y /\ c * y \in Nat
  BY <1>3
<1> QED BY <1>1, <1>2, <1>4

-----------------------------------------------------------------------------
(***************************************************************************)
(* Keys in order                                                           *)
(***************************************************************************)

Below(S, k) == {x \in S : x < k}
Rank(S, k) == Cardinality(Below(S, k))

\* Of a finite set of numbers, exactly one has a given number of others below it.
LEMMA EveryRank ==
  ASSUME NEW S \in SUBSET Nat, IsFiniteSet(S), NEW i \in 1 .. Cardinality(S)
  PROVE  \E k \in S : Rank(S, k) = i - 1
<1> DEFINE n == Cardinality(S)
           D == 0 .. (n - 1)
           f == [k \in S |-> Rank(S, k)]
<1>1. n \in Nat
  BY FS_CardinalityType
<1>2. ASSUME NEW k \in S
      PROVE  IsFiniteSet(Below(S, k)) /\ Rank(S, k) \in Nat /\ Rank(S, k) < n
  <2>1. Below(S, k) \in SUBSET S /\ Below(S, k) # S
    BY DEF Below
  <2> QED BY <2>1, <1>1, FS_Subset, FS_CardinalityType DEF Rank
<1>3. ASSUME NEW k \in S, NEW h \in S, k < h PROVE Rank(S, k) < Rank(S, h)
  <2>1. Below(S, k) \in SUBSET Below(S, h) /\ Below(S, k) # Below(S, h)
    <3>1. k \in Nat /\ h \in Nat
      OBVIOUS
    <3>2. ASSUME NEW x \in Below(S, k) PROVE x \in Below(S, h)
      <4>1. x \in Nat /\ x \in S /\ x < k
        BY DEF Below
      <4> QED BY <1>3, <3>1, <4>1 DEF Below
    <3>3. k \in Below(S, h) /\ k \notin Below(S, k)
      BY <1>3, <3>1 DEF Below
    <3> QED BY <3>2, <3>3
  <2>2. IsFiniteSet(Below(S, h))
    BY <1>2
  <2>3. Rank(S, k) <= Rank(S, h) /\ Rank(S, k) # Rank(S, h)
    BY <2>1, <2>2, FS_Subset DEF Rank
  <2>4. Rank(S, k) \in Nat /\ Rank(S, h) \in Nat
    BY <1>2
  <2> QED BY ONLY <2>3, <2>4
<1>4. f \in [S -> D]
  BY <1>1, <1>2
<1>5. ASSUME NEW k \in S, NEW h \in S, f[k] = f[h] PROVE k = h
  <2>1. Rank(S, k) = Rank(S, h) /\ Rank(S, k) \in Nat /\ Rank(S, h) \in Nat
    BY <1>2, <1>5
  <2>2. ~(k < h) /\ ~(h < k)
    BY <1>3, <2>1
  <2>3. k \in Int /\ h \in Int
    OBVIOUS
  <2> QED BY ONLY <2>2, <2>3
<1>6. IsFiniteSet(D) /\ Cardinality(D) = n
  <2> HIDE DEF n
  <2>1. 0 \in Int /\ n - 1 \in Int
    BY <1>1
  <2>2. IsFiniteSet(D) /\ Cardinality(D) = IF 0 > n - 1 THEN 0 ELSE (n - 1) - 0 + 1
    BY ONLY <2>1, FS_Interval
  <2> HIDE DEF D
  <2> QED BY <1>1, <2>2
<1> HIDE DEF f, D
<1>7. f \in Injection(S, D)
  BY ONLY <1>4, <1>5, Fun_IsInj
<1>8. f \in Surjection(S, D)
  BY <1>6, <1>7, FS_Injection
<1>9. i - 1 \in D
  BY <1>1 DEF D
<1>10. PICK k \in S : f[k] = i - 1
  BY <1>8, <1>9 DEF Surjection
<1> QED BY <1>10 DEF f

\* Sorted gives every place in the order to one of the keys.
LEMMA SortedKeys ==
  ASSUME NEW ks \in SUBSET Prefixed
  PROVE  /\ Sorted(ks) \in Seq(ks)
         /\ \A i \in DOMAIN Sorted(ks) : Sorted(ks)[i] \in ks
         /\ ks # {} => Sorted(ks) # <<>>
<1>1. ks \in SUBSET Nat /\ IsFiniteSet(ks)
  BY PrefixedFacts, FS_Subset
<1>2. PICK n \in Nat : n = Cardinality(ks)
  BY <1>1, FS_CardinalityType
<1>3. DOMAIN Sorted(ks) = 1 .. n /\ Sorted(ks) = [i \in 1 .. n |-> Sorted(ks)[i]]
  <2>1. Sorted(ks) = [i \in 1 .. n |-> CHOOSE k \in ks : Cardinality({x \in ks : x < k}) = i - 1]
    BY ONLY <1>2, Zenon DEF Sorted
  <2> QED BY <2>1
<1>4. ASSUME NEW i \in 1 .. n PROVE Sorted(ks)[i] \in ks
  <2>1. \E k \in ks : Cardinality({x \in ks : x < k}) = i - 1
    BY <1>1, <1>2, EveryRank DEF Rank, Below
  <2> QED BY <1>2, <2>1 DEF Sorted
<1>5. ASSUME ks # {} PROVE Sorted(ks) # <<>>
  <2>1. n # 0
    BY <1>1, <1>2, <1>5, FS_EmptySet
  <2> QED BY <1>3, <2>1
<1>6. Sorted(ks) \in [1 .. n -> ks]
  <2>1. \A i \in 1 .. n : Sorted(ks)[i] \in ks
    BY <1>4
  <2> QED BY <1>3, <2>1
<1>7. Sorted(ks) \in Seq(ks)
  BY <1>6
<1> QED BY <1>3, <1>4, <1>5, <1>7

-----------------------------------------------------------------------------
(***************************************************************************)
(* Types                                                                   *)
(***************************************************************************)

\* What entries, queries, texts, snapshots and tasks are when data 1 .. d has
\* been written and the clock is at n.  An "ok" text has data; a snapshot that is
\* not the absent one has a timestamp.
EntriesOf(d, n) == [data : 1 .. d, fetched : 0 .. n, stale : BOOLEAN, life : Nat]

IsCache(ca, d, n) == DOMAIN ca \subseteq Keys /\ \A k \in DOMAIN ca : ca[k] \in EntriesOf(d, n)

QueriesOf(d) ==
  [key : Keys, data_json : [json : 1 .. d], fetched_at_ms : Nat, is_stale : BOOLEAN, stale_time_ms : Nat]

StatesOf(d) == [dehydrated_at_ms : Nat, queries : Seq(QueriesOf(d))]

Kinds == {"none", "ok", "corrupt", "misfit", "empty"}

TextRecords(d, n) ==
  [kind : Kinds, buster : 0 .. 1, data_json : [json : 0 .. d], updated : NoTime .. Ms(n)]
IsText(x, d, n) == x \in TextRecords(d, n) /\ (x.kind = "ok" => x.data_json.json \in 1 .. d)

BlobRecords(d, n) == [timestamp_ms : NoTime .. Ms(n), buster : 0 .. 1, state : StatesOf(d)]
IsBlob(b, d, n) == b \in BlobRecords(d, n) /\ (b = NoBlob \/ b.timestamp_ms # NoTime)

OpNames == QueryOps \cup ClientOps \cup {"none", "replace"}

TaskRecords(d, n) ==
  [op : OpNames, at : Places, todo : Seq(Prefixed), text : TextRecords(d, n),
   entries : [Prefixed -> TextRecords(d, n)], blob : BlobRecords(d, n), qs : Seq(QueriesOf(d)),
   read : NoTime .. n, errs : 0 .. MaxRetries]

\* Where a task has a key in hand, one of its own, a text to store or restore, a
\* query, and where it removes keys.
WithKey == {"p_set", "r_get", "r_del", "r_apply", "r_stale", "m_get", "m_del", "m_cache", "g_del", "g_stale"}
Owned == {"p_set", "r_get", "r_del", "r_apply", "r_stale", "m_get", "m_del", "m_cache"}
WithText == {"p_set", "r_apply", "r_stale"}
WithQuery == {"h_set", "h_restore"}
Removing == {"m_get", "m_del", "m_cache"}

Shape(tk, os) ==
  /\ tk.at \in WithKey => tk.todo # <<>>
  /\ tk.at \in Owned => tk.todo \in Seq(Keys)
  /\ tk.at \in WithText => tk.text.kind = "ok"
  /\ tk.at \in WithQuery => tk.qs # <<>>
  /\ tk.at \in Removing => tk.op = "remove_queries" /\ tk.op \in os

IsTask(tk, d, n, os) ==
  /\ tk \in TaskRecords(d, n) /\ IsText(tk.text, d, n) /\ IsBlob(tk.blob, d, n)
  /\ Shape(tk, os)

TimeInv ==
  /\ setup \in Setups /\ now \in Start .. MaxNow /\ boot \in 0 .. now /\ buster \in 0 .. 1
  /\ born \in Seq(Nat) /\ Len(born) >= 1

CacheInv == IsCache(cache, Len(born), now)

StorageInv ==
  /\ DOMAIN store = Keys \cup Foreign
  /\ \A k \in Keys \cup Foreign : IsText(store[k], Len(born), now)
  /\ IsBlob(blob, Len(born), now)
  /\ faults \in 0 .. setup.faults

TaskInv ==
  /\ DOMAIN task = Everyone
  /\ \A t \in Everyone : IsTask(task[t], Len(born), now, setup.ops)
  /\ task[Loop].at \in {"off", "sleep", "s_put"}

CountInv ==
  /\ flag \in BOOLEAN /\ stop \in BOOLEAN
  /\ crashes \in 0 .. setup.crashes /\ ops \in 0 .. setup.budget

TypeInv == TimeInv /\ CacheInv /\ StorageInv /\ TaskInv /\ CountInv

LEMMA SetupFacts ==
  ASSUME TimeInv
  PROVE  /\ setup.pool \in BOOLEAN /\ setup.eager \in BOOLEAN /\ setup.budget \in Nat
         /\ setup.faults \in Nat /\ setup.crashes \in Nat
         /\ now \in Nat /\ MaxNow \in Nat /\ Len(born) \in Nat /\ MaxRetries \in Nat
<1>1. setup \in AllSetups /\ MaxNow \in Nat /\ MaxOps \in Nat /\ Start \in Nat /\ MaxRetries \in Nat
  BY PersistAssumption DEF TimeInv
<1>2. setup.faults \in {0, 1, Unlimited} /\ setup.crashes \in 0 .. 1 /\ setup.budget \in 0 .. MaxOps
  BY <1>1 DEF AllSetups
<1> QED BY <1>1, <1>2 DEF TimeInv, AllSetups, Unlimited

\* Time goes on, and new data is born: what had its type keeps it.
LEMMA TypesGrow ==
  ASSUME NEW d \in Nat, NEW n \in Nat, NEW d2 \in Nat, NEW n2 \in Nat, d <= d2, n <= n2
  PROVE  /\ \A ca : IsCache(ca, d, n) => IsCache(ca, d2, n2)
         /\ \A x : IsText(x, d, n) => IsText(x, d2, n2)
         /\ \A b : IsBlob(b, d, n) => IsBlob(b, d2, n2)
         /\ \A tk, os : IsTask(tk, d, n, os) => IsTask(tk, d2, n2, os)
<1>1. PICK m \in Nat, m2 \in Nat : m = Ms(n) /\ m2 = Ms(n2)
  BY MsBounds
<1>2. m <= m2
  BY <1>1, MsMonotone
<1>3. 1 .. d \subseteq 1 .. d2 /\ 0 .. d \subseteq 0 .. d2 /\ 0 .. n \subseteq 0 .. n2
      /\ NoTime .. n \subseteq NoTime .. n2 /\ NoTime .. Ms(n) \subseteq NoTime .. Ms(n2)
  BY <1>1, <1>2 DEF NoTime
<1>4. EntriesOf(d, n) \subseteq EntriesOf(d2, n2) /\ QueriesOf(d) \subseteq QueriesOf(d2)
  BY <1>3 DEF EntriesOf, QueriesOf
<1>5. Seq(QueriesOf(d)) \subseteq Seq(QueriesOf(d2))
  BY <1>4
<1>6. StatesOf(d) \subseteq StatesOf(d2)
  BY <1>5 DEF StatesOf
<1>7. TextRecords(d, n) \subseteq TextRecords(d2, n2)
  BY <1>3 DEF TextRecords
<1>8. BlobRecords(d, n) \subseteq BlobRecords(d2, n2)
  BY <1>3, <1>6 DEF BlobRecords
<1>9. TaskRecords(d, n) \subseteq TaskRecords(d2, n2)
  <2>1. [Prefixed -> TextRecords(d, n)] \subseteq [Prefixed -> TextRecords(d2, n2)]
    BY <1>7
  <2> QED BY <1>3, <1>5, <1>7, <1>8, <2>1 DEF TaskRecords
<1>10. ASSUME NEW x, IsText(x, d, n) PROVE IsText(x, d2, n2)
  BY <1>3, <1>7, <1>10 DEF IsText
<1>11. ASSUME NEW b, IsBlob(b, d, n) PROVE IsBlob(b, d2, n2)
  BY <1>8, <1>11 DEF IsBlob
<1>12. ASSUME NEW tk, NEW os, IsTask(tk, d, n, os) PROVE IsTask(tk, d2, n2, os)
  BY <1>9, <1>10, <1>11, <1>12 DEF IsTask
<1>13. ASSUME NEW ca, IsCache(ca, d, n) PROVE IsCache(ca, d2, n2)
  BY <1>4, <1>13 DEF IsCache
<1> QED BY <1>10, <1>11, <1>12, <1>13
\* What stands for nothing.
LEMMA NothingIsTyped ==
  ASSUME NEW d \in Nat, NEW n \in Nat, NEW os, NEW place \in {"idle", "off", "sleep"}
  PROVE  /\ IsText(NoText, d, n) /\ IsText([NoText EXCEPT !.kind = "corrupt"], d, n)
         /\ IsBlob(NoBlob, d, n)
         /\ IsTask(NoTask, d, n, os) /\ IsTask([NoTask EXCEPT !.at = place], d, n, os)
<1>1. PICK m \in Nat : m = Ms(n)
  BY MsBounds
<1>2. NoTime \in NoTime .. Ms(n) /\ NoTime \in NoTime .. n /\ 0 \in 0 .. d /\ 0 \in 0 .. 1
  BY <1>1 DEF NoTime
<1>3. IsText(NoText, d, n) /\ IsText([NoText EXCEPT !.kind = "corrupt"], d, n)
  BY <1>2 DEF IsText, TextRecords, NoText, Kinds, serialize_entry_data, Opaque
<1>4. <<>> \in Seq(QueriesOf(d)) /\ <<>> \in Seq(Prefixed)
  OBVIOUS
<1>5. NoBlob \in BlobRecords(d, n)
  BY <1>2, <1>4 DEF BlobRecords, StatesOf, NoBlob
<1>6. NoText \in TextRecords(d, n) /\ 0 \in 0 .. MaxRetries /\ "none" \in OpNames /\ place \in Places /\ "idle" \in Places
  BY <1>3, PersistAssumption DEF IsText, OpNames, Places
<1>7. NoTask \in TaskRecords(d, n) /\ [NoTask EXCEPT !.at = place] \in TaskRecords(d, n)
  <2>1. [k \in Prefixed |-> NoText] \in [Prefixed -> TextRecords(d, n)]
    BY <1>6
  <2> QED BY <1>2, <1>4, <1>5, <1>6, <2>1 DEF NoTask, TaskRecords
<1>8. IsBlob(NoBlob, d, n)
  BY <1>5 DEF IsBlob
<1>9. /\ NoTask.text = NoText /\ NoTask.blob = NoBlob /\ NoTask.at = "idle"
      /\ [NoTask EXCEPT !.at = place].text = NoText /\ [NoTask EXCEPT !.at = place].blob = NoBlob
      /\ [NoTask EXCEPT !.at = place].at = place
  BY DEF NoTask
<1>10. Shape(NoTask, os) /\ Shape([NoTask EXCEPT !.at = place], os)
  BY <1>9 DEF Shape, WithKey, Owned, WithText, WithQuery, Removing
<1> QED BY <1>3, <1>7, <1>8, <1>9, <1>10 DEF IsTask

\* What is captured of a cache is a state to save (src/hydration.rs, dehydrate).
LEMMA CapturedIsState ==
  ASSUME NEW d \in Nat, NEW n \in Nat, NEW ca, IsCache(ca, d, n)
  PROVE  dehydrate_state(ca, n) \in StatesOf(d)
<1> DEFINE kept == {k \in DOMAIN ca : default_should_dehydrate_query(ca[k])}
           order == Sorted(kept)
           qs == [i \in DOMAIN order |-> dehydrate_cache_entry(order[i], ca[order[i]], n)]
<1>1. kept \in SUBSET Keys
  BY DEF IsCache
<1>2. ASSUME NEW k \in kept PROVE dehydrate_cache_entry(k, ca[k], n) \in QueriesOf(d)
  <2>1. k \in Keys /\ ca[k] \in EntriesOf(d, n)
    BY <1>1, <1>2 DEF IsCache
  <2>2. ca[k].data \in 1 .. d /\ ca[k].fetched \in 0 .. n /\ ca[k].stale \in BOOLEAN /\ ca[k].life \in Nat
    BY <2>1 DEF EntriesOf
  <2>3. PICK a \in Nat, b \in Nat : a = Ms(n) /\ b = Ms(n - ca[k].fetched)
    <3>1. n - ca[k].fetched \in Nat
      BY <2>2
    <3> QED BY <3>1, MsBounds
  <2>4. Monus(Ms(n), Ms(n - ca[k].fetched)) \in Nat
    BY <2>3 DEF Monus
  <2> QED BY <2>1, <2>2, <2>4 DEF dehydrate_cache_entry, serialize_entry_data, QueriesOf
<1> HIDE DEF kept
<1>3. order \in Seq(Keys) /\ \A i \in DOMAIN order : order[i] \in kept
  <2>1. kept \in SUBSET Prefixed
    BY <1>1, PrefixedFacts
  <2>2. order \in Seq(kept) /\ \A i \in DOMAIN order : order[i] \in kept
    BY <2>1, SortedKeys
  <2> HIDE DEF order
  <2> QED BY <1>1, <2>2, SmallerSeq
<1> HIDE DEF order
<1>4. PICK m \in Nat : DOMAIN order = 1 .. m
  BY <1>3
<1>5. \A i \in 1 .. m : dehydrate_cache_entry(order[i], ca[order[i]], n) \in QueriesOf(d)
  BY <1>2, <1>3, <1>4
<1>6. qs \in [1 .. m -> QueriesOf(d)]
  BY <1>4, <1>5
<1>7. qs \in Seq(QueriesOf(d))
  <2> HIDE DEF qs
  <2> QED BY <1>6
<1>8. dehydrate_state(ca, n) = [dehydrated_at_ms |-> Ms(n), queries |-> qs]
  BY DEF dehydrate_state, order, kept
<1>9. Ms(n) \in Nat
  BY MsBounds
<1> HIDE DEF qs
<1> QED BY <1>7, <1>8, <1>9 DEF StatesOf

\* A snapshot of it.
LEMMA SnapshotIsBlob ==
  ASSUME NEW d \in Nat, NEW n \in Nat, NEW st \in StatesOf(d), NEW v \in 0 .. 1, NEW n2 \in Nat, n <= n2
  PROVE  LET b == [timestamp_ms |-> Ms(n), buster |-> v, state |-> st]
         IN IsBlob(b, d, n2) /\ b # NoBlob
<1>1. PICK m \in Nat, m2 \in Nat : m = Ms(n) /\ m2 = Ms(n2)
  BY MsBounds
<1>2. m <= m2
  BY <1>1, MsMonotone
<1>3. Ms(n) \in NoTime .. Ms(n2) /\ Ms(n) # NoTime
  BY <1>1, <1>2 DEF NoTime
<1> QED BY <1>3 DEF IsBlob, BlobRecords, NoBlob

\* What an earlier process left has its type.
LEMMA TypeInit == Init => TypeInv
<1> SUFFICES ASSUME Init PROVE TypeInv
  OBVIOUS
<1>1. Start \in 0 .. MaxNow /\ MaxNow \in Nat /\ Start \in Nat /\ StaleTime \in Nat /\ setup \in AllSetups
      /\ Loop \notin Tasks /\ MaxRetries \in Nat /\ MaxOps \in Nat
  BY PersistAssumption DEF Init
<1>2. Len(born) = 1 /\ born \in Seq(Nat)
  BY DEF Init
<1>3. TimeInv
  BY <1>1, <1>2 DEF Init, TimeInv
<1>4. CacheInv
  BY DEF Init, CacheInv, IsCache, NoCache
<1>5. ASSUME NEW ts \in setup.blobs \cup {NoTime} PROVE IsBlob(Blob(ts), 1, now)
  <2>1. CASE ts = NoTime
    BY <2>1, <1>1, NothingIsTyped DEF Blob, Init
  <2>2. CASE ts # NoTime
    <3>1. ts \in NoTime .. Start
      BY <1>1, <2>2, <1>5 DEF AllSetups
    <3>2. ts \in Nat /\ ts <= Start
      BY <1>1, <2>2, <3>1 DEF NoTime
    <3> DEFINE ca == [k \in Keys |-> NewEntry(1, StaleTime, Monus(ts, 1))]
    <3>3. IsCache(ca, 1, ts)
      <4>1. Monus(ts, 1) \in 0 .. ts
        BY <3>2 DEF Monus
      <4>2. NewEntry(1, StaleTime, Monus(ts, 1)) \in EntriesOf(1, ts)
        BY <1>1, <4>1 DEF NewEntry, EntriesOf
      <4> QED BY <4>2 DEF IsCache
    <3> HIDE DEF ca
    <3>4. dehydrate_state(ca, ts) \in StatesOf(1)
      BY <3>2, <3>3, CapturedIsState
    <3>5. Blob(ts) = [timestamp_ms |-> Ms(ts), buster |-> 0, state |-> dehydrate_state(ca, ts)]
      BY <2>2 DEF Blob, ca
    <3>6. now = Start /\ 0 \in 0 .. 1 /\ 1 \in Nat
      BY DEF Init
    <3> QED BY <1>1, <3>2, <3>4, <3>5, <3>6, SnapshotIsBlob
  <2> QED BY <2>1, <2>2
<1>6. StorageInv
  <2>1. PICK f \in [Keys -> setup.texts \cup {NoText}], g \in [Kin -> setup.kin \cup {NoText}] :
          store = [k \in Keys \cup Foreign |->
                     IF k \in Keys THEN f[k] ELSE IF k \in Kin THEN g[k] ELSE [NoText EXCEPT !.kind = "corrupt"]]
    BY DEF Init
  <2>2. now = Start
    BY DEF Init
  <2>3. ASSUME NEW x \in setup.texts \cup setup.kin PROVE IsText(x, 1, now)
    <3>1. x \in Texts
      BY <1>1 DEF AllSetups
    <3> QED BY <3>1, <2>2 DEF Texts, IsText, TextRecords, Kinds, serialize_entry_data
  <2>4. ASSUME NEW k \in Keys \cup Foreign PROVE IsText(store[k], 1, now)
    <3>1. IsText(NoText, 1, now) /\ IsText([NoText EXCEPT !.kind = "corrupt"], 1, now)
      <4>1. now \in Nat /\ 1 \in Nat
        BY <1>1, <2>2
      <4> QED BY <4>1, NothingIsTyped
    <3>2. \/ store[k] \in setup.texts \cup setup.kin
          \/ store[k] = NoText
          \/ store[k] = [NoText EXCEPT !.kind = "corrupt"]
      BY <2>1
    <3> QED BY <2>3, <3>1, <3>2
  <2>5. IsBlob(blob, 1, now)
    BY <1>5 DEF Init
  <2>6. faults \in 0 .. setup.faults
    <3>1. faults = setup.faults /\ setup.faults \in Nat
      BY <1>1 DEF Init, AllSetups, Unlimited
    <3> QED BY <3>1
  <2>7. DOMAIN store = Keys \cup Foreign
    BY <2>1
  <2> QED BY <1>2, <2>4, <2>5, <2>6, <2>7 DEF StorageInv
<1>7. TaskInv
  <2>1. task = [t \in Everyone |-> IF t = Loop THEN [NoTask EXCEPT !.at = "off"] ELSE NoTask]
    BY DEF Init
  <2>2. now = Start
    BY DEF Init
  <2>3. IsTask(NoTask, 1, now, setup.ops) /\ IsTask([NoTask EXCEPT !.at = "off"], 1, now, setup.ops)
    BY <1>1, <2>2, NothingIsTyped
  <2>4. [NoTask EXCEPT !.at = "off"].at = "off" /\ Loop \in Everyone
    BY DEF NoTask, Everyone
  <2> QED BY <1>2, <2>1, <2>3, <2>4 DEF TaskInv
<1>8. CountInv
  <2>1. setup.crashes \in 0 .. 1 /\ setup.budget \in 0 .. MaxOps
    BY <1>1 DEF AllSetups
  <2>2. crashes = setup.crashes /\ ops = 0 /\ flag = FALSE /\ stop = FALSE
    BY DEF Init
  <2>3. crashes \in 0 .. setup.crashes /\ ops \in 0 .. setup.budget
    BY <2>1, <2>2, <1>1
  <2> QED BY <2>2, <2>3 DEF CountInv
<1> QED BY <1>3, <1>4, <1>6, <1>7, <1>8 DEF TypeInv
-----------------------------------------------------------------------------
(***************************************************************************)
(* Steps keep the types                                                    *)
(***************************************************************************)

\* A task that moves on has what it needs where it gets to.
LEMMA MovedIsTask ==
  ASSUME NEW d, NEW n, NEW os, NEW tk, IsTask(tk, d, n, os), NEW p \in Places,
         p \in WithKey => tk.todo # <<>>,
         p \in Owned => tk.todo \in Seq(Keys),
         p \in WithText => tk.text.kind = "ok",
         p \in WithQuery => tk.qs # <<>>,
         p \in Removing => tk.op = "remove_queries" /\ tk.op \in os
  PROVE  IsTask([tk EXCEPT !.at = p], d, n, os)
<1>1. tk \in TaskRecords(d, n)
  BY DEF IsTask
<1> DEFINE y == [tk EXCEPT !.at = p]
<1>2. /\ y.op = tk.op /\ y.at = p /\ y.todo = tk.todo /\ y.text = tk.text /\ y.blob = tk.blob
      /\ y.qs = tk.qs
  BY <1>1 DEF TaskRecords
<1>3. y \in TaskRecords(d, n)
  BY <1>1 DEF TaskRecords
<1> HIDE DEF y
<1>4. Shape(y, os)
  BY <1>2 DEF Shape
<1>5. IsTask(y, d, n, os)
  BY <1>2, <1>3, <1>4 DEF IsTask
<1> QED BY <1>5 DEF y

\* Stands is what does not change while tasks take their steps.
Stands == UNCHANGED <<setup, now, born>>

LEMMA LoopIsNoTask == Loop \notin Tasks /\ Loop \in Everyone /\ Tasks \subseteq Everyone
  BY PersistAssumption DEF Everyone

LEMMA TaskChanges ==
  ASSUME TypeInv, Stands, NEW t \in Everyone, NEW y, IsTask(y, Len(born), now, setup.ops),
         t = Loop => y.at \in {"off", "sleep", "s_put"},
         task' = [task EXCEPT ![t] = y]
  PROVE  TaskInv'
<1>1. DOMAIN task = Everyone /\ task[Loop].at \in {"off", "sleep", "s_put"}
      /\ \A u \in Everyone : IsTask(task[u], Len(born), now, setup.ops)
  BY DEF TypeInv, TaskInv
<1>2. DOMAIN task' = Everyone
  BY <1>1
<1>3. \A u \in Everyone : IsTask(task'[u], Len(born), now, setup.ops)
  BY <1>1
<1>4. task'[Loop].at \in {"off", "sleep", "s_put"}
  BY <1>1, LoopIsNoTask
<1>5. now' = now /\ setup' = setup /\ born' = born
  BY DEF Stands
<1>6. \A u \in Everyone : IsTask(task'[u], Len(born'), now', setup'.ops)
  BY <1>3, <1>5
<1> QED BY <1>2, <1>4, <1>6 DEF TaskInv

LEMMA NothingNow ==
  ASSUME TypeInv, NEW place \in {"idle", "off", "sleep"}
  PROVE  /\ IsText(NoText, Len(born), now) /\ IsBlob(NoBlob, Len(born), now)
         /\ IsTask(NoTask, Len(born), now, setup.ops)
         /\ IsTask([NoTask EXCEPT !.at = place], Len(born), now, setup.ops)
<1>1. Len(born) \in Nat /\ now \in Nat
  BY SetupFacts DEF TypeInv
<1> QED BY <1>1, NothingIsTyped

LEMMA ReturnsKeeps ==
  ASSUME TypeInv, Stands, NEW t \in Everyone, Returns(t)
  PROVE  TaskInv'
<1> PICK y : y = IF t = Loop THEN [NoTask EXCEPT !.at = "sleep"] ELSE NoTask
  OBVIOUS
<1>1. IsTask(y, Len(born), now, setup.ops)
  BY NothingNow
<1>2. t = Loop => y.at = "sleep"
  BY DEF NoTask
<1>3. task' = [task EXCEPT ![t] = y]
  BY DEF Returns
<1> QED BY <1>1, <1>2, <1>3, TaskChanges

LEMMA GoesKeeps ==
  ASSUME TypeInv, Stands, NEW t \in Tasks, NEW p \in Places, Goes(t, p),
         p \in WithKey => task[t].todo # <<>>,
         p \in Owned => task[t].todo \in Seq(Keys),
         p \in WithText => task[t].text.kind = "ok",
         p \in WithQuery => task[t].qs # <<>>,
         p \in Removing => task[t].op = "remove_queries" /\ task[t].op \in setup.ops
  PROVE  TaskInv'
<1> PICK y : y = [task[t] EXCEPT !.at = p]
  OBVIOUS
<1>1. IsTask(task[t], Len(born), now, setup.ops)
  BY LoopIsNoTask DEF TypeInv, TaskInv
<1>2. IsTask(y, Len(born), now, setup.ops)
  BY <1>1, MovedIsTask
<1>3. task' = [task EXCEPT ![t] = y]
  BY DEF Goes
<1> QED BY <1>2, <1>3, LoopIsNoTask, TaskChanges

\* The first key is done.
LEMMA NextKeyKeeps ==
  ASSUME TypeInv, Stands, NEW t \in Tasks, NEW p \in {"r_get", "m_get", "g_del"}, NextKey(t, p),
         p \in Removing => task[t].at \in Removing, p \in Owned => task[t].at \in Owned
  PROVE  TaskInv'
<1>1. CASE Returns(t)
  BY <1>1, LoopIsNoTask, ReturnsKeeps
<1>2. CASE ~Returns(t)
  <2>1. Len(task[t].todo) > 1 \/ ~(Len(task[t].todo) <= 1)
    BY <1>2 DEF NextKey
  <2>2. task' = [task EXCEPT ![t].todo = Tail(@), ![t].at = p]
    BY <1>2 DEF NextKey
  <2>3. IsTask(task[t], Len(born), now, setup.ops)
    BY LoopIsNoTask DEF TypeInv, TaskInv
  <2>4. PICK tk : tk = task[t]
    OBVIOUS
  <2>5. tk \in TaskRecords(Len(born), now) /\ IsText(tk.text, Len(born), now) /\ IsBlob(tk.blob, Len(born), now)
        /\ Shape(tk, setup.ops)
    BY <2>3, <2>4 DEF IsTask
  <2>6. tk.todo \in Seq(Prefixed) /\ (p \in Owned => tk.todo \in Seq(Keys))
    BY <2>4, <2>5 DEF TaskRecords, Shape
  <2>7. PICK m \in Nat : m = Len(tk.todo)
    BY <2>6
  <2>8. m > 1 /\ m - 1 # 0
    <3>1. m > 1
      BY <2>1, <2>4, <2>7
    <3> QED BY ONLY <3>1, m \in Nat
  <2>9. /\ Tail(tk.todo) \in Seq(Prefixed) /\ Tail(tk.todo) # <<>>
        /\ p \in Owned => Tail(tk.todo) \in Seq(Keys)
    <3>1. tk.todo # <<>>
      BY <2>6, <2>7, <2>8
    <3>2. Tail(tk.todo) \in Seq(Prefixed) /\ Len(Tail(tk.todo)) = m - 1
      BY <2>6, <2>7, <3>1, HeadTailProperties
    <3>3. Len(Tail(tk.todo)) # 0
      BY <2>8, <3>2
    <3>4. p \in Owned => Tail(tk.todo) \in Seq(Keys)
      BY <2>6, <3>1, HeadTailProperties
    <3> QED BY <3>2, <3>3, <3>4, EmptySeq
  <2>10. PICK y : y = [tk EXCEPT !.todo = Tail(@), !.at = p]
    OBVIOUS
  <2>11. /\ y.op = tk.op /\ y.at = p /\ y.todo = Tail(tk.todo) /\ y.text = tk.text /\ y.blob = tk.blob
         /\ y.qs = tk.qs
    BY <2>5, <2>10 DEF TaskRecords
  <2>12. p \in Places
    BY DEF Places, Awaits
  <2>13. y \in TaskRecords(Len(born), now)
    BY <2>5, <2>9, <2>10, <2>12 DEF TaskRecords
  <2>14. Shape(y, setup.ops)
    BY <2>4, <2>5, <2>9, <2>11 DEF Shape, WithText, WithQuery, Removing
  <2>15. IsTask(y, Len(born), now, setup.ops)
    BY <2>5, <2>11, <2>13, <2>14 DEF IsTask
  <2>16. task' = [task EXCEPT ![t] = y]
    BY <2>2, <2>4, <2>10
  <2> QED BY <2>15, <2>16, LoopIsNoTask, TaskChanges
<1> QED BY <1>1, <1>2

\* The restore returned.
LEMMA RestoredKeeps ==
  ASSUME TypeInv, Stands, NEW t \in Tasks, Restored(t)
  PROVE  TaskInv'
<1>1. CASE Returns(t)
  BY <1>1, LoopIsNoTask, ReturnsKeeps
<1>2. CASE Goes(t, "c_ok")
  <2> PICK p : p = "c_ok"
    OBVIOUS
  <2>1. /\ p \in Places /\ p \notin WithKey /\ p \notin Owned /\ p \notin WithText
        /\ p \notin WithQuery /\ p \notin Removing /\ Goes(t, p)
    BY <1>2 DEF Places, WithKey, Owned, WithText, WithQuery, Removing
  <2> QED BY <2>1, GoesKeeps
<1> QED BY <1>1, <1>2 DEF Restored

\* Changes of a cache.
LEMMA PutIsCache ==
  ASSUME NEW d, NEW n, NEW ca, IsCache(ca, d, n), NEW k \in Keys, NEW e \in EntriesOf(d, n)
  PROVE  IsCache(Put(ca, k, e), d, n) /\ DOMAIN Put(ca, k, e) = DOMAIN ca \cup {k}
<1>1. DOMAIN Put(ca, k, e) = DOMAIN ca \cup {k}
  BY DEF Put
<1>2. \A x \in DOMAIN ca \cup {k} : Put(ca, k, e)[x] \in EntriesOf(d, n)
  BY DEF Put, IsCache
<1> QED BY <1>1, <1>2 DEF IsCache

LEMMA WithoutIsCache ==
  ASSUME NEW d, NEW n, NEW ca, IsCache(ca, d, n), NEW ks
  PROVE  IsCache(Without(ca, ks), d, n)
  BY DEF Without, IsCache

LEMMA StaleIsEntry ==
  ASSUME NEW d, NEW n, NEW e \in EntriesOf(d, n)
  PROVE  [e EXCEPT !.stale = TRUE] \in EntriesOf(d, n)
  BY DEF EntriesOf

LEMMA HydratedIsCache ==
  ASSUME NEW d, NEW n \in Nat, NEW ca, IsCache(ca, d, n), NEW q \in QueriesOf(d)
  PROVE  IsCache(Hydrated(ca, q, n), d, n) /\ DOMAIN Hydrated(ca, q, n) = DOMAIN ca \cup {q.key}
<1>1. q.key \in Keys /\ q.data_json.json \in 1 .. d /\ q.stale_time_ms \in Nat
  BY DEF QueriesOf
<1>2. n \in 0 .. n
  OBVIOUS
<1> PICK e : e = NewEntry(q.data_json.json, q.stale_time_ms, n)
  OBVIOUS
<1>3. e \in EntriesOf(d, n)
  BY <1>1, <1>2 DEF EntriesOf, NewEntry
<1>4. Hydrated(ca, q, n) = Put(ca, q.key, e)
  BY DEF Hydrated, deserialize_entry_data
<1> PICK k \in Keys : k = q.key
  BY <1>1
<1>5. IsCache(Put(ca, k, e), d, n) /\ DOMAIN Put(ca, k, e) = DOMAIN ca \cup {k}
  BY ONLY IsCache(ca, d, n), <1>3, PutIsCache
<1> QED BY <1>4, <1>5

LEMMA StalenessIsCache ==
  ASSUME NEW d, NEW n \in Nat, NEW ca, IsCache(ca, d, n), NEW q \in QueriesOf(d), NEW at \in Nat,
         NEW b \in Nat
  PROVE  /\ IsCache(restore_entry_staleness(ca, at, q, n, b), d, n)
         /\ DOMAIN restore_entry_staleness(ca, at, q, n, b) = DOMAIN ca
<1>1. PICK age \in Nat : age = dehydrated_age_ms(at, q.fetched_at_ms)
  <2>1. q.fetched_at_ms \in Nat
    BY DEF QueriesOf
  <2>2. Monus(at, q.fetched_at_ms) \in Nat
    BY <2>1 DEF Monus
  <2> QED BY <2>1, <2>2 DEF dehydrated_age_ms, Never
<1>2. PICK p \in Nat : p = PerMs * age
  <2>1. PICK u \in Nat : u = PerMs
    BY PerMsFact
  <2>2. u * age \in Nat
    OBVIOUS
  <2> QED BY <2>1, <2>2
<1>3. PICK back \in Int : back = n - p
  OBVIOUS
<1>4. restore_entry_staleness(ca, at, q, n, b) =
        IF q.key \notin DOMAIN ca THEN ca
        ELSE [ca EXCEPT ![q.key].stale = q.is_stale,
                        ![q.key].fetched = IF back < n /\ back >= b THEN back ELSE @]
  BY <1>1, <1>2, <1>3 DEF restore_entry_staleness
<1>5. CASE q.key \notin DOMAIN ca
  BY <1>4, <1>5
<1>6. CASE q.key \in DOMAIN ca
  <2>1. PICK e \in EntriesOf(d, n) : e = ca[q.key]
    BY <1>6 DEF IsCache
  <2>2. PICK f : f = IF back < n /\ back >= b THEN back ELSE e.fetched
    OBVIOUS
  <2>3. f \in 0 .. n
    <3>1. CASE back < n /\ back >= b
      <4>1. f = back
        BY <2>2, <3>1
      <4> QED BY <4>1, <3>1, <1>3
    <3>2. CASE ~(back < n /\ back >= b)
      BY <2>1, <2>2, <3>2 DEF EntriesOf
    <3> QED BY <3>1, <3>2
  <2>4. q.is_stale \in BOOLEAN
    BY DEF QueriesOf
  <2>5. PICK g : g = [e EXCEPT !.stale = q.is_stale, !.fetched = f]
    OBVIOUS
  <2>6. g \in EntriesOf(d, n)
    BY <2>1, <2>3, <2>4, <2>5 DEF EntriesOf
  <2>7. restore_entry_staleness(ca, at, q, n, b) = [ca EXCEPT ![q.key] = g]
    BY <1>4, <1>6, <2>1, <2>2, <2>5
  <2> QED BY <2>6, <2>7 DEF IsCache
<1> QED BY <1>5, <1>6

\* A storage call fails or works.
LEMMA FaultsStay ==
  ASSUME TypeInv, setup' = setup, Fails \/ Works \/ UNCHANGED faults
  PROVE  faults' \in 0 .. setup'.faults
<1>1. PICK m \in Nat, f \in Nat : m = setup.faults /\ f = faults /\ f <= m
  BY SetupFacts DEF TypeInv, StorageInv
<1>2. faults' = faults \/ (faults > 0 /\ faults' = faults - 1)
  BY DEF Fails, Works
<1> QED BY <1>1, <1>2

LEMMA StorageKeeps ==
  ASSUME TypeInv, Stands, Fails \/ Works \/ UNCHANGED faults,
         \/ UNCHANGED store
         \/ \E k \in Prefixed : \E x : IsText(x, Len(born), now) /\ store' = [store EXCEPT ![k] = x],
         UNCHANGED blob \/ \E b : IsBlob(b, Len(born), now) /\ blob' = b
  PROVE  StorageInv'
<1>1. now' = now /\ setup' = setup /\ born' = born
  BY DEF Stands
<1>2. faults' \in 0 .. setup'.faults
  BY <1>1, FaultsStay
<1>3. DOMAIN store = Keys \cup Foreign /\ \A k \in Keys \cup Foreign : IsText(store[k], Len(born), now)
  BY DEF TypeInv, StorageInv
<1>4. DOMAIN store' = Keys \cup Foreign /\ \A k \in Keys \cup Foreign : IsText(store'[k], Len(born), now)
  BY <1>3, PrefixedFacts
<1>5. \A k \in Keys \cup Foreign : IsText(store'[k], Len(born'), now')
  BY <1>1, <1>4
<1>6. IsBlob(blob', Len(born), now)
  BY DEF TypeInv, StorageInv
<1>7. IsBlob(blob', Len(born'), now')
  BY <1>1, <1>6
<1> QED BY <1>2, <1>4, <1>5, <1>7 DEF StorageInv
-----------------------------------------------------------------------------
(***************************************************************************)
(* Steps of the query persister keep the types                             *)
(***************************************************************************)

LEMMA RunsFacts ==
  ASSUME TypeInv, NEW t \in Everyone, NEW place, Runs(t, place)
  PROVE  /\ Stands /\ TimeInv' /\ CountInv' /\ UNCHANGED <<boot, buster>>
         /\ place \notin {"off", "sleep", "s_put"} => t \in Tasks
         /\ task[t].at = place /\ MayRun(t)
         /\ IsTask(task[t], Len(born), now, setup.ops)
         /\ place \in WithKey => Head(task[t].todo) \in Prefixed
         /\ place \in Owned => task[t].todo \in Seq(Keys) /\ Head(task[t].todo) \in Keys
<1>1. UNCHANGED <<setup, now, boot, born, buster, handleVars, crashes, ops>> /\ task[t].at = place /\ MayRun(t)
  BY DEF Runs
<1>2. Stands
  BY <1>1 DEF Stands
<1>3. TimeInv'
  BY <1>1 DEF TypeInv, TimeInv
<1>4. CountInv'
  BY <1>1 DEF TypeInv, CountInv, handleVars
<1>5. IsTask(task[t], Len(born), now, setup.ops) /\ task[Loop].at \in {"off", "sleep", "s_put"}
  BY DEF TypeInv, TaskInv
<1>6. ASSUME place \in WithKey PROVE Head(task[t].todo) \in Prefixed
  <2>1. task[t].todo # <<>> /\ task[t].todo \in Seq(Prefixed)
    BY <1>1, <1>5, <1>6 DEF IsTask, Shape, TaskRecords
  <2> QED BY <2>1, HeadTailProperties
<1>8. ASSUME place \in Owned PROVE task[t].todo \in Seq(Keys) /\ Head(task[t].todo) \in Keys
  <2>1. task[t].todo # <<>> /\ task[t].todo \in Seq(Keys)
    BY <1>1, <1>5, <1>8 DEF IsTask, Shape, WithKey, Owned
  <2> QED BY <2>1, HeadTailProperties
<1>7. place \notin {"off", "sleep", "s_put"} => t \in Tasks
  BY <1>1, <1>5 DEF Everyone
<1> QED BY <1>1, <1>2, <1>3, <1>4, <1>5, <1>6, <1>7, <1>8

LEMMA CacheStands == ASSUME TypeInv, Stands, UNCHANGED cache PROVE CacheInv'
  BY DEF TypeInv, CacheInv, Stands

LEMMA CacheChanges ==
  ASSUME Stands, IsCache(cache', Len(born), now)
  PROVE  CacheInv'
  BY DEF CacheInv, Stands

LEMMA StorageStands == ASSUME TypeInv, Stands, UNCHANGED storageVars PROVE StorageInv'
  BY DEF TypeInv, StorageInv, Stands, storageVars

LEMMA TypeStoreText == ASSUME TypeInv, NEW t \in Everyone, StoreText(t) PROVE TypeInv'
<1>1. Runs(t, "p_set") /\ Returns(t) /\ UNCHANGED <<cache, blob>>
      /\ \/ Works /\ store' = [store EXCEPT ![Head(task[t].todo)] = task[t].text]
         \/ Fails /\ UNCHANGED store
  BY DEF StoreText
<1> PICK place : place = "p_set"
  OBVIOUS
<1>2. Runs(t, place) /\ place \in WithKey
  BY <1>1 DEF WithKey
<1>3. Stands /\ TimeInv' /\ CountInv' /\ IsTask(task[t], Len(born), now, setup.ops) /\ Head(task[t].todo) \in Prefixed
  BY <1>2, RunsFacts
<1>4. IsText(task[t].text, Len(born), now)
  BY <1>3 DEF IsTask
<1>5. StorageInv'
  BY <1>1, <1>3, <1>4, StorageKeeps
<1>6. CacheInv'
  BY <1>1, <1>3, CacheStands
<1>7. TaskInv'
  BY <1>1, <1>3, ReturnsKeeps
<1> QED BY <1>3, <1>5, <1>6, <1>7 DEF TypeInv

\* A text in hand that is to be restored or removed.
LEMMA HoldsKeeps ==
  ASSUME TypeInv, Stands, NEW t \in Tasks, NEW text, IsText(text, Len(born), now),
         NEW p \in {"r_del", "r_apply"}, p = "r_apply" => text.kind = "ok", Holds(t, text, p),
         task[t].at \in Owned
  PROVE  TaskInv'
<1>1. PICK tk : tk = task[t]
  OBVIOUS
<1>2. tk \in TaskRecords(Len(born), now) /\ IsBlob(tk.blob, Len(born), now) /\ Shape(tk, setup.ops)
  BY <1>1, LoopIsNoTask DEF TypeInv, TaskInv, IsTask
<1>3. tk.todo # <<>> /\ tk.todo \in Seq(Keys)
  BY <1>1, <1>2 DEF Shape, WithKey, Owned
<1>4. PICK y : y = [tk EXCEPT !.at = p, !.text = text, !.read = now]
  OBVIOUS
<1>5. now \in NoTime .. now /\ p \in Places /\ text \in TextRecords(Len(born), now)
  BY SetupFacts DEF NoTime, Places, Awaits, TypeInv, IsText
<1>6. y.op = tk.op /\ y.at = p /\ y.todo = tk.todo /\ y.text = text /\ y.blob = tk.blob /\ y.qs = tk.qs
  BY <1>2, <1>4 DEF TaskRecords
<1>7. y \in TaskRecords(Len(born), now)
  BY <1>2, <1>4, <1>5 DEF TaskRecords
<1>8. Shape(y, setup.ops)
  BY <1>3, <1>6 DEF Shape, WithText, WithQuery, Removing
<1>9. IsTask(y, Len(born), now, setup.ops)
  BY <1>2, <1>6, <1>7, <1>8 DEF IsTask
<1>10. task' = [task EXCEPT ![t] = y]
  BY <1>1, <1>4 DEF Holds
<1> QED BY <1>9, <1>10, LoopIsNoTask, TaskChanges

LEMMA TypeGetText == ASSUME TypeInv, NEW t \in Everyone, GetText(t) PROVE TypeInv'
<1> PICK place : place = "r_get"
  OBVIOUS
<1>1. Runs(t, place) /\ UNCHANGED <<cache, store, blob>> /\ (Fails \/ Works) /\ place \in WithKey /\ place \in Owned
  BY DEF GetText, WithKey, Owned
<1>2. Stands /\ TimeInv' /\ CountInv' /\ Head(task[t].todo) \in Keys /\ task[t].at \in Owned
  BY <1>1, RunsFacts
<1>3. t \in Tasks
  BY <1>1, RunsFacts
<1>4. StorageInv' /\ CacheInv'
  BY <1>1, <1>2, StorageKeeps, CacheStands
<1>5. PICK text : text = store[Head(task[t].todo)]
  OBVIOUS
<1>6. \/ Returns(t) \/ NextKey(t, "r_get") \/ Holds(t, text, "r_del")
      \/ text.kind \notin {"none", "corrupt", "empty", "misfit"} /\ Holds(t, text, "r_apply")
  BY <1>5 DEF GetText
<1>7. IsText(text, Len(born), now)
  BY <1>2, <1>5 DEF TypeInv, StorageInv
<1>8. CASE Returns(t)
  BY <1>2, <1>4, <1>8, ReturnsKeeps DEF TypeInv
<1>9. CASE NextKey(t, "r_get")
  <2>1. TaskInv'
    <3> PICK p : p = "r_get"
      OBVIOUS
    <3>1. NextKey(t, p) /\ p \in {"r_get", "m_get", "g_del"} /\ p \notin Removing
      BY <1>9 DEF Removing
    <3> QED BY <3>1, <1>2, <1>3, NextKeyKeeps
  <2> QED BY <1>2, <1>4, <2>1 DEF TypeInv
<1>10. CASE Holds(t, text, "r_del")
  <2>1. TaskInv'
    BY <1>2, <1>3, <1>7, <1>10, HoldsKeeps
  <2> QED BY <1>2, <1>4, <2>1 DEF TypeInv
<1>11. CASE text.kind \notin {"none", "corrupt", "empty", "misfit"} /\ Holds(t, text, "r_apply")
  <2>1. text.kind = "ok"
    BY <1>7, <1>11 DEF IsText, TextRecords, Kinds
  <2>2. TaskInv'
    BY <1>2, <1>3, <1>7, <1>11, <2>1, HoldsKeeps
  <2> QED BY <1>2, <1>4, <2>2 DEF TypeInv
<1> QED BY <1>6, <1>8, <1>9, <1>10, <1>11
\* A task with a key in hand is done with it, or goes on with it.
LEMMA KeyStepKeeps ==
  ASSUME TypeInv, NEW t \in Everyone, NEW place \in WithKey, Runs(t, place),
         \/ Returns(t)
         \/ \E p \in {"r_get", "m_get", "g_del"} :
              NextKey(t, p) /\ (p \in Removing => place \in Removing) /\ (p \in Owned => place \in Owned)
         \/ \E p \in WithKey : /\ Goes(t, p)
                               /\ p \in WithText => place \in WithText
                               /\ p \in Removing => place \in Removing
                               /\ p \in Owned => place \in Owned
  PROVE  TaskInv'
<1>1. Stands /\ task[t].at = place /\ IsTask(task[t], Len(born), now, setup.ops)
  BY RunsFacts
<1>2. t \in Tasks
  <2>1. place \notin {"off", "sleep", "s_put"}
    BY DEF WithKey
  <2> QED BY <2>1, RunsFacts
<1>3. CASE Returns(t)
  BY <1>1, <1>3, ReturnsKeeps
<1>4. ASSUME NEW p \in {"r_get", "m_get", "g_del"}, NextKey(t, p), p \in Removing => place \in Removing,
             p \in Owned => place \in Owned
      PROVE  TaskInv'
  BY <1>1, <1>2, <1>4, NextKeyKeeps
<1>5. ASSUME NEW p \in WithKey, Goes(t, p), p \in WithText => place \in WithText,
             p \in Removing => place \in Removing, p \in Owned => place \in Owned
      PROVE  TaskInv'
  <2>1. Shape(task[t], setup.ops)
    BY <1>1 DEF IsTask
  <2>2. /\ task[t].todo # <<>>
        /\ p \in Owned => task[t].todo \in Seq(Keys)
        /\ p \in WithText => task[t].text.kind = "ok"
        /\ p \in Removing => task[t].op = "remove_queries" /\ task[t].op \in setup.ops
    BY <1>1, <1>5, <2>1 DEF Shape
  <2>3. p \in Places /\ p \notin WithQuery
    BY DEF WithKey, WithQuery, Places, Awaits
  <2> QED BY <1>1, <1>2, <1>5, <2>2, <2>3, GoesKeeps
<1> QED BY <1>3, <1>4, <1>5

\* The entry of a key is gone from the storage.
LEMMA RemovedKeeps ==
  ASSUME TypeInv, Stands, NEW k \in Prefixed,
         (Fails /\ UNCHANGED store) \/ (Works /\ store' = [store EXCEPT ![k] = NoText]), UNCHANGED blob
  PROVE  StorageInv'
<1>1. IsText(NoText, Len(born), now)
  BY NothingNow
<1> QED BY <1>1, StorageKeeps

LEMMA TypeDropText == ASSUME TypeInv, NEW t \in Everyone, DropText(t) PROVE TypeInv'
<1> PICK place : place = "r_del"
  OBVIOUS
<1>1. Runs(t, place) /\ UNCHANGED <<cache, blob>> /\ place \in WithKey /\ place \in Owned
      /\ \/ Fails /\ UNCHANGED store /\ Returns(t)
         \/ Works /\ store' = [store EXCEPT ![Head(task[t].todo)] = NoText] /\ NextKey(t, "r_get")
  BY DEF DropText, WithKey, Owned
<1>2. Stands /\ TimeInv' /\ CountInv' /\ Head(task[t].todo) \in Prefixed
  BY <1>1, RunsFacts
<1>3. StorageInv'
  BY <1>1, <1>2, RemovedKeeps
<1>4. CacheInv'
  BY <1>1, <1>2, CacheStands
<1>5. TaskInv'
  <2>1. "r_get" \notin Removing
    BY DEF Removing
  <2> QED BY <1>1, <2>1, KeyStepKeeps
<1> QED BY <1>2, <1>3, <1>4, <1>5 DEF TypeInv

LEMMA TypeApplyText == ASSUME TypeInv, NEW t \in Everyone, ApplyText(t) PROVE TypeInv'
<1> PICK place : place = "r_apply"
  OBVIOUS
<1>1. Runs(t, place) /\ UNCHANGED storageVars /\ place \in WithKey /\ place \in Owned /\ place \in WithText /\ Goes(t, "r_stale")
      /\ cache' = Put(cache, Head(task[t].todo),
                      NewEntry(deserialize_entry_data(task[t].text.data_json), StaleTime, now))
  BY DEF ApplyText, WithKey, Owned, WithText
<1>2. Stands /\ TimeInv' /\ CountInv' /\ Head(task[t].todo) \in Keys /\ task[t].at = place
      /\ IsTask(task[t], Len(born), now, setup.ops)
  BY <1>1, RunsFacts
<1>3. task[t].text.data_json.json \in 1 .. Len(born)
  BY <1>1, <1>2 DEF IsTask, Shape, IsText
<1> PICK e : e = NewEntry(deserialize_entry_data(task[t].text.data_json), StaleTime, now)
  OBVIOUS
<1>4. now \in 0 .. now /\ StaleTime \in Nat
  BY SetupFacts, PersistAssumption DEF TypeInv
<1>5. e \in EntriesOf(Len(born), now)
  BY <1>3, <1>4 DEF EntriesOf, NewEntry, deserialize_entry_data
<1> PICK k \in Keys : k = Head(task[t].todo)
  BY <1>2
<1>6. IsCache(cache, Len(born), now)
  BY DEF TypeInv, CacheInv
<1>7. IsCache(Put(cache, k, e), Len(born), now)
  BY ONLY <1>5, <1>6, PutIsCache, k \in Keys
<1>8. CacheInv'
  <2>1. cache' = Put(cache, k, e)
    BY <1>1
  <2> QED BY <1>2, <1>7, <2>1, CacheChanges
<1>9. StorageInv'
  BY <1>1, <1>2, StorageStands
<1>10. TaskInv'
  <2>1. "r_stale" \in WithKey /\ "r_stale" \notin Removing
    BY DEF WithKey, Removing
  <2> QED BY <1>1, <2>1, KeyStepKeeps
<1> QED BY <1>2, <1>8, <1>9, <1>10 DEF TypeInv

LEMMA TypeMarkRestored == ASSUME TypeInv, NEW t \in Everyone, MarkRestored(t) PROVE TypeInv'
<1> PICK place : place = "r_stale"
  OBVIOUS
<1> PICK k : k = Head(task[t].todo)
  OBVIOUS
<1>1. Runs(t, place) /\ UNCHANGED storageVars /\ place \in WithKey /\ place \in Owned /\ NextKey(t, "r_get")
      /\ \/ UNCHANGED cache
         \/ k \in DOMAIN cache /\ cache' = [cache EXCEPT ![k].stale = TRUE]
  BY DEF MarkRestored, WithKey, Owned
<1>2. Stands /\ TimeInv' /\ CountInv'
  BY <1>1, RunsFacts
<1>3. IsCache(cache, Len(born), now)
  BY DEF TypeInv, CacheInv
<1>4. ASSUME k \in DOMAIN cache, cache' = [cache EXCEPT ![k].stale = TRUE]
      PROVE  IsCache(cache', Len(born), now)
  <2>1. PICK e : e = [cache[k] EXCEPT !.stale = TRUE]
    OBVIOUS
  <2>2. e \in EntriesOf(Len(born), now)
    BY <1>3, <1>4, <2>1, StaleIsEntry DEF IsCache
  <2>3. cache' = [cache EXCEPT ![k] = e]
    BY <1>4, <2>1
  <2> QED BY <1>3, <2>2, <2>3 DEF IsCache
<1>5. CacheInv'
  BY <1>1, <1>2, <1>4, CacheChanges, CacheStands
<1>6. StorageInv'
  BY <1>1, <1>2, StorageStands
<1>7. TaskInv'
  <2>1. "r_get" \notin Removing
    BY DEF Removing
  <2> QED BY <1>1, <2>1, KeyStepKeeps
<1> QED BY <1>2, <1>5, <1>6, <1>7 DEF TypeInv

LEMMA TypeFindText == ASSUME TypeInv, NEW t \in Everyone, FindText(t) PROVE TypeInv'
<1> PICK place : place = "m_get"
  OBVIOUS
<1>1. Runs(t, place) /\ UNCHANGED <<cache, store, blob>> /\ place \in WithKey /\ place \in Owned /\ place \in Removing
      /\ ((Fails /\ Returns(t)) \/ (Works /\ Goes(t, "m_del")))
  BY DEF FindText, WithKey, Owned, Removing
<1>2. Stands /\ TimeInv' /\ CountInv'
  BY <1>1, RunsFacts
<1>3. StorageInv' /\ CacheInv'
  BY <1>1, <1>2, StorageKeeps, CacheStands
<1>4. TaskInv'
  <2>1. "m_del" \in WithKey /\ "m_del" \notin WithText
    BY DEF WithKey, WithText
  <2> QED BY <1>1, <2>1, KeyStepKeeps
<1> QED BY <1>2, <1>3, <1>4 DEF TypeInv

LEMMA TypeRemoveText == ASSUME TypeInv, NEW t \in Everyone, RemoveText(t) PROVE TypeInv'
<1> PICK place : place = "m_del"
  OBVIOUS
<1>1. Runs(t, place) /\ UNCHANGED <<cache, blob>> /\ place \in WithKey /\ place \in Owned /\ place \in Removing
      /\ \/ Fails /\ UNCHANGED store /\ Returns(t)
         \/ Works /\ store' = [store EXCEPT ![Head(task[t].todo)] = NoText] /\ Goes(t, "m_cache")
  BY DEF RemoveText, WithKey, Owned, Removing
<1>2. Stands /\ TimeInv' /\ CountInv' /\ Head(task[t].todo) \in Prefixed
  BY <1>1, RunsFacts
<1>3. StorageInv'
  BY <1>1, <1>2, RemovedKeeps
<1>4. CacheInv'
  BY <1>1, <1>2, CacheStands
<1>5. TaskInv'
  <2>1. "m_cache" \in WithKey /\ "m_cache" \notin WithText
    BY DEF WithKey, WithText
  <2> QED BY <1>1, <2>1, KeyStepKeeps
<1> QED BY <1>2, <1>3, <1>4, <1>5 DEF TypeInv

LEMMA TypeRemoveEntry == ASSUME TypeInv, NEW t \in Everyone, RemoveEntry(t) PROVE TypeInv'
<1> PICK place : place = "m_cache"
  OBVIOUS
<1>1. Runs(t, place) /\ UNCHANGED storageVars /\ place \in WithKey /\ place \in Owned /\ place \in Removing /\ NextKey(t, "m_get")
      /\ cache' = Without(cache, {Head(task[t].todo)})
  BY DEF RemoveEntry, WithKey, Owned, Removing
<1>2. Stands /\ TimeInv' /\ CountInv'
  BY <1>1, RunsFacts
<1>3. IsCache(cache, Len(born), now)
  BY DEF TypeInv, CacheInv
<1>4. IsCache(Without(cache, {Head(task[t].todo)}), Len(born), now)
  BY ONLY <1>3, WithoutIsCache
<1>5. CacheInv'
  BY <1>1, <1>2, <1>4, CacheChanges
<1>6. StorageInv'
  BY <1>1, <1>2, StorageStands
<1>7. TaskInv'
  BY <1>1, KeyStepKeeps
<1> QED BY <1>2, <1>5, <1>6, <1>7 DEF TypeInv
\* What persister_gc lists: keys with its prefix, and the texts under them.
LEMMA GarbageFacts ==
  ASSUME TypeInv, Garbage # {}
  PROVE  /\ Sorted(Garbage) \in Seq(Prefixed) /\ Sorted(Garbage) # <<>>
         /\ \A i \in DOMAIN Sorted(Garbage) : Sorted(Garbage)[i] \in Garbage
         /\ [k \in Prefixed |-> store[k]] \in [Prefixed -> TextRecords(Len(born), now)]
<1>1. Garbage \in SUBSET Prefixed
  BY DEF Garbage
<1>2. Sorted(Garbage) \in Seq(Garbage) /\ Sorted(Garbage) # <<>>
      /\ \A i \in DOMAIN Sorted(Garbage) : Sorted(Garbage)[i] \in Garbage
  BY <1>1, SortedKeys
<1>3. Seq(Garbage) \subseteq Seq(Prefixed)
  BY <1>1
<1>4. \A k \in Prefixed : store[k] \in TextRecords(Len(born), now)
  BY PrefixedFacts DEF TypeInv, StorageInv, IsText
<1> QED BY <1>2, <1>3, <1>4

\* The keys to go over are those that are sorted.
LEMMA ListedIsTask ==
  ASSUME NEW d, NEW n \in Nat, NEW os, NEW tk, IsTask(tk, d, n, os), NEW ks \in Seq(Prefixed), ks # <<>>,
         NEW es \in [Prefixed -> TextRecords(d, n)]
  PROVE  IsTask([tk EXCEPT !.todo = ks, !.at = "g_del", !.read = n, !.entries = es], d, n, os)
<1>1. tk \in TaskRecords(d, n)
  BY DEF IsTask
<1> DEFINE y == [tk EXCEPT !.todo = ks, !.at = "g_del", !.read = n, !.entries = es]
<1>2. /\ y.op = tk.op /\ y.at = "g_del" /\ y.todo = ks /\ y.text = tk.text /\ y.blob = tk.blob
      /\ y.qs = tk.qs
  BY <1>1 DEF TaskRecords
<1>3. "g_del" \in Places /\ n \in NoTime .. n
  BY DEF Places, Awaits, NoTime
<1>4. y \in TaskRecords(d, n)
  BY <1>1, <1>3 DEF TaskRecords
<1> HIDE DEF y
<1>5. Shape(y, os)
  BY <1>2 DEF Shape, Owned, WithText, WithQuery, Removing
<1>6. IsTask(y, d, n, os)
  BY <1>2, <1>4, <1>5 DEF IsTask
<1> QED BY <1>6 DEF y

LEMMA TypeGcList == ASSUME TypeInv, NEW t \in Everyone, GcList(t) PROVE TypeInv'
<1> PICK place : place = "g_list"
  OBVIOUS
<1>1. Runs(t, place) /\ UNCHANGED <<cache, store, blob>> /\ (Fails \/ Works)
      /\ \/ Returns(t)
         \/ Garbage # {} /\ Lists(t, Garbage)
  BY DEF GcList, Lists
<1>2. Stands /\ TimeInv' /\ CountInv' /\ IsTask(task[t], Len(born), now, setup.ops)
  BY <1>1, RunsFacts
<1>3. t \in Tasks
  BY <1>1, RunsFacts
<1>4. StorageInv' /\ CacheInv'
  BY <1>1, <1>2, StorageKeeps, CacheStands
<1>5. CASE Returns(t)
  BY <1>2, <1>4, <1>5, ReturnsKeeps DEF TypeInv
<1>6. CASE Garbage # {} /\ Lists(t, Garbage)
  <2>1. PICK ks \in Seq(Prefixed) : ks = Sorted(Garbage) /\ ks # <<>>
    BY <1>6, GarbageFacts
  <2>2. PICK es \in [Prefixed -> TextRecords(Len(born), now)] : es = [k \in Prefixed |-> store[k]]
    BY <1>6, GarbageFacts
  <2>3. PICK y : y = [task[t] EXCEPT !.todo = ks, !.at = "g_del", !.read = now, !.entries = es]
    OBVIOUS
  <2>4. now \in Nat
    BY SetupFacts DEF TypeInv
  <2>5. IsTask(y, Len(born), now, setup.ops)
    BY <1>2, <2>1, <2>3, <2>4, ListedIsTask
  <2>6. task' = [task EXCEPT ![t] = y]
    BY <1>6, <2>1, <2>2, <2>3 DEF Lists
  <2>7. TaskInv'
    BY <1>2, <1>3, <2>5, <2>6, LoopIsNoTask, TaskChanges
  <2> QED BY <1>2, <1>4, <2>7 DEF TypeInv
<1> QED BY <1>1, <1>5, <1>6

LEMMA TypeGcRemove == ASSUME TypeInv, NEW t \in Everyone, GcRemove(t) PROVE TypeInv'
<1> PICK place : place = "g_del"
  OBVIOUS
<1>1. Runs(t, place) /\ UNCHANGED <<cache, blob>> /\ place \in WithKey
      /\ \/ Fails /\ UNCHANGED store /\ Returns(t)
         \/ Works /\ store' = [store EXCEPT ![Head(task[t].todo)] = NoText] /\ Goes(t, "g_stale")
  BY DEF GcRemove, WithKey
<1>2. Stands /\ TimeInv' /\ CountInv' /\ Head(task[t].todo) \in Prefixed
  BY <1>1, RunsFacts
<1>3. StorageInv'
  BY <1>1, <1>2, RemovedKeeps
<1>4. CacheInv'
  BY <1>1, <1>2, CacheStands
<1>5. TaskInv'
  <2>1. "g_stale" \in WithKey /\ "g_stale" \notin Owned /\ "g_stale" \notin WithText /\ "g_stale" \notin Removing
    BY DEF WithKey, Owned, WithText, Removing
  <2> QED BY <1>1, <2>1, KeyStepKeeps
<1> QED BY <1>2, <1>3, <1>4, <1>5 DEF TypeInv

LEMMA TypeGcInvalidate == ASSUME TypeInv, NEW t \in Everyone, GcInvalidate(t) PROVE TypeInv'
<1> PICK place : place = "g_stale"
  OBVIOUS
<1>1. Runs(t, place) /\ UNCHANGED storageVars /\ place \in WithKey /\ NextKey(t, "g_del")
      /\ cache' = [k \in DOMAIN cache |->
                     IF StartsWith(k, Head(task[t].todo)) THEN [cache[k] EXCEPT !.stale = TRUE] ELSE cache[k]]
  BY DEF GcInvalidate, WithKey
<1>2. Stands /\ TimeInv' /\ CountInv'
  BY <1>1, RunsFacts
<1>3. IsCache(cache, Len(born), now)
  BY DEF TypeInv, CacheInv
<1>4. ASSUME NEW k \in DOMAIN cache PROVE [cache[k] EXCEPT !.stale = TRUE] \in EntriesOf(Len(born), now)
  BY <1>3, StaleIsEntry DEF IsCache
<1>5. DOMAIN cache' = DOMAIN cache
  BY <1>1
<1>6. \A k \in DOMAIN cache : cache'[k] \in EntriesOf(Len(born), now)
  BY <1>1, <1>3, <1>4 DEF IsCache
<1>7. CacheInv'
  <2>1. IsCache(cache', Len(born), now)
    BY <1>3, <1>5, <1>6 DEF IsCache
  <2> QED BY <1>2, <2>1, CacheChanges
<1>8. StorageInv'
  BY <1>1, <1>2, StorageStands
<1>9. TaskInv'
  <2>1. "g_del" \notin Removing /\ "g_del" \notin Owned
    BY DEF Removing, Owned
  <2> QED BY <1>1, <2>1, KeyStepKeeps
<1> QED BY <1>2, <1>7, <1>8, <1>9 DEF TypeInv

LEMMA TypeQueryStep == ASSUME TypeInv, NEW t \in Everyone, QueryStep(t) PROVE TypeInv'
  BY TypeStoreText, TypeGetText, TypeDropText, TypeApplyText, TypeMarkRestored, TypeFindText,
     TypeRemoveText, TypeRemoveEntry, TypeGcList, TypeGcRemove, TypeGcInvalidate DEF QueryStep

-----------------------------------------------------------------------------
(***************************************************************************)
(* Steps of the persisted client keep the types                            *)
(***************************************************************************)

\* Of a finite set of numbers that is not empty, one is the smallest.
LEMMA Smallest ==
  ASSUME NEW S \in SUBSET Nat, IsFiniteSet(S), S # {}
  PROVE  \E k \in S : \A x \in S : k <= x
<1>1. PICK n \in Nat : n = Cardinality(S)
  BY FS_CardinalityType
<1>2. n # 0
  BY <1>1, FS_EmptySet
<1>3. 1 \in 1 .. Cardinality(S)
  BY <1>1, <1>2
<1>4. PICK i \in 1 .. Cardinality(S) : i = 1
  BY <1>3
<1>5. PICK k \in S : Rank(S, k) = i - 1
  BY EveryRank
<1>6. Cardinality(Below(S, k)) = 0 /\ Below(S, k) \in SUBSET S
  BY <1>4, <1>5 DEF Rank, Below
<1>7. Below(S, k) = {}
  BY <1>6, FS_Subset, FS_EmptySet
<1>8. \A x \in S : ~(x < k) /\ x \in Nat /\ k \in Nat
  BY <1>7 DEF Below
<1> QED BY <1>8

\* There is an oldest query to remove (src/persist_client.rs,
\* remove_oldest_query).
LEMMA OldestIsRemoved ==
  ASSUME NEW d, NEW qs \in Seq(QueriesOf(d)), qs # <<>>
  PROVE  remove_oldest_query(qs) \in Seq(QueriesOf(d))
<1>1. PICK n \in Nat : n = Len(qs) /\ DOMAIN qs = 1 .. n
  OBVIOUS
<1>2. n # 0
  BY <1>1, EmptySeq
<1>3. \A i \in 1 .. n : qs[i] \in QueriesOf(d)
  BY <1>1
<1>4. \A i \in 1 .. n : Stamp(qs[i]) \in Nat
  BY <1>3 DEF Stamp, QueriesOf
<1>5. PICK F : F = [i \in 1 .. n |-> Stamp(qs[i])]
  OBVIOUS
<1>6. PICK S : S = {Stamp(qs[i]) : i \in 1 .. n}
  OBVIOUS
<1>7. S \in SUBSET Nat /\ IsFiniteSet(S) /\ S # {}
  <2>1. F \in [1 .. n -> S] /\ \A x \in S : \E i \in 1 .. n : F[i] = x
    BY <1>5, <1>6
  <2>2. F \in Surjection(1 .. n, S)
    BY <2>1, Fun_IsSurj
  <2>3. IsFiniteSet(1 .. n)
    BY FS_Interval
  <2>4. IsFiniteSet(S)
    BY <2>2, <2>3, FS_Surjection
  <2>5. 1 \in 1 .. n
    BY <1>2
  <2> QED BY <1>4, <1>6, <2>4, <2>5
<1>8. PICK m \in S : \A x \in S : m <= x
  BY <1>7, Smallest
<1>9. PICK I : I = {i \in 1 .. n : Stamp(qs[i]) = m}
  OBVIOUS
<1>10. I \in SUBSET Nat /\ IsFiniteSet(I) /\ I # {}
  <2>1. IsFiniteSet(1 .. n) /\ I \subseteq 1 .. n
    BY <1>9, FS_Interval
  <2>2. IsFiniteSet(I)
    BY <2>1, FS_Subset
  <2> QED BY <1>6, <1>9, <2>2
<1>11. PICK o \in I : \A x \in I : o <= x
  BY <1>10, Smallest
<1>12. o \in 1 .. n /\ Stamp(qs[o]) = m
  BY <1>9, <1>11
<1>13. \A j \in 1 .. n : Stamp(qs[o]) <= Stamp(qs[j])
  BY <1>6, <1>8, <1>12
<1>14. ASSUME NEW j \in 1 .. o - 1 PROVE Stamp(qs[o]) < Stamp(qs[j])
  <2>1. j \in 1 .. n /\ o \in Nat /\ ~(o <= j)
    BY <1>12
  <2>2. j \notin I
    BY <1>11, <2>1
  <2>3. Stamp(qs[j]) # m /\ m <= Stamp(qs[j]) /\ m \in Nat /\ Stamp(qs[j]) \in Nat
    BY <1>4, <1>6, <1>7, <1>8, <1>9, <2>1, <2>2
  <2> QED BY <1>12, <2>3
<1>15. PICK oldest \in 1 .. n : remove_oldest_query(qs) = RemoveAt(qs, oldest)
  <2> DEFINE c == CHOOSE i \in DOMAIN qs :
                    /\ \A j \in DOMAIN qs : Stamp(qs[i]) <= Stamp(qs[j])
                    /\ \A j \in 1 .. i - 1 : Stamp(qs[i]) < Stamp(qs[j])
  <2>1. c \in DOMAIN qs
    BY <1>1, <1>12, <1>13, <1>14
  <2>2. remove_oldest_query(qs) = RemoveAt(qs, c)
    BY DEF remove_oldest_query
  <2> HIDE DEF c
  <2> QED BY <1>1, <2>1, <2>2
<1>16. PICK a, b : a = SubSeq(qs, 1, oldest - 1) /\ b = SubSeq(qs, oldest + 1, n)
  OBVIOUS
<1>17. a \in Seq(QueriesOf(d)) /\ b \in Seq(QueriesOf(d))
  <2>1. \A i \in 1 .. oldest - 1 : qs[i] \in QueriesOf(d)
    BY <1>3
  <2>2. \A i \in oldest + 1 .. n : qs[i] \in QueriesOf(d)
    BY <1>3
  <2>3. oldest - 1 \in Int /\ oldest + 1 \in Int /\ n \in Int /\ 1 \in Int
    OBVIOUS
  <2> QED BY <1>16, <2>1, <2>2, <2>3, SubSeqProperties
<1>18. a \o b \in Seq(QueriesOf(d))
  BY <1>17, ConcatProperties
<1>19. RemoveAt(qs, oldest) = a \o b
  BY <1>1, <1>16 DEF RemoveAt
<1> QED BY <1>15, <1>18, <1>19

\* A task that has no key in hand goes on.
Plain == {"c_drop", "c_remove", "c_err", "c_put", "h_next"}

LEMMA PlainGoesKeeps ==
  ASSUME TypeInv, Stands, NEW t \in Tasks, NEW p \in Plain, Goes(t, p)
  PROVE  TaskInv'
<1>1. p \in Places /\ p \notin WithKey /\ p \notin Owned /\ p \notin WithText /\ p \notin WithQuery /\ p \notin Removing
  BY DEF Plain, Places, Awaits, WithKey, Owned, WithText, WithQuery, Removing
<1> QED BY <1>1, GoesKeeps

LEMMA TypeGetBlob == ASSUME TypeInv, NEW t \in Everyone, GetBlob(t) PROVE TypeInv'
<1> PICK place : place = "c_get"
  OBVIOUS
<1>1. Runs(t, place) /\ UNCHANGED <<cache, store, blob>> /\ (Fails \/ Works)
      /\ \/ \E p \in {"c_drop", "c_remove"} : Goes(t, p)
         \/ Restored(t)
         \/ task' = [task EXCEPT ![t].at = "h_next", ![t].blob = blob, ![t].read = now,
                                 ![t].qs = blob.state.queries]
  BY DEF GetBlob
<1>2. Stands /\ TimeInv' /\ CountInv' /\ IsTask(task[t], Len(born), now, setup.ops)
  BY <1>1, RunsFacts
<1>3. t \in Tasks
  BY <1>1, RunsFacts
<1>4. StorageInv' /\ CacheInv'
  BY <1>1, <1>2, StorageKeeps, CacheStands
<1>5. ASSUME NEW p \in {"c_drop", "c_remove"}, Goes(t, p) PROVE TaskInv'
  <2>1. p \in Plain
    BY DEF Plain
  <2> QED BY <1>2, <1>3, <1>5, <2>1, PlainGoesKeeps
<1>6. CASE Restored(t)
  <2>1. TaskInv'
    BY <1>2, <1>3, <1>6, RestoredKeeps
  <2> QED BY <1>2, <1>4, <2>1 DEF TypeInv
<1>7. CASE task' = [task EXCEPT ![t].at = "h_next", ![t].blob = blob, ![t].read = now,
                                ![t].qs = blob.state.queries]
  <2>1. PICK tk : tk = task[t]
    OBVIOUS
  <2>2. tk \in TaskRecords(Len(born), now) /\ IsText(tk.text, Len(born), now) /\ Shape(tk, setup.ops)
    BY <1>2, <2>1 DEF IsTask
  <2>3. IsBlob(blob, Len(born), now)
    BY DEF TypeInv, StorageInv
  <2>4. blob \in BlobRecords(Len(born), now) /\ blob.state.queries \in Seq(QueriesOf(Len(born)))
    BY <2>3 DEF IsBlob, BlobRecords, StatesOf
  <2>5. now \in NoTime .. now /\ "h_next" \in Places
    BY SetupFacts DEF NoTime, Places, TypeInv
  <2>6. PICK y : y = [tk EXCEPT !.at = "h_next", !.blob = blob, !.read = now, !.qs = blob.state.queries]
    OBVIOUS
  <2>7. y.at = "h_next" /\ y.text = tk.text /\ y.blob = blob
    BY <2>2, <2>6 DEF TaskRecords
  <2>8. y \in TaskRecords(Len(born), now)
    BY <2>2, <2>4, <2>5, <2>6 DEF TaskRecords
  <2>9. Shape(y, setup.ops)
    BY <2>7 DEF Shape, WithKey, Owned, WithText, WithQuery, Removing
  <2>10. IsTask(y, Len(born), now, setup.ops)
    BY <2>2, <2>3, <2>7, <2>8, <2>9 DEF IsTask
  <2>11. task' = [task EXCEPT ![t] = y]
    BY <1>7, <2>1, <2>6
  <2>12. TaskInv'
    BY <1>2, <1>3, <2>10, <2>11, LoopIsNoTask, TaskChanges
  <2> QED BY <1>2, <1>4, <2>12 DEF TypeInv
<1> QED BY <1>1, <1>2, <1>4, <1>5, <1>6, <1>7 DEF TypeInv

LEMMA NoBlobKeeps ==
  ASSUME TypeInv, Stands, Fails \/ Works, UNCHANGED store, blob' = blob \/ blob' = NoBlob
  PROVE  StorageInv'
<1>1. IsBlob(NoBlob, Len(born), now)
  BY NothingNow
<1> QED BY <1>1, StorageKeeps

LEMMA TypeRemoveBlob == ASSUME TypeInv, NEW t \in Everyone, RemoveBlob(t) PROVE TypeInv'
<1> PICK place, p : place = "c_remove" /\ p = "c_err"
  OBVIOUS
<1>1. Runs(t, place) /\ UNCHANGED <<cache, store>> /\ (Fails \/ Works) /\ (blob' = blob \/ blob' = NoBlob)
      /\ (Goes(t, p) \/ Restored(t)) /\ p \in Plain
  BY DEF RemoveBlob, Plain
<1>2. Stands /\ TimeInv' /\ CountInv'
  BY <1>1, RunsFacts
<1>3. t \in Tasks
  BY <1>1, RunsFacts
<1>4. StorageInv' /\ CacheInv'
  BY <1>1, <1>2, NoBlobKeeps, CacheStands
<1>5. TaskInv'
  BY <1>1, <1>2, <1>3, PlainGoesKeeps, RestoredKeeps
<1> QED BY <1>2, <1>4, <1>5 DEF TypeInv

LEMMA TypeDropBlob == ASSUME TypeInv, NEW t \in Everyone, DropBlob(t) PROVE TypeInv'
<1> PICK place, p : place = "c_drop" /\ p = "c_err"
  OBVIOUS
<1>1. Runs(t, place) /\ UNCHANGED <<cache, store>> /\ (Fails \/ Works) /\ (blob' = blob \/ blob' = NoBlob)
      /\ Goes(t, p) /\ p \in Plain
  BY DEF DropBlob, Plain
<1>2. Stands /\ TimeInv' /\ CountInv'
  BY <1>1, RunsFacts
<1>3. t \in Tasks
  BY <1>1, RunsFacts
<1>4. StorageInv' /\ CacheInv'
  BY <1>1, <1>2, NoBlobKeeps, CacheStands
<1>5. TaskInv'
  BY <1>1, <1>2, <1>3, PlainGoesKeeps
<1> QED BY <1>2, <1>4, <1>5 DEF TypeInv

\* The restore is tried again, or with a smaller snapshot.
LEMMA TypeRestoreError == ASSUME TypeInv, NEW t \in Everyone, RestoreError(t) PROVE TypeInv'
<1> PICK place : place = "c_err"
  OBVIOUS
<1> PICK tk : tk = task[t]
  OBVIOUS
<1>1. Runs(t, place) /\ UNCHANGED <<cache, storageVars>>
  BY DEF RestoreError
<1>2. \/ Returns(t)
      \/ /\ ~(tk.errs + 1 > MaxRetries)
         /\ \/ /\ tk.blob.state.queries # <<>>
               /\ task' = [task EXCEPT ![t].errs = @ + 1, ![t].at = "h_next", ![t].op = "replace",
                             ![t].blob.state.queries = remove_oldest_query(tk.blob.state.queries),
                             ![t].qs = remove_oldest_query(tk.blob.state.queries)]
            \/ task' = [task EXCEPT ![t].errs = @ + 1, ![t].at = "c_get"]
  BY DEF RestoreError
<1>3. Stands /\ TimeInv' /\ CountInv' /\ IsTask(tk, Len(born), now, setup.ops)
  BY <1>1, RunsFacts
<1>4. t \in Tasks
  BY <1>1, RunsFacts
<1>5. StorageInv' /\ CacheInv'
  BY <1>1, <1>3, StorageStands, CacheStands
<1>6. tk \in TaskRecords(Len(born), now) /\ IsText(tk.text, Len(born), now) /\ IsBlob(tk.blob, Len(born), now)
      /\ Shape(tk, setup.ops)
  BY <1>3 DEF IsTask
<1>7. ASSUME ~(tk.errs + 1 > MaxRetries) PROVE tk.errs + 1 \in 0 .. MaxRetries
  <2>1. MaxRetries \in Nat /\ tk.errs \in 0 .. MaxRetries
    BY <1>6, PersistAssumption DEF TaskRecords
  <2> QED BY <1>7, <2>1
<1>8. "h_next" \in Places /\ "c_get" \in Places /\ "replace" \in OpNames
  BY DEF Places, Awaits, OpNames
<1>9. CASE Returns(t)
  <2>1. TaskInv'
    BY <1>3, <1>9, ReturnsKeeps
  <2> QED BY <1>3, <1>5, <2>1 DEF TypeInv
<1>10. ASSUME ~(tk.errs + 1 > MaxRetries), task' = [task EXCEPT ![t].errs = @ + 1, ![t].at = "c_get"]
       PROVE  TypeInv'
  <2>1. PICK y : y = [tk EXCEPT !.errs = @ + 1, !.at = "c_get"]
    OBVIOUS
  <2>2. y.at = "c_get" /\ y.text = tk.text /\ y.blob = tk.blob
    BY <1>6, <2>1 DEF TaskRecords
  <2>3. y \in TaskRecords(Len(born), now)
    BY <1>6, <1>7, <1>8, <1>10, <2>1 DEF TaskRecords
  <2>4. Shape(y, setup.ops)
    BY <2>2 DEF Shape, WithKey, Owned, WithText, WithQuery, Removing
  <2>5. IsTask(y, Len(born), now, setup.ops)
    BY <1>6, <2>2, <2>3, <2>4 DEF IsTask
  <2>6. task' = [task EXCEPT ![t] = y]
    BY <1>10, <2>1
  <2>7. TaskInv'
    BY <1>3, <1>4, <2>5, <2>6, LoopIsNoTask, TaskChanges
  <2> QED BY <1>3, <1>5, <2>7 DEF TypeInv
<1>11. ASSUME ~(tk.errs + 1 > MaxRetries), tk.blob.state.queries # <<>>,
              task' = [task EXCEPT ![t].errs = @ + 1, ![t].at = "h_next", ![t].op = "replace",
                         ![t].blob.state.queries = remove_oldest_query(tk.blob.state.queries),
                         ![t].qs = remove_oldest_query(tk.blob.state.queries)]
       PROVE  TypeInv'
  <2>1. tk.blob \in BlobRecords(Len(born), now) /\ tk.blob.state \in StatesOf(Len(born))
        /\ tk.blob.state.queries \in Seq(QueriesOf(Len(born)))
    BY <1>6 DEF IsBlob, BlobRecords, StatesOf
  <2>2. PICK qs \in Seq(QueriesOf(Len(born))) : qs = remove_oldest_query(tk.blob.state.queries)
    BY <1>11, <2>1, OldestIsRemoved
  <2>3. PICK st : st = [tk.blob.state EXCEPT !.queries = qs]
    OBVIOUS
  <2>4. st \in StatesOf(Len(born))
    BY <2>1, <2>2, <2>3 DEF StatesOf
  <2>5. PICK b : b = [tk.blob EXCEPT !.state = st]
    OBVIOUS
  <2>6. b \in BlobRecords(Len(born), now) /\ b.timestamp_ms = tk.blob.timestamp_ms
    BY <2>1, <2>4, <2>5 DEF BlobRecords
  <2>7. tk.blob.timestamp_ms # NoTime
    BY <1>6, <1>11 DEF IsBlob, NoBlob
  <2>8. IsBlob(b, Len(born), now)
    BY <2>6, <2>7 DEF IsBlob
  <2>9. PICK y : y = [tk EXCEPT !.errs = @ + 1, !.at = "h_next", !.op = "replace", !.blob = b, !.qs = qs]
    OBVIOUS
  <2>10. y.at = "h_next" /\ y.text = tk.text /\ y.blob = b
    BY <1>6, <2>9 DEF TaskRecords
  <2>11. y \in TaskRecords(Len(born), now)
    BY <1>6, <1>7, <1>8, <1>11, <2>6, <2>9 DEF TaskRecords
  <2>12. Shape(y, setup.ops)
    BY <2>10 DEF Shape, WithKey, Owned, WithText, WithQuery, Removing
  <2>13. IsTask(y, Len(born), now, setup.ops)
    BY <1>6, <2>8, <2>10, <2>11, <2>12 DEF IsTask
  <2>14. task' = [task EXCEPT ![t] = y]
    <3>1. task' = [task EXCEPT ![t].errs = @ + 1, ![t].at = "h_next", ![t].op = "replace",
                     ![t].blob.state.queries = qs, ![t].qs = qs]
      BY ONLY <1>11, <2>2
    <3>2. task' = [task EXCEPT ![t] = [tk EXCEPT !.errs = @ + 1, !.at = "h_next", !.op = "replace",
                     !.blob.state.queries = qs, !.qs = qs]]
      <4>1. t \in DOMAIN task
        BY <1>4, LoopIsNoTask DEF TypeInv, TaskInv
      <4> QED BY ONLY <3>1, <4>1, tk = task[t], <1>6, <2>1 DEF TaskRecords, BlobRecords, StatesOf
    <3>3. [tk EXCEPT !.errs = @ + 1, !.at = "h_next", !.op = "replace", !.blob.state.queries = qs, !.qs = qs] = y
      BY ONLY <1>6, <2>1, <2>3, <2>5, <2>9 DEF TaskRecords, BlobRecords, StatesOf
    <3> QED BY <3>2, <3>3
  <2>15. TaskInv'
    BY <1>3, <1>4, <2>13, <2>14, LoopIsNoTask, TaskChanges
  <2> QED BY <1>3, <1>5, <2>15 DEF TypeInv
<1> QED BY <1>2, <1>9, <1>10, <1>11
\* The query at hand is left behind.
LEMMA TailKeeps ==
  ASSUME TypeInv, Stands, NEW t \in Tasks, NEW p, task[t].qs # <<>>,
         p = "h_next", task[t].at = p \/ task[t].at = "h_restore",
         task' = [task EXCEPT ![t].at = p, ![t].qs = Tail(@)]
  PROVE  TaskInv'
<1> PICK tk : tk = task[t]
  OBVIOUS
<1>1. tk \in TaskRecords(Len(born), now) /\ IsText(tk.text, Len(born), now) /\ IsBlob(tk.blob, Len(born), now)
  BY LoopIsNoTask DEF TypeInv, TaskInv, IsTask
<1>2. Tail(tk.qs) \in Seq(QueriesOf(Len(born)))
  <2>1. tk.qs \in Seq(QueriesOf(Len(born))) /\ tk.qs # <<>>
    BY <1>1 DEF TaskRecords
  <2> QED BY <2>1, HeadTailProperties
<1>3. p \in Places
  BY DEF Places
<1> PICK y : y = [tk EXCEPT !.at = p, !.qs = Tail(@)]
  OBVIOUS
<1>4. y.at = p /\ y.text = tk.text /\ y.blob = tk.blob
  BY <1>1 DEF TaskRecords
<1>5. y \in TaskRecords(Len(born), now)
  BY <1>1, <1>2, <1>3 DEF TaskRecords
<1>6. Shape(y, setup.ops)
  BY <1>4 DEF Shape, WithKey, Owned, WithText, WithQuery, Removing
<1>7. IsTask(y, Len(born), now, setup.ops)
  BY <1>1, <1>4, <1>5, <1>6 DEF IsTask
<1>8. task' = [task EXCEPT ![t] = y]
  OBVIOUS
<1> QED BY <1>7, <1>8, LoopIsNoTask, TaskChanges

LEMMA TypeHydrateNext == ASSUME TypeInv, NEW t \in Everyone, HydrateNext(t) PROVE TypeInv'
<1> PICK place, p : place = "h_next" /\ p = "h_next"
  OBVIOUS
<1>1. Runs(t, place) /\ UNCHANGED <<cache, storageVars>>
      /\ \/ Goes(t, "c_put")
         \/ Restored(t)
         \/ task[t].qs # <<>> /\ Goes(t, "h_set")
         \/ task[t].qs # <<>> /\ task' = [task EXCEPT ![t].qs = Tail(@)]
  BY DEF HydrateNext
<1>2. Stands /\ TimeInv' /\ CountInv' /\ task[t].at = p
  BY <1>1, RunsFacts
<1>3. t \in Tasks
  BY <1>1, RunsFacts
<1>4. StorageInv' /\ CacheInv'
  BY <1>1, <1>2, StorageStands, CacheStands
<1>5. ASSUME Goes(t, "c_put") PROVE TaskInv'
  <2> PICK q : q = "c_put"
    OBVIOUS
  <2>1. q \in Plain /\ Goes(t, q)
    BY <1>5 DEF Plain
  <2> QED BY <1>2, <1>3, <2>1, PlainGoesKeeps
<1>6. ASSUME Restored(t) PROVE TaskInv'
  BY <1>2, <1>3, <1>6, RestoredKeeps
<1>7. ASSUME task[t].qs # <<>>, Goes(t, "h_set") PROVE TaskInv'
  <2> PICK q : q = "h_set"
    OBVIOUS
  <2>1. q \in Places /\ q \notin WithKey /\ q \notin Owned /\ q \notin WithText /\ q \notin Removing /\ Goes(t, q)
    BY <1>7 DEF Places, WithKey, Owned, WithText, Removing
  <2> QED BY <1>2, <1>3, <1>7, <2>1, GoesKeeps
<1>8. ASSUME task[t].qs # <<>>, task' = [task EXCEPT ![t].qs = Tail(@)] PROVE TaskInv'
  <2>1. task[t] \in TaskRecords(Len(born), now)
    BY <1>3, LoopIsNoTask DEF TypeInv, TaskInv, IsTask
  <2>2. [task[t] EXCEPT !.qs = Tail(@)] = [task[t] EXCEPT !.at = p, !.qs = Tail(@)]
    BY <1>2, <2>1 DEF TaskRecords
  <2>3. task' = [task EXCEPT ![t].at = p, ![t].qs = Tail(@)]
    BY <1>8, <2>2
  <2> QED BY <1>2, <1>3, <1>8, <2>3, TailKeeps
<1> QED BY <1>1, <1>2, <1>4, <1>5, <1>6, <1>7, <1>8 DEF TypeInv

\* The query that is hydrated.
LEMMA QueryAtHand ==
  ASSUME TypeInv, NEW t \in Everyone, task[t].at \in WithQuery
  PROVE  /\ Head(task[t].qs) \in QueriesOf(Len(born)) /\ task[t].qs # <<>>
         /\ Captured(t) \in Nat /\ now \in Nat /\ boot \in Nat
         /\ IsCache(cache, Len(born), now)
<1>1. IsTask(task[t], Len(born), now, setup.ops)
  BY DEF TypeInv, TaskInv
<1>2. task[t].qs \in Seq(QueriesOf(Len(born))) /\ task[t].qs # <<>>
  BY <1>1 DEF IsTask, TaskRecords, Shape
<1>3. Head(task[t].qs) \in QueriesOf(Len(born))
  BY <1>2, HeadTailProperties
<1>4. Captured(t) \in Nat
  BY <1>1 DEF IsTask, TaskRecords, BlobRecords, StatesOf, Captured
<1>5. now \in Nat /\ boot \in Nat
  BY SetupFacts DEF TypeInv, TimeInv
<1> QED BY <1>2, <1>3, <1>4, <1>5 DEF TypeInv, CacheInv

LEMMA TypeHydrateSet == ASSUME TypeInv, NEW t \in Everyone, HydrateSet(t) PROVE TypeInv'
<1> PICK place : place = "h_set"
  OBVIOUS
<1>1. Runs(t, place) /\ UNCHANGED storageVars /\ place \in WithQuery /\ Goes(t, "h_restore")
      /\ cache' = Hydrated(cache, Head(task[t].qs), now)
  BY DEF HydrateSet, WithQuery
<1>2. Stands /\ TimeInv' /\ CountInv' /\ task[t].at = place
  BY <1>1, RunsFacts
<1>3. t \in Tasks
  BY <1>1, RunsFacts
<1>4. StorageInv'
  BY <1>1, <1>2, StorageStands
<1>5. task[t].qs # <<>> /\ Head(task[t].qs) \in QueriesOf(Len(born)) /\ now \in Nat
      /\ IsCache(cache, Len(born), now)
  BY <1>1, <1>2, QueryAtHand
<1>6. IsCache(Hydrated(cache, Head(task[t].qs), now), Len(born), now)
  BY ONLY <1>5, HydratedIsCache
<1>7. CacheInv'
  BY <1>1, <1>2, <1>6, CacheChanges
<1>8. TaskInv'
  <2> PICK q : q = "h_restore"
    OBVIOUS
  <2>1. q \in Places /\ q \notin WithKey /\ q \notin Owned /\ q \notin WithText /\ q \notin Removing /\ Goes(t, q)
    BY <1>1 DEF Places, WithKey, Owned, WithText, Removing
  <2> QED BY <1>2, <1>3, <1>5, <2>1, GoesKeeps
<1> QED BY <1>2, <1>4, <1>7, <1>8 DEF TypeInv

LEMMA TypeHydrateRestore == ASSUME TypeInv, NEW t \in Everyone, HydrateRestore(t) PROVE TypeInv'
<1> PICK place, p : place = "h_restore" /\ p = "h_next"
  OBVIOUS
<1>1. Runs(t, place) /\ UNCHANGED storageVars /\ place \in WithQuery
      /\ task' = [task EXCEPT ![t].at = p, ![t].qs = Tail(@)]
      /\ cache' = restore_entry_staleness(cache, Captured(t), Head(task[t].qs), now, boot)
  BY DEF HydrateRestore, WithQuery
<1>2. Stands /\ TimeInv' /\ CountInv' /\ task[t].at = place
  BY <1>1, RunsFacts
<1>3. t \in Tasks
  BY <1>1, RunsFacts
<1>4. StorageInv'
  BY <1>1, <1>2, StorageStands
<1>5. task[t].qs # <<>> /\ Head(task[t].qs) \in QueriesOf(Len(born)) /\ now \in Nat
      /\ IsCache(cache, Len(born), now) /\ Captured(t) \in Nat /\ boot \in Nat
  BY <1>1, <1>2, QueryAtHand
<1>6. IsCache(restore_entry_staleness(cache, Captured(t), Head(task[t].qs), now, boot), Len(born), now)
  BY ONLY <1>5, StalenessIsCache
<1>7. CacheInv'
  BY <1>1, <1>2, <1>6, CacheChanges
<1>8. TaskInv'
  BY <1>1, <1>2, <1>3, <1>5, TailKeeps
<1> QED BY <1>2, <1>4, <1>7, <1>8 DEF TypeInv

\* A snapshot is saved.
LEMMA PutKeeps ==
  ASSUME TypeInv, NEW t \in Everyone, NEW place, Runs(t, place), Returns(t), UNCHANGED <<cache, store>>,
         (Fails /\ UNCHANGED blob) \/ (Works /\ blob' = task[t].blob)
  PROVE  TypeInv'
<1>1. Stands /\ TimeInv' /\ CountInv' /\ IsTask(task[t], Len(born), now, setup.ops)
  BY RunsFacts
<1>2. IsBlob(task[t].blob, Len(born), now)
  BY <1>1 DEF IsTask
<1>3. StorageInv'
  BY <1>1, <1>2, StorageKeeps
<1>4. CacheInv'
  BY <1>1, CacheStands
<1>5. TaskInv'
  BY <1>1, ReturnsKeeps
<1> QED BY <1>1, <1>3, <1>4, <1>5 DEF TypeInv

LEMMA TypePut ==
  ASSUME TypeInv, NEW t \in Everyone, PutReplacement(t) \/ PutBlob(t)
  PROVE  TypeInv'
<1>1. /\ Returns(t) /\ UNCHANGED <<cache, store>>
      /\ (Fails /\ UNCHANGED blob) \/ (Works /\ blob' = task[t].blob)
  BY DEF PutReplacement, PutBlob
<1>2. PICK place : Runs(t, place)
  BY DEF PutReplacement, PutBlob
<1> QED BY <1>1, <1>2, PutKeeps

\* The loop begins, with a handle of its own.
LEMMA TypeStartLoop == ASSUME TypeInv, NEW t \in Everyone, StartLoop(t) PROVE TypeInv'
<1>1. /\ task[t].at = "c_ok" /\ flag' = FALSE /\ stop' = FALSE
      /\ UNCHANGED <<setup, now, boot, born, buster, cache, storageVars, crashes, ops>>
      /\ task' = [task EXCEPT ![t] = NoTask, ![Loop] = [NoTask EXCEPT !.at = "sleep"]]
  BY DEF StartLoop
<1>2. Stands
  BY <1>1 DEF Stands
<1>3. TimeInv' /\ CacheInv' /\ StorageInv'
  BY <1>1, <1>2, CacheStands, StorageStands DEF TypeInv, TimeInv
<1>4. CountInv'
  BY <1>1 DEF TypeInv, CountInv
<1>5. TaskInv'
  <2>1. t # Loop
    BY <1>1 DEF TypeInv, TaskInv
  <2>2. PICK z : z = [NoTask EXCEPT !.at = "sleep"]
    OBVIOUS
  <2>3. IsTask(NoTask, Len(born), now, setup.ops) /\ IsTask(z, Len(born), now, setup.ops) /\ z.at = "sleep"
    BY <2>2, NothingNow DEF NoTask
  <2>4. DOMAIN task = Everyone /\ \A u \in Everyone : IsTask(task[u], Len(born), now, setup.ops)
    BY DEF TypeInv, TaskInv
  <2>5. DOMAIN task' = Everyone /\ task'[Loop] = z
    BY <1>1, <2>1, <2>2, <2>4, LoopIsNoTask
  <2>6. \A u \in Everyone : task'[u] = task[u] \/ task'[u] = NoTask \/ task'[u] = z
    BY <1>1, <2>2, <2>4
  <2>7. \A u \in Everyone : IsTask(task'[u], Len(born), now, setup.ops)
    BY <2>3, <2>4, <2>6
  <2>8. now' = now /\ setup' = setup /\ born' = born
    BY <1>2 DEF Stands
  <2>9. \A u \in Everyone : IsTask(task'[u], Len(born'), now', setup'.ops)
    BY <2>7, <2>8
  <2> QED BY <2>3, <2>5, <2>9 DEF TaskInv
<1> QED BY <1>3, <1>4, <1>5 DEF TypeInv

LEMMA TypeClientStep == ASSUME TypeInv, NEW t \in Everyone, ClientStep(t) PROVE TypeInv'
  BY TypeGetBlob, TypeRemoveBlob, TypeDropBlob, TypeRestoreError, TypeHydrateNext, TypeHydrateSet,
     TypeHydrateRestore, TypeStartLoop, TypePut DEF ClientStep

\* What the loop is about to save.
LEMMA SnapshotIsTyped == ASSUME TypeInv PROVE IsBlob(Snapshot, Len(born), now) /\ Snapshot # NoBlob
<1>1. Len(born) \in Nat /\ now \in Nat /\ buster \in 0 .. 1
  BY SetupFacts DEF TypeInv, TimeInv
<1>2. IsCache(cache, Len(born), now)
  BY DEF TypeInv, CacheInv
<1>3. dehydrate_state(cache, now) \in StatesOf(Len(born))
  BY <1>1, <1>2, CapturedIsState
<1>4. PICK st \in StatesOf(Len(born)) : st = dehydrate_state(cache, now)
  BY <1>3
<1>5. Snapshot = [timestamp_ms |-> Ms(now), buster |-> buster, state |-> st]
  BY <1>4 DEF Snapshot
<1>6. now <= now
  BY <1>1
<1> QED BY <1>1, <1>5, <1>6, SnapshotIsBlob

LEMMA TypeLoopStep == ASSUME TypeInv, LoopStep PROVE TypeInv'
<1> PICK place : place = "sleep"
  OBVIOUS
<1>1. Runs(Loop, place) /\ UNCHANGED <<cache, storageVars>>
      /\ (Goes(Loop, "off") \/ task' = [task EXCEPT ![Loop].at = "s_put", ![Loop].blob = Snapshot])
  BY DEF LoopStep, LoopStops, LoopSaves
<1>2. Loop \in Everyone
  BY LoopIsNoTask
<1>3. Stands /\ TimeInv' /\ CountInv' /\ IsTask(task[Loop], Len(born), now, setup.ops)
  BY <1>1, <1>2, RunsFacts
<1>4. StorageInv' /\ CacheInv'
  BY <1>1, <1>3, StorageStands, CacheStands
<1> PICK tk : tk = task[Loop]
  OBVIOUS
<1>5. tk \in TaskRecords(Len(born), now) /\ IsText(tk.text, Len(born), now) /\ IsBlob(tk.blob, Len(born), now)
  BY <1>3 DEF IsTask
<1>6. "off" \in Places /\ "s_put" \in Places
  BY DEF Places, Awaits
<1>7. ASSUME NEW y \in TaskRecords(Len(born), now), y.at \in {"off", "s_put"}, y.text = tk.text,
             IsBlob(y.blob, Len(born), now), task' = [task EXCEPT ![Loop] = y]
      PROVE  TypeInv'
  <2>1. Shape(y, setup.ops)
    BY <1>7 DEF Shape, WithKey, Owned, WithText, WithQuery, Removing
  <2>2. IsTask(y, Len(born), now, setup.ops)
    BY <1>5, <1>7, <2>1 DEF IsTask
  <2>3. TaskInv'
    BY <1>2, <1>3, <1>7, <2>2, TaskChanges
  <2> QED BY <1>3, <1>4, <2>3 DEF TypeInv
<1>8. CASE Goes(Loop, "off")
  <2>1. PICK y : y = [tk EXCEPT !.at = "off"]
    OBVIOUS
  <2>2. y \in TaskRecords(Len(born), now) /\ y.at = "off" /\ y.text = tk.text /\ y.blob = tk.blob
    BY <1>5, <1>6, <2>1 DEF TaskRecords
  <2>3. task' = [task EXCEPT ![Loop] = y]
    BY <1>8, <2>1 DEF Goes
  <2> QED BY <1>5, <1>7, <2>2, <2>3
<1>9. CASE task' = [task EXCEPT ![Loop].at = "s_put", ![Loop].blob = Snapshot]
  <2>1. PICK b : b = Snapshot
    OBVIOUS
  <2>2. IsBlob(b, Len(born), now) /\ b \in BlobRecords(Len(born), now)
    BY <2>1, SnapshotIsTyped DEF IsBlob
  <2>3. PICK y : y = [tk EXCEPT !.at = "s_put", !.blob = b]
    OBVIOUS
  <2>4. y \in TaskRecords(Len(born), now) /\ y.at = "s_put" /\ y.text = tk.text /\ y.blob = b
    BY <1>5, <1>6, <2>2, <2>3 DEF TaskRecords
  <2>5. task' = [task EXCEPT ![Loop] = y]
    BY <1>9, <2>1, <2>3
  <2> QED BY <1>7, <2>2, <2>4, <2>5
<1> QED BY <1>1, <1>8, <1>9
-----------------------------------------------------------------------------
(***************************************************************************)
(* The type invariant                                                      *)
(***************************************************************************)

LEMMA BeginFacts ==
  ASSUME TypeInv, NEW t, NEW op, Begin(t, op)
  PROVE  /\ t \in Tasks /\ t \in Everyone /\ t # Loop /\ op \in setup.ops /\ MayRun(t) /\ task[t].at = "idle"
         /\ UNCHANGED <<setup, now, boot, buster, storageVars, crashes>>
         /\ ops' \in 0 .. setup'.budget
<1>1. /\ MayRun(t) /\ t \in Tasks /\ task[t].at = "idle" /\ op \in setup.ops /\ ops < setup.budget
      /\ ops' = ops + 1
      /\ UNCHANGED <<setup, now, boot, buster, storageVars, crashes>>
  BY DEF Begin
<1>2. ops \in 0 .. setup.budget /\ setup.budget \in Nat
  BY SetupFacts DEF TypeInv, CountInv
<1>3. ops' \in 0 .. setup'.budget
  BY <1>1, <1>2
<1> QED BY <1>1, <1>3, LoopIsNoTask

\* An operation that begins and leaves data, cache and handle alone.
LEMMA BeginKeeps ==
  ASSUME TypeInv, NEW t, NEW op, Begin(t, op), UNCHANGED <<born, cache, handleVars>>, TaskInv'
  PROVE  TypeInv'
<1>1. UNCHANGED <<setup, now, boot, buster, storageVars, crashes>> /\ ops' \in 0 .. setup'.budget
  BY BeginFacts
<1>2. Stands
  BY <1>1 DEF Stands
<1>3. TimeInv'
  BY <1>1 DEF TypeInv, TimeInv
<1>4. StorageInv' /\ CacheInv'
  BY <1>1, <1>2, StorageStands, CacheStands
<1>5. CountInv'
  BY <1>1 DEF TypeInv, CountInv, handleVars
<1> QED BY <1>3, <1>4, <1>5 DEF TypeInv

\* What a task of the application begins with, and what it needs.
Begun(y, op, p, ks, x, b) ==
  /\ y \in TaskRecords(Len(born), now)
  /\ y.op = op /\ y.at = p /\ y.todo = ks /\ y.text = x /\ y.blob = b

Begins(op, p, ks, x, b) ==
  /\ op \in OpNames /\ p \in Places /\ ks \in Seq(Keys)
  /\ IsText(x, Len(born), now) /\ IsBlob(b, Len(born), now)
  /\ p \in WithKey => ks # <<>>
  /\ p \in WithText => x.kind = "ok"
  /\ p \notin WithQuery
  /\ p \in Removing => op = "remove_queries"

LEMMA BegunFields ==
  ASSUME TypeInv, NEW op, NEW p, NEW ks, NEW x, NEW b, Begins(op, p, ks, x, b)
  PROVE  /\ Begun([NoTask EXCEPT !.op = op, !.at = p, !.todo = ks, !.text = x], op, p, ks, x, NoBlob)
         /\ Begun([NoTask EXCEPT !.op = op, !.at = p, !.todo = ks], op, p, ks, NoText, NoBlob)
         /\ Begun([NoTask EXCEPT !.op = op, !.at = p, !.blob = b], op, p, <<>>, NoText, b)
<1>1. op \in OpNames /\ p \in Places /\ ks \in Seq(Prefixed)
      /\ x \in TextRecords(Len(born), now) /\ b \in BlobRecords(Len(born), now)
  <2>1. Seq(Keys) \subseteq Seq(Prefixed)
    BY PrefixedFacts, SmallerSeq
  <2> QED BY <2>1 DEF Begins, IsText, IsBlob
<1> PICK place : place = "idle"
  OBVIOUS
<1>2. IsTask(NoTask, Len(born), now, setup.ops)
  BY NothingNow
<1>3. NoTask \in TaskRecords(Len(born), now)
  BY <1>2 DEF IsTask
<1>4. NoTask.todo = <<>> /\ NoTask.text = NoText /\ NoTask.blob = NoBlob
  BY DEF NoTask
<1>5. PICK y : y = [NoTask EXCEPT !.op = op, !.at = p, !.todo = ks, !.text = x]
  OBVIOUS
<1>6. y \in TaskRecords(Len(born), now)
  BY <1>1, <1>3, <1>5 DEF TaskRecords
<1>7. y.op = op /\ y.at = p /\ y.todo = ks /\ y.text = x /\ y.blob = NoBlob
  BY <1>3, <1>4, <1>5 DEF TaskRecords
<1>8. PICK z : z = [NoTask EXCEPT !.op = op, !.at = p, !.todo = ks]
  OBVIOUS
<1>9. z \in TaskRecords(Len(born), now)
  BY <1>1, <1>3, <1>8 DEF TaskRecords
<1>10. z.op = op /\ z.at = p /\ z.todo = ks /\ z.text = NoText /\ z.blob = NoBlob
  BY <1>3, <1>4, <1>8 DEF TaskRecords
<1>11. PICK w : w = [NoTask EXCEPT !.op = op, !.at = p, !.blob = b]
  OBVIOUS
<1>12. w \in TaskRecords(Len(born), now)
  BY <1>1, <1>3, <1>11 DEF TaskRecords
<1>13. w.op = op /\ w.at = p /\ w.todo = <<>> /\ w.text = NoText /\ w.blob = b
  BY <1>3, <1>4, <1>11 DEF TaskRecords
<1> QED BY <1>5, <1>6, <1>7, <1>8, <1>9, <1>10, <1>11, <1>12, <1>13 DEF Begun

LEMMA BegunKeeps ==
  ASSUME TypeInv, NEW t, NEW op, Begin(t, op), UNCHANGED <<born, cache, handleVars>>,
         NEW p, NEW ks, NEW x, NEW b, Begins(op, p, ks, x, b),
         NEW y, Begun(y, op, p, ks, x, b), task' = [task EXCEPT ![t] = y]
  PROVE  TypeInv'
<1>1. t \in Everyone /\ t # Loop /\ op \in setup.ops /\ UNCHANGED <<setup, now>>
  BY BeginFacts
<1>2. Stands
  BY <1>1 DEF Stands
<1>3. Shape(y, setup.ops)
  BY <1>1 DEF Shape, Begins, Begun
<1>4. IsTask(y, Len(born), now, setup.ops)
  BY <1>3 DEF IsTask, Begins, Begun
<1>5. TaskInv'
  BY <1>1, <1>2, <1>4, TaskChanges
<1> QED BY <1>5, BeginKeeps

LEMMA TypeStartBulk ==
  ASSUME TypeInv, NEW t, NEW op \in QueryOps, NEW p \in {"r_get", "m_get", "g_list"}, StartBulk(t, op, p),
         p = "m_get" => op = "remove_queries"
  PROVE  TypeInv'
<1>1. Begin(t, op) /\ UNCHANGED <<born, cache, handleVars>>
      /\ task' = [task EXCEPT ![t] = [NoTask EXCEPT !.op = op, !.at = p, !.todo = Sorted(Keys)]]
  BY DEF StartBulk
<1>2. PICK ks \in Seq(Keys) : ks = Sorted(Keys) /\ ks # <<>>
  BY PerMsFact, PrefixedFacts, SortedKeys
<1> PICK place : place = "idle"
  OBVIOUS
<1>3. IsText(NoText, Len(born), now) /\ IsBlob(NoBlob, Len(born), now)
  BY NothingNow
<1>4. PICK y : y = [NoTask EXCEPT !.op = op, !.at = p, !.todo = ks]
  OBVIOUS
<1>5. task' = [task EXCEPT ![t] = y]
  BY <1>1, <1>2, <1>4
<1>6. p \in Places /\ p \notin WithText /\ p \notin WithQuery /\ (p \in Removing => op = "remove_queries")
      /\ op \in OpNames
  BY DEF Places, Awaits, WithText, WithQuery, Removing, OpNames
<1>7. Begins(op, p, ks, NoText, NoBlob)
  BY <1>2, <1>3, <1>6 DEF Begins
<1>8. Begun(y, op, p, ks, NoText, NoBlob)
  BY <1>4, <1>7, BegunFields
<1> QED BY <1>1, <1>5, <1>7, <1>8, BegunKeeps

LEMMA OneKey == ASSUME NEW k \in Keys PROVE <<k>> \in Seq(Keys) /\ <<k>> # <<>> /\ Len(<<k>>) = 1
  OBVIOUS

LEMMA TypePersistQuery == ASSUME TypeInv, NEW t, NEW k \in Keys, PersistQuery(t, k) PROVE TypeInv'
<1> PICK op, p : op = "persist_query" /\ p = "p_set"
  OBVIOUS
<1> PICK x : x = [kind |-> "ok", buster |-> buster,
                  data_json |-> serialize_entry_data(cache[k].data), updated |-> Ms(now)]
  OBVIOUS
<1>1. Begin(t, op) /\ UNCHANGED <<born, cache, handleVars>>
      /\ \/ UNCHANGED task
         \/ HasString(k) /\ task' = [task EXCEPT ![t] = [NoTask EXCEPT !.op = op, !.at = p, !.todo = <<k>>, !.text = x]]
  BY DEF PersistQuery
<1>2. CASE UNCHANGED task
  <2>1. Stands /\ UNCHANGED setup
    BY <1>1, BeginFacts DEF Stands
  <2>2. TaskInv'
    BY <1>2, <2>1 DEF TypeInv, TaskInv, Stands
  <2> QED BY <1>1, <2>2, BeginKeeps
<1>3. CASE HasString(k) /\ task' = [task EXCEPT ![t] = [NoTask EXCEPT !.op = op, !.at = p, !.todo = <<k>>, !.text = x]]
  <2>1. cache[k] \in EntriesOf(Len(born), now)
    BY <1>3 DEF HasString, TypeInv, CacheInv, IsCache
  <2>2. PICK m \in Nat : m = Ms(now)
    BY SetupFacts, MsBounds DEF TypeInv
  <2>3. Ms(now) \in NoTime .. Ms(now) /\ buster \in 0 .. 1
    BY <2>2 DEF NoTime, TypeInv, TimeInv
  <2>4. cache[k].data \in 1 .. Len(born)
    BY <2>1 DEF EntriesOf
  <2>5. cache[k].data \in 0 .. Len(born)
    BY <2>4
  <2>6. x.kind = "ok" /\ x.data_json.json = cache[k].data
    BY DEF serialize_entry_data
  <2>7. x \in TextRecords(Len(born), now)
    BY <2>3, <2>5 DEF TextRecords, Kinds, serialize_entry_data
  <2>8. IsText(x, Len(born), now)
    BY <2>4, <2>6, <2>7 DEF IsText
  <2> PICK place : place = "idle"
    OBVIOUS
  <2>9. IsBlob(NoBlob, Len(born), now)
    BY NothingNow
  <2>10. <<k>> \in Seq(Keys) /\ <<k>> # <<>>
    BY OneKey
  <2>11. PICK y : y = [NoTask EXCEPT !.op = op, !.at = p, !.todo = <<k>>, !.text = x]
    OBVIOUS
  <2>12. task' = [task EXCEPT ![t] = y]
    BY <1>3, <2>11
  <2>13. p \in Places /\ p \notin WithQuery /\ p \notin Removing /\ op \in OpNames
    BY DEF Places, Awaits, WithQuery, Removing, OpNames, QueryOps
  <2>14. Begins(op, p, <<k>>, x, NoBlob)
    BY <2>6, <2>8, <2>9, <2>10, <2>13 DEF Begins
  <2>15. Begun(y, op, p, <<k>>, x, NoBlob)
    BY <2>11, <2>14, BegunFields
  <2> QED BY <1>1, <2>12, <2>14, <2>15, BegunKeeps
<1> QED BY <1>1, <1>2, <1>3

LEMMA TypeRestoreQuery == ASSUME TypeInv, NEW t, NEW k \in Keys, RestoreQuery(t, k) PROVE TypeInv'
<1> PICK op, p : op = "restore_query" /\ p = "r_get"
  OBVIOUS
<1>1. Begin(t, op) /\ UNCHANGED <<born, cache, handleVars>>
      /\ \/ UNCHANGED task
         \/ task' = [task EXCEPT ![t] = [NoTask EXCEPT !.op = op, !.at = p, !.todo = <<k>>]]
  BY DEF RestoreQuery
<1>2. CASE UNCHANGED task
  <2>1. Stands /\ UNCHANGED setup
    BY <1>1, BeginFacts DEF Stands
  <2>2. TaskInv'
    BY <1>2, <2>1 DEF TypeInv, TaskInv, Stands
  <2> QED BY <1>1, <2>2, BeginKeeps
<1>3. CASE task' = [task EXCEPT ![t] = [NoTask EXCEPT !.op = op, !.at = p, !.todo = <<k>>]]
  <2> PICK place : place = "idle"
    OBVIOUS
  <2>1. IsText(NoText, Len(born), now) /\ IsBlob(NoBlob, Len(born), now)
    BY NothingNow
  <2>2. <<k>> \in Seq(Keys) /\ <<k>> # <<>>
    BY OneKey
  <2>3. PICK y : y = [NoTask EXCEPT !.op = op, !.at = p, !.todo = <<k>>]
    OBVIOUS
  <2>4. task' = [task EXCEPT ![t] = y]
    BY <1>3, <2>3
  <2>5. p \in Places /\ p \notin WithText /\ p \notin WithQuery /\ p \notin Removing /\ op \in OpNames
    BY DEF Places, Awaits, WithText, WithQuery, Removing, OpNames, QueryOps
  <2>6. Begins(op, p, <<k>>, NoText, NoBlob)
    BY <2>1, <2>2, <2>5 DEF Begins
  <2>7. Begun(y, op, p, <<k>>, NoText, NoBlob)
    BY <2>3, <2>6, BegunFields
  <2> QED BY <1>1, <2>4, <2>6, <2>7, BegunKeeps
<1> QED BY <1>1, <1>2, <1>3

\* ClientOp and Save take a snapshot along.
LEMMA TypeWithBlob ==
  ASSUME TypeInv, NEW t, NEW op \in OpNames, NEW p \in {"c_get", "s_put"}, Begin(t, op),
         UNCHANGED <<born, cache, handleVars>>, NEW b, IsBlob(b, Len(born), now),
         task' = [task EXCEPT ![t] = [NoTask EXCEPT !.op = op, !.at = p, !.blob = b]]
  PROVE  TypeInv'
<1> PICK place : place = "idle"
  OBVIOUS
<1>1. IsText(NoText, Len(born), now)
  BY NothingNow
<1>2. <<>> \in Seq(Keys)
  OBVIOUS
<1>3. PICK y : y = [NoTask EXCEPT !.op = op, !.at = p, !.blob = b]
  OBVIOUS
<1>4. task' = [task EXCEPT ![t] = y]
  BY <1>3
<1>5. p \in Places /\ p \notin WithKey /\ p \notin WithText /\ p \notin WithQuery /\ p \notin Removing
  BY DEF Places, Awaits, WithKey, WithText, WithQuery, Removing
<1>6. Begins(op, p, <<>>, NoText, b)
  BY <1>1, <1>2, <1>5 DEF Begins
<1>7. Begun(y, op, p, <<>>, NoText, b)
  BY <1>3, <1>6, BegunFields
<1> QED BY <1>4, <1>6, <1>7, BegunKeeps

LEMMA TypeClientOp == ASSUME TypeInv, NEW t, NEW op, ClientOp(t, op) PROVE TypeInv'
<1> PICK p : p = "c_get"
  OBVIOUS
<1>1. Begin(t, op) /\ UNCHANGED <<born, cache, handleVars>> /\ op \in OpNames
      /\ task' = [task EXCEPT ![t] = [NoTask EXCEPT !.op = op, !.at = p, !.blob = blob]]
  BY DEF ClientOp, OpNames, ClientOps
<1>2. IsBlob(blob, Len(born), now)
  BY DEF TypeInv, StorageInv
<1> QED BY <1>1, <1>2, TypeWithBlob

LEMMA TypeSave == ASSUME TypeInv, NEW t, Save(t) PROVE TypeInv'
<1> PICK op, p, b : op = "save" /\ p = "s_put" /\ b = Snapshot
  OBVIOUS
<1>1. Begin(t, op) /\ UNCHANGED <<born, cache, handleVars>> /\ op \in OpNames
      /\ task' = [task EXCEPT ![t] = [NoTask EXCEPT !.op = op, !.at = p, !.blob = b]]
  BY DEF Save, OpNames, ClientOps
<1>2. IsBlob(b, Len(born), now)
  BY SnapshotIsTyped
<1> QED BY <1>1, <1>2, TypeWithBlob

LEMMA TypeUnsubscribe == ASSUME TypeInv, NEW t, Unsubscribe(t) PROVE TypeInv'
<1> PICK op : op = "unsubscribe"
  OBVIOUS
<1>1. Begin(t, op) /\ flag' = TRUE /\ stop' = TRUE /\ UNCHANGED <<born, cache, task>>
  BY DEF Unsubscribe
<1>2. UNCHANGED <<setup, now, boot, buster, storageVars, crashes>> /\ ops' \in 0 .. setup'.budget
  BY <1>1, BeginFacts
<1>3. Stands
  BY <1>1, <1>2 DEF Stands
<1>4. TimeInv'
  BY <1>1, <1>2 DEF TypeInv, TimeInv
<1>5. StorageInv' /\ CacheInv'
  BY <1>1, <1>2, <1>3, StorageStands, CacheStands
<1>6. TaskInv'
  BY <1>1, <1>3 DEF TypeInv, TaskInv, Stands
<1>7. CountInv'
  BY <1>1, <1>2 DEF TypeInv, CountInv
<1> QED BY <1>4, <1>5, <1>6, <1>7 DEF TypeInv
LEMMA TypeWrite == ASSUME TypeInv, NEW t, NEW k \in Keys, Write(t, k) PROVE TypeInv'
<1> PICK op : op = "write"
  OBVIOUS
<1>1. Begin(t, op) /\ born' = Append(born, now) /\ cache' = Put(cache, k, NewEntry(Len(born) + 1, 0, now))
      /\ UNCHANGED <<task, handleVars>>
  BY DEF Write
<1>2. UNCHANGED <<setup, now, boot, buster, storageVars, crashes>> /\ ops' \in 0 .. setup'.budget
  BY <1>1, BeginFacts
<1>3. PICK d \in Nat, n \in Nat : d = Len(born) /\ n = now /\ d >= 1
  BY SetupFacts DEF TypeInv, TimeInv
<1>4. born' \in Seq(Nat) /\ Len(born') = d + 1
  <2>1. born \in Seq(Nat) /\ now \in Nat
    BY <1>3 DEF TypeInv, TimeInv
  <2> QED BY <1>1, <1>3, <2>1
<1>5. PICK d2 \in Nat : d2 = d + 1 /\ d <= d2 /\ n <= n
  OBVIOUS
<1>6. /\ \A ca : IsCache(ca, d, n) => IsCache(ca, d2, n)
      /\ \A x : IsText(x, d, n) => IsText(x, d2, n)
      /\ \A b : IsBlob(b, d, n) => IsBlob(b, d2, n)
      /\ \A tk, os : IsTask(tk, d, n, os) => IsTask(tk, d2, n, os)
  BY <1>5, TypesGrow
<1>7. TimeInv'
  <2>1. d + 1 >= 1
    BY <1>3
  <2> QED BY <1>2, <1>4, <2>1 DEF TypeInv, TimeInv
<1>8. CacheInv'
  <2> PICK e : e = NewEntry(Len(born) + 1, 0, now)
    OBVIOUS
  <2>1. d2 \in 1 .. d2 /\ n \in 0 .. n
    BY <1>3, <1>5
  <2>2. e \in EntriesOf(d2, n)
    BY <1>3, <1>5, <2>1 DEF EntriesOf, NewEntry
  <2>3. IsCache(cache, d2, n)
    BY <1>3, <1>6 DEF TypeInv, CacheInv
  <2>4. IsCache(Put(cache, k, e), d2, n)
    BY ONLY <2>2, <2>3, PutIsCache, k \in Keys
  <2> QED BY <1>1, <1>2, <1>3, <1>4, <1>5, <2>4 DEF CacheInv
<1>9. StorageInv'
  <2>1. store' = store /\ blob' = blob /\ faults' = faults /\ setup' = setup /\ now' = n /\ Len(born') = d2
    BY <1>2, <1>3, <1>4, <1>5 DEF storageVars
  <2>2. DOMAIN store = Keys \cup Foreign /\ faults \in 0 .. setup.faults
    BY DEF TypeInv, StorageInv
  <2>3. \A x \in Keys \cup Foreign : IsText(store[x], d2, n)
    BY <1>3, <1>6 DEF TypeInv, StorageInv
  <2>4. IsBlob(blob, d2, n)
    BY <1>3, <1>6 DEF TypeInv, StorageInv
  <2> QED BY <2>1, <2>2, <2>3, <2>4 DEF StorageInv
<1>10. TaskInv'
  <2>1. task' = task /\ setup' = setup /\ now' = n /\ Len(born') = d2
    BY <1>1, <1>2, <1>3, <1>4, <1>5
  <2>2. \A u \in Everyone : IsTask(task[u], d2, n, setup.ops)
    BY <1>3, <1>6 DEF TypeInv, TaskInv
  <2> QED BY <2>1, <2>2 DEF TypeInv, TaskInv
<1>11. CountInv'
  BY <1>1, <1>2 DEF TypeInv, CountInv, handleVars
<1> QED BY <1>7, <1>8, <1>9, <1>10, <1>11 DEF TypeInv

LEMMA TypeTick == ASSUME TypeInv, Tick PROVE TypeInv'
<1>1. now < MaxNow /\ now' = now + 1
      /\ UNCHANGED <<setup, boot, born, buster, cache, storageVars, task, handleVars, crashes, ops>>
  BY DEF Tick
<1>2. PICK d \in Nat, n \in Nat, b \in Nat : d = Len(born) /\ n = now /\ b = boot /\ b <= n
  BY SetupFacts DEF TypeInv, TimeInv
<1>3. PICK n2 \in Nat : n2 = n + 1 /\ n <= n2 /\ d <= d
  OBVIOUS
<1>4. /\ \A ca : IsCache(ca, d, n) => IsCache(ca, d, n2)
      /\ \A x : IsText(x, d, n) => IsText(x, d, n2)
      /\ \A bl : IsBlob(bl, d, n) => IsBlob(bl, d, n2)
      /\ \A tk, os : IsTask(tk, d, n, os) => IsTask(tk, d, n2, os)
  BY <1>3, TypesGrow
<1>5. now' = n2 /\ Len(born') = d /\ setup' = setup
  BY <1>1, <1>2, <1>3
<1>6. TimeInv'
  <2>1. Start \in Nat /\ MaxNow \in Nat
    BY PersistAssumption
  <2>2. now' \in Start .. MaxNow /\ boot' \in 0 .. now'
    BY <1>1, <1>2, <2>1 DEF TypeInv, TimeInv
  <2> QED BY <1>1, <2>2 DEF TypeInv, TimeInv
<1>7. CacheInv'
  BY <1>1, <1>2, <1>4, <1>5 DEF TypeInv, CacheInv
<1>8. StorageInv'
  <2>1. store' = store /\ blob' = blob /\ faults' = faults
    BY <1>1 DEF storageVars
  <2>2. DOMAIN store = Keys \cup Foreign /\ faults \in 0 .. setup.faults
    BY DEF TypeInv, StorageInv
  <2>3. \A x \in Keys \cup Foreign : IsText(store[x], d, n2)
    BY <1>2, <1>4 DEF TypeInv, StorageInv
  <2>4. IsBlob(blob, d, n2)
    BY <1>2, <1>4 DEF TypeInv, StorageInv
  <2> QED BY <1>5, <2>1, <2>2, <2>3, <2>4 DEF StorageInv
<1>9. TaskInv'
  <2>1. \A u \in Everyone : IsTask(task[u], d, n2, setup.ops)
    BY <1>2, <1>4 DEF TypeInv, TaskInv
  <2> QED BY <1>1, <1>5, <2>1 DEF TypeInv, TaskInv
<1>10. CountInv'
  BY <1>1 DEF TypeInv, CountInv, handleVars
<1> QED BY <1>6, <1>7, <1>8, <1>9, <1>10 DEF TypeInv

LEMMA TypeCrash == ASSUME TypeInv, Crash PROVE TypeInv'
<1>1. /\ crashes > 0 /\ crashes' = crashes - 1
      /\ \E v \in {0, 1} : buster' = (buster + v) % 2
      /\ boot' \in {boot, now}
      /\ cache' = NoCache
      /\ task' = [t \in Everyone |-> IF t = Loop THEN [NoTask EXCEPT !.at = "off"] ELSE NoTask]
      /\ flag' = FALSE /\ stop' = FALSE
      /\ UNCHANGED <<setup, now, born, storageVars, ops>>
  BY DEF Crash
<1>2. Stands
  BY <1>1 DEF Stands
<1>3. TimeInv'
  <2>1. buster' \in 0 .. 1
    <3>1. PICK v \in {0, 1} : buster' = (buster + v) % 2
      BY <1>1
    <3>2. buster = 0 \/ buster = 1
      BY DEF TypeInv, TimeInv
    <3> QED BY <3>1, <3>2
  <2>2. boot' \in 0 .. now
    <3>1. boot \in 0 .. now /\ now \in Nat
      BY SetupFacts DEF TypeInv, TimeInv
    <3> QED BY <1>1, <3>1
  <2> QED BY <1>1, <2>1, <2>2 DEF TypeInv, TimeInv
<1>4. CacheInv'
  BY <1>1 DEF CacheInv, IsCache, NoCache
<1>5. StorageInv'
  BY <1>1, <1>2, StorageStands
<1>6. TaskInv'
  <2> PICK place : place = "off"
    OBVIOUS
  <2>1. place \in {"idle", "off", "sleep"}
    OBVIOUS
  <2>2. IsTask(NoTask, Len(born), now, setup.ops)
        /\ IsTask([NoTask EXCEPT !.at = place], Len(born), now, setup.ops)
    BY <2>1, NothingNow
  <2>3. [NoTask EXCEPT !.at = place].at = place /\ Loop \in Everyone
    BY LoopIsNoTask DEF NoTask
  <2>4. DOMAIN task' = Everyone
    BY <1>1
  <2>5. task'[Loop].at = place
    BY <1>1, <2>3
  <2>6. \A u \in Everyone : IsTask(task'[u], Len(born), now, setup.ops)
    BY <1>1, <2>2
  <2>7. now' = now /\ setup' = setup /\ born' = born
    BY <1>2 DEF Stands
  <2>8. \A u \in Everyone : IsTask(task'[u], Len(born'), now', setup'.ops)
    BY <2>6, <2>7
  <2> QED BY <2>4, <2>5, <2>8 DEF TaskInv
<1>7. CountInv'
  <2>1. PICK m \in Nat, c \in Nat : m = setup.crashes /\ c = crashes /\ c <= m
    BY SetupFacts DEF TypeInv, CountInv
  <2>2. crashes' \in 0 .. setup'.crashes
    BY <1>1, <2>1
  <2> QED BY <1>1, <2>2 DEF TypeInv, CountInv
<1> QED BY <1>3, <1>4, <1>5, <1>6, <1>7 DEF TypeInv

\* Every step keeps the types.
LEMMA TypeNext == TypeInv /\ [Next]_vars => TypeInv'
<1> SUFFICES ASSUME TypeInv, [Next]_vars PROVE TypeInv'
  OBVIOUS
<1>1. ASSUME NEW t \in Everyone, Operation(t) PROVE TypeInv'
  <2>1. ASSUME BulkOp(t) PROVE TypeInv'
    <3>1. PICK op \in QueryOps, p \in {"r_get", "m_get", "g_list"} :
            StartBulk(t, op, p) /\ (p = "m_get" => op = "remove_queries")
      BY <2>1 DEF BulkOp, QueryOps
    <3> QED BY <3>1, TypeStartBulk
  <2> QED BY <1>1, <2>1, TypeWrite, TypePersistQuery, TypeRestoreQuery, TypeClientOp, TypeSave,
             TypeUnsubscribe DEF Operation
<1>2. ASSUME NEW t \in Everyone, TaskStep(t) PROVE TypeInv'
  BY <1>2, TypeQueryStep, TypeClientStep DEF TaskStep
<1>3. CASE UNCHANGED vars
  <2>1. Stands /\ UNCHANGED <<setup, now, boot, born, buster, cache, storageVars, task, handleVars, crashes, ops>>
    BY <1>3 DEF vars, Stands
  <2>2. TimeInv' /\ CountInv'
    BY <2>1 DEF TypeInv, TimeInv, CountInv, handleVars
  <2>3. CacheInv' /\ StorageInv'
    BY <2>1, CacheStands, StorageStands
  <2>4. TaskInv'
    BY <2>1 DEF TypeInv, TaskInv
  <2> QED BY <2>2, <2>3, <2>4 DEF TypeInv
<1> QED BY <1>1, <1>2, <1>3, TypeTick, TypeCrash, TypeLoopStep DEF Next

LEMMA TypeInvIsTypeOK == TypeInv => TypeOK
<1> SUFFICES ASSUME TypeInv PROVE TypeOK
  OBVIOUS
<1>1. PICK d \in Nat, n \in Nat : d = Len(born) /\ n = now
  BY SetupFacts DEF TypeInv
<1>2. PICK m \in Nat : m = Ms(n) /\ m <= n
  BY MsBounds, MsWithin
<1>3. setup \in Setups /\ now \in Start .. MaxNow /\ boot \in 0 .. now /\ buster \in 0 .. 1
  BY DEF TypeInv, TimeInv
<1>4. DOMAIN cache \subseteq Keys
  BY DEF TypeInv, CacheInv, IsCache
<1>5. ASSUME NEW k \in DOMAIN cache
      PROVE  cache[k] \in [data : Data \ {Opaque}, fetched : 0 .. now, stale : BOOLEAN, life : Nat]
  <2>1. cache[k] \in EntriesOf(d, n)
    BY <1>1 DEF TypeInv, CacheInv, IsCache
  <2>2. 1 .. d \subseteq Data \ {Opaque}
    BY <1>1 DEF Data, Opaque
  <2> QED BY <1>1, <2>1, <2>2 DEF EntriesOf
<1>6. ASSUME NEW k \in Keys \cup Foreign
      PROVE  /\ store[k].kind \in {"none", "ok", "corrupt", "misfit", "empty"}
             /\ store[k].updated <= now
             /\ deserialize_entry_data(store[k].data_json) \in Data
  <2>1. store[k] \in TextRecords(d, n)
    BY <1>1 DEF TypeInv, StorageInv, IsText
  <2>2. store[k].kind \in Kinds /\ store[k].updated \in NoTime .. m /\ store[k].data_json.json \in 0 .. d
    BY <1>2, <2>1 DEF TextRecords
  <2>3. store[k].updated <= now
    BY <1>1, <1>2, <2>2 DEF NoTime
  <2> QED BY <1>1, <2>2, <2>3 DEF Kinds, deserialize_entry_data, Data
<1>7. blob.timestamp_ms \in NoTime .. now
  <2>1. blob.timestamp_ms \in NoTime .. m
    BY <1>1, <1>2 DEF TypeInv, StorageInv, IsBlob, BlobRecords
  <2> QED BY <1>1, <1>2, <2>1 DEF NoTime
<1>8. \A t \in Everyone : task[t].at \in Places /\ task[t].errs \in 0 .. MaxRetries
  BY DEF TypeInv, TaskInv, IsTask, TaskRecords
<1>9. flag \in BOOLEAN /\ stop \in BOOLEAN
      /\ faults \in 0 .. setup.faults /\ crashes \in 0 .. setup.crashes /\ ops \in 0 .. setup.budget
  BY DEF TypeInv, CountInv, StorageInv
<1> QED BY <1>3, <1>4, <1>5, <1>6, <1>7, <1>8, <1>9 DEF TypeOK
-----------------------------------------------------------------------------
(***************************************************************************)
(* What a step does to the tasks                                           *)
(***************************************************************************)

Asleep == [NoTask EXCEPT !.at = "sleep"]

\* Only the task that runs changes, and with the end of persist_query_client the
\* save loop begins.
Acts(t) ==
  /\ MayRun(t) /\ UNCHANGED <<setup, now, boot, buster>>
  /\ \A u \in Everyone \ {t} : task'[u] = task[u] \/ (u = Loop /\ task'[u] = Asleep)

LEMMA RunsActs ==
  ASSUME TypeInv, NEW t \in Everyone, NEW place, Runs(t, place),
         \/ Returns(t) \/ Restored(t)
         \/ \E p : Goes(t, p) \/ NextKey(t, p)
         \/ \E y : task' = [task EXCEPT ![t] = y]
  PROVE  Acts(t)
<1>1. MayRun(t) /\ UNCHANGED <<setup, now, boot, buster>>
  BY DEF Runs
<1>2. DOMAIN task = Everyone
  BY DEF TypeInv, TaskInv
<1>3. ASSUME NEW y, task' = [task EXCEPT ![t] = y] PROVE Acts(t)
  BY <1>1, <1>2, <1>3 DEF Acts
<1>4. CASE Returns(t)
  BY <1>3, <1>4 DEF Returns
<1>5. ASSUME NEW p, Goes(t, p) PROVE Acts(t)
  <2>1. PICK y : y = [task[t] EXCEPT !.at = p]
    OBVIOUS
  <2>2. task' = [task EXCEPT ![t] = y]
    BY <1>5, <2>1 DEF Goes
  <2> QED BY <1>3, <2>2
<1>6. ASSUME NEW p, NextKey(t, p) PROVE Acts(t)
  <2>1. CASE Returns(t)
    BY <1>4, <2>1
  <2>2. CASE task' = [task EXCEPT ![t].todo = Tail(@), ![t].at = p]
    <3>1. PICK y : y = [task[t] EXCEPT !.todo = Tail(@), !.at = p]
      OBVIOUS
    <3>2. task' = [task EXCEPT ![t] = y]
      BY <2>2, <3>1
    <3> QED BY <1>3, <3>2
  <2> QED BY <1>6, <2>1, <2>2 DEF NextKey
<1>7. CASE Restored(t)
  BY <1>4, <1>5, <1>7 DEF Restored
<1> QED BY <1>3, <1>4, <1>5, <1>6, <1>7

\* The steps of a task.
LEMMA TaskStepActs == ASSUME TypeInv, NEW t \in Everyone, TaskStep(t) PROVE Acts(t)
<1>1. ASSUME NEW place, Runs(t, place), Returns(t) \/ Restored(t) \/ \E p : Goes(t, p) \/ NextKey(t, p)
      PROVE  Acts(t)
  BY <1>1, RunsActs
<1>2. ASSUME NEW place, Runs(t, place), NEW y, task' = [task EXCEPT ![t] = y]
      PROVE  Acts(t)
  BY <1>2, RunsActs
<1>3. CASE StoreText(t) \/ DropText(t) \/ ApplyText(t) \/ MarkRestored(t)
  <2>1. PICK place : Runs(t, place)
    BY <1>3 DEF StoreText, DropText, ApplyText, MarkRestored
  <2>2. Returns(t) \/ \E p : Goes(t, p) \/ NextKey(t, p)
    BY <1>3 DEF StoreText, DropText, ApplyText, MarkRestored
  <2> QED BY <1>1, <2>1, <2>2
<1>4. CASE FindText(t) \/ RemoveText(t) \/ RemoveEntry(t) \/ GcRemove(t) \/ GcInvalidate(t)
  <2>1. PICK place : Runs(t, place)
    BY <1>4 DEF FindText, RemoveText, RemoveEntry, GcRemove, GcInvalidate
  <2>2. Returns(t) \/ \E p : Goes(t, p) \/ NextKey(t, p)
    BY <1>4 DEF FindText, RemoveText, RemoveEntry, GcRemove, GcInvalidate
  <2> QED BY <1>1, <2>1, <2>2
<1>5. CASE RemoveBlob(t) \/ DropBlob(t) \/ HydrateSet(t) \/ PutReplacement(t) \/ PutBlob(t)
  <2>1. PICK place : Runs(t, place)
    BY <1>5 DEF RemoveBlob, DropBlob, HydrateSet, PutReplacement, PutBlob
  <2>2. Returns(t) \/ Restored(t) \/ \E p : Goes(t, p) \/ NextKey(t, p)
    BY <1>5 DEF RemoveBlob, DropBlob, HydrateSet, PutReplacement, PutBlob
  <2> QED BY <1>1, <2>1, <2>2
<1>6. CASE GetText(t)
  <2>1. PICK place : Runs(t, place)
    BY <1>6 DEF GetText
  <2> PICK text : text = store[Head(task[t].todo)]
    OBVIOUS
  <2>2. (Returns(t) \/ \E p : Goes(t, p) \/ NextKey(t, p)) \/ \E p : Holds(t, text, p)
    BY <1>6 DEF GetText
  <2>3. ASSUME NEW p, Holds(t, text, p) PROVE Acts(t)
    <3>1. PICK y : y = [task[t] EXCEPT !.at = p, !.text = text, !.read = now]
      OBVIOUS
    <3>2. task' = [task EXCEPT ![t] = y]
      BY <2>3, <3>1 DEF Holds
    <3> QED BY <1>2, <2>1, <3>2
  <2> QED BY <1>1, <2>1, <2>2, <2>3
<1>7. CASE GcList(t)
  <2>1. PICK place : Runs(t, place)
    BY <1>7 DEF GcList
  <2>2. Returns(t) \/ (Garbage # {} /\ Lists(t, Garbage))
    BY <1>7 DEF GcList, Lists
  <2>3. ASSUME Garbage # {}, Lists(t, Garbage) PROVE Acts(t)
    <3>1. PICK y : y = [task[t] EXCEPT !.todo = Sorted(Garbage), !.at = "g_del", !.read = now,
                                       !.entries = [k \in Prefixed |-> store[k]]]
      OBVIOUS
    <3>2. task' = [task EXCEPT ![t] = y]
      BY <2>3, <3>1 DEF Lists
    <3> QED BY <1>2, <2>1, <3>2
  <2> QED BY <1>1, <2>1, <2>2, <2>3
<1>8. CASE GetBlob(t)
  <2>1. PICK place : Runs(t, place)
    BY <1>8 DEF GetBlob
  <2>2. \/ Restored(t) \/ \E p : Goes(t, p)
        \/ task' = [task EXCEPT ![t].at = "h_next", ![t].blob = blob, ![t].read = now,
                                ![t].qs = blob.state.queries]
    BY <1>8 DEF GetBlob
  <2>3. ASSUME task' = [task EXCEPT ![t].at = "h_next", ![t].blob = blob, ![t].read = now,
                                    ![t].qs = blob.state.queries]
        PROVE  Acts(t)
    <3>1. PICK y : y = [task[t] EXCEPT !.at = "h_next", !.blob = blob, !.read = now, !.qs = blob.state.queries]
      OBVIOUS
    <3>2. task' = [task EXCEPT ![t] = y]
      BY <2>3, <3>1
    <3> QED BY <1>2, <2>1, <3>2
  <2> QED BY <1>1, <2>1, <2>2, <2>3
<1>9. CASE HydrateNext(t)
  <2>1. PICK place : Runs(t, place)
    BY <1>9 DEF HydrateNext
  <2>2. Restored(t) \/ (\E p : Goes(t, p)) \/ task' = [task EXCEPT ![t].qs = Tail(@)]
    BY <1>9 DEF HydrateNext
  <2>3. ASSUME task' = [task EXCEPT ![t].qs = Tail(@)] PROVE Acts(t)
    <3>1. PICK y : y = [task[t] EXCEPT !.qs = Tail(@)]
      OBVIOUS
    <3>2. task' = [task EXCEPT ![t] = y]
      BY <2>3, <3>1
    <3> QED BY <1>2, <2>1, <3>2
  <2> QED BY <1>1, <2>1, <2>2, <2>3
<1>10. CASE HydrateRestore(t)
  <2>1. PICK place : Runs(t, place)
    BY <1>10 DEF HydrateRestore
  <2>2. task' = [task EXCEPT ![t].at = "h_next", ![t].qs = Tail(@)]
    BY <1>10 DEF HydrateRestore
  <2>3. PICK y : y = [task[t] EXCEPT !.at = "h_next", !.qs = Tail(@)]
    OBVIOUS
  <2>4. task' = [task EXCEPT ![t] = y]
    BY <2>2, <2>3
  <2> QED BY <1>2, <2>1, <2>4
<1>11. CASE RestoreError(t)
  <2>1. PICK place : Runs(t, place)
    BY <1>11 DEF RestoreError
  <2> PICK rest : rest = remove_oldest_query(task[t].blob.state.queries)
    OBVIOUS
  <2>2. \/ Returns(t)
        \/ task' = [task EXCEPT ![t].errs = @ + 1, ![t].at = "h_next", ![t].op = "replace",
                                ![t].blob.state.queries = rest, ![t].qs = rest]
        \/ task' = [task EXCEPT ![t].errs = @ + 1, ![t].at = "c_get"]
    BY <1>11 DEF RestoreError
  <2>3. DOMAIN task = Everyone
    BY DEF TypeInv, TaskInv
  <2>4. Returns(t) \/ \A u \in Everyone \ {t} : task'[u] = task[u]
    BY <2>2, <2>3
  <2>5. MayRun(t) /\ UNCHANGED <<setup, now, boot, buster>>
    BY <2>1 DEF Runs
  <2> QED BY <1>1, <2>1, <2>4, <2>5 DEF Acts
<1>12. CASE StartLoop(t)
  <2>1. DOMAIN task = Everyone
    BY DEF TypeInv, TaskInv
  <2>2. PICK z : z = Asleep
    OBVIOUS
  <2>3. /\ MayRun(t) /\ UNCHANGED <<setup, now, boot, buster>>
        /\ task' = [task EXCEPT ![t] = NoTask, ![Loop] = z]
    BY <1>12, <2>2 DEF StartLoop, Asleep
  <2>4. \A u \in Everyone \ {t} : task'[u] = task[u] \/ (u = Loop /\ task'[u] = z)
    BY <2>1, <2>3
  <2> QED BY <2>2, <2>3, <2>4 DEF Acts
<1> QED BY <1>3, <1>4, <1>5, <1>6, <1>7, <1>8, <1>9, <1>10, <1>11, <1>12 DEF TaskStep, QueryStep, ClientStep

\* An operation that begins.
LEMMA OperationActs == ASSUME TypeInv, NEW t \in Everyone, Operation(t) PROVE Acts(t) /\ t \in Tasks
<1>1. DOMAIN task = Everyone
  BY DEF TypeInv, TaskInv
<1>2. ASSUME NEW op, Begin(t, op), UNCHANGED task \/ \E y : task' = [task EXCEPT ![t] = y]
      PROVE  Acts(t) /\ t \in Tasks
  <2>1. MayRun(t) /\ UNCHANGED <<setup, now, boot, buster>> /\ t \in Tasks
    BY <1>2, BeginFacts
  <2>2. \A u \in Everyone \ {t} : task'[u] = task[u]
    BY <1>1, <1>2
  <2> QED BY <2>1, <2>2 DEF Acts
<1>3. ASSUME NEW k \in Keys, Write(t, k) \/ PersistQuery(t, k) \/ RestoreQuery(t, k) PROVE Acts(t) /\ t \in Tasks
  BY <1>2, <1>3 DEF Write, PersistQuery, RestoreQuery
<1>4. ASSUME NEW op, NEW place, StartBulk(t, op, place) PROVE Acts(t) /\ t \in Tasks
  BY <1>2, <1>4 DEF StartBulk
<1>5. ASSUME NEW op, ClientOp(t, op) PROVE Acts(t) /\ t \in Tasks
  BY <1>2, <1>5 DEF ClientOp
<1>6. CASE Save(t) \/ Unsubscribe(t)
  BY <1>2, <1>6 DEF Save, Unsubscribe
<1> QED BY <1>3, <1>4, <1>5, <1>6 DEF Operation, BulkOp

LEMMA LoopStepActs == ASSUME TypeInv, LoopStep PROVE Acts(Loop)
<1>1. PICK place : Runs(Loop, place)
  BY DEF LoopStep, LoopStops, LoopSaves
<1>2. Goes(Loop, "off") \/ task' = [task EXCEPT ![Loop].at = "s_put", ![Loop].blob = Snapshot]
  BY DEF LoopStep, LoopStops, LoopSaves
<1>3. ASSUME task' = [task EXCEPT ![Loop].at = "s_put", ![Loop].blob = Snapshot] PROVE Acts(Loop)
  <2>1. PICK y : y = [task[Loop] EXCEPT !.at = "s_put", !.blob = Snapshot]
    OBVIOUS
  <2>2. task' = [task EXCEPT ![Loop] = y]
    BY <1>3, <2>1
  <2> QED BY <1>1, <2>2, LoopIsNoTask, RunsActs
<1> QED BY <1>1, <1>2, <1>3, LoopIsNoTask, RunsActs

\* Where a task gets to.
Resting == {"idle", "off", "sleep"}

LEMMA AfterReturn ==
  ASSUME TypeInv, NEW t \in Everyone, Returns(t)
  PROVE  task'[t].at \in {"idle", "sleep"} /\ (t \in Tasks => task'[t].at = "idle")
<1>1. DOMAIN task = Everyone
  BY DEF TypeInv, TaskInv
<1>2. task'[t] = IF t = Loop THEN [NoTask EXCEPT !.at = "sleep"] ELSE NoTask
  BY <1>1 DEF Returns
<1>3. [NoTask EXCEPT !.at = "sleep"].at = "sleep" /\ NoTask.at = "idle"
  BY DEF NoTask
<1> QED BY <1>2, <1>3, LoopIsNoTask

LEMMA AfterGoes ==
  ASSUME TypeInv, NEW t \in Everyone, NEW p, Goes(t, p)
  PROVE  /\ task'[t].at = p /\ task'[t].op = task[t].op /\ task'[t].todo = task[t].todo
         /\ task'[t].text = task[t].text /\ task'[t].blob = task[t].blob /\ task'[t].qs = task[t].qs
         /\ task'[t].read = task[t].read /\ task'[t].entries = task[t].entries
<1>1. DOMAIN task = Everyone /\ task[t] \in TaskRecords(Len(born), now)
  BY DEF TypeInv, TaskInv, IsTask
<1>2. PICK tk \in TaskRecords(Len(born), now) : tk = task[t]
  BY <1>1
<1>3. task'[t] = [tk EXCEPT !.at = p]
  BY <1>1, <1>2 DEF Goes
<1>4. PICK y : y = [tk EXCEPT !.at = p]
  OBVIOUS
<1>5. /\ y.at = p /\ y.op = tk.op /\ y.todo = tk.todo /\ y.text = tk.text /\ y.blob = tk.blob
      /\ y.qs = tk.qs /\ y.read = tk.read /\ y.entries = tk.entries
  BY <1>4 DEF TaskRecords
<1> QED BY <1>2, <1>3, <1>4, <1>5

LEMMA AfterNextKey ==
  ASSUME TypeInv, NEW t \in Everyone, NEW p, NextKey(t, p), task[t].at \in WithKey
  PROVE  \/ task'[t].at \in {"idle", "sleep"}
         \/ /\ task'[t].at = p /\ task'[t].op = task[t].op /\ task'[t].todo = Tail(task[t].todo)
            /\ task'[t].entries = task[t].entries /\ task'[t].read = task[t].read
            /\ Len(task[t].todo) > 1
<1>1. DOMAIN task = Everyone /\ task[t] \in TaskRecords(Len(born), now)
  BY DEF TypeInv, TaskInv, IsTask
<1>2. CASE Returns(t)
  BY <1>2, AfterReturn
<1>3. CASE ~Returns(t)
  <2>1. task' = [task EXCEPT ![t].todo = Tail(@), ![t].at = p] /\ ~(Len(task[t].todo) <= 1)
    BY <1>3 DEF NextKey
  <2>2. PICK tk \in TaskRecords(Len(born), now) : tk = task[t]
    BY <1>1
  <2>3. PICK y : y = [tk EXCEPT !.todo = Tail(@), !.at = p]
    OBVIOUS
  <2>4. task'[t] = y
    BY <1>1, <2>1, <2>2, <2>3
  <2>5. y.at = p /\ y.op = tk.op /\ y.todo = Tail(tk.todo) /\ y.entries = tk.entries /\ y.read = tk.read
    BY <2>2, <2>3 DEF TaskRecords
  <2>6. PICK n \in Nat : n = Len(tk.todo)
    BY <2>2 DEF TaskRecords
  <2>7. n > 1
    BY <2>1, <2>2, <2>6
  <2> QED BY <2>2, <2>4, <2>5, <2>6, <2>7
<1> QED BY <1>2, <1>3

LEMMA AfterHolds ==
  ASSUME TypeInv, NEW t \in Everyone, NEW text, NEW p, Holds(t, text, p)
  PROVE  /\ task'[t].at = p /\ task'[t].op = task[t].op /\ task'[t].todo = task[t].todo
         /\ task'[t].text = text /\ task'[t].read = now
<1>1. DOMAIN task = Everyone
  BY DEF TypeInv, TaskInv
<1>2. PICK tk \in TaskRecords(Len(born), now) : tk = task[t]
  BY DEF TypeInv, TaskInv, IsTask
<1>3. PICK y : y = [tk EXCEPT !.at = p, !.text = text, !.read = now]
  OBVIOUS
<1>4. task'[t] = y
  BY <1>1, <1>2, <1>3 DEF Holds
<1>5. y.at = p /\ y.op = tk.op /\ y.todo = tk.todo /\ y.text = text /\ y.read = now
  BY <1>2, <1>3 DEF TaskRecords
<1> QED BY <1>2, <1>4, <1>5

LEMMA AfterLists ==
  ASSUME TypeInv, NEW t \in Everyone, Garbage # {}, Lists(t, Garbage)
  PROVE  /\ task'[t].at = "g_del" /\ task'[t].todo = Sorted(Garbage) /\ task'[t].read = now
         /\ task'[t].entries = [k \in Prefixed |-> store[k]]
<1>1. DOMAIN task = Everyone
  BY DEF TypeInv, TaskInv
<1>2. PICK tk \in TaskRecords(Len(born), now) : tk = task[t]
  BY DEF TypeInv, TaskInv, IsTask
<1>3. PICK ks, es : ks = Sorted(Garbage) /\ es = [k \in Prefixed |-> store[k]]
  OBVIOUS
<1>4. PICK y : y = [tk EXCEPT !.todo = ks, !.at = "g_del", !.read = now, !.entries = es]
  OBVIOUS
<1>5. task'[t] = y
  BY <1>1, <1>2, <1>3, <1>4 DEF Lists
<1>6. y.at = "g_del" /\ y.todo = ks /\ y.read = now /\ y.entries = es
  BY <1>2, <1>4 DEF TaskRecords
<1> QED BY <1>3, <1>5, <1>6

LEMMA AfterRestored ==
  ASSUME TypeInv, NEW t \in Tasks, Restored(t)
  PROVE  task'[t].at \in {"idle", "c_ok"}
<1>1. CASE Returns(t)
  BY <1>1, LoopIsNoTask, AfterReturn
<1>2. CASE Goes(t, "c_ok")
  <2> PICK p : p = "c_ok"
    OBVIOUS
  <2>1. task'[t].at = p
    BY <1>2, LoopIsNoTask, AfterGoes
  <2> QED BY <2>1
<1> QED BY <1>1, <1>2 DEF Restored

LEMMA AfterStartLoop ==
  ASSUME TypeInv, NEW t \in Everyone, StartLoop(t)
  PROVE  task'[t].at = "idle" /\ UNCHANGED <<cache, store>>
<1>1. DOMAIN task = Everyone /\ task[Loop].at \in {"off", "sleep", "s_put"}
  BY DEF TypeInv, TaskInv
<1>2. task'[t] = NoTask /\ UNCHANGED <<cache, store>>
  BY <1>1, LoopIsNoTask DEF StartLoop, storageVars
<1> QED BY <1>2 DEF NoTask

\* The query at hand is left behind, and nothing else.
LEMMA AfterTail ==
  ASSUME TypeInv, NEW t \in Everyone, NEW p, task' = [task EXCEPT ![t].at = p, ![t].qs = Tail(@)]
  PROVE  /\ task'[t].at = p /\ task'[t].op = task[t].op /\ task'[t].blob = task[t].blob
         /\ task'[t].qs = Tail(task[t].qs) /\ task'[t].read = task[t].read
<1>1. DOMAIN task = Everyone
  BY DEF TypeInv, TaskInv
<1>2. PICK tk \in TaskRecords(Len(born), now) : tk = task[t]
  BY DEF TypeInv, TaskInv, IsTask
<1>3. PICK y : y = [tk EXCEPT !.at = p, !.qs = Tail(@)]
  OBVIOUS
<1>4. task'[t] = y
  BY <1>1, <1>2, <1>3
<1>5. y.at = p /\ y.op = tk.op /\ y.blob = tk.blob /\ y.qs = Tail(tk.qs) /\ y.read = tk.read
  BY <1>2, <1>3 DEF TaskRecords
<1> QED BY <1>2, <1>4, <1>5

\* The step of HydrateNext that leaves a query behind goes to where it was.
LEMMA SkippedIsTail ==
  ASSUME TypeInv, NEW t \in Everyone, task[t].at = "h_next", task' = [task EXCEPT ![t].qs = Tail(@)]
  PROVE  task' = [task EXCEPT ![t].at = "h_next", ![t].qs = Tail(@)]
<1>1. PICK tk \in TaskRecords(Len(born), now) : tk = task[t]
  BY DEF TypeInv, TaskInv, IsTask
<1>2. [tk EXCEPT !.qs = Tail(@)] = [tk EXCEPT !.at = "h_next", !.qs = Tail(@)]
  BY <1>1 DEF TaskRecords
<1>3. task' = [task EXCEPT ![t] = [tk EXCEPT !.qs = Tail(@)]]
  BY <1>1
<1> QED BY <1>1, <1>2, <1>3

\* A snapshot has been read that may be used, or the strategy made a smaller one
\* of that in hand; the rest is as it was.
LEMMA AfterGetBlob ==
  ASSUME TypeInv, NEW t \in Everyone, GetBlob(t), ~Goes(t, "c_drop"), ~Goes(t, "c_remove"), ~Restored(t)
  PROVE  /\ blob # NoBlob /\ ~Discards(blob)
         /\ task'[t].at = "h_next" /\ task'[t].blob = blob /\ task'[t].read = now
         /\ task'[t].qs = blob.state.queries /\ task'[t].op = task[t].op
<1>1. /\ blob # NoBlob /\ ~Discards(blob)
      /\ task' = [task EXCEPT ![t].at = "h_next", ![t].blob = blob, ![t].read = now,
                              ![t].qs = blob.state.queries]
  BY DEF GetBlob
<1>2. DOMAIN task = Everyone
  BY DEF TypeInv, TaskInv
<1>3. PICK tk \in TaskRecords(Len(born), now) : tk = task[t]
  BY DEF TypeInv, TaskInv, IsTask
<1>4. PICK y : y = [tk EXCEPT !.at = "h_next", !.blob = blob, !.read = now, !.qs = blob.state.queries]
  OBVIOUS
<1>5. task'[t] = y
  BY <1>1, <1>2, <1>3, <1>4
<1>6. y.at = "h_next" /\ y.blob = blob /\ y.read = now /\ y.qs = blob.state.queries /\ y.op = tk.op
  BY <1>3, <1>4 DEF TaskRecords
<1> QED BY <1>1, <1>3, <1>5, <1>6

LEMMA AfterError ==
  ASSUME TypeInv, NEW t \in Everyone, RestoreError(t)
  PROVE  \/ task'[t].at \in {"idle", "sleep", "c_get"}
         \/ /\ task'[t].at = "h_next" /\ task'[t].op = "replace"
            /\ task'[t].qs = task'[t].blob.state.queries
<1>1. DOMAIN task = Everyone
  BY DEF TypeInv, TaskInv
<1>2. PICK tk \in TaskRecords(Len(born), now) : tk = task[t]
  BY DEF TypeInv, TaskInv, IsTask
<1> PICK rest : rest = remove_oldest_query(task[t].blob.state.queries)
  OBVIOUS
<1>3. \/ Returns(t)
      \/ task' = [task EXCEPT ![t].errs = @ + 1, ![t].at = "h_next", ![t].op = "replace",
                              ![t].blob.state.queries = rest, ![t].qs = rest]
      \/ task' = [task EXCEPT ![t].errs = @ + 1, ![t].at = "c_get"]
  BY DEF RestoreError
<1>4. CASE task' = [task EXCEPT ![t].errs = @ + 1, ![t].at = "c_get"]
  <2>1. PICK y : y = [tk EXCEPT !.errs = @ + 1, !.at = "c_get"]
    OBVIOUS
  <2>2. task'[t] = y
    BY <1>1, <1>2, <1>4, <2>1
  <2>3. y.at = "c_get"
    BY <1>2, <2>1 DEF TaskRecords
  <2> QED BY <2>2, <2>3
<1>5. CASE task' = [task EXCEPT ![t].errs = @ + 1, ![t].at = "h_next", ![t].op = "replace",
                                ![t].blob.state.queries = rest, ![t].qs = rest]
  <2>1. PICK y : y = [tk EXCEPT !.errs = @ + 1, !.at = "h_next", !.op = "replace",
                                !.blob.state.queries = rest, !.qs = rest]
    OBVIOUS
  <2>2. task'[t] = y
    BY ONLY <1>1, <1>2, <1>5, <2>1, t \in Everyone DEF TaskRecords, BlobRecords, StatesOf
  <2>3. y.at = "h_next" /\ y.op = "replace" /\ y.qs = rest /\ y.blob.state.queries = rest
    BY <1>2, <2>1 DEF TaskRecords, BlobRecords, StatesOf
  <2> QED BY <2>2, <2>3
<1> QED BY <1>3, <1>4, <1>5, AfterReturn
-----------------------------------------------------------------------------
(***************************************************************************)
(* Only what is usable is brought back                                     *)
(***************************************************************************)

Hydrating == {"h_next", "h_set", "h_restore"}

\* A text or a snapshot in hand was checked when it was read, and is still that
\* of this version: a version ends with its process.
UsableTask(tk, v) ==
  /\ tk.at = "r_apply" =>
       tk.text.buster = v /\ tk.text.updated # NoTime /\ Ms(tk.read) - tk.text.updated <= MaxAge
  /\ tk.at \in Hydrating /\ tk.op # "replace" =>
       tk.blob.buster = v /\ tk.blob.timestamp_ms > 0 /\ Ms(tk.read) - tk.blob.timestamp_ms <= MaxAge

UsableInv == \A t \in Everyone : UsableTask(task[t], buster)

LEMMA ElsewhereIsUsable ==
  ASSUME NEW tk, NEW v, tk.at # "r_apply", tk.at \notin Hydrating
  PROVE  UsableTask(tk, v)
  BY DEF UsableTask

\* A storage read, and the check of what was read, are one step.
LEMMA UsableRead ==
  ASSUME TypeInv, NEW t \in Everyone, GetText(t) \/ GetBlob(t)
  PROVE  UsableTask(task'[t], buster)
<1>1. PICK n \in Nat, m \in Nat : n = now /\ m = Ms(now)
  BY SetupFacts, MsBounds DEF TypeInv
<1>2. CASE GetText(t)
  <2> PICK text : text = store[Head(task[t].todo)]
    OBVIOUS
  <2> PICK place : place = "r_get"
    OBVIOUS
  <2>1. Runs(t, place) /\ place \in WithKey
    BY <1>2 DEF GetText, WithKey
  <2>2. Head(task[t].todo) \in Keys \cup Foreign /\ task[t].at \in WithKey
    BY <2>1, RunsFacts, PrefixedFacts
  <2>3. \/ Returns(t) \/ NextKey(t, "r_get") \/ Holds(t, text, "r_del")
        \/ ~is_expired_or_busted(text, now) /\ Holds(t, text, "r_apply")
    BY <1>2 DEF GetText
  <2>4. ASSUME ~is_expired_or_busted(text, now), Holds(t, text, "r_apply")
        PROVE  UsableTask(task'[t], buster)
    <3>5. PICK y : y = task'[t] /\ y.at = "r_apply" /\ y.text = text /\ y.read = now
      BY <2>4, AfterHolds
    <3>6. text \in TextRecords(Len(born), now)
      BY <2>2 DEF TypeInv, StorageInv, IsText
    <3>7. PICK u \in Int : u = text.updated
      BY <1>1, <3>6 DEF TextRecords, NoTime
    <3>8. text.buster = buster /\ text.updated # NoTime /\ ~(Monus(Ms(now), text.updated) > MaxAge)
      BY <2>4 DEF is_expired_or_busted
    <3>9. MaxAge \in Nat
      BY PersistAssumption
    <3>10. m - u <= MaxAge
      BY <1>1, <3>7, <3>8, <3>9 DEF Monus
    <3>11. Ms(y.read) - y.text.updated <= MaxAge
      BY <1>1, <3>5, <3>7, <3>10
    <3> QED BY <3>5, <3>8, <3>11 DEF UsableTask, Hydrating
  <2> QED BY <2>2, <2>3, <2>4, ElsewhereIsUsable, AfterReturn, AfterHolds, AfterNextKey DEF Hydrating
<1>3. CASE GetBlob(t)
  <2> PICK place : place = "c_get"
    OBVIOUS
  <2>1. Runs(t, place)
    BY <1>3 DEF GetBlob
  <2>2. t \in Tasks
    BY <2>1, RunsFacts
  <2>3. ASSUME ~Goes(t, "c_drop"), ~Goes(t, "c_remove"), ~Restored(t)
        PROVE  UsableTask(task'[t], buster)
    <3>1. /\ blob # NoBlob /\ ~Discards(blob)
          /\ task'[t].at = "h_next" /\ task'[t].blob = blob /\ task'[t].read = now
      BY <1>3, <2>3, AfterGetBlob
    <3>2. blob \in BlobRecords(Len(born), now) /\ blob.timestamp_ms # NoTime
      BY <3>1 DEF TypeInv, StorageInv, IsBlob
    <3>3. PICK u \in Int : u = blob.timestamp_ms /\ u >= NoTime /\ u # NoTime
      BY <1>1, <3>2 DEF BlobRecords, NoTime
    <3>4. blob.buster = buster /\ blob.timestamp_ms # 0 /\ ~(Monus(Ms(now), blob.timestamp_ms) > MaxAge)
      BY <3>1 DEF Discards
    <3>5. MaxAge \in Nat
      BY PersistAssumption
    <3>6. u > 0 /\ m - u <= MaxAge
      BY <1>1, <3>3, <3>4, <3>5 DEF Monus, NoTime
    <3> QED BY <1>1, <3>1, <3>3, <3>4, <3>6 DEF UsableTask
  <2> QED BY <2>2, <2>3, LoopIsNoTask, ElsewhereIsUsable, AfterGoes, AfterRestored DEF Hydrating
<1> QED BY <1>2, <1>3

\* What a task does with it.
LEMMA UsableKept ==
  ASSUME TypeInv, UsableInv, NEW t \in Everyone, HydrateNext(t) \/ HydrateSet(t) \/ HydrateRestore(t)
  PROVE  UsableTask(task'[t], buster)
<1>1. UsableTask(task[t], buster)
  BY DEF UsableInv
<1>2. PICK place \in Hydrating : Runs(t, place)
  BY DEF HydrateNext, HydrateSet, HydrateRestore, Hydrating
<1>3. task[t].at \in Hydrating /\ t \in Tasks
  <2>1. place \notin {"off", "sleep", "s_put"}
    BY DEF Hydrating
  <2> QED BY <1>2, <2>1, RunsFacts
<1>4. \/ \E p : Goes(t, p) /\ p # "r_apply"
      \/ Restored(t)
      \/ task' = [task EXCEPT ![t].at = "h_next", ![t].qs = Tail(@)]
  <2>1. CASE HydrateNext(t)
    <3>1. task[t].at = "h_next"
      BY <2>1 DEF HydrateNext, Runs
    <3>2. Goes(t, "c_put") \/ Goes(t, "h_set") \/ Restored(t) \/ task' = [task EXCEPT ![t].qs = Tail(@)]
      BY <2>1 DEF HydrateNext
    <3> QED BY <3>1, <3>2, SkippedIsTail
  <2>2. CASE HydrateSet(t)
    BY <2>2 DEF HydrateSet
  <2>3. CASE HydrateRestore(t)
    BY <2>3 DEF HydrateRestore
  <2> QED BY <2>1, <2>2, <2>3
<1>5. ASSUME NEW p, Goes(t, p), p # "r_apply" PROVE UsableTask(task'[t], buster)
  <2>1. /\ task'[t].at = p /\ task'[t].op = task[t].op /\ task'[t].blob = task[t].blob
        /\ task'[t].read = task[t].read
    BY <1>5, AfterGoes
  <2> QED BY <1>1, <1>3, <1>5, <2>1 DEF UsableTask
<1>6. CASE Restored(t)
  BY <1>3, <1>6, AfterRestored, ElsewhereIsUsable DEF Hydrating
<1>7. CASE task' = [task EXCEPT ![t].at = "h_next", ![t].qs = Tail(@)]
  <2> PICK p : p = "h_next"
    OBVIOUS
  <2>1. task' = [task EXCEPT ![t].at = p, ![t].qs = Tail(@)]
    BY <1>7
  <2>2. /\ task'[t].at = p /\ task'[t].op = task[t].op /\ task'[t].blob = task[t].blob
        /\ task'[t].read = task[t].read
    BY <2>1, AfterTail
  <2> QED BY <1>1, <1>3, <2>2 DEF UsableTask
<1> QED BY <1>4, <1>5, <1>6, <1>7

\* Where a text or a snapshot in hand is brought back.
Bringing == {"r_apply", "h_next", "h_set", "h_restore"}

\* The other steps of a task lead where nothing is brought back.
LEMMA LeadsElsewhere ==
  ASSUME TypeInv, NEW t \in Everyone, TaskStep(t),
         ~GetText(t), ~GetBlob(t), ~RestoreError(t), ~HydrateNext(t), ~HydrateSet(t), ~HydrateRestore(t)
  PROVE  task'[t].at \notin Bringing
<1>1. CASE GcList(t)
  <2>1. Returns(t) \/ (Garbage # {} /\ Lists(t, Garbage))
    BY <1>1 DEF GcList, Lists
  <2> QED BY <2>1, AfterReturn, AfterLists DEF Bringing
<1>2. ASSUME Returns(t) PROVE task'[t].at \notin Bringing
  BY <1>2, AfterReturn DEF Bringing
<1>3. ASSUME NEW p, Goes(t, p), p \notin Bringing PROVE task'[t].at \notin Bringing
  BY <1>3, AfterGoes
<1>4. ASSUME NEW p, NextKey(t, p), task[t].at \in WithKey, p \notin Bringing
      PROVE  task'[t].at \notin Bringing
  <2>1. task'[t].at \in {"idle", "sleep"} \/ task'[t].at = p
    BY <1>4, AfterNextKey
  <2> QED BY <1>4, <2>1 DEF Bringing
<1>5. ASSUME t \in Tasks, Restored(t) PROVE task'[t].at \notin Bringing
  BY <1>5, AfterRestored DEF Bringing
<1>6. CASE StoreText(t) \/ DropText(t) \/ ApplyText(t) \/ MarkRestored(t)
  <2>1. task[t].at \in WithKey
    BY <1>6 DEF StoreText, DropText, ApplyText, MarkRestored, Runs, WithKey
  <2>2. Returns(t) \/ NextKey(t, "r_get") \/ Goes(t, "r_stale")
    BY <1>6 DEF StoreText, DropText, ApplyText, MarkRestored
  <2> QED BY <1>2, <1>3, <1>4, <2>1, <2>2 DEF Bringing
<1>7. CASE FindText(t) \/ RemoveText(t) \/ RemoveEntry(t) \/ GcRemove(t) \/ GcInvalidate(t)
  <2>1. task[t].at \in WithKey
    BY <1>7 DEF FindText, RemoveText, RemoveEntry, GcRemove, GcInvalidate, Runs, WithKey
  <2>2. \/ Returns(t) \/ NextKey(t, "m_get") \/ NextKey(t, "g_del")
        \/ Goes(t, "m_del") \/ Goes(t, "m_cache") \/ Goes(t, "g_stale")
    BY <1>7 DEF FindText, RemoveText, RemoveEntry, GcRemove, GcInvalidate
  <2> QED BY <1>2, <1>3, <1>4, <2>1, <2>2 DEF Bringing
<1>8. CASE RemoveBlob(t)
  <2> PICK place : place = "c_remove"
    OBVIOUS
  <2>1. Runs(t, place) /\ (Goes(t, "c_err") \/ Restored(t))
    BY <1>8 DEF RemoveBlob
  <2>2. t \in Tasks
    BY <2>1, RunsFacts
  <2> QED BY <1>3, <1>5, <2>1, <2>2 DEF Bringing
<1>9. CASE DropBlob(t) \/ PutReplacement(t) \/ PutBlob(t)
  <2>1. Returns(t) \/ Goes(t, "c_err")
    BY <1>9 DEF DropBlob, PutReplacement, PutBlob
  <2> QED BY <1>2, <1>3, <2>1 DEF Bringing
<1>10. CASE StartLoop(t)
  BY <1>10, AfterStartLoop DEF Bringing
<1> QED BY <1>10, <1>1, <1>6, <1>7, <1>8, <1>9 DEF TaskStep, QueryStep, ClientStep

LEMMA UsableElsewhere ==
  ASSUME TypeInv, NEW t \in Everyone, TaskStep(t),
         ~GetText(t), ~GetBlob(t), ~HydrateNext(t), ~HydrateSet(t), ~HydrateRestore(t)
  PROVE  UsableTask(task'[t], buster)
<1>1. CASE RestoreError(t)
  <2>1. CASE task'[t].at \in {"idle", "sleep", "c_get"}
    BY <2>1, ElsewhereIsUsable DEF Hydrating
  <2>2. CASE task'[t].at = "h_next" /\ task'[t].op = "replace"
    BY <2>2 DEF UsableTask
  <2> QED BY <1>1, <2>1, <2>2, AfterError
<1>2. CASE ~RestoreError(t)
  <2>1. task'[t].at \notin Bringing
    BY <1>2, LeadsElsewhere
  <2> QED BY <2>1, ElsewhereIsUsable DEF Bringing, Hydrating
<1> QED BY <1>1, <1>2

\* An operation that begins is not yet where anything is brought back or removed,
\* and restore_query begins with a key the client has no data for.
Beginnings == {"p_set", "r_get", "m_get", "g_list", "c_get", "s_put"}

LEMMA AfterBegin ==
  ASSUME TypeInv, NEW t \in Everyone, Operation(t)
  PROVE  /\ UNCHANGED store
         /\ \/ UNCHANGED task /\ task[t].at = "idle"
            \/ /\ UNCHANGED cache /\ task'[t].at \in Beginnings
               /\ task'[t].op = "restore_query" /\ task'[t].at \in Awaits =>
                    \E k \in Keys : task'[t].todo = <<k>> /\ ~HasString(k)
<1>1. DOMAIN task = Everyone
  BY DEF TypeInv, TaskInv
<1>2. NoTask \in TaskRecords(Len(born), now)
  <2> PICK place : place = "idle"
    OBVIOUS
  <2> QED BY NothingNow DEF IsTask
<1>3. ASSUME NEW op, Begin(t, op) PROVE UNCHANGED store /\ task[t].at = "idle"
  BY <1>3, BeginFacts DEF storageVars
<1>4. ASSUME NEW y, NEW op, Begin(t, op), UNCHANGED cache, task' = [task EXCEPT ![t] = y],
             y.at \in Beginnings, y.op # "restore_query"
      PROVE  UNCHANGED cache /\ task'[t].at \in Beginnings /\ task'[t].op # "restore_query"
  BY <1>1, <1>4
<1>5. ASSUME NEW k \in Keys, Write(t, k) PROVE UNCHANGED <<store, task>> /\ task[t].at = "idle"
  BY <1>3, <1>5 DEF Write
<1>6. CASE Unsubscribe(t)
  BY <1>3, <1>6 DEF Unsubscribe
<1>7. ASSUME NEW k \in Keys, PersistQuery(t, k)
      PROVE  /\ UNCHANGED store
             /\ \/ UNCHANGED task /\ task[t].at = "idle"
                \/ UNCHANGED cache /\ task'[t].at \in Beginnings /\ task'[t].op # "restore_query"
  <2> PICK op : op = "persist_query"
    OBVIOUS
  <2> PICK x : x = [kind |-> "ok", buster |-> buster,
                    data_json |-> serialize_entry_data(cache[k].data), updated |-> Ms(now)]
    OBVIOUS
  <2> PICK y : y = [NoTask EXCEPT !.op = op, !.at = "p_set", !.todo = <<k>>, !.text = x]
    OBVIOUS
  <2>1. Begin(t, op) /\ UNCHANGED cache /\ (UNCHANGED task \/ task' = [task EXCEPT ![t] = y])
    BY <1>7 DEF PersistQuery
  <2>2. y.at = "p_set" /\ y.op = op
    BY <1>2 DEF TaskRecords
  <2>3. "p_set" \in Beginnings
    BY DEF Beginnings
  <2> QED BY <1>1, <1>3, <2>1, <2>2, <2>3
<1>8. ASSUME NEW k \in Keys, RestoreQuery(t, k)
      PROVE  /\ UNCHANGED store
             /\ \/ UNCHANGED task /\ task[t].at = "idle"
                \/ UNCHANGED cache /\ task'[t].at \in Beginnings /\ task'[t].todo = <<k>> /\ ~HasString(k)
  <2> PICK op : op = "restore_query"
    OBVIOUS
  <2> PICK y : y = [NoTask EXCEPT !.op = op, !.at = "r_get", !.todo = <<k>>]
    OBVIOUS
  <2>1. Begin(t, op) /\ UNCHANGED cache
        /\ (UNCHANGED task \/ (~HasString(k) /\ task' = [task EXCEPT ![t] = y]))
    BY <1>8 DEF RestoreQuery
  <2>2. y.at = "r_get" /\ y.todo = <<k>>
    BY <1>2 DEF TaskRecords
  <2>3. "r_get" \in Beginnings
    BY DEF Beginnings
  <2> QED BY <1>1, <1>3, <2>1, <2>2, <2>3
<1>9. ASSUME BulkOp(t)
      PROVE  UNCHANGED store /\ UNCHANGED cache /\ task'[t].at \in Beginnings /\ task'[t].op # "restore_query"
  <2>1. PICK op \in QueryOps, p \in {"r_get", "m_get", "g_list"} : StartBulk(t, op, p) /\ op # "restore_query"
    BY <1>9 DEF BulkOp, QueryOps
  <2> PICK ks : ks = Sorted(Keys)
    OBVIOUS
  <2> PICK y : y = [NoTask EXCEPT !.op = op, !.at = p, !.todo = ks]
    OBVIOUS
  <2>2. Begin(t, op) /\ UNCHANGED cache /\ task' = [task EXCEPT ![t] = y]
    BY <2>1 DEF StartBulk
  <2>3. y.at = p /\ y.op = op
    BY <1>2 DEF TaskRecords
  <2>4. p \in Beginnings
    BY DEF Beginnings
  <2> QED BY <1>3, <1>4, <2>1, <2>2, <2>3, <2>4
<1>10. ASSUME NEW op \in ClientOps, ClientOp(t, op) \/ Save(t)
       PROVE  UNCHANGED store /\ UNCHANGED cache /\ task'[t].at \in Beginnings /\ task'[t].op # "restore_query"
  <2>1. PICK o \in ClientOps, p \in {"c_get", "s_put"}, b \in {blob, Snapshot} :
          /\ Begin(t, o) /\ UNCHANGED cache
          /\ task' = [task EXCEPT ![t] = [NoTask EXCEPT !.op = o, !.at = p, !.blob = b]]
    BY <1>10 DEF ClientOp, Save, ClientOps
  <2> PICK y : y = [NoTask EXCEPT !.op = o, !.at = p, !.blob = b]
    OBVIOUS
  <2>2. y.at = p /\ y.op = o
    BY <1>2 DEF TaskRecords
  <2>3. p \in Beginnings /\ o # "restore_query"
    BY DEF Beginnings, ClientOps
  <2> QED BY <1>3, <1>4, <2>1, <2>2, <2>3
<1>11. "save" \in ClientOps
  BY DEF ClientOps
<1> QED BY <1>5, <1>6, <1>7, <1>8, <1>9, <1>10, <1>11 DEF Operation

\* Neither has the loop anything in hand but the snapshot it saves.
LEMMA AfterLoopStep == ASSUME TypeInv, LoopStep PROVE task'[Loop].at \in {"off", "s_put"} /\ UNCHANGED <<cache, store>>
<1>1. DOMAIN task = Everyone /\ UNCHANGED <<cache, store>>
  BY DEF TypeInv, TaskInv, LoopStep, LoopStops, LoopSaves, storageVars
<1>2. PICK tk \in TaskRecords(Len(born), now) : tk = task[Loop]
  BY LoopIsNoTask DEF TypeInv, TaskInv, IsTask
<1> PICK b : b = Snapshot
  OBVIOUS
<1> PICK y : y = [tk EXCEPT !.at = "s_put", !.blob = b]
  OBVIOUS
<1>3. Goes(Loop, "off") \/ task' = [task EXCEPT ![Loop] = y]
  BY <1>2 DEF LoopStep, LoopStops, LoopSaves
<1>4. y.at = "s_put"
  BY <1>2 DEF TaskRecords
<1> QED BY <1>1, <1>3, <1>4, LoopIsNoTask, AfterGoes

\* The tasks a process begins with.
LEMMA AllRest ==
  ASSUME NEW T, T = [t \in Everyone |-> IF t = Loop THEN [NoTask EXCEPT !.at = "off"] ELSE NoTask]
  PROVE  \A t \in Everyone : T[t].at \in Resting
  BY DEF NoTask, Resting

LEMMA AsleepRests == Asleep.at = "sleep" /\ Asleep.at \in Resting
  BY DEF Asleep, NoTask, Resting

LEMMA UsableInit == Init => UsableInv
<1> SUFFICES ASSUME Init PROVE UsableInv
  OBVIOUS
<1>1. \A t \in Everyone : task[t].at \in Resting
  BY AllRest DEF Init
<1> QED BY <1>1, ElsewhereIsUsable DEF UsableInv, Resting, Hydrating

LEMMA UsableNext == TypeInv /\ UsableInv /\ [Next]_vars => UsableInv'
<1> SUFFICES ASSUME TypeInv, UsableInv, [Next]_vars PROVE UsableInv'
  OBVIOUS
<1>1. ASSUME NEW t \in Everyone, Acts(t), UsableTask(task'[t], buster) PROVE UsableInv'
  <2>1. UNCHANGED buster /\ \A u \in Everyone \ {t} : task'[u] = task[u] \/ task'[u] = Asleep
    BY <1>1 DEF Acts
  <2>2. UsableTask(Asleep, buster)
    BY AsleepRests, ElsewhereIsUsable DEF Hydrating
  <2>3. \A u \in Everyone : UsableTask(task'[u], buster)
    BY <1>1, <2>1, <2>2 DEF UsableInv
  <2> QED BY <2>1, <2>3 DEF UsableInv
<1>2. ASSUME NEW t \in Everyone, TaskStep(t) PROVE UsableInv'
  <2>1. UsableTask(task'[t], buster)
    BY <1>2, UsableRead, UsableKept, UsableElsewhere
  <2> QED BY <1>1, <1>2, <2>1, TaskStepActs
<1>3. ASSUME NEW t \in Everyone, Operation(t) PROVE UsableInv'
  <2>1. task'[t] = task[t] \/ task'[t].at \in Beginnings
    BY <1>3, AfterBegin
  <2>2. UsableTask(task'[t], buster)
    BY <2>1, ElsewhereIsUsable DEF UsableInv, Beginnings, Hydrating
  <2> QED BY <1>1, <1>3, <2>2, OperationActs
<1>4. CASE LoopStep
  <2>1. UsableTask(task'[Loop], buster)
    BY <1>4, AfterLoopStep, ElsewhereIsUsable DEF Hydrating
  <2> QED BY <1>1, <1>4, <2>1, LoopIsNoTask, LoopStepActs
<1>5. CASE Tick \/ UNCHANGED vars
  <2>1. UNCHANGED <<task, buster>>
    BY <1>5 DEF Tick, vars
  <2> QED BY <2>1 DEF UsableInv
<1>6. CASE Crash
  <2>1. task' = [t \in Everyone |-> IF t = Loop THEN [NoTask EXCEPT !.at = "off"] ELSE NoTask]
    BY <1>6 DEF Crash
  <2>2. \A t \in Everyone : task'[t].at \in Resting
    BY <2>1, AllRest
  <2>3. ASSUME NEW t \in Everyone PROVE UsableTask(task'[t], buster')
    BY <2>2, ElsewhereIsUsable DEF Resting, Hydrating
  <2> QED BY <2>3 DEF UsableInv
<1> QED BY <1>2, <1>3, <1>4, <1>5, <1>6 DEF Next

\* What is brought back is what is in hand.
BringsUsable ==
  \A t \in Tasks :
    LET tk == task[t] IN
       /\ tk.at = "r_apply" /\ task'[t].at = "r_stale" =>
            tk.text.buster = buster /\ tk.text.updated # NoTime /\ Ms(tk.read) - tk.text.updated <= MaxAge
       /\ tk.at = "h_set" /\ task'[t].at = "h_restore" /\ tk.op # "replace" =>
            tk.blob.buster = buster /\ tk.blob.timestamp_ms > 0
            /\ Ms(tk.read) - tk.blob.timestamp_ms <= MaxAge

LEMMA UsableStep == UsableInv => BringsUsable
  BY LoopIsNoTask DEF UsableInv, UsableTask, Hydrating, BringsUsable
-----------------------------------------------------------------------------
(***************************************************************************)
(* All of it is brought back                                               *)
(***************************************************************************)

\* The cache keeps its keys while no operation removes any.
LEMMA KeysStay ==
  ASSUME TypeInv, NEW t \in Everyone, TaskStep(t), "remove_queries" \notin setup.ops
  PROVE  DOMAIN cache \subseteq DOMAIN cache'
<1>1. CASE UNCHANGED cache
  BY <1>1
<1>2. CASE ApplyText(t)
  BY <1>2 DEF ApplyText, Put
<1>3. CASE MarkRestored(t)
  BY <1>3 DEF MarkRestored
<1>4. CASE GcInvalidate(t)
  BY <1>4 DEF GcInvalidate
<1>5. CASE HydrateSet(t)
  BY <1>5 DEF HydrateSet, Hydrated, Put
<1>6. CASE HydrateRestore(t)
  <2>1. task[t].at \in WithQuery /\ cache' = restore_entry_staleness(cache, Captured(t), Head(task[t].qs), now, boot)
    BY <1>6 DEF HydrateRestore, Runs, WithQuery
  <2>2. Head(task[t].qs) \in QueriesOf(Len(born)) /\ Captured(t) \in Nat /\ now \in Nat /\ boot \in Nat
        /\ IsCache(cache, Len(born), now)
    BY <2>1, QueryAtHand
  <2>3. DOMAIN restore_entry_staleness(cache, Captured(t), Head(task[t].qs), now, boot) = DOMAIN cache
    BY ONLY <2>2, StalenessIsCache, SMTT(30)
  <2> QED BY <2>1, <2>3
<1>7. CASE RemoveEntry(t)
  <2>1. task[t].at \in Removing
    BY <1>7 DEF RemoveEntry, Runs, Removing
  <2>2. Shape(task[t], setup.ops)
    BY DEF TypeInv, TaskInv, IsTask
  <2>3. "remove_queries" \in setup.ops
    BY <2>1, <2>2 DEF Shape
  <2> QED BY <2>3
<1>8. CASE StoreText(t) \/ GetText(t) \/ DropText(t) \/ FindText(t) \/ RemoveText(t) \/ GcList(t) \/ GcRemove(t)
  BY <1>1, <1>8 DEF StoreText, GetText, DropText, FindText, RemoveText, GcList, GcRemove
<1>9. CASE GetBlob(t) \/ RemoveBlob(t) \/ DropBlob(t) \/ RestoreError(t) \/ HydrateNext(t) \/ PutReplacement(t)
         \/ PutBlob(t) \/ StartLoop(t)
  BY <1>1, <1>9 DEF GetBlob, RemoveBlob, DropBlob, RestoreError, HydrateNext, PutReplacement, PutBlob, StartLoop
<1> QED BY <1>2, <1>3, <1>4, <1>5, <1>6, <1>7, <1>8, <1>9 DEF TaskStep, QueryStep, ClientStep

LEMMA KeysStayWhenBegun ==
  ASSUME TypeInv, NEW t \in Everyone, Operation(t)
  PROVE  DOMAIN cache \subseteq DOMAIN cache'
<1>1. ASSUME NEW k \in Keys, Write(t, k) PROVE DOMAIN cache \subseteq DOMAIN cache'
  BY <1>1 DEF Write, Put
<1>2. ASSUME NEW k \in Keys, PersistQuery(t, k) \/ RestoreQuery(t, k) PROVE UNCHANGED cache
  BY <1>2 DEF PersistQuery, RestoreQuery
<1>3. ASSUME NEW op, NEW place, ClientOp(t, op) \/ StartBulk(t, op, place) PROVE UNCHANGED cache
  BY <1>3 DEF ClientOp, StartBulk
<1>4. CASE Save(t) \/ Unsubscribe(t)
  BY <1>4 DEF Save, Unsubscribe
<1> QED BY <1>1, <1>2, <1>3, <1>4 DEF Operation, BulkOp

\* A key of a snapshot is in the cache or among those still to hydrate.
Among(qs, k) == \E j \in DOMAIN qs : qs[j].key = k
StillToDo(tk) == IF tk.at = "h_restore" THEN Tail(tk.qs) ELSE tk.qs

CompleteTask(tk, ca) ==
  tk.at \in Hydrating =>
    \A i \in DOMAIN tk.blob.state.queries :
      LET k == tk.blob.state.queries[i].key IN k \in DOMAIN ca \/ Among(StillToDo(tk), k)

CompleteInv ==
  "remove_queries" \notin setup.ops => \A t \in Tasks : CompleteTask(task[t], cache)

LEMMA ElsewhereIsComplete == ASSUME NEW tk, NEW ca, tk.at \notin Hydrating PROVE CompleteTask(tk, ca)
  BY DEF CompleteTask

LEMMA GrownIsComplete ==
  ASSUME NEW tk, NEW ca, NEW cb, CompleteTask(tk, ca), DOMAIN ca \subseteq DOMAIN cb
  PROVE  CompleteTask(tk, cb)
  BY DEF CompleteTask

LEMMA FirstOrRest ==
  ASSUME NEW S, NEW qs \in Seq(S), qs # <<>>, NEW k, Among(qs, k)
  PROVE  Head(qs).key = k \/ Among(Tail(qs), k)
<1>1. PICK j \in DOMAIN qs : qs[j].key = k
  BY DEF Among
<1>2. CASE j = 1
  BY <1>1, <1>2
<1>3. CASE j # 1
  <2>1. j \in 1 .. Len(qs) /\ Len(qs) \in Nat
    BY <1>1
  <2>2. j - 1 \in 1 .. Len(qs) - 1
    BY <1>3, <2>1
  <2>3. DOMAIN Tail(qs) = 1 .. Len(qs) - 1 /\ Tail(qs)[j - 1] = qs[j]
    BY <2>1, <2>2
  <2> QED BY <1>1, <2>2, <2>3 DEF Among
<1> QED BY <1>2, <1>3

LEMMA CompleteHydrateNext ==
  ASSUME TypeInv, NEW t \in Tasks, CompleteTask(task[t], cache), HydrateNext(t)
  PROVE  CompleteTask(task'[t], cache')
<1> PICK place : place = "h_next"
  OBVIOUS
<1>1. /\ Runs(t, place) /\ UNCHANGED cache
      /\ \/ Goes(t, "c_put") \/ Restored(t) \/ Goes(t, "h_set")
         \/ /\ task[t].qs # <<>> /\ ~payload_wins(cache, Captured(t), Head(task[t].qs), TRUE, now)
            /\ task' = [task EXCEPT ![t].qs = Tail(@)]
  BY DEF HydrateNext
<1>2. t \in Everyone /\ task[t].at = "h_next"
  BY <1>1, LoopIsNoTask DEF Runs
<1>3. CASE Goes(t, "c_put") \/ Restored(t)
  <2>1. task'[t].at \in {"c_put", "c_ok", "idle"}
    BY <1>2, <1>3, AfterGoes, AfterRestored
  <2> QED BY <2>1, ElsewhereIsComplete DEF Hydrating
<1>4. CASE Goes(t, "h_set")
  <2>1. task'[t].at = "h_set" /\ task'[t].blob = task[t].blob /\ task'[t].qs = task[t].qs
    BY <1>2, <1>4, AfterGoes
  <2> QED BY <1>1, <1>2, <2>1 DEF CompleteTask, Hydrating, StillToDo
<1>5. CASE /\ task[t].qs # <<>> /\ ~payload_wins(cache, Captured(t), Head(task[t].qs), TRUE, now)
           /\ task' = [task EXCEPT ![t].qs = Tail(@)]
  <2> PICK p : p = "h_next"
    OBVIOUS
  <2>1. task' = [task EXCEPT ![t].at = p, ![t].qs = Tail(@)]
    BY <1>2, <1>5, SkippedIsTail
  <2>2. task'[t].at = "h_next" /\ task'[t].blob = task[t].blob /\ task'[t].qs = Tail(task[t].qs)
    BY <1>2, <2>1, AfterTail
  <2>3. Head(task[t].qs).key \in DOMAIN cache
    BY <1>5 DEF payload_wins
  <2>4. task[t].qs \in Seq(QueriesOf(Len(born)))
    BY <1>2 DEF TypeInv, TaskInv, IsTask, TaskRecords
  <2>5. ASSUME NEW i \in DOMAIN task'[t].blob.state.queries
        PROVE  LET k == task'[t].blob.state.queries[i].key
               IN k \in DOMAIN cache' \/ Among(StillToDo(task'[t]), k)
    <3>1. PICK k : k = task[t].blob.state.queries[i].key
      OBVIOUS
    <3>2. k \in DOMAIN cache \/ Among(task[t].qs, k)
      BY <1>2, <2>2, <2>5, <3>1 DEF CompleteTask, Hydrating, StillToDo
    <3>3. k \in DOMAIN cache \/ Among(Tail(task[t].qs), k)
      BY <1>5, <2>3, <2>4, <3>2, FirstOrRest
    <3> QED BY <1>1, <2>2, <3>1, <3>3 DEF StillToDo
  <2> QED BY <2>5 DEF CompleteTask
<1> QED BY <1>1, <1>3, <1>4, <1>5

LEMMA CompleteHydrateSet ==
  ASSUME TypeInv, NEW t \in Tasks, CompleteTask(task[t], cache), HydrateSet(t)
  PROVE  CompleteTask(task'[t], cache')
<1>1. /\ task[t].at = "h_set" /\ Goes(t, "h_restore") /\ t \in Everyone
      /\ cache' = Hydrated(cache, Head(task[t].qs), now)
  BY LoopIsNoTask DEF HydrateSet, Runs
<1>2. task'[t].at = "h_restore" /\ task'[t].blob = task[t].blob /\ task'[t].qs = task[t].qs
  BY <1>1, AfterGoes
<1>3. DOMAIN cache' = DOMAIN cache \cup {Head(task[t].qs).key}
  BY <1>1 DEF Hydrated, Put
<1>4. task[t].qs \in Seq(QueriesOf(Len(born))) /\ task[t].qs # <<>>
  BY <1>1 DEF TypeInv, TaskInv, IsTask, TaskRecords, Shape, WithQuery
<1>5. ASSUME NEW i \in DOMAIN task'[t].blob.state.queries
      PROVE  LET k == task'[t].blob.state.queries[i].key
             IN k \in DOMAIN cache' \/ Among(StillToDo(task'[t]), k)
  <2>1. PICK k : k = task[t].blob.state.queries[i].key
    OBVIOUS
  <2>2. k \in DOMAIN cache \/ Among(task[t].qs, k)
    BY <1>1, <1>2, <1>5, <2>1 DEF CompleteTask, Hydrating, StillToDo
  <2>3. k \in DOMAIN cache' \/ Among(Tail(task[t].qs), k)
    BY <1>3, <1>4, <2>2, FirstOrRest
  <2> QED BY <1>2, <2>1, <2>3 DEF StillToDo
<1> QED BY <1>5 DEF CompleteTask

LEMMA CompleteHydrateRestore ==
  ASSUME TypeInv, NEW t \in Tasks, CompleteTask(task[t], cache), HydrateRestore(t),
         DOMAIN cache \subseteq DOMAIN cache'
  PROVE  CompleteTask(task'[t], cache')
<1> PICK p : p = "h_next"
  OBVIOUS
<1>1. task[t].at = "h_restore" /\ t \in Everyone /\ task' = [task EXCEPT ![t].at = p, ![t].qs = Tail(@)]
  BY LoopIsNoTask DEF HydrateRestore, Runs
<1>2. task'[t].at = p /\ task'[t].blob = task[t].blob /\ task'[t].qs = Tail(task[t].qs)
  BY <1>1, AfterTail
<1> QED BY <1>1, <1>2 DEF CompleteTask, Hydrating, StillToDo

\* A restore begins with all the queries of the snapshot.
LEMMA CompleteBegins ==
  ASSUME TypeInv, NEW t \in Everyone, t \in Tasks, GetBlob(t) \/ RestoreError(t)
  PROVE  CompleteTask(task'[t], cache')
<1>1. ASSUME task'[t].at = "h_next", task'[t].qs = task'[t].blob.state.queries
      PROVE  CompleteTask(task'[t], cache')
  <2>1. StillToDo(task'[t]) = task'[t].blob.state.queries
    BY <1>1 DEF StillToDo
  <2> QED BY <2>1 DEF CompleteTask, Among
<1>2. CASE GetBlob(t)
  <2>1. ASSUME ~Goes(t, "c_drop"), ~Goes(t, "c_remove"), ~Restored(t)
        PROVE  CompleteTask(task'[t], cache')
    <3>1. task'[t].at = "h_next" /\ task'[t].blob = blob /\ task'[t].qs = blob.state.queries
      BY <1>2, <2>1, AfterGetBlob
    <3> QED BY <1>1, <3>1
  <2> QED BY <2>1, ElsewhereIsComplete, AfterGoes, AfterRestored DEF Hydrating
<1>3. CASE RestoreError(t)
  BY <1>1, <1>3, AfterError, ElsewhereIsComplete DEF Hydrating
<1> QED BY <1>2, <1>3

\* A step of a task keeps what the others are about to hydrate, too.
LEMMA CompleteTaskStep ==
  ASSUME TypeInv, CompleteInv, NEW t \in Everyone, TaskStep(t), "remove_queries" \notin setup.ops
  PROVE  \A u \in Tasks : CompleteTask(task'[u], cache')
<1>1. DOMAIN cache \subseteq DOMAIN cache' /\ Acts(t)
  BY KeysStay, TaskStepActs
<1>2. \A u \in Tasks : CompleteTask(task[u], cache)
  BY DEF CompleteInv
<1>3. ASSUME NEW u \in Tasks, u # t PROVE CompleteTask(task'[u], cache')
  <2>1. task'[u] = task[u]
    BY <1>1, <1>3, LoopIsNoTask DEF Acts
  <2> QED BY <1>1, <1>2, <2>1, GrownIsComplete
<1>4. ASSUME t \in Tasks PROVE CompleteTask(task'[t], cache')
  <2>1. CompleteTask(task[t], cache)
    BY <1>2, <1>4
  <2>2. CASE GetText(t)
    <3> PICK text : text = store[Head(task[t].todo)]
      OBVIOUS
    <3>1. Returns(t) \/ NextKey(t, "r_get") \/ Holds(t, text, "r_del") \/ Holds(t, text, "r_apply")
      BY <2>2 DEF GetText
    <3>2. task[t].at \in WithKey
      BY <2>2 DEF GetText, Runs, WithKey
    <3>3. task'[t].at \notin Hydrating
      BY <3>1, <3>2, AfterReturn, AfterHolds, AfterNextKey DEF Hydrating
    <3> QED BY <3>3, ElsewhereIsComplete
  <2>3. CASE ~GetText(t) /\ ~GetBlob(t) /\ ~RestoreError(t) /\ ~HydrateNext(t) /\ ~HydrateSet(t) /\ ~HydrateRestore(t)
    <3>1. task'[t].at \notin Bringing
      BY <2>3, LeadsElsewhere
    <3> QED BY <3>1, ElsewhereIsComplete DEF Bringing, Hydrating
  <2>4. CASE GetBlob(t) \/ RestoreError(t)
    BY <1>4, <2>4, CompleteBegins
  <2>5. CASE HydrateNext(t)
    BY <1>4, <2>1, <2>5, CompleteHydrateNext
  <2>6. CASE HydrateSet(t)
    BY <1>4, <2>1, <2>6, CompleteHydrateSet
  <2>7. CASE HydrateRestore(t)
    BY <1>1, <1>4, <2>1, <2>7, CompleteHydrateRestore
  <2> QED BY <2>2, <2>3, <2>4, <2>5, <2>6, <2>7
<1> QED BY <1>3, <1>4

LEMMA CompleteInit == Init => CompleteInv
<1> SUFFICES ASSUME Init PROVE CompleteInv
  OBVIOUS
<1>1. \A t \in Everyone : task[t].at \in Resting
  BY AllRest DEF Init
<1> QED BY <1>1, LoopIsNoTask, ElsewhereIsComplete DEF CompleteInv, Resting, Hydrating

LEMMA CompleteNext == TypeInv /\ CompleteInv /\ [Next]_vars => CompleteInv'
<1> SUFFICES ASSUME TypeInv, CompleteInv, [Next]_vars PROVE CompleteInv'
  OBVIOUS
<1>1. UNCHANGED setup
  <2>1. CASE Tick \/ Crash \/ UNCHANGED vars
    BY <2>1 DEF Tick, Crash, vars
  <2>2. CASE LoopStep
    BY <2>2, LoopStepActs DEF Acts
  <2>3. ASSUME NEW t \in Everyone, Operation(t) \/ TaskStep(t) PROVE UNCHANGED setup
    BY <2>3, OperationActs, TaskStepActs DEF Acts
  <2> QED BY <2>1, <2>2, <2>3 DEF Next
<1>2. SUFFICES ASSUME "remove_queries" \notin setup.ops PROVE \A u \in Tasks : CompleteTask(task'[u], cache')
  BY <1>1 DEF CompleteInv
<1>3. \A u \in Tasks : CompleteTask(task[u], cache)
  BY <1>2 DEF CompleteInv
<1>4. ASSUME NEW t \in Everyone, TaskStep(t) PROVE \A u \in Tasks : CompleteTask(task'[u], cache')
  BY <1>2, <1>4, CompleteTaskStep
<1>5. ASSUME NEW t \in Everyone, Operation(t), NEW u \in Tasks PROVE CompleteTask(task'[u], cache')
  <2>1. DOMAIN cache \subseteq DOMAIN cache' /\ Acts(t)
    BY <1>5, KeysStayWhenBegun, OperationActs
  <2>2. CASE task'[u] = task[u]
    BY <1>3, <2>1, <2>2, GrownIsComplete
  <2>3. CASE u = t /\ task'[t].at \in Beginnings
    BY <2>3, ElsewhereIsComplete DEF Beginnings, Hydrating
  <2>4. task'[u] = task[u] \/ (u = t /\ task'[t].at \in Beginnings)
    <3>1. CASE u = t
      BY <1>5, <3>1, AfterBegin
    <3>2. CASE u # t
      BY <2>1, <3>2, LoopIsNoTask DEF Acts
    <3> QED BY <3>1, <3>2
  <2> QED BY <2>2, <2>3, <2>4
<1>6. ASSUME LoopStep, NEW u \in Tasks PROVE CompleteTask(task'[u], cache')
  <2>1. Acts(Loop) /\ UNCHANGED cache
    BY <1>6, LoopStepActs, AfterLoopStep
  <2>2. task'[u] = task[u]
    BY <2>1, LoopIsNoTask DEF Acts
  <2> QED BY <1>3, <2>1, <2>2
<1>7. CASE Tick \/ UNCHANGED vars
  <2>1. UNCHANGED <<task, cache>>
    BY <1>7 DEF Tick, vars
  <2> QED BY <1>3, <2>1
<1>8. CASE Crash
  <2>1. task' = [t \in Everyone |-> IF t = Loop THEN [NoTask EXCEPT !.at = "off"] ELSE NoTask]
    BY <1>8 DEF Crash
  <2>2. \A t \in Everyone : task'[t].at \in Resting
    BY <2>1, AllRest
  <2> QED BY <2>2, LoopIsNoTask, ElsewhereIsComplete DEF Resting, Hydrating
<1> QED BY <1>4, <1>5, <1>6, <1>7, <1>8 DEF Next

\* A restore that is over has nothing left to do.
BringsAll ==
  \A t \in Tasks :
       (/\ task[t].at = "h_next" /\ task'[t].at \in {"idle", "c_ok", "c_put"} /\ cache' # NoCache
        /\ "remove_queries" \notin setup.ops)
       => \A i \in DOMAIN task[t].blob.state.queries :
            task[t].blob.state.queries[i].key \in DOMAIN cache

LEMMA CompleteStep == TypeInv /\ CompleteInv /\ [Next]_vars => BringsAll
<1> SUFFICES ASSUME TypeInv, CompleteInv, [Next]_vars, NEW t \in Tasks,
                    task[t].at = "h_next", task'[t].at \in {"idle", "c_ok", "c_put"}, cache' # NoCache,
                    "remove_queries" \notin setup.ops,
                    NEW i \in DOMAIN task[t].blob.state.queries
             PROVE  task[t].blob.state.queries[i].key \in DOMAIN cache
  BY DEF BringsAll
<1>1. t \in Everyone /\ t # Loop
  BY LoopIsNoTask
<1>2. task'[t] # task[t]
  OBVIOUS
<1>3. ~Crash /\ ~Tick /\ ~UNCHANGED vars
  BY <1>2 DEF Crash, Tick, vars
<1>4. ~LoopStep
  BY <1>1, <1>2, LoopStepActs DEF Acts
<1>5. PICK u \in Everyone : Operation(u) \/ TaskStep(u)
  BY <1>3, <1>4 DEF Next
<1>6. u = t
  BY <1>1, <1>2, <1>5, OperationActs, TaskStepActs DEF Acts
<1>7. ~Operation(t)
  <2>1. "h_next" \notin Beginnings /\ "idle" \notin Beginnings /\ "c_ok" \notin Beginnings /\ "c_put" \notin Beginnings
    BY DEF Beginnings
  <2> QED BY <1>1, <1>2, <2>1, AfterBegin
<1>8. HydrateNext(t)
  BY <1>5, <1>6, <1>7 DEF TaskStep, QueryStep, ClientStep, Runs, StoreText, GetText, DropText, ApplyText,
     MarkRestored, FindText, RemoveText, RemoveEntry, GcList, GcRemove, GcInvalidate, GetBlob, RemoveBlob,
     DropBlob, RestoreError, HydrateSet, HydrateRestore, StartLoop, PutReplacement, PutBlob
<1>9. task[t].qs = <<>>
  <2>1. ASSUME task[t].qs # <<>> PROVE FALSE
    <3>1. Goes(t, "h_set") \/ task' = [task EXCEPT ![t].qs = Tail(@)]
      BY <1>8, <2>1 DEF HydrateNext
    <3> PICK p : p = "h_next"
      OBVIOUS
    <3>2. task'[t].at = "h_set" \/ task'[t].at = p
      <4>1. CASE Goes(t, "h_set")
        BY <1>1, <4>1, AfterGoes
      <4>2. CASE task' = [task EXCEPT ![t].qs = Tail(@)]
        <5>1. task' = [task EXCEPT ![t].at = p, ![t].qs = Tail(@)]
          BY <1>1, <4>2, SkippedIsTail
        <5> QED BY <1>1, <5>1, AfterTail
      <4> QED BY <3>1, <4>1, <4>2
    <3> QED BY <3>2
  <2> QED BY <2>1
<1>10. CompleteTask(task[t], cache)
  BY DEF CompleteInv
<1>11. StillToDo(task[t]) = <<>>
  BY <1>9 DEF StillToDo
<1> QED BY <1>10, <1>11 DEF CompleteTask, Hydrating, Among
-----------------------------------------------------------------------------
(***************************************************************************)
(* Nothing of use is lost                                                  *)
(***************************************************************************)

\* What has expired, or is of another version, stays so.
LEMMA UnusableStays ==
  ASSUME NEW d, NEW n \in Nat, NEW m \in Nat, n <= m, NEW x \in TextRecords(d, n), ~Usable(x, n)
  PROVE  ~Usable(x, m)
<1>1. PICK a \in Nat, b \in Nat : a = Ms(n) /\ b = Ms(m) /\ a <= b
  BY MsBounds, MsMonotone
<1>2. PICK u \in Int : u = x.updated
  BY <1>1 DEF TextRecords, NoTime
<1>3. MaxAge \in Nat
  BY PersistAssumption
<1>4. Monus(a, u) > MaxAge => Monus(b, u) > MaxAge
  BY <1>1, <1>3 DEF Monus
<1> QED BY <1>1, <1>2, <1>4 DEF Usable, is_expired_or_busted

\* On one thread a task finds nothing changed since its last step: restore_query
\* has one key, and no data for it; what is dropped does not parse or does not
\* fit; and nothing that persister_gc listed can be used.
AloneAt == {"r_get", "r_del", "r_apply", "r_stale", "g_del", "g_stale"}

AloneTask(tk) ==
  /\ tk.op = "restore_query" /\ tk.at \in {"r_get", "r_apply"} => ~HasString(Head(tk.todo))
  /\ tk.op = "restore_query" /\ tk.at \in {"r_get", "r_del", "r_apply", "r_stale"} => Len(tk.todo) <= 1
  /\ tk.at = "r_del" => store[Head(tk.todo)].kind \in {"corrupt", "misfit"}
  /\ tk.at \in {"g_del", "g_stale"} => \A i \in DOMAIN tk.todo : ~Usable(store[tk.todo[i]], now)

AloneInv == setup.eager /\ ~setup.pool => \A t \in Tasks : AloneTask(task[t])

LEMMA AloneElsewhere == ASSUME NEW t, task'[t].at \notin AloneAt PROVE AloneTask(task[t])'
  BY DEF AloneTask, AloneAt

LEMMA OthersRest ==
  ASSUME setup.eager, ~setup.pool, NEW t \in Everyone, Acts(t), AloneTask(task[t])'
  PROVE  \A u \in Tasks : AloneTask(task[u])'
<1>1. ASSUME NEW u \in Tasks, u # t PROVE AloneTask(task[u])'
  <2>1. u \in Everyone \ {t} /\ task'[u] = task[u]
    BY <1>1, LoopIsNoTask DEF Acts
  <2>2. task[u].at \in {"idle", "off", "sleep"}
    BY <2>1 DEF Acts, MayRun, Suspended
  <2>3. task'[u].at \notin AloneAt
    BY <2>1, <2>2 DEF AloneAt
  <2> QED BY <2>3, AloneElsewhere
<1> QED BY <1>1

\* restore_query has no next key, so it does not get to one.
LEMMA AloneNextKey ==
  ASSUME TypeInv, NEW t \in Everyone, AloneTask(task[t]), task[t].at \in {"r_get", "r_del", "r_stale"},
         NextKey(t, "r_get")
  PROVE  AloneTask(task[t])'
<1> PICK p : p = "r_get"
  OBVIOUS
<1>1. NextKey(t, p) /\ task[t].at \in WithKey
  BY DEF WithKey
<1>2. \/ task'[t].at \in {"idle", "sleep"}
      \/ task'[t].at = "r_get" /\ task'[t].op = task[t].op /\ Len(task[t].todo) > 1
  BY <1>1, AfterNextKey
<1>3. CASE task'[t].at \in {"idle", "sleep"}
  BY <1>3, AloneElsewhere DEF AloneAt
<1>4. CASE task'[t].at = "r_get" /\ task'[t].op = task[t].op /\ Len(task[t].todo) > 1
  <2>1. PICK n \in Nat : n = Len(task[t].todo)
    BY DEF TypeInv, TaskInv, IsTask, TaskRecords
  <2>2. task[t].op # "restore_query"
    <3>1. task[t].op = "restore_query" => n <= 1
      BY <2>1 DEF AloneTask
    <3>2. n > 1
      BY <1>4, <2>1
    <3> QED BY <3>1, <3>2
  <2> QED BY <1>4, <2>2 DEF AloneTask
<1> QED BY <1>2, <1>3, <1>4

LEMMA AloneGetText ==
  ASSUME TypeInv, NEW t \in Everyone, AloneTask(task[t]), GetText(t)
  PROVE  AloneTask(task[t])'
<1> PICK text : text = store[Head(task[t].todo)]
  OBVIOUS
<1>1. /\ task[t].at = "r_get" /\ UNCHANGED <<cache, store>>
      /\ \/ Returns(t) \/ NextKey(t, "r_get")
         \/ text.kind \in {"corrupt", "misfit"} /\ Holds(t, text, "r_del")
         \/ Holds(t, text, "r_apply")
  BY DEF GetText, Runs
<1>2. task[t].op = "restore_query" => ~HasString(Head(task[t].todo)) /\ Len(task[t].todo) <= 1
  BY <1>1 DEF AloneTask
<1>3. CASE Returns(t)
  BY <1>3, AfterReturn, AloneElsewhere DEF AloneAt
<1>4. CASE NextKey(t, "r_get")
  BY <1>1, <1>4, AloneNextKey
<1>5. CASE text.kind \in {"corrupt", "misfit"} /\ Holds(t, text, "r_del")
  <2>1. task'[t].at = "r_del" /\ task'[t].op = task[t].op /\ task'[t].todo = task[t].todo
    BY <1>5, AfterHolds
  <2>2. store'[Head(task'[t].todo)].kind \in {"corrupt", "misfit"}
    BY <1>1, <1>5, <2>1
  <2> QED BY <1>2, <2>1, <2>2 DEF AloneTask
<1>6. CASE Holds(t, text, "r_apply")
  <2>1. task'[t].at = "r_apply" /\ task'[t].op = task[t].op /\ task'[t].todo = task[t].todo
    BY <1>6, AfterHolds
  <2> QED BY <1>1, <1>2, <2>1 DEF AloneTask, HasString
<1> QED BY <1>1, <1>3, <1>4, <1>5, <1>6

\* The steps that restore a text.
LEMMA AloneRestore ==
  ASSUME TypeInv, NEW t \in Everyone, AloneTask(task[t]), DropText(t) \/ ApplyText(t) \/ MarkRestored(t)
  PROVE  AloneTask(task[t])'
<1>1. CASE DropText(t) \/ MarkRestored(t)
  <2>1. task[t].at \in {"r_del", "r_stale"} /\ (Returns(t) \/ NextKey(t, "r_get"))
    BY <1>1 DEF DropText, MarkRestored, Runs
  <2>2. CASE Returns(t)
    BY <2>2, AfterReturn, AloneElsewhere DEF AloneAt
  <2> QED BY <2>1, <2>2, AloneNextKey
<1>2. CASE ApplyText(t)
  <2>1. task[t].at = "r_apply" /\ Goes(t, "r_stale")
    BY <1>2 DEF ApplyText, Runs
  <2>2. task'[t].at = "r_stale" /\ task'[t].op = task[t].op /\ task'[t].todo = task[t].todo
    BY <2>1, AfterGoes
  <2> QED BY <2>1, <2>2 DEF AloneTask
<1> QED BY <1>1, <1>2

LEMMA AloneGcList ==
  ASSUME TypeInv, NEW t \in Everyone, GcList(t)
  PROVE  AloneTask(task[t])'
<1>1. UNCHANGED <<store, now, buster>> /\ (Returns(t) \/ (Garbage # {} /\ Lists(t, Garbage)))
  BY DEF GcList, Runs, Lists
<1>2. CASE Returns(t)
  BY <1>2, AfterReturn, AloneElsewhere DEF AloneAt
<1>3. CASE Garbage # {} /\ Lists(t, Garbage)
  <2>1. PICK ks : ks = Sorted(Garbage) /\ \A i \in DOMAIN ks : ks[i] \in Garbage
    BY <1>3, GarbageFacts
  <2>2. task'[t].at = "g_del" /\ task'[t].todo = ks
    BY <1>3, <2>1, AfterLists
  <2>3. \A i \in DOMAIN ks : ~Usable(store[ks[i]], now)
    BY <2>1 DEF Garbage
  <2>4. (\A i \in DOMAIN ks : ~Usable(store[ks[i]], now))'
    BY <1>1, <2>3 DEF Usable, is_expired_or_busted
  <2> QED BY <2>2, <2>4 DEF AloneTask
<1> QED BY <1>1, <1>2, <1>3

\* The steps that remove what persister_gc listed.
LEMMA AloneGcRemove ==
  ASSUME TypeInv, NEW t \in Everyone, AloneTask(task[t]), GcRemove(t)
  PROVE  AloneTask(task[t])'
<1>1. /\ task[t].at = "g_del" /\ UNCHANGED <<now, buster>>
      /\ \/ Returns(t)
         \/ store' = [store EXCEPT ![Head(task[t].todo)] = NoText] /\ Goes(t, "g_stale")
  BY DEF GcRemove, Runs
<1>2. CASE Returns(t)
  BY <1>2, AfterReturn, AloneElsewhere DEF AloneAt
<1>3. CASE store' = [store EXCEPT ![Head(task[t].todo)] = NoText] /\ Goes(t, "g_stale")
  <2>1. task'[t].at = "g_stale" /\ task'[t].todo = task[t].todo
    BY <1>3, AfterGoes
  <2>2. ~Usable(NoText, now)
    BY DEF Usable, is_expired_or_busted, NoText
  <2>3. \A i \in DOMAIN task[t].todo : ~Usable(store[task[t].todo[i]], now)
    BY <1>1 DEF AloneTask
  <2>4. task[t].todo \in Seq(Prefixed) /\ DOMAIN store = Keys \cup Foreign
    BY DEF TypeInv, TaskInv, IsTask, TaskRecords, StorageInv
  <2>5. ASSUME NEW i \in DOMAIN task[t].todo PROVE ~Usable(store'[task[t].todo[i]], now)
    <3>1. PICK k \in Prefixed : k = task[t].todo[i]
      BY <2>4, <2>5
    <3>2. store'[k] = store[k] \/ store'[k] = NoText
      BY <1>3, <2>4, PrefixedFacts
    <3> QED BY <2>2, <2>3, <2>5, <3>1, <3>2
  <2>6. \A i \in DOMAIN task[t].todo : ~(Usable(store[task[t].todo[i]], now))'
    BY <1>1, <2>1, <2>5 DEF Usable, is_expired_or_busted
  <2> QED BY <2>1, <2>6 DEF AloneTask
<1> QED BY <1>1, <1>2, <1>3

LEMMA AloneGcInvalidate ==
  ASSUME TypeInv, NEW t \in Everyone, AloneTask(task[t]), GcInvalidate(t)
  PROVE  AloneTask(task[t])'
<1> PICK p : p = "g_del"
  OBVIOUS
<1>1. task[t].at = "g_stale" /\ UNCHANGED <<now, buster, store>> /\ NextKey(t, p) /\ task[t].at \in WithKey
  BY DEF GcInvalidate, Runs, storageVars, WithKey
<1>2. \/ task'[t].at \in {"idle", "sleep"}
      \/ task'[t].at = p /\ task'[t].todo = Tail(task[t].todo)
  BY <1>1, AfterNextKey
<1>3. CASE task'[t].at \in {"idle", "sleep"}
  BY <1>3, AloneElsewhere DEF AloneAt
<1>4. CASE task'[t].at = p /\ task'[t].todo = Tail(task[t].todo)
  <2>1. PICK ks \in Seq(Prefixed) : ks = task[t].todo /\ ks # <<>>
    BY <1>1 DEF TypeInv, TaskInv, IsTask, TaskRecords, Shape
  <2>2. \A i \in DOMAIN ks : ~Usable(store[ks[i]], now)
    BY <1>1, <2>1 DEF AloneTask
  <2>3. ASSUME NEW i \in DOMAIN Tail(ks) PROVE \E j \in DOMAIN ks : Tail(ks)[i] = ks[j]
    <3>1. i + 1 \in DOMAIN ks /\ Tail(ks)[i] = ks[i + 1]
      BY <2>1, <2>3
    <3> QED BY <3>1
  <2>4. \A i \in DOMAIN Tail(ks) : ~Usable(store[Tail(ks)[i]], now)
    BY <2>2, <2>3
  <2>5. PICK rest : rest = Tail(ks)
    OBVIOUS
  <2>6. \A i \in DOMAIN rest : ~Usable(store[rest[i]], now)
    BY <2>4, <2>5
  <2>7. (\A i \in DOMAIN rest : ~Usable(store[rest[i]], now))'
    BY <1>1, <2>6 DEF Usable, is_expired_or_busted
  <2>8. task'[t].at = "g_del" /\ task'[t].todo = rest
    BY <1>4, <2>1, <2>5
  <2> QED BY <2>7, <2>8 DEF AloneTask
<1> QED BY <1>2, <1>3, <1>4

\* The other steps of a task lead where nothing is restored or listed.
LEMMA AloneOther ==
  ASSUME TypeInv, NEW t \in Everyone, TaskStep(t), ~GetText(t), ~DropText(t), ~ApplyText(t), ~MarkRestored(t),
         ~GcList(t), ~GcRemove(t), ~GcInvalidate(t)
  PROVE  task'[t].at \notin AloneAt
<1>2. ASSUME Returns(t) PROVE task'[t].at \notin AloneAt
  BY <1>2, AfterReturn DEF AloneAt
<1>3. ASSUME NEW p, Goes(t, p), p \notin AloneAt PROVE task'[t].at \notin AloneAt
  BY <1>3, AfterGoes
<1>4. ASSUME t \in Tasks, Restored(t) PROVE task'[t].at \notin AloneAt
  BY <1>4, AfterRestored DEF AloneAt
<1>5. CASE StoreText(t) \/ FindText(t) \/ RemoveText(t)
  <2>1. Returns(t) \/ Goes(t, "m_del") \/ Goes(t, "m_cache")
    BY <1>5 DEF StoreText, FindText, RemoveText
  <2> QED BY <1>2, <1>3, <2>1 DEF AloneAt
<1>6. CASE RemoveEntry(t)
  <2> PICK p : p = "m_get"
    OBVIOUS
  <2>1. NextKey(t, p) /\ task[t].at \in WithKey
    BY <1>6 DEF RemoveEntry, Runs, WithKey
  <2>2. task'[t].at \in {"idle", "sleep"} \/ task'[t].at = p
    BY <2>1, AfterNextKey
  <2> QED BY <2>2 DEF AloneAt
<1>7. CASE GetBlob(t) \/ RestoreError(t)
  <2>1. t \in Tasks
    <3>1. PICK place \in {"c_get", "c_err"} : Runs(t, place)
      BY <1>7 DEF GetBlob, RestoreError
    <3>2. place \notin {"off", "sleep", "s_put"}
      OBVIOUS
    <3> QED BY <3>1, <3>2, RunsFacts
  <2>2. CASE RestoreError(t)
    BY <2>2, AfterError DEF AloneAt
  <2>3. CASE GetBlob(t)
    <3>1. Goes(t, "c_drop") \/ Goes(t, "c_remove") \/ Restored(t) \/ task'[t].at = "h_next"
      BY <2>3, AfterGetBlob
    <3> QED BY <1>3, <1>4, <2>1, <3>1 DEF AloneAt
  <2> QED BY <1>7, <2>2, <2>3
<1>8. CASE RemoveBlob(t) \/ DropBlob(t) \/ PutReplacement(t) \/ PutBlob(t)
  <2>1. CASE RemoveBlob(t)
    <3> PICK place : place = "c_remove"
      OBVIOUS
    <3>1. Runs(t, place) /\ (Goes(t, "c_err") \/ Restored(t))
      BY <2>1 DEF RemoveBlob
    <3>2. t \in Tasks
      BY <3>1, RunsFacts
    <3> QED BY <1>3, <1>4, <3>1, <3>2 DEF AloneAt
  <2>2. CASE DropBlob(t) \/ PutReplacement(t) \/ PutBlob(t)
    <3>1. Returns(t) \/ Goes(t, "c_err")
      BY <2>2 DEF DropBlob, PutReplacement, PutBlob
    <3> QED BY <1>2, <1>3, <3>1 DEF AloneAt
  <2> QED BY <1>8, <2>1, <2>2
<1>9. CASE HydrateNext(t) \/ HydrateSet(t) \/ HydrateRestore(t)
  <2>1. PICK place \in Hydrating : Runs(t, place)
    BY <1>9 DEF HydrateNext, HydrateSet, HydrateRestore, Hydrating
  <2>2. t \in Tasks
    <3>1. place \notin {"off", "sleep", "s_put"}
      BY DEF Hydrating
    <3> QED BY <2>1, <3>1, RunsFacts
  <2> PICK p : p = "h_next"
    OBVIOUS
  <2>3. \/ Goes(t, "c_put") \/ Goes(t, "h_set") \/ Goes(t, "h_restore") \/ Restored(t)
        \/ task' = [task EXCEPT ![t].at = p, ![t].qs = Tail(@)]
    <3>1. CASE HydrateNext(t)
      <4>1. task[t].at = "h_next"
        BY <3>1 DEF HydrateNext, Runs
      <4>2. Goes(t, "c_put") \/ Goes(t, "h_set") \/ Restored(t) \/ task' = [task EXCEPT ![t].qs = Tail(@)]
        BY <3>1 DEF HydrateNext
      <4> QED BY <4>1, <4>2, SkippedIsTail
    <3>2. CASE HydrateSet(t)
      BY <3>2 DEF HydrateSet
    <3>3. CASE HydrateRestore(t)
      BY <3>3 DEF HydrateRestore
    <3> QED BY <1>9, <3>1, <3>2, <3>3
  <2>4. ASSUME task' = [task EXCEPT ![t].at = p, ![t].qs = Tail(@)] PROVE task'[t].at = p
    BY <2>4, AfterTail
  <2> QED BY <1>3, <1>4, <2>2, <2>3, <2>4 DEF AloneAt
<1>10. CASE StartLoop(t)
  BY <1>10, AfterStartLoop DEF AloneAt
<1> QED BY <1>10, <1>5, <1>6, <1>7, <1>8, <1>9 DEF TaskStep, QueryStep, ClientStep

LEMMA AloneInit == Init => AloneInv
<1> SUFFICES ASSUME Init PROVE AloneInv
  OBVIOUS
<1>1. \A t \in Everyone : task[t].at \in Resting
  BY AllRest DEF Init
<1>2. \A t \in Tasks : task[t].at \notin AloneAt
  BY <1>1, LoopIsNoTask DEF Resting, AloneAt
<1> QED BY <1>2 DEF AloneInv, AloneTask, AloneAt

\* Between two steps of the tasks, time may go on, and texts expire.
LEMMA AloneTick ==
  ASSUME TypeInv, NEW t \in Tasks, AloneTask(task[t]), Tick
  PROVE  AloneTask(task[t])'
<1>1. UNCHANGED <<task, cache, store, buster>> /\ now' = now + 1
  BY DEF Tick, storageVars
<1>2. now \in Nat /\ now + 1 \in Nat /\ now <= now + 1
  BY SetupFacts DEF TypeInv
<1>3. task[t].todo \in Seq(Prefixed)
  BY LoopIsNoTask DEF TypeInv, TaskInv, IsTask, TaskRecords
<1>4. ASSUME task[t].at \in {"g_del", "g_stale"}
      PROVE  (\A i \in DOMAIN task[t].todo : ~Usable(store[task[t].todo[i]], now))'
  <2>1. ASSUME NEW i \in DOMAIN task[t].todo PROVE ~Usable(store[task[t].todo[i]], now + 1)
    <3>1. PICK k \in Keys \cup Foreign : k = task[t].todo[i]
      <4>1. PICK ks \in Seq(Prefixed) : ks = task[t].todo
        BY <1>3
      <4>2. ks[i] \in Prefixed
        BY <2>1, <4>1
      <4> QED BY <4>1, <4>2, PrefixedFacts
    <3>2. store[k] \in TextRecords(Len(born), now) /\ ~Usable(store[k], now)
      BY <1>4, <2>1, <3>1 DEF TypeInv, StorageInv, IsText, AloneTask
    <3> QED BY <1>2, <3>1, <3>2, UnusableStays
  <2> QED BY <1>1, <2>1 DEF Usable, is_expired_or_busted
<1>5. /\ task[t].op = "restore_query" /\ task[t].at \in {"r_get", "r_apply"} => ~HasString(Head(task[t].todo))
      /\ task[t].op = "restore_query" /\ task[t].at \in {"r_get", "r_del", "r_apply", "r_stale"} => Len(task[t].todo) <= 1
      /\ task[t].at = "r_del" => store[Head(task[t].todo)].kind \in {"corrupt", "misfit"}
  BY DEF AloneTask
<1> QED BY <1>1, <1>4, <1>5 DEF AloneTask, HasString

LEMMA AloneNext == TypeInv /\ AloneInv /\ [Next]_vars => AloneInv'
<1> SUFFICES ASSUME TypeInv, AloneInv, [Next]_vars PROVE AloneInv'
  OBVIOUS
<1>1. UNCHANGED setup
  <2>1. CASE Tick \/ Crash \/ UNCHANGED vars
    BY <2>1 DEF Tick, Crash, vars
  <2>2. CASE LoopStep
    BY <2>2, LoopStepActs DEF Acts
  <2>3. ASSUME NEW t \in Everyone, Operation(t) \/ TaskStep(t) PROVE UNCHANGED setup
    BY <2>3, OperationActs, TaskStepActs DEF Acts
  <2> QED BY <2>1, <2>2, <2>3 DEF Next
<1>2. SUFFICES ASSUME setup.eager, ~setup.pool PROVE \A u \in Tasks : AloneTask(task[u])'
  BY <1>1 DEF AloneInv
<1>3. \A u \in Tasks : AloneTask(task[u])
  BY <1>2 DEF AloneInv
<1>4. ASSUME NEW t \in Everyone, TaskStep(t) PROVE \A u \in Tasks : AloneTask(task[u])'
  <2>1. CASE t \in Tasks
    <3>1. AloneTask(task[t])
      BY <1>3, <2>1
    <3>2. AloneTask(task[t])'
      BY <1>4, <3>1, AloneGetText, AloneRestore, AloneGcList, AloneGcRemove, AloneGcInvalidate,
         AloneOther, AloneElsewhere
    <3> QED BY <1>2, <1>4, <3>2, TaskStepActs, OthersRest
  <2>2. CASE t \notin Tasks
    <3>1. task[t].at \in {"off", "sleep", "s_put"}
      BY <2>2 DEF TypeInv, TaskInv, Everyone
    <3>2. AloneTask(task[t])'
      <4>1. /\ ~GetText(t) /\ ~DropText(t) /\ ~ApplyText(t) /\ ~MarkRestored(t)
            /\ ~GcList(t) /\ ~GcRemove(t) /\ ~GcInvalidate(t)
        BY <3>1 DEF GetText, DropText, ApplyText, MarkRestored, GcList, GcRemove, GcInvalidate, Runs
      <4> QED BY <1>4, <4>1, AloneOther, AloneElsewhere
    <3> QED BY <1>2, <1>4, <3>2, TaskStepActs, OthersRest
  <2> QED BY <2>1, <2>2
<1>5. ASSUME NEW t \in Everyone, Operation(t) PROVE \A u \in Tasks : AloneTask(task[u])'
  <2>1. AloneTask(task[t])'
    <3>1. CASE UNCHANGED task /\ task[t].at = "idle"
      <4>1. task'[t].at \notin AloneAt
        BY <3>1 DEF AloneAt
      <4> QED BY <4>1, AloneElsewhere
    <3>2. CASE /\ UNCHANGED cache /\ task'[t].at \in Beginnings
               /\ task'[t].op = "restore_query" /\ task'[t].at \in Awaits =>
                    \E k \in Keys : task'[t].todo = <<k>> /\ ~HasString(k)
      <4>1. task'[t].at = "r_get" \/ task'[t].at \notin AloneAt
        BY <3>2 DEF Beginnings, AloneAt
      <4>2. CASE task'[t].at = "r_get" /\ task'[t].op = "restore_query"
        <5>1. PICK k \in Keys : task'[t].todo = <<k>> /\ ~HasString(k)
          BY <3>2, <4>2 DEF Awaits
        <5>2. Len(<<k>>) <= 1 /\ Head(<<k>>) = k
          BY OneKey
        <5> QED BY <3>2, <4>2, <5>1, <5>2 DEF AloneTask, HasString
      <4>3. CASE task'[t].at = "r_get" /\ task'[t].op # "restore_query"
        BY <4>3 DEF AloneTask
      <4> QED BY <4>1, <4>2, <4>3, AloneElsewhere
    <3> QED BY <1>5, <3>1, <3>2, AfterBegin
  <2> QED BY <1>2, <1>5, <2>1, OperationActs, OthersRest
<1>6. CASE LoopStep
  <2>1. task'[Loop].at \notin AloneAt
    BY <1>6, AfterLoopStep DEF AloneAt
  <2>2. AloneTask(task[Loop])'
    BY <2>1, AloneElsewhere
  <2> QED BY <1>2, <1>6, <2>2, LoopIsNoTask, LoopStepActs, OthersRest
<1>7. CASE Tick
  BY <1>3, <1>7, AloneTick
<1>8. CASE Crash
  <2>1. task' = [t \in Everyone |-> IF t = Loop THEN [NoTask EXCEPT !.at = "off"] ELSE NoTask]
    BY <1>8 DEF Crash
  <2>2. \A t \in Everyone : task'[t].at \in Resting
    BY <2>1, AllRest
  <2>3. ASSUME NEW t \in Tasks PROVE AloneTask(task[t])'
    <3>1. task'[t].at \notin AloneAt
      BY <2>2, LoopIsNoTask DEF Resting, AloneAt
    <3> QED BY <3>1, AloneElsewhere
  <2> QED BY <2>3
<1>9. CASE UNCHANGED vars
  <2>1. UNCHANGED <<task, cache, store, buster, now>>
    BY <1>9 DEF vars, storageVars
  <2>2. ASSUME NEW t \in Tasks PROVE AloneTask(task[t])'
    <3>1. AloneTask(task[t])
      BY <1>3
    <3> QED BY <2>1, <3>1 DEF AloneTask, HasString, Usable, is_expired_or_busted
  <2> QED BY <2>2
<1> QED BY <1>4, <1>5, <1>6, <1>7, <1>8, <1>9 DEF Next

\* The steps that change the storage of texts.
LEMMA StoreSteps ==
  ASSUME TypeInv, [Next]_vars, store' # store
  PROVE  \E t \in Everyone : StoreText(t) \/ DropText(t) \/ RemoveText(t) \/ GcRemove(t)
<1>1. ~Tick /\ ~Crash /\ ~UNCHANGED vars
  BY DEF Tick, Crash, vars, storageVars
<1>2. ~LoopStep
  BY AfterLoopStep
<1>3. PICK t \in Everyone : TaskStep(t)
  BY <1>1, <1>2, AfterBegin DEF Next
<1>4. CASE ApplyText(t) \/ MarkRestored(t) \/ RemoveEntry(t) \/ GcInvalidate(t) \/ GetText(t) \/ FindText(t) \/ GcList(t)
  BY <1>4 DEF ApplyText, MarkRestored, RemoveEntry, GcInvalidate, GetText, FindText, GcList, storageVars
<1>5. CASE ClientStep(t)
  BY <1>5 DEF ClientStep, GetBlob, RemoveBlob, DropBlob, RestoreError, HydrateNext, HydrateSet, HydrateRestore,
     StartLoop, PutReplacement, PutBlob, storageVars
<1> QED BY <1>3, <1>4, <1>5 DEF TaskStep, QueryStep

\* A task that is to remove a text under a key had read one of no use under it,
\* whatever became of the storage since.
Condemning == {"r_del", "g_del", "g_stale"}

SeenTask(tk) ==
  /\ tk.at = "r_del" => Unfit(tk.text, tk.read)
  /\ tk.at \in {"g_del", "g_stale"} => \A i \in DOMAIN tk.todo : ~Usable(tk.entries[tk.todo[i]], tk.read)

SeenInv == \A t \in Tasks : SeenTask(task[t])

LEMMA SeenElsewhere == ASSUME NEW t, task'[t].at \notin Condemning PROVE SeenTask(task[t])'
  BY DEF SeenTask, Condemning

LEMMA SeenGetText ==
  ASSUME TypeInv, NEW t \in Everyone, GetText(t)
  PROVE  SeenTask(task[t])'
<1> PICK text : text = store[Head(task[t].todo)]
  OBVIOUS
<1>1. /\ task[t].at \in WithKey /\ UNCHANGED buster
      /\ \/ Returns(t) \/ NextKey(t, "r_get") \/ Holds(t, text, "r_apply")
         \/ text.kind \in {"corrupt", "misfit"} /\ Holds(t, text, "r_del")
  BY DEF GetText, Runs, WithKey
<1>2. CASE Returns(t) \/ NextKey(t, "r_get") \/ Holds(t, text, "r_apply")
  <2> PICK p, q : p = "r_get" /\ q = "r_apply"
    OBVIOUS
  <2>1. task'[t].at \in {"idle", "sleep"} \/ task'[t].at = p \/ task'[t].at = q
    BY <1>1, <1>2, AfterReturn, AfterNextKey, AfterHolds
  <2> QED BY <2>1, SeenElsewhere DEF Condemning
<1>3. CASE text.kind \in {"corrupt", "misfit"} /\ Holds(t, text, "r_del")
  <2>1. task'[t].at = "r_del" /\ task'[t].text = text
    BY <1>3, AfterHolds
  <2> QED BY <1>3, <2>1 DEF SeenTask, Unfit, Usable
<1> QED BY <1>1, <1>2, <1>3

LEMMA SeenGcList ==
  ASSUME TypeInv, NEW t \in Everyone, GcList(t)
  PROVE  SeenTask(task[t])'
<1>1. UNCHANGED buster /\ (Returns(t) \/ (Garbage # {} /\ Lists(t, Garbage)))
  BY DEF GcList, Runs, Lists
<1>2. CASE Returns(t)
  BY <1>2, AfterReturn, SeenElsewhere DEF Condemning
<1>3. CASE Garbage # {} /\ Lists(t, Garbage)
  <2>1. PICK ks, es : ks = Sorted(Garbage) /\ es = [k \in Prefixed |-> store[k]]
    OBVIOUS
  <2>2. \A i \in DOMAIN ks : ks[i] \in Garbage
    BY <1>3, <2>1, GarbageFacts
  <2>3. task'[t].at = "g_del" /\ task'[t].todo = ks /\ task'[t].entries = es /\ task'[t].read = now
    BY <1>3, <2>1, AfterLists
  <2>4. PICK n : n = now
    OBVIOUS
  <2>5. \A i \in DOMAIN ks : ~Usable(es[ks[i]], n)
    BY <2>1, <2>2, <2>4 DEF Garbage
  <2>6. (\A i \in DOMAIN ks : ~Usable(es[ks[i]], n))'
    BY <1>1, <2>5 DEF Usable, is_expired_or_busted
  <2> QED BY <2>3, <2>4, <2>6 DEF SeenTask
<1> QED BY <1>1, <1>2, <1>3

\* Of what was listed, some is left to do.
LEMMA SeenGcSteps ==
  ASSUME TypeInv, NEW t \in Everyone, SeenTask(task[t]), GcRemove(t) \/ GcInvalidate(t)
  PROVE  SeenTask(task[t])'
<1>1. task[t].at \in {"g_del", "g_stale"} /\ task[t].at \in WithKey /\ UNCHANGED buster
  BY DEF GcRemove, GcInvalidate, Runs, WithKey
<1> PICK es, n : es = task[t].entries /\ n = task[t].read
  OBVIOUS
<1>2. PICK ks \in Seq(Prefixed) : ks = task[t].todo /\ ks # <<>> /\ es = task[t].entries /\ n = task[t].read
  BY <1>1 DEF TypeInv, TaskInv, IsTask, TaskRecords, Shape
<1>3. \A i \in DOMAIN ks : ~Usable(es[ks[i]], n)
  BY <1>1, <1>2 DEF SeenTask
<1>4. ASSUME NEW rest, \A i \in DOMAIN rest : ~Usable(es[rest[i]], n),
             task'[t].todo = rest, task'[t].entries = es, task'[t].read = n, task'[t].at \in {"g_del", "g_stale"}
      PROVE  SeenTask(task[t])'
  <2>1. (\A i \in DOMAIN rest : ~Usable(es[rest[i]], n))'
    BY <1>1, <1>4 DEF Usable, is_expired_or_busted
  <2> QED BY <1>4, <2>1 DEF SeenTask
<1>5. CASE GcRemove(t)
  <2> PICK p : p = "g_stale"
    OBVIOUS
  <2>1. Returns(t) \/ Goes(t, p)
    BY <1>5 DEF GcRemove
  <2>2. CASE Returns(t)
    BY <2>2, AfterReturn, SeenElsewhere DEF Condemning
  <2>3. CASE Goes(t, p)
    <3>1. task'[t].at = p /\ task'[t].todo = ks /\ task'[t].entries = es /\ task'[t].read = n
      BY <1>2, <2>3, AfterGoes
    <3> QED BY <1>3, <1>4, <3>1
  <2> QED BY <2>1, <2>2, <2>3
<1>6. CASE GcInvalidate(t)
  <2> PICK p : p = "g_del"
    OBVIOUS
  <2>1. NextKey(t, p)
    BY <1>6 DEF GcInvalidate
  <2>2. PICK rest : rest = Tail(ks)
    OBVIOUS
  <2>3. \/ task'[t].at \in {"idle", "sleep"}
        \/ task'[t].at = p /\ task'[t].todo = rest /\ task'[t].entries = es /\ task'[t].read = n
    BY <1>1, <1>2, <2>1, <2>2, AfterNextKey
  <2>4. ASSUME NEW i \in DOMAIN Tail(ks) PROVE \E j \in DOMAIN ks : Tail(ks)[i] = ks[j]
    <3>1. i + 1 \in DOMAIN ks /\ Tail(ks)[i] = ks[i + 1]
      BY <1>2, <2>4
    <3> QED BY <3>1
  <2>5. \A i \in DOMAIN rest : ~Usable(es[rest[i]], n)
    BY <1>3, <2>2, <2>4
  <2>6. CASE task'[t].at \in {"idle", "sleep"}
    BY <2>6, SeenElsewhere DEF Condemning
  <2> QED BY <1>4, <2>3, <2>5, <2>6
<1> QED BY <1>5, <1>6

LEMMA SeenTaskStep ==
  ASSUME TypeInv, NEW t \in Everyone, TaskStep(t), SeenTask(task[t])
  PROVE  SeenTask(task[t])'
<1>1. CASE DropText(t) \/ ApplyText(t) \/ MarkRestored(t)
  <2> PICK p, q : p = "r_get" /\ q = "r_stale"
    OBVIOUS
  <2>1. task[t].at \in WithKey /\ (Returns(t) \/ NextKey(t, p) \/ Goes(t, q))
    BY <1>1 DEF DropText, ApplyText, MarkRestored, Runs, WithKey
  <2>2. task'[t].at \in {"idle", "sleep"} \/ task'[t].at = p \/ task'[t].at = q
    BY <2>1, AfterReturn, AfterNextKey, AfterGoes
  <2> QED BY <2>2, SeenElsewhere DEF Condemning
<1>2. ASSUME task'[t].at \notin AloneAt PROVE SeenTask(task[t])'
  BY <1>2, SeenElsewhere DEF Condemning, AloneAt
<1> QED BY <1>1, <1>2, SeenGetText, SeenGcList, SeenGcSteps, AloneOther

LEMMA SeenInit == Init => SeenInv
<1> SUFFICES ASSUME Init PROVE SeenInv
  OBVIOUS
<1>1. \A t \in Everyone : task[t].at \in Resting
  BY AllRest DEF Init
<1> QED BY <1>1, LoopIsNoTask DEF SeenInv, SeenTask, Resting

LEMMA SeenNext == TypeInv /\ SeenInv /\ [Next]_vars => SeenInv'
<1> SUFFICES ASSUME TypeInv, SeenInv, [Next]_vars, NEW u \in Tasks PROVE SeenTask(task[u])'
  BY DEF SeenInv
<1>1. SeenTask(task[u]) /\ u \in Everyone /\ u # Loop
  BY LoopIsNoTask DEF SeenInv
<1>2. ASSUME task'[u] = task[u], UNCHANGED buster PROVE SeenTask(task[u])'
  BY <1>1, <1>2 DEF SeenTask, Unfit, Usable, is_expired_or_busted
<1>3. ASSUME NEW t \in Everyone, Acts(t), u # t PROVE SeenTask(task[u])'
  BY <1>1, <1>2, <1>3 DEF Acts
<1>4. ASSUME NEW t \in Everyone, TaskStep(t) PROVE SeenTask(task[u])'
  BY <1>1, <1>3, <1>4, TaskStepActs, SeenTaskStep
<1>5. ASSUME NEW t \in Everyone, Operation(t) PROVE SeenTask(task[u])'
  <2>1. Acts(t)
    BY <1>5, OperationActs
  <2>2. CASE u = t
    <3>1. CASE UNCHANGED task
      BY <1>2, <2>1, <3>1 DEF Acts
    <3>2. CASE task'[t].at \in Beginnings
      BY <2>2, <3>2, SeenElsewhere DEF Beginnings, Condemning
    <3> QED BY <1>5, <3>1, <3>2, AfterBegin
  <2> QED BY <1>3, <2>1, <2>2
<1>6. CASE LoopStep
  BY <1>1, <1>3, <1>6, LoopIsNoTask, LoopStepActs
<1>7. CASE Tick \/ UNCHANGED vars
  BY <1>2, <1>7 DEF Tick, vars
<1>8. CASE Crash
  <2>1. task' = [t \in Everyone |-> IF t = Loop THEN [NoTask EXCEPT !.at = "off"] ELSE NoTask]
    BY <1>8 DEF Crash
  <2>2. task'[u].at \in Resting
    BY <1>1, <2>1, AllRest
  <2> QED BY <2>2, SeenElsewhere DEF Resting, Condemning
<1> QED BY <1>4, <1>5, <1>6, <1>7, <1>8 DEF Next

\* A text that leaves the storage was of no use when it was read, or remove_queries
\* was given its key.
LosesNothing ==
  \A k \in Keys \cup Foreign :
       (store[k].kind # "none" /\ store'[k].kind = "none")
       => \E t \in Tasks :
            /\ task[t].at \in {"m_del", "r_del", "g_del"} /\ Head(task[t].todo) = k
            /\ task[t].at = "m_del" => k \in Keys
            /\ task[t].at = "r_del" => k \in Keys /\ Unfit(task[t].text, task[t].read)
            /\ task[t].at = "g_del" => k \in Prefixed /\ ~Usable(task[t].entries[k], task[t].read)
            /\ task[t].at # "m_del" /\ setup.eager /\ ~setup.pool => Unfit(store[k], now)

LEMMA LostStep == TypeInv /\ SeenInv /\ AloneInv /\ [Next]_vars => LosesNothing
<1> SUFFICES ASSUME TypeInv, SeenInv, AloneInv, [Next]_vars, NEW k \in Keys \cup Foreign,
                    store[k].kind # "none", store'[k].kind = "none"
             PROVE  \E t \in Tasks :
                      /\ task[t].at \in {"m_del", "r_del", "g_del"} /\ Head(task[t].todo) = k
                      /\ task[t].at = "m_del" => k \in Keys
                      /\ task[t].at = "r_del" => k \in Keys /\ Unfit(task[t].text, task[t].read)
                      /\ task[t].at = "g_del" => k \in Prefixed /\ ~Usable(task[t].entries[k], task[t].read)
                      /\ task[t].at # "m_del" /\ setup.eager /\ ~setup.pool => Unfit(store[k], now)
  BY DEF LosesNothing
<1>1. PICK t \in Everyone : StoreText(t) \/ DropText(t) \/ RemoveText(t) \/ GcRemove(t)
  BY StoreSteps
<1>2. PICK place \in {"p_set", "r_del", "m_del", "g_del"} : Runs(t, place)
  BY <1>1 DEF StoreText, DropText, RemoveText, GcRemove
<1>3. place \in WithKey /\ place \notin {"off", "sleep", "s_put"} /\ (place # "g_del" => place \in Owned)
  BY DEF WithKey, Owned
<1>4. /\ t \in Tasks /\ task[t].at = place /\ IsTask(task[t], Len(born), now, setup.ops)
      /\ Head(task[t].todo) \in Prefixed /\ (place # "g_del" => Head(task[t].todo) \in Keys)
  BY <1>2, <1>3, RunsFacts
<1>5. PICK x \in {task[t].text, NoText} :
        /\ store' = [store EXCEPT ![Head(task[t].todo)] = x]
        /\ StoreText(t) => x = task[t].text
  BY <1>1 DEF StoreText, DropText, RemoveText, GcRemove
<1>6. k = Head(task[t].todo)
  BY <1>5
<1>7. SeenTask(task[t]) /\ (setup.eager /\ ~setup.pool => AloneTask(task[t]))
  BY <1>4 DEF SeenInv, AloneInv
<1>8. CASE place = "p_set"
  <2>1. task[t].text.kind = "ok" /\ StoreText(t)
    BY <1>1, <1>4, <1>8 DEF IsTask, Shape, WithText, StoreText, DropText, RemoveText, GcRemove, Runs
  <2>2. DOMAIN store = Keys \cup Foreign
    BY DEF TypeInv, StorageInv
  <2>3. store'[k].kind = "ok"
    BY <1>5, <1>6, <2>1, <2>2
  <2> QED BY <2>3
<1>9. CASE place = "r_del"
  <2>1. Unfit(task[t].text, task[t].read)
    BY <1>4, <1>7, <1>9 DEF SeenTask
  <2>2. setup.eager /\ ~setup.pool => store[k].kind \in {"corrupt", "misfit"}
    BY <1>4, <1>6, <1>7, <1>9 DEF AloneTask
  <2>3. setup.eager /\ ~setup.pool => Unfit(store[k], now)
    BY <2>2 DEF Unfit, Usable
  <2> QED BY <1>4, <1>6, <1>9, <2>1, <2>3
<1>10. CASE place = "m_del"
  BY <1>4, <1>6, <1>10
<1>11. CASE place = "g_del"
  <2>1. task[t].todo \in Seq(Prefixed) /\ task[t].todo # <<>>
    BY <1>3, <1>4 DEF IsTask, TaskRecords, Shape
  <2>2. 1 \in DOMAIN task[t].todo /\ k = task[t].todo[1]
    BY <1>6, <2>1
  <2>3. ~Usable(task[t].entries[k], task[t].read)
    BY <1>4, <1>7, <1>11, <2>2 DEF SeenTask
  <2>4. setup.eager /\ ~setup.pool => Unfit(store[k], now)
    BY <1>4, <1>7, <1>11, <2>2 DEF AloneTask, Unfit
  <2> QED BY <1>4, <1>6, <1>11, <2>3, <2>4
<1> QED BY <1>8, <1>9, <1>10, <1>11

\* Data is brought back where there is none.
Yields ==
  \A t \in Tasks :
       (/\ setup.eager /\ ~setup.pool /\ task[t].op = "restore_query"
        /\ task[t].at = "r_apply" /\ task'[t].at = "r_stale")
       => ~HasString(Head(task[t].todo))

LEMMA YieldsStep == AloneInv => Yields
  BY DEF AloneInv, AloneTask, Yields
-----------------------------------------------------------------------------
(***************************************************************************)
(* Theorems                                                                *)
(***************************************************************************)

Inv == TypeInv /\ UsableInv /\ CompleteInv /\ AloneInv /\ SeenInv

LEMMA InvInit == Init => Inv
  BY TypeInit, UsableInit, CompleteInit, AloneInit, SeenInit DEF Inv

LEMMA InvNext == Inv /\ [Next]_vars => Inv'
  BY TypeNext, UsableNext, CompleteNext, AloneNext, SeenNext DEF Inv

\* Clocks, cache, storages and tasks have their types in every state, whatever
\* texts and snapshots an earlier version left behind, over crashes and faults:
\* no entry is from the future, and what is stored decodes to data that was
\* written (src/persister.rs, src/persist_client.rs).
THEOREM TypeCorrect == Spec => []TypeOK
<1>1. Inv => TypeOK
  BY TypeInvIsTypeOK DEF Inv
<1> QED BY <1>1, InvInit, InvNext, PTL DEF Spec

\* Whatever retrieve_query, restore_client and hydrate bring into the cache was
\* saved by this version of the application and had not passed max_age when it
\* was read, over every await, crash and upgrade in between; and a restore that
\* returns has left every key of a usable snapshot in the cache, whatever else
\* ran meanwhile and however often it was tried again, unless remove_queries is
\* among the operations.
THEOREM RestoresWhatItShould == Spec => RestoresExactly
<1>1. Inv /\ [Next]_vars => BringsUsable
  BY UsableStep DEF Inv
<1>2. Inv /\ [Next]_vars => BringsAll
  BY CompleteStep DEF Inv
<1>3. OnlyUsableRestored <=> [][BringsUsable]_vars
  BY DEF OnlyUsableRestored, BringsUsable
<1>4. RestoreComplete <=> [][BringsAll]_vars
  BY DEF RestoreComplete, BringsAll
<1>5. Spec => []Inv
  BY InvInit, InvNext, PTL DEF Spec
<1>6. Spec => [][BringsUsable]_vars
  BY <1>1, <1>5, PTL DEF Spec
<1>7. Spec => [][BringsAll]_vars
  BY <1>2, <1>5, PTL DEF Spec
<1> QED BY <1>3, <1>4, <1>6, <1>7, TypeCorrect DEF RestoresExactly

\* With any storage, on any runtime, what leaves the storage is what remove_queries
\* was given, or is under a key where the task that removes it had read a text of no
\* use: what persister_gc listed, or retrieve_query read, is judged before the await
\* and never mixed up with another key or another time.  With a storage that resolves
\* at once and one thread, what is removed is still of no use, and restore_query
\* never overwrites data the client has (src/persister.rs).
THEOREM NothingIsLost == Spec => NothingLost
<1>1. Inv /\ [Next]_vars => Yields
  BY YieldsStep DEF Inv
<1>2. Inv /\ [Next]_vars => LosesNothing
  BY LostStep DEF Inv
<1>3. YieldsToData <=> [][Yields]_vars
  BY DEF YieldsToData, Yields
<1>4. NothingUsableLost <=> [][LosesNothing]_vars
  BY DEF NothingUsableLost, LosesNothing
<1>5. Spec => []Inv
  BY InvInit, InvNext, PTL DEF Spec
<1>6. Spec => [][Yields]_vars
  BY <1>1, <1>5, PTL DEF Spec
<1>7. Spec => [][LosesNothing]_vars
  BY <1>2, <1>5, PTL DEF Spec
<1> QED BY <1>3, <1>4, <1>6, <1>7 DEF NothingLost
=============================================================================
