------------------------------ MODULE Hydration ------------------------------
(***************************************************************************)
(* Dehydration and hydration of a cache (src/hydration.rs) as operators.   *)
(* A cache is a function from its keys, which are numbers in the order of  *)
(* their hashes, to entries.  What an entry holds is a number; Opaque      *)
(* stands for data that is not a String.                                   *)
(*                                                                         *)
(* Time is counted in ticks, PerMs of them to a millisecond: entries hold  *)
(* monotonic instants, which are ticks, and payloads hold wall-clock       *)
(* milliseconds.  Both clocks advance together; `boot` is the tick at      *)
(* which the monotonic clock began.                                        *)
(***************************************************************************)
EXTENDS Integers, Sequences, FiniteSets, SequencesExt

CONSTANT PerMs   \* ticks in a millisecond

Opaque == 0
NoTime == -1     \* a payload with no fetch timestamp
Never == 10000   \* u64::MAX milliseconds

NoCache == [k \in {} |-> Opaque]
Put(cache, k, e) == [x \in DOMAIN cache \cup {k} |-> IF x = k THEN e ELSE cache[x]]
Without(cache, ks) == [x \in DOMAIN cache \ ks |-> cache[x]]

\* Keys in the order of their hashes: the i-th has i - 1 before its own.
Sorted(ks) == [i \in 1 .. Cardinality(ks) |-> CHOOSE k \in ks : Cardinality({x \in ks : x < k}) = i - 1]

\* unix_now_ms and now_ms; u64::saturating_sub.
Ms(ticks) == ticks \div PerMs
Monus(a, b) == IF a > b THEN a - b ELSE 0

\* The JSON text of a String, and what the text is decoded to.
serialize_entry_data(data) == [json |-> data]
deserialize_entry_data(text) == text.json

\* What set_query_data stores: fresh, fetched now.
NewEntry(data, life, now) == [data |-> data, fetched |-> now, stale |-> FALSE, life |-> life]

\* dehydrate_cache_entry: the fetch is put on the wall clock as now minus its age.
dehydrate_cache_entry(k, e, now) ==
  [key |-> k, data_json |-> serialize_entry_data(e.data),
   fetched_at_ms |-> Monus(Ms(now), Ms(now - e.fetched)),
   is_stale |-> e.stale, stale_time_ms |-> e.life]

\* default_should_dehydrate_query: data that is no String has no data_json.
default_should_dehydrate_query(e) == e.data # Opaque

\* dehydrate_state with the default options.
dehydrate_state(cache, now) ==
  LET order == Sorted({k \in DOMAIN cache : default_should_dehydrate_query(cache[k])})
  IN [dehydrated_at_ms |-> Ms(now),
      queries |-> [i \in DOMAIN order |->
                     dehydrate_cache_entry(order[i], cache[order[i]], now)]]

\* dehydrated_age_ms: how old the data was when it was captured.
dehydrated_age_ms(at, fetched) == IF fetched = NoTime THEN Never ELSE Monus(at, fetched)

MutDehydratedIsNewer(fetched, at, q, now) == TRUE

\* dehydrated_is_newer: the local entry is older now than the payload was when
\* it was captured.  The time in between is not counted.
dehydrated_is_newer(fetched, at, q, now) ==
  now - fetched > PerMs * dehydrated_age_ms(at, q.fetched_at_ms)

\* hydrate_query, first part: which of the two is kept.
payload_wins(cache, at, q, overwrite, now) ==
  q.key \in DOMAIN cache =>
    overwrite /\ dehydrated_is_newer(cache[q.key].fetched, at, q, now)

\* hydrate_query, second part: set_query_data with stored_options_for.
Hydrated(cache, q, now) ==
  Put(cache, q.key, NewEntry(deserialize_entry_data(q.data_json), q.stale_time_ms, now))

\* restore_entry_staleness, the last part: the payload's stale flag, and a
\* fetch time as old as the payload was, unless that is before the clock began.
restore_entry_staleness(cache, at, q, now, boot) ==
  LET back == now - PerMs * dehydrated_age_ms(at, q.fetched_at_ms)
  IN IF q.key \notin DOMAIN cache THEN cache
     ELSE [cache EXCEPT ![q.key].stale = q.is_stale,
                        ![q.key].fetched = IF back < now /\ back >= boot THEN back ELSE @]

\* hydrate_query with nothing in between.
hydrate_query(cache, at, q, overwrite, now, boot) ==
  IF payload_wins(cache, at, q, overwrite, now)
  THEN restore_entry_staleness(Hydrated(cache, q, now), at, q, now, boot)
  ELSE cache

\* QueryClient::is_stale.
entry_is_stale(e, now) == e.stale \/ (e.life # 0 /\ now - e.fetched > PerMs * e.life)
=============================================================================
