----------------------------- MODULE Selection -----------------------------
(***************************************************************************)
(* Which cached queries an operation of QueryClient applies to, by key, by *)
(* filter and by option (src/client.rs, src/filters.rs, src/key.rs,        *)
(* src/options.rs).  The keys are texts here, so that keys that resemble   *)
(* one another are told apart the way the code does it; one call is one    *)
(* step, since QueryFetch has the interleavings.                           *)
(***************************************************************************)
EXTENDS QueryKeys

CONSTANTS
  Keys,      \* keys that are written: sequences of segments
  Filters,   \* filters the application uses
  Settings,  \* options the application passes
  MaxAge     \* bound: age of an entry

VARIABLES
  plan,      \* calls left
  cache,     \* text -> entry
  flying,    \* texts with a fetch in flight
  defaults,  \* the client's default options, None until they are set
  retry,     \* a retry configuration and the waits of a query that keeps failing
  last       \* the last bulk call and the entries it dealt with

vars == <<plan, cache, flying, defaults, retry, last>>

NoBulk == [op |-> "none", filter |-> AllQueries, texts |-> {}]

\* c is the number of calls, r the retry configuration of the failing query.
InitFor(c, r) ==
  /\ plan = c
  /\ cache = <<>>
  /\ flying = {}
  /\ defaults = None
  /\ retry = [config |-> r, waits |-> <<>>]
  /\ last = NoBulk

Texts == DOMAIN cache
Snapshot(t) == entry_snapshot(t, cache[t], t \in flying)

\* matching_entries
Matching(f) == {t \in Texts : match_query(Snapshot(t), f)}

Call == plan > 0 /\ plan' = plan - 1
Without(ts) == [t \in Texts \ ts |-> cache[t]]
Flagged(ts) == [t \in Texts |-> IF t \in ts THEN [cache[t] EXCEPT !.is_stale = TRUE] ELSE cache[t]]
Bulk(o, f, ts) == last' = [op |-> o, filter |-> f, texts |-> ts]

-----------------------------------------------------------------------------

\* set_query_data: the client's defaults are merged in when the entry is new.
\* The entry remembers the key it was written with, for the properties.
SetQueryData(k, o) ==
  LET t == cache_key(k)
      e == [key |-> k, is_stale |-> FALSE, age |-> 0,
            options |-> IF t \in Texts \/ defaults = None THEN o ELSE merge_options(defaults, o)] IN
  /\ Call
  /\ cache' = [u \in Texts \cup {t} |-> IF u = t THEN e ELSE cache[u]]
  /\ last' = NoBulk
  /\ UNCHANGED <<flying, defaults, retry>>

SetDefaultOptions(o) ==
  /\ Call /\ defaults # o
  /\ defaults' = o
  /\ last' = NoBulk
  /\ UNCHANGED <<cache, flying, retry>>

Tick ==
  /\ \E t \in Texts : cache[t].age < MaxAge
  /\ cache' = [t \in Texts |-> [cache[t] EXCEPT !.age = Least(@ + 1, MaxAge)]]
  /\ last' = NoBulk
  /\ UNCHANGED <<plan, flying, defaults, retry>>

FetchStarts(t) ==
  /\ Call /\ t \notin flying
  /\ flying' = flying \cup {t}
  /\ last' = NoBulk
  /\ UNCHANGED <<cache, defaults, retry>>

\* invalidate_queries, by text.
InvalidateQueries(k) ==
  LET ts == {t \in Texts : TextMatches(t, k)} IN
  /\ Call
  /\ cache' = Flagged(ts) /\ flying' = flying \ ts
  /\ Bulk("invalidate", WithKey(k), ts)
  /\ UNCHANGED <<defaults, retry>>

InvalidateQueriesFiltered(f, type) ==
  LET ts == Matching(f) IN
  /\ Call
  /\ cache' = Flagged(ts)
  /\ flying' = flying \ {t \in ts : Refetches(type, Snapshot(t))}
  /\ Bulk("invalidate_filtered", f, ts)
  /\ UNCHANGED <<defaults, retry>>

\* refetch_queries skips disabled queries and fresh static ones.
RefetchQueries(f, cancel) ==
  LET ts == {t \in Matching(f) : /\ is_enabled(cache[t].options)
                                 /\ ~(cache[t].options.stale_time_static /\ ~Snapshot(t).is_stale)} IN
  /\ Call
  /\ cache' = Flagged(ts)
  /\ flying' = IF cancel THEN flying \ ts ELSE flying
  /\ Bulk("refetch", f, ts)
  /\ UNCHANGED <<defaults, retry>>

CancelQueries(f) ==
  /\ Call
  /\ flying' = flying \ Matching(f)
  /\ Bulk("cancel", f, Matching(f) \cap flying)
  /\ UNCHANGED <<cache, defaults, retry>>

\* remove_queries; reset_queries differs only in what it tells the subscribers.
RemoveQueries(f) ==
  /\ Call
  /\ cache' = Without(Matching(f)) /\ flying' = flying \ Matching(f)
  /\ Bulk("remove", f, Matching(f))
  /\ UNCHANGED <<defaults, retry>>

\* refetch_all_stale, on window focus: only what is stale, if its trigger allows it.
RefetchAllStale ==
  LET ts == {t \in Texts : /\ entry_is_stale(cache[t])
                           /\ allows_refetch(cache[t].options.refetch_on_window_focus, TRUE)} IN
  /\ Call
  /\ cache' = Flagged(ts)
  /\ Bulk("focus", AllQueries, ts)
  /\ UNCHANGED <<flying, defaults, retry>>

\* handle_reconnect: the trigger alone decides.
HandleReconnect ==
  LET ts == {t \in Texts : allows_refetch(cache[t].options.refetch_on_reconnect, entry_is_stale(cache[t]))} IN
  /\ Call
  /\ cache' = Flagged(ts)
  /\ Bulk("reconnect", AllQueries, ts)
  /\ UNCHANGED <<flying, defaults, retry>>

Gc ==
  LET ts == {t \in Texts : cache[t].age >= cache[t].options.gc_time} IN
  /\ Call /\ ts # {}
  /\ cache' = Without(ts)
  /\ Bulk("gc", AllQueries, ts)
  /\ UNCHANGED <<flying, defaults, retry>>

\* The failing query waits before its next attempt, or gives up.
Wait ==
  LET attempt == Len(retry.waits) IN
  /\ should_retry(retry.config, attempt)
  /\ retry' = [retry EXCEPT !.waits = Append(@, delay_for(retry.config, attempt))]
  /\ UNCHANGED <<plan, cache, flying, defaults, last>>

Next ==
  \/ \E k \in Keys, o \in Settings : SetQueryData(k, o)
  \/ \E o \in Settings : SetDefaultOptions(o)
  \/ Tick \/ Wait \/ RefetchAllStale \/ HandleReconnect \/ Gc
  \/ \E t \in Texts : FetchStarts(t)
  \/ \E k \in Keys : InvalidateQueries(k)
  \/ \E f \in Filters :
       \/ \E type \in {"All", "Active", "Inactive", "None"} : InvalidateQueriesFiltered(f, type)
       \/ \E cancel \in BOOLEAN : RefetchQueries(f, cancel)
       \/ CancelQueries(f) \/ RemoveQueries(f)

-----------------------------------------------------------------------------

\* Type invariant.
TypeOK ==
  /\ plan \in Nat
  /\ flying \subseteq {cache_key(k) : k \in Keys}
  /\ \A t \in Texts : /\ cache[t].key \in Keys /\ DOMAIN cache[t].options = Fields
                      /\ cache[t].is_stale \in BOOLEAN /\ cache[t].age \in 0 .. MaxAge
  /\ last.texts \subseteq {cache_key(k) : k \in Keys}

\* "the rebuilt key always reproduces the cache key string exactly": splitting a text
\* and joining the pieces gives the text back, whatever colons the segments contain.
RebuiltKeyKeepsText == \A t \in Texts : cache_key(from_segments(t)) = t

\* Segments without a colon are the ones QueryKey::with and segment are meant for.
PlainKey(k) == \A i \in DOMAIN k : ":" \notin ToSet(k[i])

\* A key filter selects the family of its key and nothing that only looks like it:
\* an entry written with a plain key is selected exactly when the filter's key is a
\* prefix of that key segment by segment (or equal to it, if exact), although only
\* the text is stored; and invalidate_queries, which compares texts, leaves no member
\* of that family out.
SelectsFamily ==
  \A t \in Texts, p \in Keys :
    LET k == cache[t].key
        family == \E n \in 0 .. Len(k) : p = SubSeq(k, 1, n) IN
    PlainKey(k) /\ PlainKey(p) =>
      /\ t \in Matching(WithKey(p)) <=> family
      /\ t \in Matching([WithKey(p) EXCEPT !.exact = TRUE]) <=> p = k
      /\ family => TextMatches(t, p)
      /\ match_mutation([mutation_key |-> k, status |-> "Idle", is_paused |-> FALSE],
                        [AllMutations EXCEPT !.mutation_key = p]) <=> family

\* A bulk call finds exactly the entries it is for, through texts, rebuilt keys and
\* options: what a removing call leaves is not matched any more and has no fetch; what
\* an invalidating call dealt with stays stale to every later filter, however fresh its
\* age makes it look; a refetch pass leaves no stale entry that allows it unmarked and
\* touches none that is disabled for that trigger; gc leaves nothing that has expired.
BulkHolds ==
  /\ last.op = "remove" => last.texts \cap (Texts \cup flying) = {} /\ Matching(last.filter) = {}
  /\ last.op \in {"invalidate", "invalidate_filtered", "refetch", "focus", "reconnect"} =>
       \A t \in last.texts : Snapshot(t).is_stale
  /\ last.op = "invalidate" => last.texts \cap flying = {}
  /\ last.op = "cancel" => \A t \in last.texts : Snapshot(t).fetch_status = "Idle"
  /\ last.op = "refetch" => \A t \in last.texts : is_enabled(cache[t].options)
  /\ last.op = "focus" => \A t \in Texts : Snapshot(t).is_stale =>
       (t \in last.texts <=> cache[t].options.refetch_on_window_focus # "Disabled")
  /\ last.op = "reconnect" => \A t \in Texts : Snapshot(t).is_stale =>
       (t \in last.texts <=> cache[t].options.refetch_on_reconnect # "Disabled")
  /\ last.op = "gc" => \A t \in Texts : cache[t].age < cache[t].options.gc_time

\* The two ways the code asks for staleness by time, QueryOptions::is_stale_by_time
\* and the client's, agree on every entry whose data may become stale by time at all.
StalenessAgrees ==
  \A t \in Texts :
    ~cache[t].options.stale_time_static /\ ~cache[t].is_stale =>
      (entry_is_stale(cache[t]) <=> is_stale_by_time(cache[t].options, cache[t].age))

\* The waits of a failing query never shrink, however many bits the multiplier
\* would need, stay below the cap of their curve and are at most max_retries.
WaitsGrow ==
  LET c == retry.config
      cap == IF SharedCurve(c) THEN MAX_RETRY_DELAY ELSE c.max_delay IN
  /\ Len(retry.waits) <= c.max_retries
  /\ \A i \in DOMAIN retry.waits :
       /\ retry.waits[i] <= cap
       /\ \A j \in 1 .. i : Least(c.base_delay, cap) <= retry.waits[j] /\ retry.waits[j] <= retry.waits[i]
=============================================================================
