----------------------------- MODULE QueryKeys -----------------------------
(***************************************************************************)
(* Hierarchical keys and filters as pure operators: src/key.rs,            *)
(* src/filters.rs and the snapshots of QueryClient (src/client.rs).        *)
(* A text is a sequence of characters, a key a sequence of segments.       *)
(***************************************************************************)
EXTENDS QueryOptions, SequencesExt, FiniteSets

Sep == <<":", ":">>

\* The text a key is cached under: QueryKey::new, then with or segment for the rest.
cache_key(key) == IF key = <<>> THEN <<>> ELSE FoldLeft(LAMBDA text, s : text \o Sep \o s, Head(key), Tail(key))

\* Position of the first separator in a text, 0 without one.
FirstSep(text) ==
  LET at == {i \in 1 .. Len(text) - 1 : SubSeq(text, i, i + 1) = Sep} IN
  IF at = {} THEN 0 ELSE CHOOSE i \in at : \A j \in at : i <= j

\* str::split("::"), and from_segments keeps the pieces as they are.
RECURSIVE Split(_)
Split(text) ==
  LET i == FirstSep(text) IN
  IF i = 0 THEN <<text>> ELSE <<SubSeq(text, 1, i - 1)>> \o Split(SubSeq(text, i + 2, Len(text)))

from_segments(text) == Split(text)

MutStartsWith(key, prefix) == IsPrefix(cache_key(prefix), cache_key(key))

\* Segment by segment.
starts_with(key, prefix) ==
  Len(key) >= Len(prefix) /\ SubSeq(key, 1, Len(prefix)) = prefix

\* invalidate_queries compares texts.
TextMatches(text, pattern) == IsPrefix(cache_key(pattern), text)

-----------------------------------------------------------------------------

\* QueryFilters::default: everything.
AllQueries == [query_key |-> None, exact |-> FALSE, query_type |-> "All", stale |-> FALSE,
               fetch_status |-> None, status |-> None, predicate |-> None]
WithKey(key) == [AllQueries EXCEPT !.query_key = key]

AllMutations == [mutation_key |-> None, exact |-> FALSE, status |-> None, is_paused |-> None, predicate |-> None]

EMPTY_KEY == << <<>> >>

key_matches(filter_key, candidate, exact) ==
  \/ filter_key = None
  \/ /\ filter_key # None
     /\ IF exact THEN filter_key = candidate ELSE starts_with(candidate, filter_key)

\* A predicate is the set of keys it accepts, and decides alone.
match_query(snapshot, f) ==
  IF f.predicate # None THEN snapshot.key \in f.predicate ELSE
  /\ key_matches(f.query_key, snapshot.key, f.exact)
  /\ f.query_type = "Active" => snapshot.is_active
  /\ f.query_type = "Inactive" => ~snapshot.is_active
  /\ f.stale => snapshot.is_stale
  /\ f.fetch_status \in {None, snapshot.fetch_status}
  /\ f.status \in {None, snapshot.status}

match_mutation(snapshot, f) ==
  IF f.predicate # None THEN snapshot.mutation_key \in f.predicate ELSE
  /\ key_matches(f.mutation_key, IF snapshot.mutation_key = None THEN EMPTY_KEY ELSE snapshot.mutation_key, f.exact)
  /\ f.status \in {None, snapshot.status}
  /\ f.is_paused \in {None, snapshot.is_paused}

\* entry_is_stale: the flag, or the stale time.
entry_is_stale(e) == e.is_stale \/ (e.options.stale_time # 0 /\ e.age > e.options.stale_time)

\* entry_snapshot: the key is rebuilt from the text.
entry_snapshot(text, e, in_flight) ==
  [key |-> from_segments(text), is_active |-> in_flight /\ is_enabled(e.options),
   is_stale |-> entry_is_stale(e), status |-> "Success",
   fetch_status |-> IF in_flight THEN "Fetching" ELSE "Idle", has_data |-> TRUE]

\* RefetchType
Refetches(type, snapshot) ==
  CASE type = "All" -> TRUE
    [] type = "Active" -> snapshot.is_active
    [] type = "Inactive" -> ~snapshot.is_active
    [] type = "None" -> FALSE
=============================================================================
