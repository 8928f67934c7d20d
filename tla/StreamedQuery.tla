--------------------------- MODULE StreamedQuery ---------------------------
(***************************************************************************)
(* A query whose fetch function collects a stream (src/streamed_query.rs): *)
(* streamed_query makes a new stream for every fetch and collect_stream    *)
(* folds its chunks.  A chunk is a sequence of items, as for Vec and       *)
(* String; the fetch is cancelled by dropping the future.                  *)
(***************************************************************************)
EXTENDS Integers, Sequences, SequencesExt

CONSTANTS
  NoValue,   \* Option::None
  Chunks     \* chunks a stream may yield

VARIABLES
  plan,      \* the configuration, the fetches and the chunks left
  at,        \* whether a fetch is collecting, or how the last one ended
  acc,       \* accumulator of collect_stream
  got,       \* chunks this fetch has received
  out        \* what the last fetch made of the query: its data, or an error

vars == <<plan, at, acc, got, out>>

Quiet == [fetches |-> 0, chunks |-> 0, mode |-> "Reset", initial |-> NoValue, reducer |-> "none"]

InitFor(p) ==
  /\ plan = p
  /\ at = "none"
  /\ acc = NoValue
  /\ got = <<>>
  /\ out = [kind |-> "none", data |-> NoValue]

\* Append starts from the configured initial value, Replace and Reset from nothing.
Start(p) == IF p.mode = "Append" THEN p.initial ELSE NoValue

\* CombineChunks::combine, or the configured reducer: here, one that keeps the newest.
Combine(p, current, chunk) ==
  CASE current = NoValue -> chunk
    [] current # NoValue /\ p.reducer = "newest" -> chunk
    [] OTHER -> current \o chunk

Fetch ==
  /\ at # "collect" /\ plan.fetches > 0
  /\ plan' = [plan EXCEPT !.fetches = @ - 1]
  /\ at' = "collect"
  /\ acc' = Start(plan)
  /\ got' = <<>>
  /\ UNCHANGED out

NextChunk(c) ==
  /\ at = "collect" /\ plan.chunks > 0
  /\ plan' = [plan EXCEPT !.chunks = @ - 1]
  /\ acc' = Combine(plan, acc, c)
  /\ got' = Append(got, c)
  /\ UNCHANGED <<at, out>>

MutChunkError ==
  /\ at = "collect"
  /\ at' = "failed"
  /\ out' = [kind |-> IF acc = NoValue THEN "error" ELSE "data", data |-> acc]
  /\ UNCHANGED <<plan, acc, got>>

\* An error chunk ends the collection; what was collected is dropped.
ChunkError ==
  /\ at = "collect"
  /\ at' = "failed"
  /\ out' = [kind |-> "error", data |-> out.data]
  /\ UNCHANGED <<plan, acc, got>>

\* The end of the stream: the accumulator, or UndefinedData.
StreamEnds ==
  /\ at = "collect"
  /\ at' = "ended"
  /\ out' = IF acc = NoValue THEN [kind |-> "error", data |-> out.data] ELSE [kind |-> "data", data |-> acc]
  /\ UNCHANGED <<plan, acc, got>>

\* The wrapping task is aborted or its token cancelled: the stream goes with it.
Cancelled ==
  /\ at = "collect"
  /\ at' = "cancelled"
  /\ UNCHANGED <<plan, acc, got, out>>

Next == Fetch \/ (\E c \in Chunks : NextChunk(c)) \/ ChunkError \/ StreamEnds \/ Cancelled

-----------------------------------------------------------------------------

Values == {NoValue} \cup Seq(UNION {{c[i] : i \in DOMAIN c} : c \in Chunks})

\* Type invariant.
TypeOK ==
  /\ plan.fetches \in Nat /\ plan.chunks \in Nat
  /\ at \in {"none", "collect", "ended", "failed", "cancelled"}
  /\ acc \in Values /\ out.data \in Values /\ out.kind \in {"none", "data", "error"}
  /\ got \in Seq(Chunks)

\* What the data of a query are after a fetch, said without an accumulator: the base
\* of the mode and all chunks of that fetch in the order they came, or the newest
\* chunk under a reducer that keeps it.
Expected ==
  LET base == IF plan.mode = "Append" THEN plan.initial ELSE NoValue
      all == FlattenSeq(got) IN
  CASE got = <<>> -> base
    [] got # <<>> /\ plan.reducer = "newest" -> Last(got)
    [] OTHER -> IF base = NoValue THEN all ELSE base \o all

\* While a fetch collects, the accumulator is the expected value of the chunks so far,
\* and nothing of an earlier fetch, of one that failed or was cancelled in the middle,
\* is in it.
CollectsInOrder == at = "collect" => acc = Expected

\* Data appear as a whole: what the query shows is the value of a stream that ended,
\* never what had been collected when an error chunk or a cancellation came.
ShowsWhole == out'.data # out.data => at' = "ended" /\ out'.data = Expected
=============================================================================
