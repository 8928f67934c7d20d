----------------------------- MODULE MCBindings -----------------------------
(* Small instances of Bindings. *)
EXTENDS Bindings

CONSTANTS c1, c2

MCCallers == {c1, c2}

Single == [pool : BOOLEAN, placeholder : {FALSE}, initial : {FALSE}]
With(kind, made, s) ==
  [kind |-> kind, pool |-> s.pool, placeholder |-> s.placeholder, initial |-> s.initial,
   calls |-> made, budget |-> IF s.pool THEN 2 ELSE 3]

\* use_query with initial data and without, and with the calls that change an
\* entry; use_queries and any_fetching over two sources; the other hooks.
MCSetups ==
  {With("use_query", {"set_query_data", "invalidate", "drop"}, s) :
     s \in [pool : BOOLEAN, placeholder : {TRUE}, initial : BOOLEAN]}
  \cup {With("use_query", c, s) :
          c \in {{"refetch", "cancel_query"}, {"remove_queries", "spawn_query"},
                 {"set_query_data", "clear", "age"}},
          s \in [pool : {FALSE}, placeholder : {TRUE}, initial : {FALSE}]}
  \cup {With("use_queries", {"set_query_data", "invalidate"}, s) :
          s \in [pool : BOOLEAN, placeholder : {FALSE}, initial : {TRUE}]}
  \cup {With("use_infinite_query", {"append_page", "invalidate", "drop"}, s) : s \in Single}
  \cup {With(k, {"spawn_query", "cancel_query"}, s) :
          k \in {"use_fetching_count", "use_activity_feed"}, s \in Single}
  \cup {With(k, {"spawn_query", "cancel_query"}, s) :
          k \in {"use_is_fetching", "use_any_fetching"},
          s \in [pool : {FALSE}, placeholder : {FALSE}, initial : {FALSE}]}
=============================================================================
