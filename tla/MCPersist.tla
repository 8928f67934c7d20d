------------------------------ MODULE MCPersist ------------------------------
(* Small instances of Persist. *)
EXTENDS Persist

CONSTANTS t1, t2

MCTasks == {t1, t2}

Text(kind, b, up) == [kind |-> kind, buster |-> b, data_json |-> serialize_entry_data(1), updated |-> up]

\* What an earlier process left: usable, too old, of another version, broken.
Good == {Text("ok", 0, 2)}
Bad == {Text("ok", 0, 0), Text("ok", 0, NoTime), Text("ok", 1, 2), Text("corrupt", 0, NoTime),
        Text("misfit", 0, 2), Text("empty", 0, 2)}

Base == [pool |-> FALSE, eager |-> FALSE, faults |-> 0, crashes |-> 0, texts |-> {}, kin |-> {}, blobs |-> {},
         refetch |-> TRUE, replaces |-> FALSE, ops |-> {}, budget |-> 2]

MCSetups ==
  {[Base EXCEPT !.eager = e, !.texts = Good,
                !.ops = {"write", "persist_query", "restore_query"}, !.budget = 3] : e \in BOOLEAN}
  \cup {[Base EXCEPT !.pool = TRUE, !.texts = Good, !.ops = {"write", "restore_query"}]}
  \cup {[Base EXCEPT !.eager = TRUE, !.texts = Bad, !.ops = {o}, !.budget = 1, !.faults = 1] :
          o \in {"restore_queries", "persister_gc", "remove_queries"}}
  \cup {[Base EXCEPT !.eager = e, !.texts = {Text("ok", 0, 0), Text("ok", 0, 1)}, !.refetch = FALSE,
                     !.kin = {Text("ok", 1, 2)} \cup Good, !.ops = {"persister_gc", "restore_queries", "persist_query"}] : e \in BOOLEAN}
  \cup {[Base EXCEPT !.blobs = {0, 2}, !.faults = 1,
                     !.ops = {"persist_query_client", "write", "unsubscribe"}, !.budget = 3],
        [Base EXCEPT !.blobs = {2}, !.crashes = 1, !.texts = {Text("ok", 1, 2)},
                     !.ops = {"persist_query_client", "restore_queries"}, !.budget = 2],
        [Base EXCEPT !.crashes = 1, !.ops = {"persist_query_client", "write"}, !.budget = 3]}
  \cup {[Base EXCEPT !.blobs = {2}, !.ops = {"restore_client", "save", "write"}, !.pool = TRUE]}
  \cup {[Base EXCEPT !.blobs = {2}, !.faults = Unlimited, !.replaces = r,
                     !.ops = {"persist_with_retry", "save"}] : r \in BOOLEAN}
=============================================================================
