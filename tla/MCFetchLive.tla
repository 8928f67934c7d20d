----------------------------- MODULE MCFetchLive -----------------------------
(***************************************************************************)
(* Liveness of deduplicated calls, online and without a restore.  Three    *)
(* endings of a fetch send nothing to those who wait for it; LeftAlone     *)
(* names the moments at which they leave a waiter, and the property        *)
(* demands an answer for everybody else.                                   *)
(***************************************************************************)
EXTENDS MCQueryFetch

\* Executions are interchangeable, so spawned ones are named from p1 up and
\* direct ones from p3 down, in the order in which they start (a symmetry set
\* would not be sound for a liveness property); p1 is a spawned one, because
\* three direct ones register nothing and nobody waits.  Only starts are
\* constrained, and no fairness is assumed of them.
InOrder ==
  \A p \in Procs :
    pc[p] = "new" /\ pc'[p] # "new" =>
      IF kind'[p] = "spawn"
      THEN (p = p2 => pc[p1] # "new") /\ (p = p3 => pc[p2] # "new")
      ELSE p # p1 /\ (p = p2 => pc[p3] # "new")

\* A spawned fetch of k that has still something to say about it.
Speaks(p, k) ==
  /\ kind[p] = "spawn" /\ key[p] = k /\ ~aborted[p]
  /\ pc[p] \in Suspended \cup {"gate", "loop", "polling", "resolving", "insert"}

\* The fetch function of k panicked: spawn_query clears the in-flight entry and
\* sends nothing.
Panicked(k) ==
  \E p \in Procs : /\ kind[p] = "spawn" /\ key[p] = k
                   /\ result[p] = "FetchPanic" /\ pc[p] \in {"clear", "end"}

\* The entry of k is just removed by a method that sends nothing (clear), or only
\* Loading (reset_queries), which a waiter passes over.
Unregistered(k) ==
  \E c \in Callers : \/ call[c].op = "clear" /\ call[c].at = "wipe"
                     \/ call[c].op = "reset_queries" /\ call[c].key = k /\ call[c].hit

\* The data went before the waiter read it: the Success it is woken with finds
\* none.  Only remove_queries tells of the removal.
Emptied(p) ==
  /\ ~cache[key[p]].has
  /\ \E i \in DOMAIN chan[p].queue : chan[p].queue[i] = "Success"
  /\ \A i \in DOMAIN chan[p].queue : chan[p].queue[i] # "Error"
  /\ \A c \in Callers : call[c].op # "remove_queries"

LeftAlone(p) ==
  /\ pc[p] = "waiting"
  /\ \A q \in Procs : ~Speaks(q, key[p])
  /\ Panicked(key[p]) \/ Unregistered(key[p]) \/ Emptied(p)

\* A deduplicated call resolves (executor.rs:80, client.rs:425 "Wake up any
\* waiting subscribers so they don't hang"), unless the last fetch of its key
\* ended in one of the three ways above while it waited, which leave it waiting.
DedupWaiterResolves ==
  \A p \in Procs : (pc[p] = "subscribe") ~> (pc[p] = "done" \/ LeftAlone(p))
=============================================================================
