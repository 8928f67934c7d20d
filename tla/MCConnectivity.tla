--------------------------- MODULE MCConnectivity ---------------------------
(* Small instances of Connectivity. *)
EXTENDS Connectivity

CONSTANTS l1, w1, w2, t1, t2

MCLoops == {l1}
MCWatchers == {w1, w2}
MCThreads == {t1, t2}

\* Function behaves as Never and as Always too, and OfflineFirst retries like
\* Online.  An operation with retries, and a client that is mounted and unmounted: they
\* meet only in the connectivity cell, which every setup exercises.
MCDecisions == {[on |-> "Count", count |-> 1], [on |-> "Function", count |-> 0]}
MCRetrying == [pool : BOOLEAN, kind : {"retryer", "executor"},
               mode : {"Always", "OfflineFirst"},
               decision : MCDecisions, maxRuns : {2}, maxMounts : {0},
               maxDrops : {2}]
MCMounting == [pool : BOOLEAN, kind : {"retryer"}, mode : {"Online"},
               decision : {[on |-> "Never", count |-> 0]},
               maxRuns : {0}, maxMounts : {2}, maxDrops : {1}]
MCSetups == MCRetrying \cup MCMounting
=============================================================================
