--------------------------- MODULE Bindings_proofs ---------------------------
(***************************************************************************)
(* Proofs about the reactive bindings, for any number of sources, callers  *)
(* and calls, any setups and any capacities.                               *)
(***************************************************************************)
EXTENDS Bindings, FiniteSetTheorems, SequenceTheorems, TLAPS

-----------------------------------------------------------------------------
(***************************************************************************)
(* The inductive invariant                                                 *)
(***************************************************************************)

\* What the channel of a slot carries: announcements of a key, or counts.
Words == IF IsQuery THEN {"Success", "Error", "Stale"} ELSE Nat

Reads == [has : BOOLEAN, ver : Nat]

\* The types that TypeOK leaves open because no property needs them.
InnerType ==
  /\ queue \in [Slots -> Seq(Words)]
  /\ missed \in [Slots -> Nat]
  /\ reading \in [Slots -> Reads]
  /\ fresh \in [Slots -> States]

\* Which hook passes where: only a feed drains, only the two hooks of a single
\* query spawn, and only use_query announces; nothing of their own runs before
\* that, and the loop of an infinite query holds no guard.
Early == {"unbound", "seed", "seed_notify", "read", "create", "spawn", "announce", "drain"}
PathInv ==
  /\ bind.at = "drain" => IsFeed
  /\ bind.at = "spawn" => setup.kind \in {"use_query", "use_infinite_query"}
  /\ bind.at = "announce" => setup.kind = "use_query"
  /\ bind.at \in Early => writer[Own].at = "idle"
  /\ setup.kind = "use_infinite_query" => writer[Own].at \in {"idle", "fetching", "fetched"}

\* The count of a client is one for each guard that is held and one for the
\* spawn that has counted and not yet announced: it never goes below zero.
Counting == {"up", "fetching", "fetched", "down", "aborted"}
Holds(x, w, s) == x.slot = s /\ x.at \in Counting /\ AfterFetch(w) = "down"
Holding(s) == {w \in Writers : Holds(writer[w], w, s)}
Unannounced(s) == IF bind.at = "announce" /\ s = 1 THEN 1 ELSE 0
CountInv == \A s \in Slots : count[s] = Cardinality(Holding(s)) + Unannounced(s)

ShapeInv == TypeOK /\ InnerType /\ PathInv /\ CountInv

\* On one thread nobody else runs while the hook function does, so what it has
\* not heard of before it subscribes is at most its own seed.
HeardInv ==
  ~setup.pool /\ setup.calls \cap Silent = {} =>
    /\ bind.at \in {"seed", "seed_notify", "read"} /\ setup.kind # "use_queries" => bind.slot = 1
    /\ bind.at = "read" => unheard \subseteq {bind.slot}
    /\ bind.at \notin {"read", "bound", "dropped"} => unheard = {}
    /\ bind.at \in {"bound", "dropped"} => unheard \cap subs = {}

\* t is how s ends.
Ends(t, s) ==
  /\ Len(t) <= Len(s)
  /\ \A i \in 1 .. Len(t) : t[i] = s[Len(s) - Len(t) + i]

\* The queue q is how the log ends; so is what is shown followed by the queue,
\* unless lost values have not been reported.
Shown(f, q, l, lost) == Ends(q, l) /\ (lost = 0 => Ends(f \o q, l))

\* A feed on one thread: one pump, which only waits.  What the hook function
\* drains is one queue at most, and nothing is lost meanwhile.
FeedInv ==
  IsFeed /\ ~setup.pool =>
    /\ bind.at \in {"unbound", "drain", "bound"}
    /\ subs \subseteq {1} /\ ~stop
    /\ \A s \in Slots : pump[s] # "none" => s = 1 /\ bind.at = "bound"
    /\ log \in Seq(Nat)
    /\ Len(feed) <= FeedCap
    /\ bind.at = "unbound" => feed = <<>>
    /\ bind.at # "bound" => 1 \in subs
    /\ 1 \in subs =>
         /\ Shown(feed, queue[1], log, missed[1])
         /\ bind.at = "drain" => /\ missed[1] > 0 => feed = <<>>
                                 /\ Len(feed) + Len(queue[1]) <= Cap

BindingsInv == ShapeInv /\ HeardInv /\ FeedInv

-----------------------------------------------------------------------------
(***************************************************************************)
(* Constants and queues                                                    *)
(***************************************************************************)

LEMMA SlotFacts == 1 \in Slots /\ Slots \subseteq Nat
<1>1. PICK n \in Nat : n = Cardinality(Slots) /\ n # 0
  BY BindingsAssumption, FS_CardinalityType, FS_EmptySet
<1> QED
  BY <1>1, BindingsAssumption

LEMMA SetupFacts ==
  ASSUME setup \in Setups
  PROVE  /\ setup.kind \in Kinds /\ setup.pool \in BOOLEAN /\ setup.calls \subseteq Calls
         /\ setup.budget \in Nat /\ setup.budget <= MaxCalls
  BY BindingsAssumption DEF AllSetups

LEMMA CapFacts == Cap \in Nat /\ Cap >= 1 /\ FeedCap \in Nat /\ FeedCap >= Cap
  BY CapacityAssumption, BindingsAssumption DEF Cap

LEMMA WritersFinite == IsFiniteSet(Writers) /\ Own \in Writers
  BY BindingsAssumption, FS_AddElement DEF Writers

LEMMA HoldingFinite ==
  ASSUME NEW s
  PROVE  /\ IsFiniteSet(Holding(s)) /\ Cardinality(Holding(s)) \in Nat
         /\ Holding(s) # {} => Cardinality(Holding(s)) >= 1
<1>1. IsFiniteSet(Holding(s))
  BY WritersFinite, FS_Subset DEF Holding
<1>2. PICK n \in Nat : n = Cardinality(Holding(s))
  BY <1>1, FS_CardinalityType
<1>3. Holding(s) # {} => n # 0
  BY <1>1, <1>2, FS_EmptySet
<1> QED
  BY <1>1, <1>2, <1>3

\* poll_state: the value taken and what is left of the queue.
LEMMA TailFacts ==
  ASSUME NEW S, NEW q \in Seq(S), q # <<>>
  PROVE  /\ Tail(q) \in Seq(S) /\ Len(Tail(q)) = Len(q) - 1
         /\ Head(q) \in S /\ Head(q) = q[1]
         /\ \A i \in 1 .. Len(q) - 1 : Tail(q)[i] = q[i + 1]
  BY HeadTailProperties

LEMMA AppendFacts ==
  ASSUME NEW S, NEW q \in Seq(S), NEW v \in S
  PROVE  /\ Append(q, v) \in Seq(S) /\ Len(Append(q, v)) = Len(q) + 1
         /\ Append(q, v)[Len(q) + 1] = v
         /\ \A i \in 1 .. Len(q) : Append(q, v)[i] = q[i]
  BY AppendProperties

\* What one send does to a queue within its capacity.
LEMMA QueuedType ==
  ASSUME NEW S, NEW q \in Seq(S), NEW v \in S, NEW n \in Nat, Len(q) <= Cap
  PROVE  /\ Queued(q, v) \in Seq(S) /\ Len(Queued(q, v)) <= Cap
         /\ Missed(q, n) \in Nat
<1>0. PICK l \in Nat, c \in Nat : l = Len(q) /\ c = Cap /\ c >= 1
  BY CapFacts, LenProperties
<1>1. CASE Len(q) >= Cap
  <2>1. q # <<>>
    BY <1>0, <1>1, EmptySeq
  <2>2. Tail(q) \in Seq(S) /\ Len(Tail(q)) = l - 1
    BY <2>1, <1>0, TailFacts
  <2>3. Append(Tail(q), v) \in Seq(S) /\ Len(Append(Tail(q), v)) = l - 1 + 1
    BY <2>2, AppendFacts
  <2> QED
    BY <1>0, <1>1, <2>3 DEF Queued, Missed
<1>2. CASE ~(Len(q) >= Cap)
  <2>1. Append(q, v) \in Seq(S) /\ Len(Append(q, v)) = l + 1
    BY <1>0, AppendFacts
  <2> QED
    BY <1>0, <1>2, <2>1 DEF Queued, Missed
<1> QED
  BY <1>1, <1>2

\* notify_subscribers and activity_tx.send keep the types and the receivers.
LEMMA DeliverType ==
  ASSUME TypeOK, InnerType, NEW s \in Slots, NEW v \in Words, Deliver(s, v)
  PROVE  /\ queue' \in [Slots -> Seq(Words)] /\ \A t \in Slots : Len(queue'[t]) <= Cap
         /\ missed' \in [Slots -> Nat]
         /\ unheard' \subseteq Slots /\ subs' = subs
<1>1. /\ queue[s] \in Seq(Words) /\ Len(queue[s]) <= Cap /\ missed[s] \in Nat
  BY DEF TypeOK, InnerType
<1>2. /\ Queued(queue[s], v) \in Seq(Words) /\ Len(Queued(queue[s], v)) <= Cap
      /\ Missed(queue[s], missed[s]) \in Nat
  BY <1>1, QueuedType
<1>3. queue' = queue \/ queue' = [queue EXCEPT ![s] = Queued(queue[s], v)]
  BY DEF Deliver
<1>4. missed' = missed \/ missed' = [missed EXCEPT ![s] = Missed(queue[s], missed[s])]
  BY DEF Deliver
<1>5. queue' \in [Slots -> Seq(Words)] /\ \A t \in Slots : Len(queue'[t]) <= Cap
  <2>1. queue \in [Slots -> Seq(Words)] /\ \A t \in Slots : Len(queue[t]) <= Cap
    BY DEF TypeOK, InnerType
  <2>2. CASE queue' = queue
    BY <2>1, <2>2
  <2>3. CASE queue' = [queue EXCEPT ![s] = Queued(queue[s], v)]
    <3>1. queue' \in [Slots -> Seq(Words)]
      BY <1>2, <2>1, <2>3
    <3>2. \A t \in Slots : queue'[t] = IF t = s THEN Queued(queue[s], v) ELSE queue[t]
      BY <2>1, <2>3
    <3> QED
      BY <1>2, <2>1, <3>1, <3>2
  <2> QED
    BY <1>3, <2>2, <2>3
<1>6. missed' \in [Slots -> Nat]
  BY <1>2, <1>4 DEF InnerType
<1> QED
  BY <1>5, <1>6 DEF Deliver, TypeOK

ChanType ==
  /\ subs \subseteq Slots /\ unheard \subseteq Slots
  /\ queue \in [Slots -> Seq(Words)] /\ \A t \in Slots : Len(queue[t]) <= Cap
  /\ missed \in [Slots -> Nat]

LEMMA NotifyType ==
  ASSUME TypeOK, InnerType, NEW s \in Slots, NEW v \in {"Success", "Error", "Stale"},
         Notify(s, v), UNCHANGED setup
  PROVE  ChanType' /\ subs' = subs /\ log' = log
<1>1. CASE IsQuery
  <2>1. v \in Words /\ Deliver(s, v) /\ Words' = Words
    BY <1>1 DEF Words, Notify, IsQuery
  <2> QED
    BY <2>1, DeliverType DEF ChanType, TypeOK, Notify
<1>2. CASE ~IsQuery
  <2>1. UNCHANGED <<subs, queue, missed, unheard, log>> /\ Words' = Words
    BY <1>2 DEF Notify, Words, IsQuery
  <2> QED
    BY <2>1 DEF ChanType, TypeOK, InnerType
<1> QED
  BY <1>1, <1>2

LEMMA ActivityType ==
  ASSUME TypeOK, InnerType, NEW s \in Slots, NEW v \in Nat, Activity(s, v), UNCHANGED setup
  PROVE  ChanType' /\ subs' = subs
<1>1. CASE ~IsQuery
  <2>1. v \in Words /\ Deliver(s, v) /\ Words' = Words
    BY <1>1 DEF Words, Activity, IsQuery
  <2> QED
    BY <2>1, DeliverType DEF ChanType, TypeOK
<1>2. CASE IsQuery
  <2>1. UNCHANGED <<subs, queue, missed, unheard>> /\ Words' = Words
    BY <1>2 DEF Activity, Words, IsQuery
  <2> QED
    BY <2>1 DEF ChanType, TypeOK, InnerType
<1> QED
  BY <1>1, <1>2

\* What a pump and the hook function read has the type of a state.
LEMMA ReadType ==
  ASSUME TypeOK, NEW s \in Slots
  PROVE  /\ FirstRead(s) \in Reads
         /\ \A r \in Reads : SecondRead(s, r) \in States
<1>1. entry[s] \in [has : BOOLEAN, ver : Nat, stale : BOOLEAN] /\ count[s] \in Nat
      /\ count[1] \in Nat
  BY SlotFacts DEF TypeOK
<1>2. DataOf(s) \in Reads
  BY <1>1 DEF DataOf, Reads
<1>3. FirstRead(s) \in Reads
  BY <1>1, <1>2 DEF FirstRead, Reads
<1>4. ASSUME NEW r \in Reads PROVE SecondRead(s, r) \in States
  <2>1. \A b : StateOf(r, b) \in States
    BY DEF StateOf, States, Reads
  <2>2. \A n \in Nat : Counted(n) \in States
    BY DEF Counted, States
  <2>3. \A b : Flag(b) \in States
    BY <2>2 DEF Flag
  <2>4. Counted(r.ver) \in States
    BY <2>2 DEF Reads
  <2> QED
    BY <2>1, <2>3, <2>4 DEF SecondRead
<1> QED
  BY <1>3, <1>4

-----------------------------------------------------------------------------
(***************************************************************************)
(* Types and counts: what a writer's step does                             *)
(***************************************************************************)

WriterPlaces == WriterRests \cup {"fetched", "inc", "up", "down", "downed", "notify"}
WriterType == [at : WriterPlaces, slot : Slots, new : Nat]

LEMMA AtType ==
  ASSUME NEW place \in WriterPlaces, NEW s \in Slots, NEW n \in Nat
  PROVE  /\ At(place, s, n) \in WriterType
         /\ At(place, s, n).at = place /\ At(place, s, n).slot = s
  BY DEF At, WriterType

LEMMA HoldingMoves ==
  ASSUME writer \in [Writers -> WriterType], UNCHANGED setup, NEW s,
         NEW w \in Writers, NEW x, writer' = [writer EXCEPT ![w] = x]
  PROVE  /\ Holding(s)' = IF Holds(x, w, s) THEN Holding(s) \cup {w} ELSE Holding(s) \ {w}
         /\ w \in Holding(s) <=> Holds(writer[w], w, s)
<1>2. Holding(s)' = {v \in Writers : Holds(writer'[v], v, s)}
  BY DEF Holding, Holds, AfterFetch
<1>3. \A v \in Writers : writer'[v] = IF v = w THEN x ELSE writer[v]
  OBVIOUS
<1> HIDE DEF Holds
<1> QED
  BY <1>2, <1>3 DEF Holding

\* Writer w becomes x: inc_fetching of slot t, dec_fetching of it, and every
\* other step.
CountStep(w, x, t) ==
  \/ /\ \A s \in Slots : Holds(x, w, s) <=> Holds(writer[w], w, s)
     /\ count' = count
  \/ /\ \A s \in Slots : ~Holds(writer[w], w, s) /\ (Holds(x, w, s) <=> s = t)
     /\ count' = [count EXCEPT ![t] = count[t] + 1]
  \/ /\ \A s \in Slots : ~Holds(x, w, s) /\ (Holds(writer[w], w, s) <=> s = t)
     /\ count' = [count EXCEPT ![t] = count[t] - 1]

LEMMA CountMoves ==
  ASSUME writer \in [Writers -> WriterType], count \in [Slots -> Nat], CountInv,
         UNCHANGED <<setup, bind>>,
         NEW w \in Writers, NEW x, writer' = [writer EXCEPT ![w] = x],
         NEW t \in Slots,
         CountStep(w, x, t)
  PROVE  CountInv' /\ count' \in [Slots -> Nat]
<1> SUFFICES ASSUME NEW s \in Slots
             PROVE  count'[s] = Cardinality(Holding(s)') + Unannounced(s) /\ count'[s] \in Nat
  <2>1. \A s \in Slots : Unannounced(s)' = Unannounced(s)
    BY DEF Unannounced
  <2>2. count' = [s \in Slots |-> count'[s]]
    BY DEF CountStep
  <2> QED
    BY <2>1, <2>2 DEF CountInv
<1>1. /\ Holding(s)' = IF Holds(x, w, s) THEN Holding(s) \cup {w} ELSE Holding(s) \ {w}
      /\ w \in Holding(s) <=> Holds(writer[w], w, s)
  BY HoldingMoves
<1>2. PICK n \in Nat, k \in Nat, c \in Nat :
         n = Cardinality(Holding(s)) /\ k = Unannounced(s) /\ c = count[s] /\ c = n + k
  BY HoldingFinite DEF CountInv, Unannounced
<1> HIDE DEF Holds, Holding, Unannounced
<1>3. CASE /\ \A z \in Slots : Holds(x, w, z) <=> Holds(writer[w], w, z)
           /\ count' = count
  <2>1. Holding(s)' = Holding(s)
    BY <1>1, <1>3
  <2> QED
    BY <1>2, <1>3, <2>1
<1>4. CASE /\ \A z \in Slots : ~Holds(writer[w], w, z) /\ (Holds(x, w, z) <=> z = t)
           /\ count' = [count EXCEPT ![t] = count[t] + 1]
  <2>1. CASE s = t
    <3>1. w \notin Holding(s) /\ Holding(s)' = Holding(s) \cup {w}
      BY <1>1, <1>4, <2>1
    <3>2. Cardinality(Holding(s)') = n + 1
      BY <3>1, <1>2, HoldingFinite, FS_AddElement
    <3>3. count'[s] = c + 1
      BY <1>4, <1>2, <2>1
    <3> QED
      BY <3>2, <3>3, <1>2
  <2>2. CASE s # t
    <3>1. Holding(s)' = Holding(s)
      BY <1>1, <1>4, <2>2
    <3>2. count'[s] = c
      BY <1>4, <1>2, <2>2
    <3> QED
      BY <1>2, <3>1, <3>2
  <2> QED
    BY <2>1, <2>2
<1>5. CASE /\ \A z \in Slots : ~Holds(x, w, z) /\ (Holds(writer[w], w, z) <=> z = t)
           /\ count' = [count EXCEPT ![t] = count[t] - 1]
  <2>1. CASE s = t
    <3>1. w \in Holding(s) /\ Holding(s)' = Holding(s) \ {w}
      BY <1>1, <1>5, <2>1
    <3>2. Cardinality(Holding(s)') = n - 1 /\ n >= 1
      BY <3>1, <1>2, HoldingFinite, FS_RemoveElement
    <3>3. count'[s] = c - 1
      BY <1>5, <1>2, <2>1
    <3> QED
      BY <3>2, <3>3, <1>2
  <2>2. CASE s # t
    <3>1. Holding(s)' = Holding(s)
      BY <1>1, <1>5, <2>2
    <3>2. count'[s] = c
      BY <1>5, <1>2, <2>2
    <3> QED
      BY <1>2, <3>1, <3>2
  <2> QED
    BY <2>1, <2>2
<1> QED
  BY <1>3, <1>4, <1>5 DEF CountStep

\* Where nothing is counted.
LEMMA CountStays ==
  ASSUME CountInv, UNCHANGED <<setup, count, writer>>,
         bind.at = "announce" <=> bind'.at = "announce"
  PROVE  CountInv'
<1>1. \A s : Holding(s)' = Holding(s)
  BY DEF Holding, Holds, AfterFetch
<1>2. \A s : Unannounced(s)' = Unannounced(s)
  BY DEF Unannounced
<1> QED
  BY <1>1, <1>2 DEF CountInv

\* A writer's step that leaves the hook function where it is.
LEMMA PathStays ==
  ASSUME PathInv, UNCHANGED <<setup, bind>>,
         writer \in [Writers -> WriterType],
         NEW w \in Writers, NEW x, writer' = [writer EXCEPT ![w] = x],
         w = Own => /\ writer[w].at # "idle"
                    /\ setup.kind = "use_infinite_query" => x.at \in {"idle", "fetching", "fetched"}
  PROVE  PathInv'
<1>1. writer'[Own] = IF w = Own THEN x ELSE writer[Own]
  BY WritersFinite
<1>2. IsFeed' = IsFeed
  BY DEF IsFeed
<1> QED
  BY <1>1, <1>2 DEF PathInv

LEMMA ChanStays ==
  ASSUME TypeOK, InnerType, UNCHANGED <<setup, chanVars>>
  PROVE  ChanType'
  BY DEF TypeOK, InnerType, ChanType, chanVars, Words, IsQuery

EntryType == [has : BOOLEAN, ver : Nat, stale : BOOLEAN]
Entries == [Slots -> EntryType]

LEMMA EntryFacts ==
  ASSUME NEW e \in EntryType
  PROVE  /\ e.ver + 1 \in Nat
         /\ [has |-> TRUE, ver |-> e.ver + 1, stale |-> FALSE] \in EntryType
         /\ [e EXCEPT !.stale = TRUE] \in EntryType
         /\ [e EXCEPT !.ver = e.ver + 1] \in EntryType
         /\ NoEntry \in EntryType
<1>1. e.ver \in Nat
  BY DEF EntryType
<1>2. \A h \in BOOLEAN, n \in Nat, b \in BOOLEAN : [has |-> h, ver |-> n, stale |-> b] \in EntryType
  BY DEF EntryType
<1>3. [e EXCEPT !.stale = TRUE] \in EntryType
  BY DEF EntryType
<1>4. [e EXCEPT !.ver = e.ver + 1] \in EntryType
  BY DEF EntryType
<1>5. e.ver + 1 \in Nat
  BY <1>1
<1>6. NoEntry \in EntryType
  BY <1>2 DEF NoEntry
<1>7. [has |-> TRUE, ver |-> e.ver + 1, stale |-> FALSE] \in EntryType
  BY <1>2, <1>5
<1> QED
  BY <1>3, <1>4, <1>5, <1>6, <1>7

LEMMA WriterFrame ==
  ASSUME TypeOK, InnerType, UNCHANGED <<setup, bind, stop, pumpVars>>,
         calls' \in 0 .. MaxCalls, entry' \in Entries, count' \in [Slots -> Nat],
         writer' \in [Writers -> WriterType], ChanType'
  PROVE  TypeOK' /\ InnerType'
<1>1. TypeOK'
  BY DEF TypeOK, ChanType, pumpVars, WriterType, WriterPlaces, Entries, EntryType
<1>2. InnerType'
  BY DEF InnerType, ChanType, pumpVars
<1> QED
  BY <1>1, <1>2

LEMMA FetchShape ==
  ASSUME ShapeInv, NEW w \in Writers, FetchStep(w)
  PROVE  ShapeInv'
<1>0. TypeOK /\ InnerType /\ PathInv /\ CountInv
  BY DEF ShapeInv
<1>1. /\ writer \in [Writers -> WriterType] /\ writer[w] \in WriterType
      /\ writer[w].at \in WriterPlaces /\ writer[w].slot \in Slots /\ writer[w].new \in Nat
      /\ entry \in Entries /\ count \in [Slots -> Nat] /\ calls \in 0 .. MaxCalls
      /\ UNCHANGED <<setup, bind, stop, pumpVars, calls>>
  BY <1>0 DEF TypeOK, WriterType, WriterPlaces, Entries, EntryType, FetchStep, FetchOk, FetchErr, NotifyFetched,
     Inc, AnnounceUp, Dec, AnnounceDown, NotifyWrite, pumpVars
<1>2. PICK t \in Slots : t = writer[w].slot
  BY <1>1
<1>3. /\ AfterFetch(w) \in {"idle", "down"}
      /\ AfterFetch(w) # "down" => writer[w].at \in {"idle", "fetching", "fetched"}
      /\ w = Own /\ setup.kind = "use_infinite_query" => AfterFetch(w) = "idle"
  BY <1>0 DEF AfterFetch, PathInv
<1>4. ASSUME NEW x \in WriterType, writer' = [writer EXCEPT ![w] = x],
             w = Own => /\ writer[w].at # "idle"
                        /\ setup.kind = "use_infinite_query"
                             => x.at \in {"idle", "fetching", "fetched"},
             CountStep(w, x, t),
             entry' \in Entries, ChanType'
      PROVE  ShapeInv'
  <2>1. UNCHANGED <<setup, bind>>
    BY <1>1
  <2>2. PathInv'
    BY <1>0, <1>1, <1>4, <2>1, PathStays
  <2>. CountInv /\ writer \in [Writers -> WriterType] /\ count \in [Slots -> Nat]
    BY <1>0, <1>1
  <2>3. CountInv' /\ count' \in [Slots -> Nat]
    BY ONLY CountInv, writer \in [Writers -> WriterType], count \in [Slots -> Nat],
            w \in Writers, t \in Slots, <1>4, <2>1, CountMoves
  <2>4. writer' \in [Writers -> WriterType]
    BY <1>1, <1>4
  <2>5. TypeOK' /\ InnerType'
    BY <1>0, <1>1, <1>4, <2>3, <2>4, WriterFrame
  <2> QED
    BY <2>2, <2>3, <2>5 DEF ShapeInv
<1>5. UNCHANGED chanVars => ChanType'
  BY <1>0, <1>1, ChanStays
<1>6. \A v \in {"Success", "Error"} : Notify(t, v) => ChanType'
  BY <1>0, <1>1, NotifyType
<1>7. \A v \in Nat : Activity(t, v) => ChanType'
  BY <1>0, <1>1, ActivityType
<1>8. \A p \in WriterPlaces, s \in Slots, n \in Nat :
        /\ At(p, s, n) \in WriterType
        /\ At(p, s, n).at = p /\ At(p, s, n).slot = s
  BY AtType
<1>9. CASE FetchOk(w)
  <2>1. writer' = [writer EXCEPT ![w] = At("fetched", t, 0)] /\ writer[w].at = "fetching"
    BY <1>9, <1>2 DEF FetchOk, WriterTo, Writes
  <2>2. At("fetched", t, 0) \in WriterType /\ At("fetched", t, 0).at = "fetched"
        /\ At("fetched", t, 0).slot = t
    BY <1>8 DEF WriterPlaces, WriterRests
  <2>3. \A s \in Slots : Holds(At("fetched", t, 0), w, s) <=> Holds(writer[w], w, s)
    BY <1>2, <2>1, <2>2 DEF Holds, Counting
  <2>4. entry' \in Entries
    BY <1>1, <1>2, <1>9, EntryFacts DEF FetchOk, Entries
  <2>5. count' = count /\ ChanType'
    BY <1>9, <1>5 DEF FetchOk
  <2> QED
    BY <1>4, <2>1, <2>2, <2>3, <2>4, <2>5 DEF CountStep
<1>10. CASE FetchErr(w) \/ NotifyFetched(w)
  <2>1. /\ writer' = [writer EXCEPT ![w] = At(AfterFetch(w), t, 0)]
        /\ writer[w].at \in {"fetching", "fetched"} /\ entry' = entry /\ count' = count
        /\ Notify(t, "Error") \/ Notify(t, "Success")
    BY <1>10, <1>2 DEF FetchErr, NotifyFetched, WriterTo, Writes
  <2>2. PICK p \in {"idle", "down"} : p = AfterFetch(w)
    BY <1>3
  <2>3. At(p, t, 0) \in WriterType /\ At(p, t, 0).at = p /\ At(p, t, 0).slot = t
    BY <1>8 DEF WriterPlaces, WriterRests
  <2>4. \A s \in Slots : Holds(At(p, t, 0), w, s) <=> Holds(writer[w], w, s)
    BY <1>2, <2>1, <2>2, <2>3 DEF Holds, Counting
  <2>5. ChanType'
    BY <1>6, <2>1
  <2>6. w = Own /\ setup.kind = "use_infinite_query" => p = "idle"
    BY <1>3, <2>2
  <2> QED
    BY <1>1, <1>4, <2>1, <2>2, <2>3, <2>4, <2>5, <2>6 DEF CountStep
<1>11. CASE Inc(w)
  <2>1. PICK n \in Nat : n = count[t] + 1
    BY <1>1, <1>2
  <2>2. /\ writer' = [writer EXCEPT ![w] = At("up", t, n)]
        /\ writer[w].at = "inc" /\ entry' = entry /\ count' = [count EXCEPT ![t] = count[t] + 1]
        /\ ChanType'
    BY <1>11, <1>2, <1>5, <2>1 DEF Inc, Counts, Writes
  <2>3. At("up", t, n) \in WriterType /\ At("up", t, n).at = "up" /\ At("up", t, n).slot = t
    BY <1>8 DEF WriterPlaces, WriterRests
  <2>4. AfterFetch(w) = "down"
    BY <1>3, <2>2
  <2>5. \A s \in Slots : /\ ~Holds(writer[w], w, s)
                         /\ Holds(At("up", t, n), w, s) <=> s = t
    BY <2>2, <2>3, <2>4 DEF Holds, Counting
  <2>6. ~(w = Own /\ setup.kind = "use_infinite_query")
    BY <1>3, <2>4
  <2> QED
    BY <1>1, <1>4, <2>2, <2>3, <2>5, <2>6 DEF CountStep
<1>12. CASE AnnounceUp(w)
  <2>1. /\ writer' = [writer EXCEPT ![w] = At("fetching", t, 0)]
        /\ writer[w].at = "up" /\ entry' = entry /\ count' = count
        /\ Activity(t, writer[w].new)
    BY <1>12, <1>2 DEF AnnounceUp, WriterTo, Writes
  <2>2. At("fetching", t, 0) \in WriterType /\ At("fetching", t, 0).at = "fetching"
        /\ At("fetching", t, 0).slot = t
    BY <1>8 DEF WriterPlaces, WriterRests
  <2>3. \A s \in Slots : Holds(At("fetching", t, 0), w, s) <=> Holds(writer[w], w, s)
    BY <1>2, <2>1, <2>2 DEF Holds, Counting
  <2>4. ChanType'
    BY <1>1, <1>7, <2>1
  <2> QED
    BY <1>1, <1>4, <2>1, <2>2, <2>3, <2>4 DEF CountStep
<1>13. CASE Dec(w)
  <2>0. PICK n : n = count[t] - 1
    OBVIOUS
  <2>1. /\ writer' = [writer EXCEPT ![w] = At("downed", t, n)]
        /\ writer[w].at \in {"down", "aborted"} /\ entry' = entry
        /\ count' = [count EXCEPT ![t] = count[t] - 1]
        /\ ChanType'
    BY <1>13, <1>2, <1>5, <2>0 DEF Dec, Counts, Writes
  <2>2. AfterFetch(w) = "down"
    BY <1>3, <2>1
  <2>3. w \in Holding(t)
    BY <1>2, <2>1, <2>2 DEF Holding, Holds, Counting
  <2>4. PICK k \in Nat, c \in Nat : /\ k = Cardinality(Holding(t)) /\ k >= 1
                                    /\ c = count[t] /\ c >= k
    <3>1. \A k \in Nat : k + Unannounced(t) \in Nat /\ k + Unannounced(t) >= k
      BY DEF Unannounced
    <3> QED
      BY <1>0, <2>3, <3>1, HoldingFinite DEF CountInv
  <2>5. n \in Nat
    BY <2>0, <2>4
  <2>6. At("downed", t, n) \in WriterType /\ At("downed", t, n).at = "downed"
        /\ At("downed", t, n).slot = t
    BY <1>8, <2>5 DEF WriterPlaces, WriterRests
  <2>7. \A s \in Slots : /\ ~Holds(At("downed", t, n), w, s)
                         /\ Holds(writer[w], w, s) <=> s = t
    BY <1>2, <2>1, <2>2, <2>6 DEF Holds, Counting
  <2>8. ~(w = Own /\ setup.kind = "use_infinite_query")
    BY <1>3, <2>2
  <2> QED
    BY <1>1, <1>4, <2>1, <2>6, <2>7, <2>8 DEF CountStep
<1>14. CASE AnnounceDown(w) \/ NotifyWrite(w)
  <2>1. /\ writer' = [writer EXCEPT ![w] = At("idle", 1, 0)]
        /\ writer[w].at \in {"downed", "notify"} /\ entry' = entry /\ count' = count
        /\ Activity(t, writer[w].new) \/ Notify(t, "Success")
    BY <1>14, <1>2 DEF AnnounceDown, NotifyWrite, WriterTo, Writes
  <2>2. At("idle", 1, 0) \in WriterType /\ At("idle", 1, 0).at = "idle"
    BY <1>8, SlotFacts DEF WriterPlaces, WriterRests
  <2>3. \A s \in Slots : Holds(At("idle", 1, 0), w, s) <=> Holds(writer[w], w, s)
    BY <2>1, <2>2 DEF Holds, Counting
  <2>4. ChanType'
    BY <1>1, <1>6, <1>7, <2>1
  <2> QED
    BY <1>1, <1>4, <2>1, <2>2, <2>3, <2>4 DEF CountStep
<1> QED
  BY <1>9, <1>10, <1>11, <1>12, <1>13, <1>14 DEF FetchStep

\* What a call makes of writer v: nothing, a caller that is not counted, or an
\* aborted fetch whose guard is still to be dropped.
CallMoves(v) ==
  \/ writer'[v] = writer[v]
  \/ v # Own /\ writer[v].at \notin Counting /\ writer'[v].at \notin Counting
  \/ /\ writer[v].at = "fetching" /\ AfterFetch(v) = "down"
     /\ writer'[v].at = "aborted" /\ writer'[v].slot = writer[v].slot

LEMMA CallFrame ==
  ASSUME ShapeInv, UNCHANGED <<setup, count, bind, stop, pumpVars>>,
         writer' \in [Writers -> WriterType], \A v \in Writers : CallMoves(v),
         calls' \in 0 .. MaxCalls, entry' \in Entries, ChanType'
  PROVE  ShapeInv'
<1>0. TypeOK /\ InnerType /\ PathInv /\ CountInv
  BY DEF ShapeInv
<1>1. TypeOK' /\ InnerType'
  <2>1. count' \in [Slots -> Nat]
    BY <1>0 DEF TypeOK
  <2> QED
    BY <1>0, <2>1, WriterFrame
<1>2. \A s : Holding(s)' = Holding(s)
  <2>1. \A s : \A v \in Writers : Holds(writer[v], v, s)' <=> Holds(writer[v], v, s)
    BY DEF CallMoves, Holds, Counting, AfterFetch
  <2> QED
    BY <2>1 DEF Holding
<1>3. CountInv'
  BY <1>0, <1>2 DEF CountInv, Unannounced
<1>4. PathInv'
  BY <1>0, WritersFinite DEF PathInv, CallMoves, AfterFetch, IsFeed, Early
<1> QED
  BY <1>1, <1>3, <1>4 DEF ShapeInv

LEMMA CallShape ==
  ASSUME ShapeInv, NEW w \in Writers, Call(w)
  PROVE  ShapeInv'
<1>0. TypeOK /\ InnerType /\ PathInv
  BY DEF ShapeInv
<1>1. PICK s \in Slots :
        \/ CallSetQueryData(w, s) \/ CallSpawn(w, s) \/ CallInvalidate(w, s)
        \/ (\E op \in {"cancel_query", "refetch"} : CallCancel(w, s, op))
        \/ CallAppendPage(w, s) \/ CallRemove(w, s) \/ CallSilent(w, s)
  BY SlotFacts DEF Call, Used
<1>2. /\ writer \in [Writers -> WriterType] /\ w # Own /\ writer[w].at = "idle"
      /\ entry \in Entries /\ calls \in 0 .. MaxCalls
      /\ entry[s] \in EntryType
  BY <1>0, <1>1 DEF TypeOK, WriterType, WriterPlaces, Entries, EntryType, Call, CallSetQueryData, CallSpawn,
     CallInvalidate, CallCancel, CallAppendPage, CallRemove, CallSilent, Calling, Writes
<1>3. UNCHANGED <<setup, count, bind, stop, pumpVars>>
  BY <1>1 DEF CallSetQueryData, CallSpawn, CallInvalidate, CallCancel, CallAppendPage,
     CallRemove, CallSilent
<1>4. calls' \in 0 .. MaxCalls
  <2>1. calls < setup.budget /\ calls' = calls + 1
    BY <1>1 DEF CallSetQueryData, CallSpawn, CallInvalidate, CallCancel, CallAppendPage,
       CallRemove, CallSilent, Calling
  <2>2. setup.budget \in Nat /\ setup.budget <= MaxCalls /\ MaxCalls \in Nat
    BY <1>0, SetupFacts, BindingsAssumption DEF TypeOK
  <2> QED
    BY <1>2, <2>1, <2>2
<1>5. UNCHANGED chanVars => ChanType'
  BY <1>0, <1>3, ChanStays
<1>6. \A v \in {"Success", "Error", "Stale"} : Notify(s, v) => ChanType'
  BY <1>0, <1>3, NotifyType
<1>7. \A p \in WriterPlaces :
        /\ At(p, s, 0) \in WriterType
        /\ At(p, s, 0).at = p /\ At(p, s, 0).slot = s
  BY AtType
<1>8. ASSUME writer' \in [Writers -> WriterType], \A v \in Writers : CallMoves(v),
             entry' \in Entries, ChanType'
      PROVE  ShapeInv'
  BY <1>3, <1>4, <1>8, CallFrame
<1>9. ASSUME UNCHANGED writer PROVE writer' \in [Writers -> WriterType] /\ \A v \in Writers : CallMoves(v)
  BY <1>2, <1>9 DEF CallMoves
<1>10. ASSUME NEW p \in {"idle", "inc", "notify"}, writer' = [writer EXCEPT ![w] = At(p, s, 0)]
       PROVE  writer' \in [Writers -> WriterType] /\ \A v \in Writers : CallMoves(v)
  BY <1>2, <1>7, <1>10 DEF CallMoves, Counting, WriterPlaces, WriterRests
<1>11. \A f \in Registered(s) : /\ f \in Writers /\ f # w /\ writer[f].at = "fetching"
                                /\ writer[f].slot = s /\ AfterFetch(f) = "down"
  BY <1>2 DEF Registered, At
<1>12. CASE CallSetQueryData(w, s) \/ CallSpawn(w, s) \/ CallRemove(w, s)
  <2>1. PICK p \in {"inc", "notify"} : writer' = [writer EXCEPT ![w] = At(p, s, 0)]
    BY <1>12 DEF CallSetQueryData, CallSpawn, CallRemove, WriterTo
  <2>2. entry' \in Entries
    <3>1. \/ entry' = entry \/ entry' = [entry EXCEPT ![s] = NoEntry]
          \/ entry' = [entry EXCEPT ![s] = [has |-> TRUE, ver |-> entry[s].ver + 1, stale |-> FALSE]]
      BY <1>12 DEF CallSetQueryData, CallSpawn, CallRemove
    <3> QED
      BY <1>2, <3>1, EntryFacts DEF Entries
  <2>3. UNCHANGED chanVars
    BY <1>12 DEF CallSetQueryData, CallSpawn, CallRemove
  <2> QED
    BY <1>5, <1>8, <1>10, <2>1, <2>2, <2>3
<1>13. CASE CallAppendPage(w, s) \/ CallSilent(w, s)
  <2>1. UNCHANGED writer /\ entry' \in Entries
    <3>1. \/ entry' = [entry EXCEPT ![s] = [entry[s] EXCEPT !.ver = entry[s].ver + 1]]
          \/ entry' = [entry EXCEPT ![s] = [entry[s] EXCEPT !.stale = TRUE]]
          \/ entry' = [entry EXCEPT ![s] = NoEntry]
      BY <1>13 DEF CallAppendPage, CallSilent
    <3>2. UNCHANGED writer
      BY <1>13 DEF CallAppendPage, CallSilent
    <3> QED
      BY <1>2, <3>1, <3>2, EntryFacts DEF Entries
  <2>2. ChanType'
    <3>1. CASE CallAppendPage(w, s)
      BY <1>6, <3>1 DEF CallAppendPage
    <3>2. CASE CallSilent(w, s)
      BY <1>0, <1>3, <3>2 DEF CallSilent, ChanType, TypeOK, InnerType, Words, IsQuery
    <3> QED
      BY <1>13, <3>1, <3>2
  <2> QED
    BY <1>8, <1>9, <2>1, <2>2
<1>14. CASE CallInvalidate(w, s)
  <2>1. entry' \in Entries /\ ChanType'
    BY <1>2, <1>6, <1>14, EntryFacts DEF CallInvalidate, Entries
  <2>2. CASE UNCHANGED writer
    BY <1>8, <1>9, <2>1, <2>2
  <2>3. CASE \E f \in Registered(s) : writer' = [writer EXCEPT ![f] = At("aborted", s, 0)]
    <3>1. PICK f \in Registered(s) : writer' = [writer EXCEPT ![f] = At("aborted", s, 0)]
      BY <2>3
    <3>2. At("aborted", s, 0) \in WriterType /\ At("aborted", s, 0).at = "aborted"
          /\ At("aborted", s, 0).slot = s
      BY <1>7 DEF WriterPlaces, WriterRests
    <3>3. writer' \in [Writers -> WriterType] /\ \A v \in Writers : CallMoves(v)
      BY <1>2, <1>11, <3>1, <3>2 DEF CallMoves
    <3> QED
      BY <1>8, <2>1, <3>3
  <2> QED
    BY <1>14, <2>2, <2>3 DEF CallInvalidate
<1>15. CASE \E op \in {"cancel_query", "refetch"} : CallCancel(w, s, op)
  <2>1. PICK op \in {"cancel_query", "refetch"} : CallCancel(w, s, op)
    BY <1>15
  <2>2. PICK p \in {"idle", "inc"} : p = IF op = "refetch" THEN "inc" ELSE "idle"
    OBVIOUS
  <2>3. entry' \in Entries
    BY <1>2, <2>1 DEF CallCancel
  <2>4. CASE writer' = [writer EXCEPT ![w] = At(p, s, 0)] /\ UNCHANGED chanVars
    BY <1>5, <1>8, <1>10, <2>3, <2>4
  <2>5. CASE \E f \in Registered(s) :
                /\ writer' = [writer EXCEPT ![w] = At(p, s, 0), ![f] = At("aborted", s, 0)]
                /\ Notify(s, "Error")
    <3>1. PICK f \in Registered(s) :
            /\ writer' = [writer EXCEPT ![w] = At(p, s, 0), ![f] = At("aborted", s, 0)]
            /\ Notify(s, "Error")
      BY <2>5
    <3>2. At("aborted", s, 0) \in WriterType /\ At("aborted", s, 0).at = "aborted"
          /\ At("aborted", s, 0).slot = s
      BY <1>7 DEF WriterPlaces, WriterRests
    <3>3. At(p, s, 0) \in WriterType /\ At(p, s, 0).at = p
      BY <1>7 DEF WriterPlaces, WriterRests
    <3>4. \A v \in Writers : writer'[v] = IF v = f THEN At("aborted", s, 0)
                                          ELSE IF v = w THEN At(p, s, 0) ELSE writer[v]
      BY <1>2, <1>11, <3>1
    <3>5. writer' \in [Writers -> WriterType]
      BY <1>2, <1>11, <3>1, <3>2, <3>3
    <3>6. \A v \in Writers : CallMoves(v)
      BY <1>2, <1>11, <3>2, <3>3, <3>4 DEF CallMoves, Counting
    <3> QED
      BY <1>6, <1>8, <2>3, <3>1, <3>5, <3>6
  <2> QED
    BY <2>1, <2>2, <2>4, <2>5 DEF CallCancel
<1> QED
  BY <1>1, <1>12, <1>13, <1>14, <1>15

-----------------------------------------------------------------------------
(***************************************************************************)
(* Types and counts: the pumps and the hook function                       *)
(***************************************************************************)

\* A value taken keeps the types, and a feed that is capped keeps its capacity.
LEMMA PushFacts ==
  ASSUME NEW b \in Seq(Nat), NEW v \in Nat
  PROVE  /\ PushCapped(b, v) \in Seq(Nat)
         /\ Len(b) <= FeedCap => Len(PushCapped(b, v)) <= FeedCap
         /\ Len(b) < FeedCap => PushCapped(b, v) = Append(b, v)
         /\ Len(b) >= FeedCap => b # <<>> /\ PushCapped(b, v) = Append(Tail(b), v)
<1>0. PICK l \in Nat, c \in Nat : l = Len(b) /\ c = FeedCap /\ c >= 1
  BY CapFacts, LenProperties
<1>1. CASE Len(b) >= FeedCap
  <2>1. b # <<>>
    BY <1>0, <1>1, EmptySeq
  <2>2. Tail(b) \in Seq(Nat) /\ Len(Tail(b)) = l - 1
    BY <2>1, <1>0, TailFacts
  <2>3. Append(Tail(b), v) \in Seq(Nat) /\ Len(Append(Tail(b), v)) = l - 1 + 1
    BY <2>2, AppendFacts
  <2> QED
    BY <1>0, <1>1, <2>1, <2>3 DEF PushCapped
<1>2. CASE ~(Len(b) >= FeedCap)
  <2>1. Append(b, v) \in Seq(Nat) /\ Len(Append(b, v)) = l + 1
    BY <1>0, AppendFacts
  <2> QED
    BY <1>0, <1>2, <2>1 DEF PushCapped
<1> QED
  BY <1>1, <1>2

LEMMA PumpShape ==
  ASSUME ShapeInv, NEW s \in Slots, PumpStep(s)
  PROVE  ShapeInv'
<1>0. TypeOK /\ InnerType /\ PathInv /\ CountInv
  BY DEF ShapeInv
<1>1. UNCHANGED <<setup, entry, count, bind, stop, unheard, log, writer, calls>>
  BY DEF PumpStep, RecvLag, RecvValue, PumpRead, PumpCompute, PumpSet, chanVars
<1>2. CountInv'
  BY <1>0, <1>1, CountStays
<1>3. PathInv'
  BY <1>0, <1>1 DEF PathInv, IsFeed
<1>4. Words' = Words
  BY <1>1 DEF Words, IsQuery
<1>5. \A t \in Slots : FirstRead(t) \in Reads /\ \A r \in Reads : SecondRead(t, r) \in States
  BY <1>0, ReadType
<1>6. CASE RecvLag(s)
  BY <1>0, <1>1, <1>2, <1>3, <1>4, <1>6
     DEF RecvLag, PumpTo, TypeOK, InnerType, ShapeInv, PumpRests
<1>7. CASE RecvValue(s)
  <2>1. /\ queue \in [Slots -> Seq(Words)] /\ queue[s] \in Seq(Words) /\ queue[s] # <<>>
        /\ queue' = [queue EXCEPT ![s] = Tail(queue[s])]
        /\ \A t \in Slots : Len(queue[t]) <= Cap
    BY <1>0, <1>7 DEF RecvValue, TypeOK, InnerType
  <2>2. /\ Tail(queue[s]) \in Seq(Words) /\ Len(Tail(queue[s])) = Len(queue[s]) - 1
        /\ Head(queue[s]) \in Words
    BY <2>1, TailFacts
  <2>3. queue' \in [Slots -> Seq(Words)]
    BY <2>1, <2>2
  <2>4. \A t \in Slots : Len(queue'[t]) <= Cap
    <3>1. Len(Tail(queue[s])) <= Cap
      <4>1. PICK l \in Nat, c \in Nat : l = Len(queue[s]) /\ c = Cap
        BY <2>1, CapFacts, LenProperties
      <4> QED
        BY <2>1, <2>2, <4>1
    <3> QED
      BY <2>1, <3>1
  <2>5. feed' \in Seq(Nat)
    <3>1. IsFeed => Words = Nat
      BY DEF IsFeed, Words, IsQuery, QueryKinds
    <3>2. feed \in Seq(Nat)
      BY <1>0 DEF TypeOK
    <3> QED
      BY <1>7, <2>2, <3>1, <3>2, PushFacts DEF RecvValue
  <2>6. TypeOK'
    BY <1>0, <1>1, <1>7, <2>4, <2>5 DEF RecvValue, PumpTo, TypeOK, InnerType, PumpRests
  <2>7. InnerType'
    BY <1>0, <1>1, <1>4, <1>7, <2>3 DEF RecvValue, InnerType
  <2> QED
    BY <1>2, <1>3, <2>6, <2>7 DEF ShapeInv
<1>8. CASE PumpRead(s)
  <2>1. reading' = [reading EXCEPT ![s] = FirstRead(s)]
    BY <1>8 DEF PumpRead
  <2>2. reading' \in [Slots -> Reads]
    BY <1>0, <1>5, <2>1 DEF InnerType
  <2>3. TypeOK' /\ InnerType'
    BY <1>0, <1>1, <1>4, <1>8, <2>2 DEF PumpRead, PumpTo, TypeOK, InnerType, PumpRests, chanVars
  <2> QED
    BY <1>2, <1>3, <2>3 DEF ShapeInv
<1>9. CASE PumpCompute(s)
  <2>1. /\ reading' = [reading EXCEPT ![s] = NoRead]
        /\ fresh' = [fresh EXCEPT ![s] = SecondRead(s, reading[s])]
    BY <1>9 DEF PumpCompute
  <2>2. NoRead \in Reads
    BY DEF NoRead, Reads
  <2>3. reading' \in [Slots -> Reads] /\ fresh' \in [Slots -> States]
    BY <1>0, <1>5, <2>1, <2>2 DEF InnerType
  <2>4. TypeOK' /\ InnerType'
    BY <1>0, <1>1, <1>4, <1>9, <2>3 DEF PumpCompute, PumpTo, TypeOK, InnerType, PumpRests, chanVars
  <2> QED
    BY <1>2, <1>3, <2>4 DEF ShapeInv
<1>10. CASE PumpSet(s)
  <2>1. PICK t \in Slots : signal' = [signal EXCEPT ![t] = fresh[s]]
    BY <1>10, SlotFacts DEF PumpSet
  <2>2. signal' \in [Slots -> States]
    BY <1>0, <2>1 DEF TypeOK, InnerType
  <2>3. TypeOK' /\ InnerType'
    BY <1>0, <1>1, <1>4, <1>10, <2>2 DEF PumpSet, PumpTo, TypeOK, InnerType, PumpRests, chanVars
  <2> QED
    BY <1>2, <1>3, <2>3 DEF ShapeInv
<1> QED
  BY <1>6, <1>7, <1>8, <1>9, <1>10 DEF PumpStep

BindPlaces == BindRests \cup {"seed", "seed_notify", "read", "create", "spawn", "announce",
                              "subscribe", "drain"}

LEMMA BindMoves ==
  ASSUME NEW place \in BindPlaces, NEW s \in Slots, Bind(place, s)
  PROVE  /\ bind'.at = place /\ bind'.slot = s
         /\ bind' \in [at : BindPlaces, slot : Slots]
  BY DEF Bind

\* The hook function moves on and leaves the writers and the counts alone.
LEMMA BinderFrame ==
  ASSUME ShapeInv, UNCHANGED <<setup, count, writer, calls>>,
         NEW place \in BindPlaces \ {"announce"}, NEW s \in Slots, Bind(place, s),
         bind.at # "announce",
         place \in Early => bind.at \in Early,
         place = "drain" => IsFeed,
         place = "spawn" => setup.kind \in {"use_query", "use_infinite_query"},
         stop' \in BOOLEAN, entry' \in Entries, signal' \in [Slots -> States],
         feed' \in Seq(Nat), pump' \in [Slots -> PumpRests \cup {"read", "stale", "set"}],
         reading' \in [Slots -> Reads], fresh' = fresh, ChanType'
  PROVE  ShapeInv'
<1>0. TypeOK /\ InnerType /\ PathInv /\ CountInv
  BY DEF ShapeInv
<1>1. bind'.at = place /\ bind' \in [at : BindPlaces, slot : Slots]
  BY BindMoves
<1>2. CountInv'
  BY <1>0, <1>1, CountStays
<1>3. PathInv'
  BY <1>0, <1>1 DEF PathInv, IsFeed
<1>4. TypeOK'
  BY <1>0, <1>1 DEF TypeOK, ChanType, BindPlaces, Entries, EntryType
<1>5. InnerType'
  BY <1>0 DEF InnerType, ChanType
<1> QED
  BY <1>2, <1>3, <1>4, <1>5 DEF ShapeInv

LEMMA BinderShape ==
  ASSUME ShapeInv, BinderStep \/ DropBinding
  PROVE  ShapeInv'
<1>0. TypeOK /\ InnerType /\ PathInv /\ CountInv
  BY DEF ShapeInv
<1>1. /\ bind \in [at : BindPlaces, slot : Slots] /\ bind.slot \in Slots
      /\ entry \in Entries /\ writer \in [Writers -> WriterType]
      /\ count \in [Slots -> Nat] /\ setup.kind \in Kinds
      /\ stop \in BOOLEAN /\ signal \in [Slots -> States] /\ feed \in Seq(Nat)
      /\ pump \in [Slots -> PumpRests \cup {"read", "stale", "set"}]
      /\ reading \in [Slots -> Reads] /\ fresh \in [Slots -> States]
      /\ calls \in 0 .. MaxCalls
  BY <1>0, SetupFacts DEF TypeOK, InnerType, BindPlaces, Entries, EntryType, WriterType, WriterPlaces
<1>2. /\ UNCHANGED <<setup, calls, fresh>>
      /\ UNCHANGED chanVars => ChanType'
  BY <1>0, ChanStays DEF BinderStep, CallHook, Seed, SeedNotify, ReadFirst, CreateSignal, Spawn,
     Announce, SubscribePump, DrainReady, DropBinding, pumpVars
<1>3. 1 \in Slots
  BY SlotFacts
<1>4. CASE CallHook
  <2>1. PICK place \in {"seed", "drain", "read"} : place = Entry(setup.kind)
    BY DEF Entry
  <2>2. place = "drain" => IsFeed
    BY <1>1, <2>1 DEF Entry, IsFeed, Kinds, QueryKinds, CountKinds
  <2>3. /\ Bind(place, 1) /\ bind.at = "unbound"
        /\ UNCHANGED <<setup, entry, count, stop, chanVars, pumpVars, writer, calls>>
    BY <1>4, <2>1 DEF CallHook, Binds
  <2>4. place \in BindPlaces \ {"announce"} /\ bind.at \in Early /\ bind.at # "announce"
    BY <2>1, <2>3 DEF BindPlaces, Early
  <2> QED
    BY <1>1, <1>2, <1>3, <2>2, <2>3, <2>4, <2>1, BinderFrame DEF pumpVars
<1>5. CASE Seed
  <2>1. PICK s \in Slots : s = bind.slot
    BY <1>1
  <2>2. PICK place \in {"seed_notify", "read"} : Bind(place, s)
    BY <1>5, <2>1 DEF Seed
  <2>3. /\ bind.at = "seed"
        /\ UNCHANGED <<setup, count, stop, chanVars, pumpVars, writer, calls>>
    BY <1>5 DEF Seed, Binds
  <2>4. entry' \in Entries
    <3>1. [has |-> TRUE, ver |-> 0, stale |-> FALSE] \in EntryType
      BY DEF EntryType
    <3>2. \/ entry' = entry
          \/ entry' = [entry EXCEPT ![s] = [has |-> TRUE, ver |-> 0, stale |-> FALSE]]
      BY <1>5, <2>1 DEF Seed
    <3> QED
      BY <1>1, <3>1, <3>2 DEF Entries
  <2>5. place \in BindPlaces \ {"announce"} /\ bind.at \in Early /\ bind.at # "announce"
    BY <2>2, <2>3 DEF BindPlaces, Early
  <2> QED
    BY <1>1, <1>2, <2>2, <2>3, <2>4, <2>5, BinderFrame DEF pumpVars
<1>6. CASE SeedNotify
  <2>1. PICK s \in Slots : s = bind.slot
    BY <1>1
  <2>2. /\ Bind("read", s) /\ bind.at = "seed_notify" /\ Notify(s, "Success")
        /\ UNCHANGED <<setup, entry, count, stop, pumpVars, writer, calls>>
    BY <1>6, <2>1 DEF SeedNotify, Binds
  <2>3. ChanType'
    BY <1>0, <2>2, NotifyType
  <2>4. "read" \in BindPlaces \ {"announce"} /\ bind.at \in Early /\ bind.at # "announce"
    BY <2>2 DEF BindPlaces, Early
  <2> QED
    BY <1>1, <1>2, <2>2, <2>3, <2>4, BinderFrame DEF pumpVars
<1>7. CASE ReadFirst
  <2>1. PICK s \in Slots : s = bind.slot
    BY <1>1
  <2>2. /\ Bind("create", s) /\ bind.at = "read"
        /\ reading' = [reading EXCEPT ![s] = FirstRead(s)]
        /\ UNCHANGED <<setup, entry, count, stop, subs, queue, missed, log, pump, signal, feed,
                       writer, calls>>
        /\ unheard' \subseteq unheard
    BY <1>7, <2>1 DEF ReadFirst, Binds
  <2>3. ChanType'
    BY <1>0, <2>2 DEF ChanType, TypeOK, InnerType, Words, IsQuery
  <2>4. reading' \in [Slots -> Reads]
    BY <1>0, <1>1, <2>2, ReadType
  <2>5. "create" \in BindPlaces \ {"announce"} /\ bind.at \in Early /\ bind.at # "announce"
    BY <2>2 DEF BindPlaces, Early
  <2> QED
    BY <1>1, <1>2, <2>2, <2>3, <2>4, <2>5, BinderFrame
<1>8. CASE CreateSignal
  <2>1. PICK s \in Slots : s = bind.slot
    BY <1>1
  <2>2. /\ bind.at = "create"
        /\ signal' = [signal EXCEPT ![s] = SecondRead(s, reading[s])]
        /\ UNCHANGED <<setup, entry, count, stop, chanVars, pump, reading, feed, writer, calls>>
    BY <1>8, <2>1 DEF CreateSignal, Binds
  <2>3. PICK place \in {"seed", "spawn", "subscribe"}, z \in Slots :
          /\ Bind(place, z)
          /\ place = "spawn" => setup.kind \in {"use_query", "use_infinite_query"}
    BY <1>3, <1>8, <2>1 DEF CreateSignal, AfterCreate
  <2>4. signal' \in [Slots -> States]
    BY <1>0, <1>1, <2>2, ReadType
  <2>5. place \in BindPlaces \ {"announce"} /\ bind.at \in Early /\ bind.at # "announce"
    BY <2>2, <2>3 DEF BindPlaces, Early
  <2> QED
    BY <1>1, <1>2, <2>2, <2>3, <2>4, <2>5, BinderFrame
<1>9. CASE SubscribePump
  <2>1. PICK s \in Slots : s = bind.slot
    BY <1>1
  <2>2. /\ bind.at = "subscribe"
        /\ subs' = subs \cup {s} /\ pump' = [pump EXCEPT ![s] = "waiting"]
        /\ UNCHANGED <<setup, entry, count, stop, queue, missed, unheard, log, signal, reading,
                       feed, writer, calls>>
    BY <1>9, <2>1 DEF SubscribePump, Binds
  <2>3. PICK place \in {"subscribe", "bound"}, z \in Slots : Bind(place, z)
    BY <1>3, <1>9, <2>1 DEF SubscribePump
  <2>4. ChanType'
    BY <1>0, <2>2 DEF ChanType, TypeOK, InnerType, Words, IsQuery
  <2>5. place \in BindPlaces \ {"announce"} /\ place \notin Early /\ bind.at # "announce"
    BY <2>2, <2>3 DEF BindPlaces, BindRests, Early
  <2>6. pump' \in [Slots -> PumpRests \cup {"read", "stale", "set"}]
    BY <1>1, <2>2 DEF PumpRests
  <2> QED
    BY <1>1, <1>2, <2>2, <2>3, <2>4, <2>5, <2>6, BinderFrame DEF Early
<1>10. CASE DropBinding
  <2>1. /\ Bind("dropped", 1) /\ bind.at = "bound" /\ stop' = TRUE
        /\ UNCHANGED <<setup, entry, count, chanVars, pumpVars, writer, calls>>
    BY <1>10 DEF DropBinding, Binds
  <2>2. "dropped" \in BindPlaces \ {"announce"} /\ "dropped" \notin Early
        /\ bind.at # "announce"
    BY <2>1 DEF BindPlaces, BindRests, Early
  <2> QED
    BY <1>1, <1>2, <1>3, <2>1, <2>2, BinderFrame DEF pumpVars
<1>11. CASE DrainReady
  <2>0. IsFeed /\ Words = Nat /\ Words' = Words
    BY <1>0, <1>2, <1>11 DEF PathInv, DrainReady, Binds, IsFeed, Words, IsQuery, QueryKinds
  <2>1. /\ bind.at = "drain"
        /\ UNCHANGED <<setup, entry, count, stop, subs, unheard, log, signal, reading, writer, calls>>
        /\ queue \in [Slots -> Seq(Words)] /\ queue[1] \in Seq(Words) /\ Len(queue[1]) <= Cap
        /\ missed \in [Slots -> Nat]
        /\ \A t \in Slots : Len(queue[t]) <= Cap
        /\ subs \subseteq Slots /\ unheard \subseteq Slots
    BY <1>0, <1>3, <1>11 DEF DrainReady, Binds, InnerType, TypeOK
  <2>2. pump' \in [Slots -> PumpRests \cup {"read", "stale", "set"}]
    BY <1>1, <1>11 DEF DrainReady, PumpRests
  <2>3. CASE queue[1] # <<>> /\ missed' = missed /\ UNCHANGED bind
             /\ feed' = Append(feed, Head(queue[1])) /\ queue' = [queue EXCEPT ![1] = Tail(queue[1])]
    <3>1. PICK q \in Seq(Words), h \in Words : /\ q = Tail(queue[1]) /\ h = Head(queue[1])
                                               /\ Len(q) = Len(queue[1]) - 1
      BY <2>1, <2>3, TailFacts
    <3>2. feed' \in Seq(Nat)
      BY <1>1, <2>0, <2>3, <3>1, AppendFacts
    <3>3. queue' \in [Slots -> Seq(Words)]
      BY <2>1, <2>3, <3>1
    <3>4. Len(q) <= Cap
      <4>1. PICK l \in Nat, c \in Nat : l = Len(queue[1]) /\ c = Cap
        BY <2>1, CapFacts, LenProperties
      <4> QED
        BY <2>1, <3>1, <4>1
    <3>5. \A t \in Slots : Len(queue'[t]) <= Cap
      BY <2>1, <2>3, <3>1, <3>4
    <3>6. TypeOK' /\ InnerType'
      BY <1>0, <1>1, <1>2, <2>0, <2>1, <2>2, <2>3, <3>2, <3>3, <3>5 DEF TypeOK, InnerType
    <3>7. CountInv' /\ PathInv'
      BY <1>0, <2>1, <2>3, CountStays DEF PathInv, IsFeed
    <3> QED
      BY <3>6, <3>7 DEF ShapeInv
  <2>4. CASE feed' = feed /\ queue' = queue /\ UNCHANGED bind
             /\ missed' = [missed EXCEPT ![1] = 0]
    <3>1. TypeOK' /\ InnerType'
      BY <1>0, <1>1, <1>2, <2>0, <2>1, <2>2, <2>4 DEF TypeOK, InnerType
    <3>2. CountInv' /\ PathInv'
      BY <1>0, <2>1, <2>4, CountStays DEF PathInv, IsFeed
    <3> QED
      BY <3>1, <3>2 DEF ShapeInv
  <2>5. CASE feed' = feed /\ queue' = queue /\ missed' = missed /\ Bind("bound", 1)
    <3>1. "bound" \in BindPlaces \ {"announce"} /\ "bound" \notin Early
          /\ bind.at # "announce"
      BY <2>1 DEF BindPlaces, BindRests, Early
    <3>2. ChanType'
      BY <2>0, <2>1, <2>5 DEF ChanType
    <3> QED
      BY <1>1, <1>2, <1>3, <2>1, <2>2, <2>5, <3>1, <3>2, BinderFrame
  <2> QED
    BY <1>11, <2>3, <2>4, <2>5 DEF DrainReady
<1>12. CASE Spawn
  <2>1. /\ bind.at = "spawn" /\ writer[Own].at = "idle"
        /\ UNCHANGED <<setup, entry, stop, chanVars, pumpVars, calls>>
    BY <1>0, <1>12 DEF Spawn, Binds, PathInv, Early
  <2>2. ChanType'
    BY <1>2, <2>1
  <2>3. CASE setup.kind = "use_query"
    <3>1. /\ count' = [count EXCEPT ![1] = count[1] + 1] /\ UNCHANGED writer
          /\ bind'.at = "announce" /\ bind' \in [at : BindPlaces, slot : Slots]
      BY <1>3, <1>12, <2>3, BindMoves DEF Spawn, BindPlaces
    <3>2. count' \in [Slots -> Nat]
      BY <1>1, <1>3, <3>1
    <3>3. TypeOK' /\ InnerType'
      BY <1>0, <1>1, <2>1, <2>2, <3>1, <3>2
         DEF TypeOK, InnerType, ChanType, BindPlaces, pumpVars, chanVars
    <3>4. PathInv'
      BY <1>0, <2>1, <2>3, <3>1 DEF PathInv, IsFeed
    <3>5. CountInv'
      <4>1. \A s : Holding(s)' = Holding(s)
        BY <2>1, <3>1 DEF Holding, Holds, AfterFetch
      <4>2. ASSUME NEW s \in Slots PROVE count'[s] = Cardinality(Holding(s)) + Unannounced(s)'
        <5>1. PICK n \in Nat : n = Cardinality(Holding(s)) /\ count[s] = n
          BY <1>0, <2>1, HoldingFinite DEF CountInv, Unannounced
        <5>2. count'[s] = n + Unannounced(s)'
          BY <1>1, <1>3, <3>1, <5>1 DEF Unannounced
        <5> QED
          BY <5>1, <5>2
      <4> QED
        BY <4>1, <4>2 DEF CountInv
    <3> QED
      BY <3>3, <3>4, <3>5 DEF ShapeInv
  <2>4. CASE setup.kind # "use_query"
    <3>1. /\ writer' = [writer EXCEPT ![Own] = At("fetching", 1, 0)] /\ UNCHANGED count
          /\ bind'.at = "subscribe" /\ bind' \in [at : BindPlaces, slot : Slots]
      BY <1>3, <1>12, <2>4, BindMoves DEF Spawn, BindPlaces
    <3>2. At("fetching", 1, 0) \in WriterType /\ At("fetching", 1, 0).at = "fetching"
      BY <1>3, AtType DEF WriterPlaces, WriterRests
    <3>3. writer' \in [Writers -> WriterType]
      BY <1>1, <3>1, <3>2
    <3>4. TypeOK' /\ InnerType'
      BY <1>0, <1>1, <2>1, <2>2, <3>1, <3>3
         DEF TypeOK, InnerType, ChanType, BindPlaces, pumpVars, chanVars, WriterType, WriterPlaces
    <3>5. setup.kind = "use_infinite_query" /\ AfterFetch(Own) = "idle"
      BY <1>0, <2>1, <2>4 DEF PathInv, AfterFetch
    <3>6. PathInv'
      BY <1>0, <1>1, <2>1, <2>4, <3>1, <3>2, <3>5, WritersFinite DEF PathInv, IsFeed, Early
    <3>7. CountInv'
      <4>1. \A s : Holding(s)' = Holding(s)
        BY <1>1, <2>1, <3>1, <3>5, WritersFinite DEF Holding, Holds, AfterFetch
      <4>2. \A s : Unannounced(s)' = Unannounced(s)
        BY <2>1, <3>1 DEF Unannounced
      <4> QED
        BY <1>0, <3>1, <4>1, <4>2 DEF CountInv
    <3> QED
      BY <3>4, <3>6, <3>7 DEF ShapeInv
  <2> QED
    BY <2>3, <2>4
<1>13. CASE Announce
  <2>1. /\ bind.at = "announce" /\ writer[Own].at = "idle" /\ setup.kind = "use_query"
        /\ writer' = [writer EXCEPT ![Own] = At("fetching", 1, 0)]
        /\ UNCHANGED <<setup, entry, count, stop, pumpVars, calls>>
        /\ Activity(1, count[1]) /\ Bind("subscribe", 1)
    BY <1>0, <1>13 DEF Announce, Binds, PathInv, Early
  <2>2. ChanType'
    BY <1>0, <1>1, <1>3, <2>1, ActivityType
  <2>3. bind'.at = "subscribe" /\ bind' \in [at : BindPlaces, slot : Slots]
    BY <1>3, <2>1, BindMoves DEF BindPlaces
  <2>4. /\ At("fetching", 1, 0) \in WriterType /\ At("fetching", 1, 0).at = "fetching"
        /\ At("fetching", 1, 0).slot = 1
    BY <1>3, AtType DEF WriterPlaces, WriterRests
  <2>5. writer' \in [Writers -> WriterType]
    BY <1>1, <2>1, <2>4
  <2>6. TypeOK' /\ InnerType'
    BY <1>0, <1>1, <2>1, <2>2, <2>3, <2>5
       DEF TypeOK, InnerType, ChanType, BindPlaces, pumpVars, WriterType, WriterPlaces
  <2>7. PathInv'
    BY <1>0, <1>1, <2>1, <2>3, <2>4, WritersFinite DEF PathInv, IsFeed, Early
  <2>8. CountInv'
    <3>1. /\ ~Holds(writer[Own], Own, 1)
          /\ \A s : Holds(At("fetching", 1, 0), Own, s) <=> s = 1
      BY <2>1, <2>4 DEF Holds, Counting, AfterFetch
    <3>2. ASSUME NEW s \in Slots
          PROVE  count'[s] = Cardinality(Holding(s)') + Unannounced(s)'
      <4>1. /\ Holding(s)' = IF Holds(At("fetching", 1, 0), Own, s) THEN Holding(s) \cup {Own}
                             ELSE Holding(s) \ {Own}
            /\ Own \in Holding(s) <=> Holds(writer[Own], Own, s)
        BY <1>1, <2>1, HoldingMoves, WritersFinite
      <4>2. PICK n \in Nat, k \in {0, 1} : /\ n = Cardinality(Holding(s)) /\ count[s] = n + k
                                           /\ k = IF s = 1 THEN 1 ELSE 0
        BY <1>0, <2>1, HoldingFinite DEF CountInv, Unannounced
      <4>3. Unannounced(s)' = 0
        BY <2>3 DEF Unannounced
      <4>4. CASE s = 1
        <5>1. Own \notin Holding(s) /\ Holding(s)' = Holding(s) \cup {Own}
          BY <3>1, <4>1, <4>4
        <5>2. Cardinality(Holding(s)') = n + 1
          BY <4>2, <5>1, HoldingFinite, FS_AddElement
        <5> QED
          BY <2>1, <4>2, <4>3, <4>4, <5>2
      <4>5. CASE s # 1
        <5>1. Own \notin Holding(s)
          BY <2>1 DEF Holding, Holds, Counting
        <5>2. Holding(s)' = Holding(s)
          BY <3>1, <4>1, <4>5, <5>1
        <5> QED
          BY <2>1, <4>2, <4>3, <4>5, <5>2
      <4> QED
        BY <4>4, <4>5
    <3> QED
      BY <3>2 DEF CountInv
  <2> QED
    BY <2>6, <2>7, <2>8 DEF ShapeInv
<1> QED
  BY <1>4, <1>5, <1>6, <1>7, <1>8, <1>9, <1>10, <1>11, <1>12, <1>13 DEF BinderStep

LEMMA ShapeInit == Init => ShapeInv
<1> SUFFICES ASSUME Init PROVE ShapeInv
  OBVIOUS
<1>1. /\ [st |-> "Idle", ver |-> 0] \in States /\ NoRead \in Reads /\ Idle \in WriterType
      /\ Idle.at = "idle" /\ NoEntry \in EntryType
  BY SlotFacts, AtType DEF States, NoRead, Reads, Idle, WriterPlaces, WriterRests, NoEntry, EntryType
<1>2. <<>> \in Seq(Words) /\ <<>> \in Seq(Nat) /\ Len(<<>>) = 0
  BY EmptySeq
<1>3. TypeOK
  <2>1. setup \in Setups /\ stop \in BOOLEAN /\ 0 \in 0 .. MaxCalls /\ 0 <= Cap
    <3>1. 0 \in 0 .. MaxCalls
      BY BindingsAssumption
    <3>2. 0 <= Cap
      BY CapFacts
    <3> QED
      BY <3>1, <3>2 DEF Init
  <2>2. entry \in Entries /\ signal \in [Slots -> States] /\ writer \in [Writers -> WriterType]
    BY <1>1 DEF Init, Entries
  <2>3. bind \in [at : BindPlaces, slot : Slots]
    BY SlotFacts DEF Init, BindPlaces, BindRests
  <2>4. subs \subseteq Slots /\ unheard \subseteq Slots
    BY SlotFacts DEF Init
  <2>5. \A s \in Slots : Len(queue[s]) <= Cap /\ missed[s] \in Nat
    BY <1>2, <2>1 DEF Init
  <2> QED
    BY <1>2, <2>1, <2>2, <2>3, <2>4, <2>5
       DEF Init, TypeOK, Entries, EntryType, BindPlaces, WriterType, WriterPlaces, PumpRests
<1>4. InnerType
  BY <1>1, <1>2 DEF Init, InnerType
<1>5. PathInv
  BY <1>1, WritersFinite DEF Init, PathInv
<1>6. CountInv
  <2>1. \A s : Holding(s) = {}
    BY <1>1 DEF Init, Holding, Holds, Counting
  <2>2. Cardinality({}) = 0
    BY FS_EmptySet
  <2>3. \A s \in Slots : Unannounced(s) = 0 /\ count[s] = 0
    BY DEF Init, Unannounced
  <2> QED
    BY <2>1, <2>2, <2>3 DEF CountInv
<1> QED
  BY <1>3, <1>4, <1>5, <1>6 DEF ShapeInv

LEMMA ShapeNext == ShapeInv /\ [Next]_vars => ShapeInv'
<1> SUFFICES ASSUME ShapeInv, [Next]_vars PROVE ShapeInv'
  OBVIOUS
<1>1. CASE BinderStep \/ DropBinding
  BY <1>1, BinderShape
<1>2. CASE \E s \in Slots : PumpStep(s)
  BY <1>2, PumpShape
<1>3. CASE \E w \in Writers : FetchStep(w) \/ Call(w)
  BY <1>3, FetchShape, CallShape
<1>4. CASE UNCHANGED vars
  <2>1. UNCHANGED <<setup, entry, count, bind, stop, chanVars, pumpVars, writer, calls>>
    BY <1>4 DEF vars
  <2>2. TypeOK /\ InnerType /\ PathInv /\ CountInv
    BY DEF ShapeInv
  <2>3. TypeOK' /\ InnerType'
    BY <2>1, <2>2 DEF TypeOK, InnerType, chanVars, pumpVars, Words, IsQuery
  <2>4. CountInv'
    BY <2>1, <2>2, CountStays
  <2>5. PathInv'
    BY <2>1, <2>2 DEF PathInv, IsFeed
  <2> QED
    BY <2>3, <2>4, <2>5 DEF ShapeInv
<1> QED
  BY <1>1, <1>2, <1>3, <1>4 DEF Next

-----------------------------------------------------------------------------
(***************************************************************************)
(* What is heard on one thread                                             *)
(***************************************************************************)

\* What a send does to the slots that have changed unheard of.
HearMoves(s) ==
  /\ subs' = subs
  /\ unheard' \subseteq unheard \cup {s}
  /\ bind.at = "unbound" => unheard' \subseteq unheard
  /\ unheard \cap subs = {} => unheard' \cap subs = {}

LEMMA NotifyHeard ==
  ASSUME NEW s, NEW v, Notify(s, v) \/ Activity(s, v)
  PROVE  HearMoves(s)
  BY DEF Notify, Activity, Deliver, HearMoves

\* A writer leaves the binding alone, announces at most one thing, and on one
\* thread does not run while the hook function does.
LEMMA WriterChannel ==
  ASSUME ShapeInv, NEW w \in Writers, FetchStep(w) \/ Call(w)
  PROVE  /\ UNCHANGED <<setup, bind, stop, pumpVars>>
         /\ ~setup.pool => bind.at \in BindRests
         /\ \/ UNCHANGED chanVars
            \/ \E s \in Slots, v \in {"Success", "Error", "Stale"} : Notify(s, v)
            \/ \E s \in Slots, v \in Nat : Activity(s, v)
            \/ UNCHANGED <<subs, queue, missed, log>> /\ setup.calls \cap Silent # {}
<1>1. writer[w].slot \in Slots /\ writer[w].new \in Nat
  BY DEF ShapeInv, TypeOK
<1>2. CASE FetchStep(w)
  BY <1>1, <1>2 DEF FetchStep, FetchOk, FetchErr, NotifyFetched, Inc, AnnounceUp, Dec,
     AnnounceDown, NotifyWrite, Writes, MayRun
<1>3. CASE Call(w)
  <2>1. PICK s \in Slots :
        \/ CallSetQueryData(w, s) \/ CallSpawn(w, s) \/ CallInvalidate(w, s)
        \/ (\E op \in {"cancel_query", "refetch"} : CallCancel(w, s, op))
        \/ CallAppendPage(w, s) \/ CallRemove(w, s) \/ CallSilent(w, s)
    BY <1>3, SlotFacts DEF Call, Used
  <2>2. UNCHANGED <<setup, bind, stop, pumpVars>> /\ (~setup.pool => bind.at \in BindRests)
    BY <2>1 DEF CallSetQueryData, CallSpawn, CallInvalidate, CallCancel, CallAppendPage,
       CallRemove, CallSilent, Calling, Writes, MayRun
  <2>3. CASE CallSilent(w, s)
    <3>1. setup.calls \cap Silent # {}
      BY <2>3 DEF CallSilent, Calling, Silent
    <3> QED
      BY <2>2, <2>3, <3>1 DEF CallSilent
  <2>4. CASE ~CallSilent(w, s)
    <3>1. UNCHANGED chanVars \/ \E v \in {"Success", "Error", "Stale"} : Notify(s, v)
      BY <2>1, <2>4 DEF CallSetQueryData, CallSpawn, CallInvalidate, CallCancel, CallAppendPage,
         CallRemove
    <3> QED
      BY <2>2, <3>1
  <2> QED
    BY <2>3, <2>4
<1> QED
  BY <1>2, <1>3

LEMMA HeardBinder ==
  ASSUME ShapeInv, HeardInv, BinderStep \/ DropBinding, ~setup.pool, setup.calls \cap Silent = {}
  PROVE  HeardInv'
<1>0. PathInv /\ bind \in [at : BindPlaces, slot : Slots] /\ setup.kind \in Kinds
  BY SetupFacts DEF ShapeInv, TypeOK, BindPlaces
<1>1. /\ bind.at \in {"seed", "seed_notify", "read"} /\ setup.kind # "use_queries" => bind.slot = 1
      /\ bind.at = "read" => unheard \subseteq {bind.slot}
      /\ bind.at \notin {"read", "bound", "dropped"} => unheard = {}
      /\ bind.at \in {"bound", "dropped"} => unheard \cap subs = {}
  BY DEF HeardInv
<1>2. UNCHANGED setup
  BY DEF BinderStep, CallHook, Seed, SeedNotify, ReadFirst, CreateSignal, Spawn, Announce,
     SubscribePump, DrainReady, DropBinding
<1>3. ASSUME NEW place, NEW s, Bind(place, s),
             place \in {"seed", "seed_notify", "read"} /\ setup.kind # "use_queries" => s = 1,
             place = "read" => unheard' \subseteq {s},
             place \notin {"read", "bound", "dropped"} => unheard' = {},
             place \in {"bound", "dropped"} => unheard' \cap subs' = {}
      PROVE  HeardInv'
  BY <1>2, <1>3 DEF Bind, HeardInv
<1>4. CASE CallHook
  <2>1. Bind(Entry(setup.kind), 1) /\ unheard' = {} /\ Entry(setup.kind) \in {"seed", "drain", "read"}
    BY <1>1, <1>4 DEF CallHook, Binds, Entry, chanVars
  <2> QED
    BY <1>3, <2>1
<1>5. CASE Seed
  <2>1. bind.at = "seed" /\ unheard' = {} /\ bind.slot = bind.slot
        /\ (Bind("seed_notify", bind.slot) \/ Bind("read", bind.slot))
    BY <1>1, <1>5 DEF Seed, Binds, chanVars
  <2> QED
    BY <1>1, <1>3, <2>1
<1>6. CASE SeedNotify
  <2>1. bind.at = "seed_notify" /\ Bind("read", bind.slot) /\ unheard = {} /\ Notify(bind.slot, "Success")
    BY <1>1, <1>6 DEF SeedNotify, Binds
  <2>2. unheard' \subseteq {bind.slot}
    BY <2>1, NotifyHeard DEF HearMoves
  <2> QED
    BY <1>1, <1>3, <2>1, <2>2
<1>7. CASE ReadFirst
  <2>1. /\ bind.at = "read" /\ Bind("create", bind.slot)
        /\ unheard' = unheard \ (IF setup.kind = "use_queries" THEN {bind.slot} ELSE Used)
    BY <1>7 DEF ReadFirst, Binds
  <2>2. 1 \in Used
    BY SlotFacts DEF Used
  <2>3. unheard' = {}
    BY <1>1, <2>1, <2>2
  <2> QED
    BY <1>3, <2>1, <2>3
<1>8. CASE CreateSignal
  <2>1. bind.at = "create" /\ unheard' = {}
    BY <1>1, <1>8 DEF CreateSignal, Binds, chanVars
  <2>2. \/ setup.kind = "use_queries" /\ Bind("seed", bind.slot + 1)
        \/ Bind("spawn", 1) \/ Bind("subscribe", 1)
    BY <1>8 DEF CreateSignal, AfterCreate
  <2> QED
    BY <1>3, <2>1, <2>2
<1>9. CASE Spawn
  <2>1. unheard' = {} /\ (Bind("announce", 1) \/ Bind("subscribe", 1))
    BY <1>1, <1>9 DEF Spawn, Binds, chanVars
  <2> QED
    BY <1>3, <2>1
<1>10. CASE Announce
  <2>1. bind.at = "announce" /\ unheard = {} /\ Bind("subscribe", 1) /\ Activity(1, count[1])
    BY <1>1, <1>10 DEF Announce, Binds
  <2>2. IsQuery
    BY <1>0, <2>1 DEF PathInv, IsQuery, QueryKinds
  <2>3. unheard' = {}
    BY <2>1, <2>2 DEF Activity
  <2> QED
    BY <1>3, <2>1, <2>3
<1>11. CASE SubscribePump
  <2>1. unheard' = {}
    BY <1>1, <1>11 DEF SubscribePump, Binds
  <2>2. PICK place, s : place \in {"subscribe", "bound"} /\ Bind(place, s)
    BY <1>11 DEF SubscribePump
  <2> QED
    BY <1>3, <2>1, <2>2
<1>12. CASE DrainReady
  <2>1. bind.at = "drain" /\ unheard' = {} /\ (bind' = bind \/ Bind("bound", 1))
    BY <1>1, <1>12 DEF DrainReady, Binds
  <2>2. CASE bind' = bind
    BY <1>2, <2>1, <2>2 DEF HeardInv
  <2>3. CASE Bind("bound", 1)
    BY <1>3, <2>1, <2>3
  <2> QED
    BY <2>1, <2>2, <2>3
<1>13. CASE DropBinding
  <2>1. Bind("dropped", 1) /\ unheard' \cap subs' = {}
    BY <1>1, <1>13 DEF DropBinding, Binds, chanVars
  <2> QED
    BY <1>3, <2>1
<1> QED
  BY <1>4, <1>5, <1>6, <1>7, <1>8, <1>9, <1>10, <1>11, <1>12, <1>13 DEF BinderStep

LEMMA PumpMoves ==
  ASSUME NEW s \in Slots, PumpStep(s)
  PROVE  /\ UNCHANGED <<setup, bind, stop, unheard, log>> /\ subs' \subseteq subs
         /\ ~setup.pool => bind.at \in BindRests
  BY DEF PumpStep, RecvLag, RecvValue, PumpRead, PumpCompute, PumpSet, chanVars, Pumps, MayRun

LEMMA HeardNext == ShapeInv /\ HeardInv /\ [Next]_vars => HeardInv'
<1> SUFFICES ASSUME ShapeInv, HeardInv, [Next]_vars PROVE HeardInv'
  OBVIOUS
<1>1. CASE BinderStep \/ DropBinding
  <2>1. UNCHANGED setup
    BY <1>1 DEF BinderStep, CallHook, Seed, SeedNotify, ReadFirst, CreateSignal, Spawn, Announce,
       SubscribePump, DrainReady, DropBinding
  <2>2. CASE ~setup.pool /\ setup.calls \cap Silent = {}
    BY <1>1, <2>2, HeardBinder
  <2>3. CASE ~(~setup.pool /\ setup.calls \cap Silent = {})
    BY <2>1, <2>3 DEF HeardInv
  <2> QED
    BY <2>2, <2>3
<1>2. CASE \E s \in Slots : PumpStep(s)
  BY <1>2, PumpMoves DEF HeardInv, BindRests
<1>3. CASE \E w \in Writers : FetchStep(w) \/ Call(w)
  <2>1. PICK w \in Writers : FetchStep(w) \/ Call(w)
    BY <1>3
  <2>2. /\ UNCHANGED <<setup, bind>>
        /\ ~setup.pool => bind.at \in BindRests
        /\ \/ UNCHANGED chanVars
           \/ \E s : HearMoves(s)
           \/ UNCHANGED <<subs, queue, missed, log>> /\ setup.calls \cap Silent # {}
    BY <2>1, WriterChannel, NotifyHeard
  <2> QED
    BY <2>2 DEF HeardInv, BindRests, HearMoves, chanVars
<1>4. CASE UNCHANGED vars
  BY <1>4 DEF HeardInv, vars, chanVars
<1> QED
  BY <1>1, <1>2, <1>3, <1>4 DEF Next

-----------------------------------------------------------------------------
(***************************************************************************)
(* What a feed shows on one thread                                         *)
(***************************************************************************)

LEMMA EndsAppend ==
  ASSUME NEW t \in Seq(Nat), NEW s \in Seq(Nat), NEW v \in Nat, Ends(t, s)
  PROVE  Ends(Append(t, v), Append(s, v))
<1>1. PICK a \in Nat, b \in Nat : a = Len(t) /\ b = Len(s) /\ a <= b
  BY LenProperties DEF Ends
<1>2. PICK u, z : u = Append(t, v) /\ z = Append(s, v)
  OBVIOUS
<1>3. /\ Len(u) = a + 1 /\ u[a + 1] = v /\ \A i \in 1 .. a : u[i] = t[i]
      /\ Len(z) = b + 1 /\ z[b + 1] = v /\ \A i \in 1 .. b : z[i] = s[i]
  BY <1>1, <1>2, AppendFacts
<1>4. \A i \in 1 .. a : t[i] = s[b - a + i]
  BY <1>1 DEF Ends
<1>5. ASSUME NEW i \in 1 .. a + 1 PROVE u[i] = z[(b + 1) - (a + 1) + i]
  <2>1. CASE i = a + 1
    BY <1>1, <1>3, <2>1
  <2>2. CASE i # a + 1
    <3>1. i \in 1 .. a /\ b - a + i \in 1 .. b /\ (b + 1) - (a + 1) + i = b - a + i
      BY <1>1, <2>2
    <3> QED
      BY <1>3, <1>4, <3>1
  <2> QED
    BY <2>1, <2>2
<1>6. Len(u) = a + 1 /\ Len(z) = b + 1 /\ a + 1 <= b + 1
  BY <1>1, <1>3
<1>7. Ends(u, z)
  BY <1>5, <1>6 DEF Ends
<1> QED
  BY <1>2, <1>7

LEMMA EndsTail ==
  ASSUME NEW t \in Seq(Nat), NEW s \in Seq(Nat), t # <<>>, Ends(t, s)
  PROVE  Ends(Tail(t), s)
<1>1. PICK a \in Nat, b \in Nat : a = Len(t) /\ b = Len(s) /\ a <= b /\ a >= 1
  BY LenProperties, EmptySeq DEF Ends
<1>2. PICK u : u = Tail(t)
  OBVIOUS
<1>3. Len(u) = a - 1 /\ \A i \in 1 .. a - 1 : u[i] = t[i + 1]
  BY <1>1, <1>2, TailFacts
<1>4. \A i \in 1 .. a : t[i] = s[b - a + i]
  BY <1>1 DEF Ends
<1>5. ASSUME NEW i \in 1 .. a - 1 PROVE u[i] = s[b - (a - 1) + i]
  <2>1. i + 1 \in 1 .. a /\ b - a + (i + 1) = b - (a - 1) + i
    BY <1>1
  <2> QED
    BY <1>3, <1>4, <2>1
<1>6. PICK k \in Nat : k = a - 1
  BY <1>1
<1>7. Len(u) = k /\ Len(s) = b /\ k <= b /\ \A i \in 1 .. k : u[i] = s[b - k + i]
  <2>1. k <= b
    BY <1>1, <1>6
  <2> QED
    BY <1>1, <1>3, <1>5, <1>6, <2>1
<1>8. Ends(u, s)
  BY ONLY <1>7 DEF Ends
<1> QED
  BY <1>2, <1>8

LEMMA EndsEmpty == ASSUME NEW s \in Seq(Nat) PROVE Ends(<<>>, s)
  BY EmptySeq, LenProperties DEF Ends

\* How concatenation goes with the steps of a queue.
LEMMA ConcatMoves ==
  ASSUME NEW f \in Seq(Nat), NEW q \in Seq(Nat)
  PROVE  /\ f \o q \in Seq(Nat)
         /\ \A v \in Nat : f \o Append(q, v) = Append(f \o q, v)
         /\ q # <<>> => Append(f, Head(q)) \o Tail(q) = f \o q
         /\ f # <<>> => Tail(f) \o q = Tail(f \o q) /\ f \o q # <<>>
<1>1. f \o q \in Seq(Nat)
  BY ConcatProperties
<1>2. ASSUME NEW v \in Nat PROVE f \o Append(q, v) = Append(f \o q, v)
  <2>0. <<v>> \in Seq(Nat)
    OBVIOUS
  <2>1. PICK u \in Seq(Nat) : u = <<v>>
    BY <2>0
  <2>2. Append(q, v) = q \o u
    BY <2>1, AppendIsConcat
  <2>3. Append(f \o q, v) = (f \o q) \o u
    BY <1>1, <2>1, AppendIsConcat
  <2>4. (f \o q) \o u = f \o (q \o u)
    BY <2>1, ConcatAssociative
  <2> QED
    BY <2>2, <2>3, <2>4
<1>3. ASSUME q # <<>> PROVE Append(f, Head(q)) \o Tail(q) = f \o q
  <2>1. PICK h \in Nat, r \in Seq(Nat) : h = Head(q) /\ r = Tail(q)
    BY <1>3, TailFacts
  <2>2. q = <<h>> \o r
    <3>1. Len(q) \in Nat \ {0} /\ Len(r) = Len(q) - 1 /\ h = q[1]
          /\ \A i \in 1 .. Len(q) - 1 : r[i] = q[i + 1]
      BY <1>3, <2>1, TailFacts, EmptySeq
    <3>2. <<h>> \in Seq(Nat) /\ Len(<<h>>) = 1 /\ <<h>>[1] = h
      OBVIOUS
    <3>3. PICK c \in Seq(Nat) : c = <<h>> \o r
      BY <3>2, ConcatProperties
    <3>4. Len(c) = Len(q)
      BY <3>1, <3>2, <3>3, ConcatProperties
    <3>5. ASSUME NEW i \in 1 .. Len(q) PROVE c[i] = q[i]
      <4>1. c[i] = IF i <= 1 THEN <<h>>[i] ELSE r[i - 1]
        BY <3>1, <3>2, <3>3, <3>4, ConcatProperties
      <4> QED
        BY <3>1, <3>2, <4>1
    <3> QED
      BY <3>3, <3>4, <3>5, SeqEqual
  <2>3. <<h>> \in Seq(Nat) /\ Append(f, h) = f \o <<h>>
    BY AppendIsConcat
  <2>4. (f \o <<h>>) \o r = f \o (<<h>> \o r)
    BY <2>3, ConcatAssociative
  <2> QED
    BY <2>1, <2>2, <2>3, <2>4
<1>4. ASSUME f # <<>> PROVE Tail(f) \o q = Tail(f \o q) /\ f \o q # <<>>
  <2>a. PICK n \in Nat, m \in Nat : n = Len(f) /\ m = Len(q) /\ n >= 1
    BY <1>4, EmptySeq, LenProperties
  <2>b. PICK g \in Seq(Nat) : g = Tail(f)
    BY <1>4, TailFacts
  <2>1. Len(g) = n - 1 /\ \A i \in 1 .. n - 1 : g[i] = f[i + 1]
    BY <1>4, <2>a, <2>b, TailFacts
  <2>c. PICK c \in Seq(Nat) : c = f \o q
    BY <1>1
  <2>2. Len(c) = n + m /\ \A i \in 1 .. n + m : c[i] = IF i <= n THEN f[i] ELSE q[i - n]
    BY <2>a, <2>c, ConcatProperties
  <2>3. c # <<>>
    BY <2>a, <2>2, EmptySeq
  <2>d. PICK d \in Seq(Nat) : d = Tail(c)
    BY <2>3, TailFacts
  <2>4. Len(d) = n + m - 1 /\ \A i \in 1 .. n + m - 1 : d[i] = c[i + 1]
    BY <2>2, <2>3, <2>d, TailFacts
  <2>e. PICK e \in Seq(Nat) : e = g \o q
    BY ConcatProperties
  <2>5. /\ Len(e) = (n - 1) + m
        /\ \A i \in 1 .. (n - 1) + m : e[i] = IF i <= n - 1 THEN g[i] ELSE q[i - (n - 1)]
    <3>1. PICK k \in Nat : k = Len(g) /\ k = n - 1
      BY <2>a, <2>1
    <3>2. Len(e) = k + m /\ \A i \in 1 .. k + m : e[i] = IF i <= k THEN g[i] ELSE q[i - k]
      <4>1. /\ Len(g \o q) = Len(g) + Len(q)
            /\ \A i \in 1 .. Len(g) + Len(q) :
                 (g \o q)[i] = IF i <= Len(g) THEN g[i] ELSE q[i - Len(g)]
        BY ConcatProperties
      <4>2. Len(g) = k /\ Len(q) = m
        BY <2>a, <3>1
      <4> QED
        BY ONLY <4>1, <4>2, <2>e
    <3>3. k = n - 1
      BY <3>1
    <3> QED
      BY ONLY <3>2, <3>3
  <2>6. ASSUME NEW i \in 1 .. n + m - 1 PROVE d[i] = e[i]
    <3>1. d[i] = IF i + 1 <= n THEN f[i + 1] ELSE q[(i + 1) - n]
      <4>1. i + 1 \in 1 .. n + m
        BY <2>a
      <4> QED
        BY <2>2, <2>4, <4>1
    <3>2. e[i] = IF i <= n - 1 THEN g[i] ELSE q[i - (n - 1)]
      <4>1. i \in 1 .. (n - 1) + m
        BY <2>a
      <4> QED
        BY ONLY <2>5, <4>1
    <3>3. i - (n - 1) = (i + 1) - n
      BY <2>a
    <3> QED
      BY <2>a, <2>1, <3>1, <3>2, <3>3
  <2>7. Len(d) = Len(e) /\ \A i \in 1 .. Len(d) : d[i] = e[i]
    BY <2>a, <2>4, <2>5, <2>6
  <2>8. d = e
    BY <2>7, SeqEqual
  <2> QED
    BY <2>b, <2>c, <2>d, <2>e, <2>3, <2>8
<1> QED
  BY <1>1, <1>2, <1>3, <1>4

\* Sender::send: the value goes to the end of the queue and of the log.
LEMMA ShownSend ==
  ASSUME NEW f \in Seq(Nat), NEW q \in Seq(Nat), NEW l \in Seq(Nat), NEW v \in Nat,
         NEW lost \in Nat, Shown(f, q, l, lost)
  PROVE  Shown(f, Queued(q, v), Append(l, v), Missed(q, lost))
<1>1. CASE Len(q) >= Cap
  <2>1. q # <<>>
    BY <1>1, CapFacts, EmptySeq
  <2>2. Queued(q, v) = Append(Tail(q), v) /\ Missed(q, lost) = lost + 1 /\ Tail(q) \in Seq(Nat)
    BY <1>1, <2>1, TailFacts DEF Queued, Missed
  <2>3. Ends(Append(Tail(q), v), Append(l, v))
    BY <2>1, <2>2, EndsTail, EndsAppend DEF Shown
  <2>4. lost + 1 # 0
    OBVIOUS
  <2> QED
    BY <2>2, <2>3, <2>4 DEF Shown
<1>2. CASE ~(Len(q) >= Cap)
  <2>1. Queued(q, v) = Append(q, v) /\ Missed(q, lost) = lost
    BY <1>2 DEF Queued, Missed
  <2>2. Ends(Append(q, v), Append(l, v))
    BY EndsAppend DEF Shown
  <2>3. lost = 0 => Ends(Append(f \o q, v), Append(l, v))
    BY ConcatMoves, EndsAppend DEF Shown
  <2>4. f \o Append(q, v) = Append(f \o q, v)
    BY ConcatMoves
  <2> QED
    BY <2>1, <2>2, <2>3, <2>4 DEF Shown
<1> QED
  BY <1>1, <1>2

\* recv: the oldest value moves from the queue to what is shown, and push_capped
\* gives up the oldest one shown.
LEMMA ShownTake ==
  ASSUME NEW f \in Seq(Nat), NEW q \in Seq(Nat), NEW l \in Seq(Nat), q # <<>>,
         Shown(f, q, l, 0)
  PROVE  /\ Shown(Append(f, Head(q)), Tail(q), l, 0)
         /\ Shown(PushCapped(f, Head(q)), Tail(q), l, 0)
<1>1. PICK h \in Nat, r \in Seq(Nat) : h = Head(q) /\ r = Tail(q)
  BY TailFacts
<1>2. Ends(r, l) /\ Ends(f \o q, l) /\ f \o q \in Seq(Nat) /\ Append(f, h) \o r = f \o q
  BY <1>1, EndsTail, ConcatMoves DEF Shown
<1>3. CASE Len(f) >= FeedCap
  <2>1. f # <<>> /\ PushCapped(f, h) = Append(Tail(f), h)
    BY <1>3, PushFacts
  <2>2. PICK g \in Seq(Nat) : g = Tail(f)
    BY <2>1, TailFacts
  <2>3. Append(g, h) \o r = g \o q
    BY <1>1, ConcatMoves
  <2>4. g \o q = Tail(f \o q) /\ f \o q # <<>>
    BY <2>1, <2>2, ConcatMoves
  <2>5. Ends(g \o q, l)
    BY <1>2, <2>4, EndsTail
  <2> QED
    BY <1>1, <1>2, <2>1, <2>2, <2>3, <2>5 DEF Shown
<1>4. CASE ~(Len(f) >= FeedCap)
  <2>1. PushCapped(f, h) = Append(f, h)
    BY <1>4 DEF PushCapped
  <2> QED
    BY <1>1, <1>2, <2>1 DEF Shown
<1> QED
  BY <1>3, <1>4

\* A lag notice: what follows it is shown from the start.
LEMMA ShownLag ==
  ASSUME NEW q \in Seq(Nat), NEW l, NEW lost, Shown(<<>>, q, l, lost)
  PROVE  Shown(<<>>, q, l, 0)
  BY ConcatEmptySeq DEF Shown

\* Where the feed's part of the state does not change.
LEMMA FeedStays ==
  ASSUME FeedInv, UNCHANGED <<setup, bind, stop, subs, queue, missed, log, feed>>,
         \A s \in Slots : pump'[s] = "none" <=> pump[s] = "none"
  PROVE  FeedInv'
  BY DEF FeedInv, IsFeed

LEMMA FeedBinder ==
  ASSUME ShapeInv, FeedInv, BinderStep \/ DropBinding, IsFeed, ~setup.pool
  PROVE  FeedInv'
<1>0. /\ bind.at \in {"unbound", "drain", "bound"} /\ subs \subseteq {1} /\ ~stop
      /\ \A s \in Slots : pump[s] # "none" => s = 1 /\ bind.at = "bound"
      /\ log \in Seq(Nat) /\ Len(feed) <= FeedCap
      /\ bind.at = "unbound" => feed = <<>>
      /\ bind.at # "bound" => 1 \in subs
  BY DEF FeedInv
<1>1. /\ 1 \in Slots /\ queue[1] \in Seq(Nat) /\ Len(queue[1]) <= Cap /\ missed[1] \in Nat
      /\ queue \in [Slots -> Seq(Words)] /\ missed \in [Slots -> Nat]
      /\ pump \in [Slots -> PumpRests \cup {"read", "stale", "set"}]
      /\ feed \in Seq(Nat)
  BY SlotFacts DEF ShapeInv, TypeOK, InnerType, Words, IsQuery, IsFeed, QueryKinds
<1>2. CallHook \/ DrainReady
  BY <1>0 DEF BinderStep, CallHook, Seed, SeedNotify, ReadFirst, CreateSignal, Spawn, Announce,
     SubscribePump, DrainReady, DropBinding, Binds, IsFeed
<1>3. CASE CallHook
  <2>1. /\ bind.at = "unbound" /\ bind'.at = "drain" /\ feed = <<>>
        /\ UNCHANGED <<setup, stop, subs, queue, missed, log, feed, pump>>
    BY <1>0, <1>3 DEF CallHook, Binds, Bind, Entry, IsFeed, chanVars, pumpVars
  <2>2. Len(feed) + Len(queue[1]) <= Cap
    <3>1. PICK a \in Nat, c \in Nat : a = Len(queue[1]) /\ c = Cap /\ a <= c
      BY <1>1, CapFacts, LenProperties
    <3>2. Len(feed) = 0
      BY <2>1, EmptySeq
    <3> QED
      BY <3>1, <3>2
  <2>3. \A s \in Slots : pump[s] = "none"
    BY <1>0, <2>1
  <2>4. 1 \in subs => Shown(feed, queue[1], log, missed[1])
    BY DEF FeedInv
  <2> HIDE DEF Shown
  <2> QED
    BY <1>0, <2>1, <2>2, <2>3, <2>4 DEF FeedInv, IsFeed
<1>4. CASE DrainReady
  <2>1. /\ bind.at = "drain"
        /\ UNCHANGED <<setup, stop, subs, log>>
        /\ 1 \in subs => /\ Shown(feed, queue[1], log, missed[1])
                         /\ missed[1] > 0 => feed = <<>>
                         /\ Len(feed) + Len(queue[1]) <= Cap
    BY <1>4 DEF DrainReady, Binds, FeedInv
  <2>2. ASSUME bind'.at \in {"drain", "bound"}, Len(feed') <= FeedCap,
               \A s \in Slots : pump'[s] # "none" => s = 1 /\ bind'.at = "bound",
               1 \in subs => /\ Shown(feed', queue'[1], log, missed'[1])
                             /\ missed'[1] > 0 => feed' = <<>>
                             /\ bind'.at = "drain" => Len(feed') + Len(queue'[1]) <= Cap
        PROVE  FeedInv'
    BY <1>0, <2>1, <2>2 DEF FeedInv, IsFeed, Shown, Ends
  <2>3. CASE /\ missed[1] > 0 /\ missed' = [missed EXCEPT ![1] = 0]
             /\ UNCHANGED <<queue, feed, pump, bind>>
    <3>1. missed'[1] = 0
      BY <1>1, <2>3
    <3>2. 1 \in subs => Shown(feed, queue[1], log, 0)
      BY <1>1, <2>1, <2>3, ShownLag
    <3> QED
      BY <1>0, <2>1, <2>2, <2>3, <3>1, <3>2
  <2>4. CASE /\ missed[1] = 0 /\ queue[1] # <<>>
             /\ feed' = Append(feed, Head(queue[1]))
             /\ queue' = [queue EXCEPT ![1] = Tail(queue[1])]
             /\ UNCHANGED <<missed, pump, bind>>
    <3>1. /\ Head(queue[1]) \in Nat /\ queue'[1] = Tail(queue[1])
          /\ Len(queue'[1]) = Len(queue[1]) - 1
      BY <1>1, <2>4, TailFacts
    <3>2. PICK a \in Nat, b \in Nat : a = Len(feed) /\ b = Len(queue[1])
      BY <1>1, LenProperties
    <3>3. Len(feed') = a + 1 /\ Len(queue'[1]) = b - 1
      BY <1>1, <2>4, <3>1, <3>2, AppendFacts
    <3>4. 1 \in subs => Shown(feed', queue'[1], log, 0)
      BY <1>0, <1>1, <2>1, <2>4, <3>1, ShownTake
    <3>5. 1 \in subs
      BY <1>0, <2>1
    <3>6. Len(feed') + Len(queue'[1]) <= Cap /\ Len(feed') <= FeedCap
      <4>1. b >= 1
        BY <1>1, <2>4, <3>2, EmptySeq
      <4>2. PICK c \in Nat, k \in Nat : c = Cap /\ k = FeedCap /\ k >= c
        BY CapFacts
      <4>3. a + b <= c
        BY <2>1, <3>2, <3>5, <4>2
      <4> QED
        BY <3>3, <4>1, <4>2, <4>3
    <3>7. missed'[1] = 0 /\ bind' = bind /\ pump' = pump
      BY <2>4
    <3> QED
      BY <1>0, <2>1, <2>2, <3>4, <3>6, <3>7
  <2>5. CASE /\ missed[1] = 0 /\ queue[1] = <<>>
             /\ pump' = [pump EXCEPT ![1] = "waiting"] /\ Bind("bound", 1)
             /\ UNCHANGED <<missed, queue, feed>>
    <3>1. bind'.at = "bound"
      BY <2>5 DEF Bind
    <3>2. \A s \in Slots : pump'[s] # "none" => s = 1
      BY <1>0, <1>1, <2>5
    <3> QED
      BY <1>0, <2>1, <2>2, <2>5, <3>1, <3>2
  <2> QED
    BY <1>4, <2>3, <2>4, <2>5 DEF DrainReady
<1> QED
  BY <1>2, <1>3, <1>4

LEMMA FeedPump ==
  ASSUME ShapeInv, FeedInv, NEW s \in Slots, PumpStep(s), IsFeed, ~setup.pool
  PROVE  FeedInv'
<1>0. /\ bind.at \in {"unbound", "drain", "bound"} /\ subs \subseteq {1} /\ ~stop
      /\ \A t \in Slots : pump[t] # "none" => t = 1 /\ bind.at = "bound"
      /\ log \in Seq(Nat) /\ Len(feed) <= FeedCap
      /\ bind.at # "bound" => 1 \in subs
      /\ 1 \in subs => Shown(feed, queue[1], log, missed[1])
  BY DEF FeedInv
<1>1. /\ 1 \in Slots /\ queue[1] \in Seq(Nat)
      /\ queue \in [Slots -> Seq(Words)]
      /\ pump \in [Slots -> PumpRests \cup {"read", "stale", "set"}]
      /\ feed \in Seq(Nat)
  BY SlotFacts DEF ShapeInv, TypeOK, InnerType, Words, IsQuery, IsFeed, QueryKinds
<1>2. /\ s = 1 /\ bind.at = "bound" /\ \E p : pump' = [pump EXCEPT ![1] = p]
      /\ UNCHANGED <<setup, bind, stop, log>>
  BY <1>0 DEF PumpStep, RecvLag, RecvValue, PumpRead, PumpCompute, PumpSet, Pumps, PumpTo, chanVars
<1>3. \A t \in Slots : pump'[t] # "none" => t = 1
  BY <1>0, <1>1, <1>2
<1>4. ASSUME Len(feed') <= FeedCap, subs' \subseteq subs,
             1 \in subs' => Shown(feed', queue'[1], log, missed'[1])
      PROVE  FeedInv'
  BY <1>0, <1>2, <1>3, <1>4 DEF FeedInv, IsFeed, Shown, Ends
<1>5. CASE RecvLag(s)
  <2>1. subs' = subs \ {1} /\ feed' = feed
    BY <1>2, <1>5 DEF RecvLag, ToleratesLag, IsFeed
  <2> QED
    BY <1>0, <1>4, <2>1
<1>6. CASE RecvValue(s)
  <2>1. /\ missed[1] = 0 /\ queue[1] # <<>> /\ UNCHANGED missed
        /\ queue' = [queue EXCEPT ![1] = Tail(queue[1])]
        /\ feed' = PushCapped(feed, Head(queue[1])) /\ subs' = subs
    BY <1>0, <1>2, <1>6 DEF RecvValue
  <2>2. Head(queue[1]) \in Nat /\ queue'[1] = Tail(queue[1])
    BY <1>1, <2>1, TailFacts
  <2>3. Len(feed') <= FeedCap
    BY <1>0, <1>1, <2>1, <2>2, PushFacts
  <2>4. 1 \in subs => Shown(feed', queue'[1], log, missed'[1])
    BY <1>0, <1>1, <2>1, <2>2, ShownTake
  <2> QED
    BY <1>4, <2>1, <2>3, <2>4
<1>7. CASE PumpRead(s) \/ PumpCompute(s) \/ PumpSet(s)
  <2>1. UNCHANGED <<subs, queue, missed, feed>>
    BY <1>7 DEF PumpRead, PumpCompute, PumpSet, chanVars
  <2> QED
    BY <1>0, <1>4, <2>1
<1> QED
  BY <1>5, <1>6, <1>7 DEF PumpStep

LEMMA FeedWriter ==
  ASSUME ShapeInv, FeedInv, NEW w \in Writers, FetchStep(w) \/ Call(w), IsFeed, ~setup.pool
  PROVE  FeedInv'
<1>0. /\ bind.at \in {"unbound", "drain", "bound"} /\ subs \subseteq {1}
      /\ log \in Seq(Nat)
      /\ bind.at # "bound" => 1 \in subs
      /\ 1 \in subs => Shown(feed, queue[1], log, missed[1])
  BY DEF FeedInv
<1>1. /\ 1 \in Slots /\ queue[1] \in Seq(Nat) /\ feed \in Seq(Nat) /\ missed[1] \in Nat
      /\ queue \in [Slots -> Seq(Words)] /\ missed \in [Slots -> Nat]
  BY SlotFacts DEF ShapeInv, TypeOK, InnerType, Words, IsQuery, IsFeed, QueryKinds
<1>2. /\ UNCHANGED <<setup, bind, stop, pump, feed>> /\ bind.at \in BindRests
      /\ \/ UNCHANGED <<subs, queue, missed, log>>
         \/ \E s \in Slots, v \in {"Success", "Error", "Stale"} : Notify(s, v)
         \/ \E s \in Slots, v \in Nat : Activity(s, v)
  BY WriterChannel DEF pumpVars, chanVars
<1>3. CASE UNCHANGED <<subs, queue, missed, log>>
  BY <1>2, <1>3, FeedStays
<1>4. CASE \E s \in Slots, v \in {"Success", "Error", "Stale"} : Notify(s, v)
  <2>1. UNCHANGED <<subs, queue, missed, log>>
    BY <1>4 DEF Notify, IsQuery, IsFeed, QueryKinds
  <2> QED
    BY <1>2, <2>1, FeedStays
<1>5. CASE \E s \in Slots, v \in Nat : Activity(s, v)
  <2>1. PICK s \in Slots, v \in Nat : Activity(s, v)
    BY <1>5
  <2>2. Deliver(s, v) /\ log' = (IF s = 1 THEN Append(log, v) ELSE log) /\ subs' = subs
    BY <2>1 DEF Activity, Deliver, IsQuery, IsFeed, QueryKinds
  <2>3. bind.at # "drain"
    BY <1>2 DEF BindRests
  <2>4. ASSUME log' \in Seq(Nat), 1 \in subs => Shown(feed, queue'[1], log', missed'[1])
        PROVE  FeedInv'
    BY <1>2, <2>2, <2>3, <2>4 DEF FeedInv, IsFeed, Shown, Ends
  <2>5. CASE s = 1
    <3>1. log' = Append(log, v) /\ log' \in Seq(Nat)
      BY <1>0, <2>2, <2>5, AppendFacts
    <3>2. 1 \in subs => /\ queue'[1] = Queued(queue[1], v)
                        /\ missed'[1] = Missed(queue[1], missed[1])
      BY <1>1, <2>2, <2>5 DEF Deliver
    <3>3. 1 \in subs => Shown(feed, queue'[1], log', missed'[1])
      BY <1>0, <1>1, <3>1, <3>2, ShownSend
    <3> QED
      BY <2>4, <3>1, <3>3
  <2>6. CASE s # 1
    <3>1. log' = log /\ queue' = queue /\ missed' = missed
      BY <1>0, <2>2, <2>6 DEF Deliver
    <3> QED
      BY <1>0, <2>4, <3>1
  <2> QED
    BY <2>5, <2>6
<1> QED
  BY <1>2, <1>3, <1>4, <1>5

LEMMA FeedNext == ShapeInv /\ FeedInv /\ [Next]_vars => FeedInv'
<1> SUFFICES ASSUME ShapeInv, FeedInv, [Next]_vars PROVE FeedInv'
  OBVIOUS
<1>1. UNCHANGED setup
  BY WriterChannel, PumpMoves DEF Next, vars, BinderStep, CallHook, Seed, SeedNotify, ReadFirst,
     CreateSignal, Spawn, Announce, SubscribePump, DrainReady, DropBinding
<1>2. CASE ~(IsFeed /\ ~setup.pool)
  BY <1>1, <1>2 DEF FeedInv, IsFeed
<1>3. CASE IsFeed /\ ~setup.pool
  <2>1. CASE BinderStep \/ DropBinding
    BY <1>3, <2>1, FeedBinder
  <2>2. CASE \E s \in Slots : PumpStep(s)
    BY <1>3, <2>2, FeedPump
  <2>3. CASE \E w \in Writers : FetchStep(w) \/ Call(w)
    BY <1>3, <2>3, FeedWriter
  <2>4. CASE UNCHANGED vars
    BY <2>4, FeedStays DEF vars, chanVars, pumpVars
  <2> QED
    BY <2>1, <2>2, <2>3, <2>4 DEF Next
<1> QED
  BY <1>2, <1>3

-----------------------------------------------------------------------------
(***************************************************************************)
(* The invariant and what it says                                          *)
(***************************************************************************)

LEMMA BindingsInvInit == Init => BindingsInv
<1> SUFFICES ASSUME Init PROVE BindingsInv
  OBVIOUS
<1>1. ShapeInv
  BY ShapeInit
<1>2. HeardInv
  BY DEF Init, HeardInv
<1>3. FeedInv
  <2>1. Len(<<>>) = 0 /\ <<>> \in Seq(Nat) /\ <<>> \o <<>> = <<>> /\ Ends(<<>>, <<>>)
    BY EmptySeq, ConcatEmptySeq, EndsEmpty
  <2>2. Shown(<<>>, <<>>, <<>>, 0)
    BY <2>1 DEF Shown
  <2>3. /\ bind.at = "unbound" /\ feed = <<>> /\ log = <<>> /\ queue[1] = <<>> /\ missed[1] = 0
        /\ ~stop /\ (\A s \in Slots : pump[s] = "none") /\ subs \subseteq {1}
        /\ IsFeed => 1 \in subs
    BY SlotFacts DEF Init, IsFeed
  <2>4. Len(feed) <= FeedCap
    BY <2>1, <2>3, CapFacts
  <2> QED
    BY <2>1, <2>2, <2>3, <2>4 DEF FeedInv
<1> QED
  BY <1>1, <1>2, <1>3 DEF BindingsInv

LEMMA BindingsInvNext == BindingsInv /\ [Next]_vars => BindingsInv'
  BY ShapeNext, HeardNext, FeedNext DEF BindingsInv

\* How a sequence ends, said as FeedIsSuffix says it.
LEMMA EndsIsSubSeq ==
  ASSUME NEW t \in Seq(Nat), NEW s \in Seq(Nat), Ends(t, s)
  PROVE  t = SubSeq(s, Len(s) - Len(t) + 1, Len(s))
<1>1. PICK a \in Nat, b \in Nat : a = Len(t) /\ b = Len(s) /\ a <= b
  BY LenProperties DEF Ends
<1>0. b - a + 1 \in Nat /\ b - a + 1 >= 1
  BY <1>1
<1>2. PICK m \in Nat : m = b - a + 1 /\ m >= 1
  BY <1>0
<1>3. \A i \in m .. b : s[i] \in Nat
  BY <1>1, <1>2, ElementOfSeq
<1>4. PICK u : u = SubSeq(s, m, b)
  OBVIOUS
<1>5. /\ u \in Seq(Nat)
      /\ Len(u) = IF m <= b THEN b - m + 1 ELSE 0
      /\ \A i \in 1 .. b - m + 1 : u[i] = s[m + i - 1]
  BY <1>1, <1>2, <1>3, <1>4, SubSeqProperties
<1>6. Len(u) = a
  BY <1>1, <1>2, <1>5
<1>7. ASSUME NEW i \in 1 .. a PROVE u[i] = t[i]
  <2>1. t[i] = s[b - a + i]
    BY <1>1 DEF Ends
  <2>2. u[i] = s[m + i - 1] /\ m + i - 1 = b - a + i
    BY <1>1, <1>2, <1>5
  <2> QED
    BY <2>1, <2>2
<1>8. t = u
  BY <1>1, <1>5, <1>6, <1>7, SeqEqual
<1> QED
  BY <1>1, <1>2, <1>4, <1>8

\* hooks.rs: a signal that is created, subscribed and pumped on one thread has
\* heard of every announced change, and use_activity_feed shows consecutive
\* events that end with the newest it received.
THEOREM AnnouncementsAreHeard == Spec => []HeardInOrder
<1>1. BindingsInv => HeardInOrder
  <2> SUFFICES ASSUME BindingsInv PROVE HeardInOrder
    OBVIOUS
  <2>1. TypeOK /\ HeardInv /\ FeedInv /\ ShapeInv
    BY DEF BindingsInv, ShapeInv
  <2>2. NothingMissed
    BY <2>1 DEF NothingMissed, HeardInv
  <2>3. ASSUME IsFeed, ~setup.pool, missed[1] = 0, 1 \in subs
        PROVE  /\ Len(feed) <= FeedCap
               /\ feed \o queue[1] = SubSeq(log, Len(log) - Len(feed \o queue[1]) + 1, Len(log))
    <3>1. feed \in Seq(Nat) /\ queue[1] \in Seq(Nat) /\ log \in Seq(Nat)
      BY <2>1, <2>3, SlotFacts DEF FeedInv, ShapeInv, TypeOK, InnerType, Words, IsQuery, IsFeed,
         QueryKinds
    <3>2. Len(feed) <= FeedCap /\ Ends(feed \o queue[1], log)
      BY <2>1, <2>3 DEF FeedInv, Shown
    <3>3. feed \o queue[1] \in Seq(Nat)
      BY <3>1, ConcatProperties
    <3> QED
      BY <3>1, <3>2, <3>3, EndsIsSubSeq
  <2>4. FeedIsSuffix
    BY <2>3 DEF FeedIsSuffix
  <2> QED
    BY <2>1, <2>2, <2>4 DEF HeardInOrder
<1> QED
  BY BindingsInvInit, BindingsInvNext, <1>1, PTL DEF Spec

-----------------------------------------------------------------------------
(***************************************************************************)
(* After the binding is dropped                                            *)
(***************************************************************************)

\* The stop token is cancelled while every pump of the thread is suspended,
\* and a pump that wakes after that ends before it reads.
StoppedInv ==
  bind.at = "dropped" =>
    /\ stop /\ setup.kind \in {"use_query", "use_infinite_query"}
    /\ ~setup.pool => \A s \in Slots : pump[s] \in PumpRests

LEMMA StoppedNext == ShapeInv /\ StoppedInv /\ [Next]_vars => StoppedInv'
<1> SUFFICES ASSUME ShapeInv, StoppedInv, [Next]_vars PROVE StoppedInv'
  OBVIOUS
<1>0. pump \in [Slots -> PumpRests \cup {"read", "stale", "set"}]
  BY DEF ShapeInv, TypeOK
<1>1. CASE BinderStep
  <2>1. bind'.at # "dropped"
    BY <1>1 DEF BinderStep, CallHook, Seed, SeedNotify, ReadFirst, CreateSignal, Spawn, Announce,
       SubscribePump, DrainReady, Binds, Bind, Entry, AfterCreate
  <2> QED
    BY <2>1 DEF StoppedInv
<1>2. CASE DropBinding
  BY <1>2 DEF DropBinding, Binds, MayRun, StoppedInv, Bind, pumpVars
<1>3. CASE \E s \in Slots : PumpStep(s)
  <2>1. PICK s \in Slots : PumpStep(s)
    BY <1>3
  <2>2. UNCHANGED <<setup, bind, stop>>
    BY <2>1, PumpMoves
  <2>3. ASSUME bind.at = "dropped", ~setup.pool PROVE \A t \in Slots : pump'[t] \in PumpRests
    <3>1. stop /\ ~IsFeed /\ \A t \in Slots : pump[t] \in PumpRests
      BY <2>3 DEF StoppedInv, IsFeed
    <3>2. RecvLag(s) \/ RecvValue(s)
      BY <2>1, <3>1 DEF PumpStep, PumpRead, PumpCompute, PumpSet, Pumps, PumpRests
    <3>3. pump' = [pump EXCEPT ![s] = "ended"]
      BY <3>1, <3>2 DEF RecvLag, RecvValue, PumpTo
    <3> QED
      BY <1>0, <3>1, <3>3 DEF PumpRests
  <2> QED
    BY <2>2, <2>3 DEF StoppedInv
<1>4. CASE \E w \in Writers : FetchStep(w) \/ Call(w)
  <2>1. UNCHANGED <<setup, bind, stop, pump>>
    BY <1>4, WriterChannel DEF pumpVars
  <2> QED
    BY <2>1 DEF StoppedInv
<1>5. CASE UNCHANGED vars
  BY <1>5 DEF StoppedInv, vars, pumpVars
<1> QED
  BY <1>1, <1>2, <1>3, <1>4, <1>5 DEF Next

\* hooks.rs: Drop of UseQuery and UseInfiniteQuery.  On one thread a dropped
\* binding never changes its signal again.
THEOREM DropIsFinal == Spec => DroppedIsSilent
<1>1. Init => ShapeInv /\ StoppedInv
  BY ShapeInit DEF Init, StoppedInv
<1>2. ShapeInv /\ StoppedInv /\ [Next]_vars => ShapeInv' /\ StoppedInv'
  BY ShapeNext, StoppedNext
<1>3. StoppedInv /\ [Next]_vars =>
        [~setup.pool /\ bind.at = "dropped" => UNCHANGED <<signal, feed>>]_vars
  <2> SUFFICES ASSUME StoppedInv, [Next]_vars, ~setup.pool, bind.at = "dropped"
               PROVE  UNCHANGED <<signal, feed>>
    OBVIOUS
  <2>0. ~IsFeed /\ \A s \in Slots : pump[s] \in PumpRests
    BY DEF StoppedInv, IsFeed
  <2>1. CASE BinderStep \/ DropBinding
    BY <2>1 DEF BinderStep, CallHook, Seed, SeedNotify, ReadFirst, CreateSignal, Spawn, Announce,
       SubscribePump, DrainReady, DropBinding, Binds
  <2>2. CASE \E s \in Slots : PumpStep(s)
    <3>1. PICK s \in Slots : RecvLag(s) \/ RecvValue(s)
      BY <2>0, <2>2 DEF PumpStep, PumpRead, PumpCompute, PumpSet, Pumps, PumpRests
    <3> QED
      BY <2>0, <3>1 DEF RecvLag, RecvValue
  <2>3. CASE \E w \in Writers : FetchStep(w) \/ Call(w)
    BY <2>3 DEF FetchStep, FetchOk, FetchErr, NotifyFetched, Inc, AnnounceUp, Dec, AnnounceDown,
       NotifyWrite, Call, CallSetQueryData, CallSpawn, CallInvalidate, CallCancel, CallAppendPage,
       CallRemove, CallSilent, pumpVars
  <2>4. CASE UNCHANGED vars
    BY <2>4 DEF vars, pumpVars
  <2> QED
    BY <2>1, <2>2, <2>3, <2>4 DEF Next
<1> QED
  BY <1>1, <1>2, <1>3, PTL DEF Spec, DroppedIsSilent
=============================================================================
