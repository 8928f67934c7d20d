---------------------------- MODULE Wakeups_proofs ----------------------------
(***************************************************************************)
(* Proofs about the components whose whole point is that a sleeper is      *)
(* woken and told the truth: the broadcast channel, for any numbers of     *)
(* receivers and senders and any capacity; the scope of mutations, for any *)
(* number of mutations, any retry budget and, unless a theorem says        *)
(* otherwise, any use of the cache; the handles of a spawned task, for any *)
(* number of callers and calls; the query observer, for any number of      *)
(* observers, any capacity and any calls; and the notify manager, for any  *)
(* threads and any calls.  They share nothing but this module.             *)
(***************************************************************************)
EXTENDS Bus, MutationScope, TaskHandle, Observer, NotifyManager, FiniteSetTheorems, SequenceTheorems, TLAPS

-----------------------------------------------------------------------------
(***************************************************************************)
(* The channel (src/bus.rs)                                                *)
(***************************************************************************)


\* bus.rs channel(): capacity.max(1) is at least one.
LEMMA CapPositive == Cap \in Nat /\ Cap >= 1
  BY CapacityAssumption DEF Cap

\* poll_state: what is left of a queue after its oldest value is taken.
LEMMA TailFacts ==
  ASSUME NEW q \in Seq(Nat), q # <<>>
  PROVE  \E t \in Seq(Nat) : /\ t = Tail(q)
                             /\ Len(t) = Len(q) - 1
                             /\ \A i \in 1..Len(t) : t[i] = q[i + 1]
  BY HeadTailProperties

\* Sender::send on a full queue: it keeps its length, gives up its oldest value
\* and counts it.
LEMMA QueuedFull ==
  ASSUME NEW q \in Seq(Nat), NEW v \in Nat, NEW n \in Nat, Len(q) >= Cap
  PROVE  /\ Queued(q, v) \in Seq(Nat)
         /\ Len(Queued(q, v)) = Len(q)
         /\ Missed(q, n) = n + 1
         /\ \A i \in 1..Len(q) : Queued(q, v)[i] = IF i = Len(q) THEN v ELSE q[i + 1]
<1>1. q # <<>>
  BY CapPositive
<1>2. PICK t \in Seq(Nat) : /\ t = Tail(q)
                            /\ Len(t) = Len(q) - 1
                            /\ \A i \in 1..Len(t) : t[i] = q[i + 1]
  BY <1>1, TailFacts
<1>3. Queued(q, v) = Append(t, v) /\ Missed(q, n) = n + 1
  BY <1>2 DEF Queued, Missed
<1>4. PICK w \in Seq(Nat) : /\ w = Queued(q, v)
                            /\ Len(w) = Len(t) + 1
                            /\ \A i \in 1..Len(t) : w[i] = t[i]
                            /\ w[Len(t) + 1] = v
  BY <1>3, AppendProperties
<1>5. ASSUME NEW i \in 1..Len(q) PROVE w[i] = IF i = Len(q) THEN v ELSE q[i + 1]
  <2>1. CASE i = Len(q)
    BY <1>2, <1>4, <2>1
  <2>2. CASE i # Len(q)
    <3>1. Len(q) \in Nat /\ Len(t) = Len(q) - 1
      BY <1>2, LenProperties
    <3>2. i \in 1..Len(t)
      BY ONLY <3>1, <2>2, i \in 1..Len(q), SMTT(30)
    <3> QED
      BY <1>2, <1>4, <2>2, <3>2
  <2> QED
    BY <2>1, <2>2
<1>6. Len(w) = Len(q)
  BY <1>2, <1>4
<1> QED
  BY <1>3, <1>4, <1>5, <1>6

\* Sender::send on a queue with room: it grows by one and nothing is lost.
LEMMA QueuedRoom ==
  ASSUME NEW q \in Seq(Nat), NEW v \in Nat, NEW n \in Nat, Len(q) < Cap
  PROVE  /\ Queued(q, v) \in Seq(Nat)
         /\ Len(Queued(q, v)) = Len(q) + 1
         /\ Missed(q, n) = n
         /\ \A i \in 1..(Len(q) + 1) : Queued(q, v)[i] = IF i = Len(q) + 1 THEN v ELSE q[i]
<1>1. Queued(q, v) = Append(q, v) /\ Missed(q, n) = n
  BY CapPositive DEF Queued, Missed
<1>2. PICK w \in Seq(Nat) : /\ w = Queued(q, v)
                            /\ Len(w) = Len(q) + 1
                            /\ \A i \in 1..Len(q) : w[i] = q[i]
                            /\ w[Len(q) + 1] = v
  BY <1>1, AppendProperties
<1>3. ASSUME NEW i \in 1..(Len(q) + 1) PROVE w[i] = IF i = Len(q) + 1 THEN v ELSE q[i]
  <2>1. CASE i = Len(q) + 1
    BY <1>2, <2>1
  <2>2. CASE i # Len(q) + 1
    <3>1. i \in 1..Len(q)
      BY <2>2
    <3> QED
      BY <1>2, <2>2, <3>1
  <2> QED
    BY <2>1, <2>2
<1> QED
  BY <1>1, <1>2, <1>3

\* Either way the queue and the count keep their types.
LEMMA QueuedType ==
  ASSUME NEW q \in Seq(Nat), NEW v \in Nat, NEW n \in Nat
  PROVE  Queued(q, v) \in Seq(Nat) /\ Missed(q, n) \in Nat
<1>1. CASE Len(q) >= Cap
  <2>1. Queued(q, v) \in Seq(Nat) /\ Missed(q, n) = n + 1
    BY <1>1, QueuedFull, Zenon
  <2> QED
    BY <2>1
<1>2. CASE Len(q) < Cap
  <2>1. Queued(q, v) \in Seq(Nat) /\ Missed(q, n) = n
    BY <1>2, QueuedRoom, Zenon
  <2> QED
    BY <2>1
<1> QED
  BY <1>1, <1>2, CapPositive

\* Sender::send, receiver by receiver.
LEMMA SendFacts ==
  ASSUME TypeOK, NEW s \in Senders, Send(s), NEW r \in Receivers
  PROVE  /\ nsent' = nsent + 1
         /\ UNCHANGED <<senders, senderCount, sendersAlive, phase, alive, task, out>>
         /\ (phase[r] = "live" /\ alive[r])
              => /\ queue'[r] = Queued(queue[r], nsent + 1)
                 /\ missed'[r] = Missed(queue[r], missed[r])
                 /\ waker[r] => r \in wakes'
         /\ ~(phase[r] = "live" /\ alive[r])
              => queue'[r] = queue[r] /\ missed'[r] = missed[r] /\ waker'[r] = waker[r]
         /\ r \in wakes => r \in wakes'
  BY DEF TypeOK, Send, Live

\* <Sender as Drop>::drop: a stream that ends takes the waker of every
\* receiver in the map.
LEMMA ReleaseFacts ==
  ASSUME TypeOK, ReleaseSender
  PROVE  /\ senderCount' \in Nat
         /\ sendersAlive' \in BOOLEAN
         /\ wakes' \subseteq Receivers
         /\ waker' \in [Receivers -> BOOLEAN]
         /\ sendersAlive' => sendersAlive
         /\ senderCount <= 1 => ~sendersAlive'
         /\ \A r \in Receivers :
              /\ r \in wakes => r \in wakes'
              /\ phase[r] = "live" /\ waker[r] => waker'[r] \/ r \in wakes'
              /\ phase[r] = "live" /\ waker[r] /\ sendersAlive /\ ~sendersAlive' => r \in wakes'
<1>1. CASE senderCount <= 1
  <2>1. /\ sendersAlive' = FALSE
        /\ wakes' = wakes \cup {r \in Live : waker[r]}
        /\ waker' = [r \in Receivers |-> IF r \in Live THEN FALSE ELSE waker[r]]
    BY <1>1 DEF ReleaseSender
  <2>2. senderCount' \in Nat
    BY DEF ReleaseSender, TypeOK
  <2>3. waker' \in [Receivers -> BOOLEAN]
    BY <2>1 DEF TypeOK
  <2>4. wakes' \subseteq Receivers
    BY <2>1 DEF TypeOK, Live
  <2> QED
    BY <2>1, <2>2, <2>3, <2>4 DEF Live
<1>2. CASE ~(senderCount <= 1)
  <2>1. UNCHANGED <<sendersAlive, wakes, waker>>
    BY <1>2 DEF ReleaseSender
  <2>2. senderCount' \in Nat
    BY DEF ReleaseSender, TypeOK
  <2> QED
    BY <1>2, <2>1, <2>2 DEF TypeOK
<1> QED
  BY <1>1, <1>2

-----------------------------------------------------------------------------
(***************************************************************************)
(* Type correctness                                                        *)
(***************************************************************************)

LEMMA TypeInit == Init => TypeOK
  BY DEF Init, TypeOK

LEMMA TypeStep == TypeOK /\ [Next]_vars => TypeOK'
<1> SUFFICES ASSUME TypeOK, [Next]_vars PROVE TypeOK'
  OBVIOUS
<1> USE DEF TypeOK
<1>1. CASE UNCHANGED vars
  BY <1>1 DEF vars
<1>2. ASSUME NEW s \in Senders, Send(s) PROVE TypeOK'
  <2>1. \A r \in Receivers : /\ Queued(queue[r], nsent + 1) \in Seq(Nat)
                             /\ Missed(queue[r], missed[r]) \in Nat
    BY QueuedType
  <2>2. queue' \in [Receivers -> Seq(Nat)] /\ missed' \in [Receivers -> Nat]
    BY <1>2, <2>1 DEF Send
  <2>3. wakes' \subseteq Receivers /\ waker' \in [Receivers -> BOOLEAN]
    BY <1>2 DEF Send, Live
  <2>4. nsent' \in Nat
    BY <1>2 DEF Send
  <2>5. UNCHANGED <<senders, senderCount, sendersAlive, phase, alive, task, out>>
    BY <1>2 DEF Send
  <2> QED
    BY <2>2, <2>3, <2>4, <2>5
<1>3. ASSUME NEW s \in Senders, DropSender(s) PROVE TypeOK'
  BY <1>3, ReleaseFacts DEF DropSender
<1>4. ASSUME NEW s \in Senders, NEW t \in Senders, CloneSender(s, t) PROVE TypeOK'
  BY <1>4 DEF CloneSender
<1>5. ASSUME NEW s \in Senders, NEW r \in Receivers, Subscribe(s, r) PROVE TypeOK'
  BY <1>5 DEF Subscribe
<1>6. ASSUME NEW q \in Receivers, NEW r \in Receivers, CloneReceiver(q, r) PROVE TypeOK'
  BY <1>6, ReleaseFacts DEF CloneReceiver
<1>7. ASSUME NEW r \in Receivers, Recv(r) PROVE TypeOK'
  <2>1. CASE RecvValue(r)
    <3>1. Tail(queue[r]) \in Seq(Nat)
      BY <2>1, HeadTailProperties DEF RecvValue
    <3> QED
      BY <2>1, <3>1 DEF RecvValue
  <2>2. CASE RecvLagged(r) \/ RecvClosed(r) \/ RecvPark(r)
    <3>1. CASE RecvLagged(r)
      BY <3>1 DEF RecvLagged
    <3>2. CASE RecvClosed(r)
      BY <3>2 DEF RecvClosed
    <3>3. CASE RecvPark(r)
      BY <3>3 DEF RecvPark
    <3> QED
      BY <2>2, <3>1, <3>2, <3>3
  <2> QED
    BY <1>7, <2>1, <2>2 DEF Recv
<1>8. ASSUME NEW r \in Receivers,
             TryRecvEmpty(r) \/ Wake(r) \/ SpuriousPoll(r) \/ DropReceiver(r)
      PROVE  TypeOK'
  BY <1>8 DEF TryRecvEmpty, Wake, SpuriousPoll, DropReceiver
<1> QED
  BY <1>1, <1>2, <1>3, <1>4, <1>5, <1>6, <1>7, <1>8 DEF Next

\* bus.rs: the channel state keeps its types; sender_count never goes below
\* zero, Receiver::clone included.
THEOREM TypeCorrect == Spec => []TypeOK
  BY TypeInit, TypeStep, PTL DEF Spec

-----------------------------------------------------------------------------
(***************************************************************************)
(* Queues, lag accounting and wakeups                                      *)
(***************************************************************************)

\* The inductive invariant, for one receiver: a handle not handed out is
\* fresh; one that was told Closed has nothing queued and no stream to wait
\* for; one in the map has the newest values in its queue, is full when it has
\* lost something, and sleeps only with a waker registered or taken.
Fresh(r) == phase[r] = "unused" =>
              queue[r] = <<>> /\ missed[r] = 0 /\ alive[r] /\ task[r] = "run"

Drained(r) == ~alive[r] => ~sendersAlive /\ queue[r] = <<>> /\ missed[r] = 0

Suffix(r) == (phase[r] = "live" /\ alive[r]) =>
               \A i \in 1..Len(queue[r]) : queue[r][i] = nsent - Len(queue[r]) + i

Full(r) == phase[r] = "live" =>
             Len(queue[r]) <= Cap /\ (missed[r] > 0 => Len(queue[r]) = Cap)

Notified(r) == (phase[r] = "live" /\ task[r] = "asleep") =>
              (waker[r] \/ r \in wakes) /\ (~Empty(r) => r \in wakes)

BusInv == TypeOK /\ \A r \in Receivers : Fresh(r) /\ Drained(r) /\ Suffix(r) /\ Full(r) /\ Notified(r)

LEMMA BusInvInit == Init => BusInv
<1> SUFFICES ASSUME Init PROVE BusInv
  OBVIOUS
<1>1. TypeOK
  BY TypeInit
<1>2. \A r \in Receivers : Fresh(r) /\ Drained(r) /\ Notified(r)
  BY DEF Init, Fresh, Drained, Notified
<1>3. \A r \in Receivers : Len(queue[r]) = 0 /\ missed[r] = 0
  BY DEF Init
<1>4. \A r \in Receivers : Suffix(r) /\ Full(r)
  BY <1>3, CapPositive DEF Suffix, Full
<1> QED
  BY <1>1, <1>2, <1>4 DEF BusInv

\* A step that leaves queues, lag counts, positions in the map and the
\* liveness of receivers alone keeps what is said about them.
LEMMA QueuesUntouched ==
  ASSUME BusInv, NEW r \in Receivers,
         UNCHANGED <<nsent, phase, queue, missed, alive, task>>,
         sendersAlive' => sendersAlive
  PROVE  Fresh(r)' /\ Drained(r)' /\ Suffix(r)' /\ Full(r)'
<1>1. Fresh(r) /\ Drained(r) /\ Suffix(r) /\ Full(r)
  BY DEF BusInv
<1>2. Fresh(r)' /\ Drained(r)'
  BY <1>1 DEF Fresh, Drained
<1>3. Suffix(r)' /\ Full(r)'
  BY <1>1 DEF Suffix, Full
<1> QED
  BY <1>2, <1>3

\* A receiver r that joins is fresh; a receiver already in the map keeps its
\* waker or has it taken.
LEMMA Joined ==
  ASSUME BusInv, NEW r \in Receivers, NEW x \in Receivers,
         UNCHANGED <<nsent, queue, missed, alive, task>>,
         phase[r] = "unused",
         phase' = [phase EXCEPT ![r] = "live"],
         sendersAlive' => sendersAlive,
         x \in wakes => x \in wakes',
         phase[x] = "live" /\ waker[x] => waker'[x] \/ x \in wakes',
         phase[x] = "live" /\ waker[x] /\ sendersAlive /\ ~sendersAlive' => x \in wakes'
  PROVE  Fresh(x)' /\ Drained(x)' /\ Suffix(x)' /\ Full(x)' /\ Notified(x)'
<1>1. TypeOK /\ Fresh(x) /\ Drained(x) /\ Suffix(x) /\ Full(x) /\ Notified(x)
  BY DEF BusInv
<1>2. CASE x = r
  <2>1. queue[x] = <<>> /\ missed[x] = 0 /\ alive[x] /\ task[x] = "run" /\ phase'[x] = "live"
    BY <1>1, <1>2 DEF Fresh, TypeOK
  <2>2. Fresh(x)' /\ Drained(x)' /\ Notified(x)'
    BY <2>1 DEF Fresh, Drained, Notified
  <2>3. Len(queue'[x]) = 0 /\ missed'[x] = 0
    BY <2>1
  <2>4. Suffix(x)' /\ Full(x)'
    BY <2>3, CapPositive DEF Suffix, Full
  <2> QED
    BY <2>2, <2>4
<1>3. CASE x # r
  <2>1. phase'[x] = phase[x]
    BY <1>1, <1>3 DEF TypeOK
  <2>2. Fresh(x)' /\ Drained(x)'
    BY <1>1, <2>1 DEF Fresh, Drained
  <2>3. Suffix(x)' /\ Full(x)'
    BY <1>1, <2>1 DEF Suffix, Full
  <2>4. Notified(x)'
    BY <1>1, <2>1 DEF Notified, Empty
  <2> QED
    BY <2>2, <2>3, <2>4
<1> QED
  BY <1>2, <1>3

LEMMA BusInvStep == BusInv /\ [Next]_vars => BusInv'
<1> SUFFICES ASSUME BusInv, [Next]_vars PROVE BusInv'
  OBVIOUS
<1>1. TypeOK /\ TypeOK'
  BY TypeStep DEF BusInv
<1> SUFFICES ASSUME NEW x \in Receivers
             PROVE  Fresh(x)' /\ Drained(x)' /\ Suffix(x)' /\ Full(x)' /\ Notified(x)'
  BY <1>1 DEF BusInv
<1>2. Fresh(x) /\ Drained(x) /\ Suffix(x) /\ Full(x) /\ Notified(x)
  BY DEF BusInv
<1>3. CASE UNCHANGED vars
  <2>1. Notified(x)'
    BY <1>2, <1>3 DEF vars, Notified, Empty
  <2> QED
    BY <1>3, <2>1, QueuesUntouched DEF vars
<1>4. ASSUME NEW s \in Senders, Send(s)
      PROVE  Fresh(x)' /\ Drained(x)' /\ Suffix(x)' /\ Full(x)' /\ Notified(x)'
  <2>1. CASE ~(phase[x] = "live" /\ alive[x])
    <3>1. /\ UNCHANGED <<phase, alive, task, sendersAlive>>
          /\ queue'[x] = queue[x] /\ missed'[x] = missed[x] /\ waker'[x] = waker[x]
          /\ x \in wakes => x \in wakes'
      BY <1>1, <1>4, <2>1, SendFacts
    <3>2. Fresh(x)' /\ Drained(x)'
      BY <1>2, <3>1 DEF Fresh, Drained
    <3>3. Suffix(x)' /\ Full(x)'
      BY <1>2, <2>1, <3>1 DEF Suffix, Full
    <3>4. Notified(x)'
      BY <1>2, <2>1, <3>1 DEF Notified, Empty
    <3> QED
      BY <3>2, <3>3, <3>4
  <2>2. CASE phase[x] = "live" /\ alive[x]
    <3> DEFINE q == queue[x]
               w == Queued(q, nsent + 1)
    <3>1. /\ UNCHANGED <<phase, alive, task, sendersAlive>>
          /\ nsent' = nsent + 1
          /\ queue'[x] = w
          /\ missed'[x] = Missed(q, missed[x])
          /\ waker[x] => x \in wakes'
          /\ x \in wakes => x \in wakes'
      BY <1>1, <1>4, <2>2, SendFacts
    <3>2. /\ q \in Seq(Nat) /\ Len(q) \in Nat
          /\ nsent \in Nat /\ nsent + 1 \in Nat /\ missed[x] \in Nat
      BY <1>1 DEF TypeOK
    <3>3. Fresh(x)' /\ Drained(x)'
      BY <2>2, <3>1 DEF Fresh, Drained
    <3>4. Notified(x)'
      BY <1>2, <2>2, <3>1 DEF Notified
    <3>5. CASE Len(q) >= Cap
      <4>1. /\ Len(w) = Len(q)
            /\ \A i \in 1..Len(q) : w[i] = IF i = Len(q) THEN nsent + 1 ELSE q[i + 1]
        BY <3>2, <3>5, QueuedFull, Zenon
      <4>2. /\ Len(queue'[x]) = Len(q)
            /\ \A i \in 1..Len(q) :
                 queue'[x][i] = IF i = Len(q) THEN nsent + 1 ELSE q[i + 1]
        BY <3>1, <4>1, Zenon
      <4>3. Len(q) = Cap
        BY <1>2, <2>2, <3>2, <3>5, CapPositive DEF Full
      <4>4. Full(x)'
        BY <3>1, <4>2, <4>3, CapPositive DEF Full
      <4>5. ASSUME NEW i \in 1..Len(q) PROVE queue'[x][i] = nsent' - Len(q) + i
        <5>1. CASE i = Len(q)
          <6>1. queue'[x][i] = nsent + 1
            BY ONLY <4>2, <5>1
          <6>2. i \in Int /\ nsent \in Int /\ nsent' = nsent + 1
            BY <3>1, <3>2, <5>1
          <6> QED
            BY ONLY <5>1, <6>1, <6>2
        <5>2. CASE i # Len(q)
          <6>1. i + 1 \in 1..Len(q) /\ queue'[x][i] = q[i + 1]
            BY <3>2, <4>2, <5>2
          <6>2. q[i + 1] = nsent - Len(q) + (i + 1)
            BY <1>2, <2>2, <6>1 DEF Suffix
          <6>3. Len(q) \in Int /\ nsent \in Int /\ i \in Int /\ nsent' = nsent + 1
            BY <3>1, <3>2
          <6> HIDE DEF q
          <6> QED
            BY <6>1, <6>2, <6>3
        <5> QED
          BY <5>1, <5>2
      <4>6. Suffix(x)'
        BY <4>2, <4>5 DEF Suffix
      <4> QED
        BY <3>3, <3>4, <4>4, <4>6
    <3>6. CASE Len(q) < Cap
      <4>1. /\ Len(w) = Len(q) + 1
            /\ Missed(q, missed[x]) = missed[x]
            /\ \A i \in 1..(Len(q) + 1) : w[i] = IF i = Len(q) + 1 THEN nsent + 1 ELSE q[i]
        BY <3>2, <3>6, QueuedRoom, Zenon
      <4>2. /\ Len(queue'[x]) = Len(q) + 1
            /\ missed'[x] = missed[x]
            /\ \A i \in 1..(Len(q) + 1) :
                 queue'[x][i] = IF i = Len(q) + 1 THEN nsent + 1 ELSE q[i]
        BY <3>1, <4>1, Zenon
      <4>3. missed[x] = 0
        BY <1>2, <2>2, <3>2, <3>6, CapPositive DEF Full
      <4>4. Full(x)'
        BY <3>1, <3>2, <3>6, <4>2, <4>3, CapPositive DEF Full
      <4>5. ASSUME NEW i \in 1..(Len(q) + 1) PROVE queue'[x][i] = nsent' - (Len(q) + 1) + i
        <5>1. CASE i = Len(q) + 1
          <6>1. queue'[x][i] = nsent + 1
            BY <4>2, <5>1
          <6>2. PICK y \in Nat, z \in Nat : y = Len(q) /\ z = nsent
            BY <3>2
          <6>3. z + 1 = (z + 1) - (y + 1) + (y + 1)
            BY ONLY y \in Nat, z \in Nat
          <6> QED
            BY <3>1, <5>1, <6>1, <6>2, <6>3
        <5>2. CASE i # Len(q) + 1
          <6>1. i \in 1..Len(q) /\ queue'[x][i] = q[i]
            BY <3>2, <4>2, <5>2
          <6>2. q[i] = nsent - Len(q) + i
            BY <1>2, <2>2, <6>1 DEF Suffix
          <6>3. Len(q) \in Int /\ nsent \in Int /\ i \in Int /\ nsent' = nsent + 1
            BY <3>1, <3>2
          <6> HIDE DEF q
          <6> QED
            BY <6>1, <6>2, <6>3
        <5> QED
          BY <5>1, <5>2
      <4>6. Suffix(x)'
        BY <4>2, <4>5 DEF Suffix
      <4> QED
        BY <3>3, <3>4, <4>4, <4>6
    <3> QED
      BY <3>2, <3>5, <3>6, CapPositive
  <2> QED
    BY <2>1, <2>2
<1>5. ASSUME NEW s \in Senders, DropSender(s)
      PROVE  Fresh(x)' /\ Drained(x)' /\ Suffix(x)' /\ Full(x)' /\ Notified(x)'
  <2>1. UNCHANGED <<nsent, phase, queue, missed, alive, task>> /\ ReleaseSender
    BY <1>5 DEF DropSender
  <2>2. Fresh(x)' /\ Drained(x)' /\ Suffix(x)' /\ Full(x)'
    BY <1>1, <2>1, QueuesUntouched, ReleaseFacts
  <2>3. Notified(x)'
    BY <1>1, <1>2, <2>1, ReleaseFacts DEF Notified, Empty
  <2> QED
    BY <2>2, <2>3
<1>6. ASSUME NEW q \in Receivers, NEW r \in Receivers, CloneReceiver(q, r)
      PROVE  Fresh(x)' /\ Drained(x)' /\ Suffix(x)' /\ Full(x)' /\ Notified(x)'
  <2>1. /\ UNCHANGED <<nsent, queue, missed, alive, task>>
        /\ ReleaseSender
        /\ phase[r] = "unused"
        /\ phase' = [phase EXCEPT ![r] = "live"]
    BY <1>6 DEF CloneReceiver
  <2> QED
    BY <1>1, <2>1, ReleaseFacts, Joined
<1>7. ASSUME NEW s \in Senders, NEW r \in Receivers, Subscribe(s, r)
      PROVE  Fresh(x)' /\ Drained(x)' /\ Suffix(x)' /\ Full(x)' /\ Notified(x)'
  BY <1>7, Joined DEF Subscribe
<1>8. ASSUME NEW s \in Senders, NEW t \in Senders, CloneSender(s, t)
      PROVE  Fresh(x)' /\ Drained(x)' /\ Suffix(x)' /\ Full(x)' /\ Notified(x)'
  <2>1. Notified(x)'
    BY <1>2, <1>8 DEF CloneSender, Notified, Empty
  <2> QED
    BY <1>8, <2>1, QueuesUntouched DEF CloneSender
<1>9. ASSUME NEW r \in Receivers, RecvLagged(r)
      PROVE  Fresh(x)' /\ Drained(x)' /\ Suffix(x)' /\ Full(x)' /\ Notified(x)'
  <2>1. /\ UNCHANGED <<nsent, sendersAlive, phase, queue, alive, waker, task, wakes>>
        /\ missed' = [missed EXCEPT ![r] = 0]
        /\ phase[r] = "live" /\ task[r] = "run"
    BY <1>9 DEF RecvLagged, Polls
  <2>2. missed'[x] = missed[x] \/ (missed'[x] = 0 /\ x = r)
    BY <1>1, <2>1 DEF TypeOK
  <2>3. Fresh(x)' /\ Drained(x)' /\ Notified(x)'
    BY <1>2, <2>1, <2>2 DEF Fresh, Drained, Notified, Empty
  <2>4. Suffix(x)' /\ Full(x)'
    BY <1>2, <2>1, <2>2 DEF Suffix, Full
  <2> QED
    BY <2>3, <2>4
<1>10. ASSUME NEW r \in Receivers, RecvValue(r)
       PROVE  Fresh(x)' /\ Drained(x)' /\ Suffix(x)' /\ Full(x)' /\ Notified(x)'
  <2>1. /\ UNCHANGED <<nsent, sendersAlive, phase, missed, alive, waker, task, wakes>>
        /\ queue' = [queue EXCEPT ![r] = Tail(queue[r])]
        /\ phase[r] = "live" /\ task[r] = "run"
        /\ queue[r] # <<>> /\ missed[r] = 0
    BY <1>10 DEF RecvValue, Polls
  <2>2. CASE x # r
    <3>1. queue'[x] = queue[x]
      BY <1>1, <2>1, <2>2 DEF TypeOK
    <3>2. Fresh(x)' /\ Drained(x)' /\ Notified(x)'
      BY <1>2, <2>1, <3>1 DEF Fresh, Drained, Notified, Empty
    <3>3. Suffix(x)' /\ Full(x)'
      BY <1>2, <2>1, <3>1 DEF Suffix, Full
    <3> QED
      BY <3>2, <3>3
  <2>3. CASE x = r
    <3>1. queue[x] \in Seq(Nat) /\ queue[x] # <<>> /\ missed[x] = 0
      BY <1>1, <2>1, <2>3 DEF TypeOK
    <3>2. PICK t \in Seq(Nat) : /\ t = Tail(queue[x])
                                /\ Len(t) = Len(queue[x]) - 1
                                /\ \A i \in 1..Len(t) : t[i] = queue[x][i + 1]
      BY <3>1, TailFacts, Zenon
    <3>3. queue'[x] = t
      BY <1>1, <2>1, <2>3, <3>2 DEF TypeOK
    <3>4. Fresh(x)' /\ Drained(x)' /\ Notified(x)'
      BY <1>2, <2>1, <2>3, <3>1 DEF Fresh, Drained, Notified
    <3>5. Full(x)'
      BY <1>2, <2>1, <2>3, <3>1, <3>2, <3>3, CapPositive DEF Full
    <3>6. ASSUME phase[x] = "live", alive[x], NEW i \in 1..Len(t)
          PROVE  t[i] = nsent - Len(t) + i
      <4>1. i + 1 \in 1..Len(queue[x]) /\ t[i] = queue[x][i + 1]
        BY <3>2
      <4>2. queue[x][i + 1] = nsent - Len(queue[x]) + (i + 1)
        BY <1>2, <3>6, <4>1 DEF Suffix
      <4>3. Len(t) \in Int /\ Len(queue[x]) = Len(t) + 1 /\ nsent \in Int
        BY <1>1, <3>1, <3>2 DEF TypeOK
      <4> QED
        BY <4>1, <4>2, <4>3
    <3>7. (phase'[x] = "live" /\ alive'[x]) =>
             \A i \in 1..Len(t) : t[i] = nsent' - Len(t) + i
      BY <2>1, <3>6
    <3>8. Suffix(x)'
      BY <3>3, <3>7, Zenon DEF Suffix
    <3> QED
      BY <3>4, <3>5, <3>8
  <2> QED
    BY <2>2, <2>3
<1>11. ASSUME NEW r \in Receivers, RecvClosed(r)
       PROVE  Fresh(x)' /\ Drained(x)' /\ Suffix(x)' /\ Full(x)' /\ Notified(x)'
  <2>1. /\ UNCHANGED <<nsent, sendersAlive, phase, queue, missed, waker, task, wakes>>
        /\ alive' = [alive EXCEPT ![r] = FALSE]
        /\ phase[r] = "live" /\ ~sendersAlive /\ queue[r] = <<>> /\ missed[r] = 0
    BY <1>11 DEF RecvClosed, Polls
  <2>2. alive'[x] = alive[x] \/ (~alive'[x] /\ x = r)
    BY <1>1, <2>1 DEF TypeOK
  <2>3. Fresh(x)' /\ Drained(x)' /\ Notified(x)'
    BY <1>2, <2>1, <2>2 DEF Fresh, Drained, Notified, Empty
  <2>4. Suffix(x)' /\ Full(x)'
    BY <1>2, <2>1, <2>2 DEF Suffix, Full
  <2> QED
    BY <2>3, <2>4
<1>12. ASSUME NEW r \in Receivers, RecvPark(r)
       PROVE  Fresh(x)' /\ Drained(x)' /\ Suffix(x)' /\ Full(x)' /\ Notified(x)'
  <2>1. /\ UNCHANGED <<nsent, sendersAlive, phase, queue, missed, alive, wakes>>
        /\ waker' = [waker EXCEPT ![r] = TRUE]
        /\ task' = [task EXCEPT ![r] = "asleep"]
        /\ phase[r] = "live" /\ Empty(r)
    BY <1>12 DEF RecvPark, Polls
  <2>2. (x = r /\ waker'[x]) \/ (x # r /\ waker'[x] = waker[x] /\ task'[x] = task[x])
    BY <1>1, <2>1 DEF TypeOK
  <2>3. Fresh(x)' /\ Drained(x)'
    BY <1>2, <2>1, <2>2 DEF Fresh, Drained
  <2>4. Suffix(x)' /\ Full(x)'
    BY <1>2, <2>1 DEF Suffix, Full
  <2>5. Notified(x)'
    BY <1>2, <2>1, <2>2 DEF Notified, Empty
  <2> QED
    BY <2>3, <2>4, <2>5
<1>13. ASSUME NEW r \in Receivers, TryRecvEmpty(r)
       PROVE  Fresh(x)' /\ Drained(x)' /\ Suffix(x)' /\ Full(x)' /\ Notified(x)'
  <2>1. Notified(x)'
    BY <1>2, <1>13 DEF TryRecvEmpty, Notified, Empty
  <2> QED
    BY <1>13, <2>1, QueuesUntouched DEF TryRecvEmpty
<1>14. ASSUME NEW r \in Receivers, Wake(r) \/ SpuriousPoll(r)
       PROVE  Fresh(x)' /\ Drained(x)' /\ Suffix(x)' /\ Full(x)' /\ Notified(x)'
  <2>1. /\ UNCHANGED <<nsent, sendersAlive, phase, queue, missed, alive, waker>>
        /\ task' = [task EXCEPT ![r] = "run"]
        /\ wakes \ {r} \subseteq wakes'
    BY <1>14 DEF Wake, SpuriousPoll
  <2>2. (x = r /\ task'[x] = "run") \/ (x # r /\ task'[x] = task[x])
    BY <1>1, <2>1 DEF TypeOK
  <2>3. Fresh(x)' /\ Drained(x)'
    BY <1>2, <2>1, <2>2 DEF Fresh, Drained
  <2>4. Suffix(x)' /\ Full(x)'
    BY <1>2, <2>1 DEF Suffix, Full
  <2>5. Notified(x)'
    BY <1>2, <2>1, <2>2 DEF Notified, Empty
  <2> QED
    BY <2>3, <2>4, <2>5
<1>15. ASSUME NEW r \in Receivers, DropReceiver(r)
       PROVE  Fresh(x)' /\ Drained(x)' /\ Suffix(x)' /\ Full(x)' /\ Notified(x)'
  <2>1. /\ UNCHANGED <<nsent, sendersAlive, queue, missed, alive, waker, task, wakes>>
        /\ phase' = [phase EXCEPT ![r] = "dropped"]
    BY <1>15 DEF DropReceiver
  <2>2. phase'[x] = phase[x] \/ phase'[x] = "dropped"
    BY <1>1, <2>1 DEF TypeOK
  <2>3. Fresh(x)' /\ Drained(x)'
    BY <1>2, <2>1, <2>2 DEF Fresh, Drained
  <2>4. Suffix(x)' /\ Full(x)'
    BY <1>2, <2>1, <2>2 DEF Suffix, Full
  <2>5. Notified(x)'
    BY <1>2, <2>1, <2>2 DEF Notified, Empty
  <2> QED
    BY <2>3, <2>4, <2>5
<1> QED
  BY <1>3, <1>4, <1>5, <1>6, <1>7, <1>8, <1>9, <1>10, <1>11, <1>12, <1>13, <1>14, <1>15
  DEF Next, Recv

\* bus.rs Sender::send / poll_state, for every capacity and any number of
\* handles: a listening receiver's queue is always the newest values in order.
THEOREM QueuesAreSuffixes == Spec => []QueueIsNewestSuffix
<1>1. BusInv => QueueIsNewestSuffix
  BY DEF BusInv, QueueIsNewestSuffix, Suffix, Live
<1> QED
  BY <1>1, BusInvInit, BusInvStep, PTL DEF Spec

\* A queue never exceeds the capacity, and a receiver with a lag notice to read
\* has a full queue behind it.
THEOREM LagIsFull == Spec => []LagMeansFull
<1>1. BusInv => LagMeansFull
  BY DEF BusInv, LagMeansFull, Full, Live
<1> QED
  BY <1>1, BusInvInit, BusInvStep, PTL DEF Spec

\* A sleeping receiver with something to observe has a wake on its way, even
\* when Receiver::clone ends the stream early.
THEOREM WakeupsAreNotLost == Spec => []NoLostWakeup
<1>1. BusInv => NoLostWakeup
  BY DEF BusInv, NoLostWakeup, Notified, Live
<1> QED
  BY <1>1, BusInvInit, BusInvStep, PTL DEF Spec

-----------------------------------------------------------------------------
(***************************************************************************)
(* The end of the stream and the refinement, without Receiver::clone       *)
(***************************************************************************)

\* sender_count counts the Sender handles, and Closed was returned only after
\* the last of them was gone.
CountInv ==
  /\ IsFiniteSet(senders)
  /\ senderCount = Cardinality(senders)
  /\ sendersAlive <=> senders # {}
  /\ \A r \in Receivers : out[r] = "closed" => ~sendersAlive

LEMMA CountInvInit == Init => CountInv
<1> SUFFICES ASSUME Init PROVE CountInv
  OBVIOUS
<1>1. PICK s \in Senders : senders = {s}
  BY DEF Init
<1>2. IsFiniteSet(senders) /\ Cardinality(senders) = 1
  BY <1>1, FS_Singleton
<1> QED
  BY <1>1, <1>2 DEF Init, CountInv

LEMMA CountInvStep ==
  ASSUME ~RxClone, TypeOK, CountInv, [Next]_vars
  PROVE  CountInv'
<1> USE DEF CountInv
<1>1. CASE UNCHANGED vars
  BY <1>1 DEF vars
<1>2. ASSUME NEW s \in Senders, DropSender(s) PROVE CountInv'
  <2>1. /\ IsFiniteSet(senders \ {s})
        /\ Cardinality(senders \ {s}) = Cardinality(senders) - 1
        /\ Cardinality(senders) \in Nat /\ Cardinality(senders) # 0
    BY <1>2, FS_RemoveElement, FS_CardinalityType, FS_EmptySet DEF DropSender
  <2>2. senders' = senders \ {s} /\ out' = out /\ ReleaseSender /\ senders # {}
    BY <1>2 DEF DropSender
  <2>3. senderCount' = Cardinality(senders')
    BY <2>1, <2>2 DEF ReleaseSender
  <2>4. senders' = {} <=> Cardinality(senders') = 0
    BY <2>1, <2>2, FS_EmptySet
  <2>5. CASE senderCount <= 1
    <3>1. sendersAlive' = FALSE /\ senders' = {}
      BY <2>1, <2>2, <2>4, <2>5 DEF ReleaseSender
    <3> QED
      BY <2>1, <2>2, <2>3, <3>1
  <2>6. CASE ~(senderCount <= 1)
    <3>1. sendersAlive' = sendersAlive /\ senders' # {}
      BY <2>1, <2>2, <2>4, <2>6 DEF ReleaseSender
    <3> QED
      BY <2>1, <2>2, <2>3, <3>1
  <2> QED
    BY <2>5, <2>6
<1>3. ASSUME NEW s \in Senders, NEW t \in Senders, CloneSender(s, t) PROVE CountInv'
  <2>1. /\ IsFiniteSet(senders \cup {t})
        /\ Cardinality(senders \cup {t}) = Cardinality(senders) + 1
    BY <1>3, FS_AddElement DEF CloneSender
  <2> QED
    BY <1>3, <2>1 DEF CloneSender
<1>4. ASSUME NEW s \in Senders, Send(s) PROVE CountInv'
  <2>1. UNCHANGED <<senders, senderCount, sendersAlive, out>>
    BY <1>4 DEF Send
  <2> QED
    BY <2>1
<1>5. ASSUME NEW s \in Senders, NEW r \in Receivers, Subscribe(s, r) PROVE CountInv'
  BY <1>5 DEF Subscribe
<1>6. ASSUME NEW q \in Receivers, NEW r \in Receivers, CloneReceiver(q, r) PROVE CountInv'
  BY <1>6 DEF CloneReceiver
<1>7. ASSUME NEW r \in Receivers,
             \/ RecvLagged(r) \/ RecvValue(r) \/ RecvClosed(r) \/ RecvPark(r)
             \/ TryRecvEmpty(r)
      PROVE  CountInv'
  <2>1. /\ UNCHANGED <<senders, senderCount, sendersAlive>>
        /\ \/ out' = [out EXCEPT ![r] = "closed"] /\ ~sendersAlive
           \/ \E v \in {"lagged", "value", "empty"} : out' = [out EXCEPT ![r] = v]
    BY <1>7 DEF RecvLagged, RecvValue, RecvClosed, RecvPark, TryRecvEmpty
  <2> QED
    BY <2>1 DEF TypeOK
<1>8. ASSUME NEW r \in Receivers, Wake(r) \/ SpuriousPoll(r) \/ DropReceiver(r)
      PROVE  CountInv'
  BY <1>8 DEF Wake, SpuriousPoll, DropReceiver
<1> QED
  BY <1>1, <1>2, <1>3, <1>4, <1>5, <1>6, <1>7, <1>8 DEF Next, Recv

\* bus.rs:16: when no Receiver is cloned, a receiver is told Closed only when
\* no Sender handle is left.
THEOREM ClosedIsLast == ASSUME ~RxClone PROVE Spec => []ClosedMeansNoSender
<1>1. CountInv => ClosedMeansNoSender
  BY DEF CountInv, ClosedMeansNoSender, Live
<1>2. Init => TypeOK /\ CountInv
  BY TypeInit, CountInvInit
<1>3. TypeOK /\ CountInv /\ [Next]_vars => (TypeOK /\ CountInv)'
  BY TypeStep, CountInvStep
<1> QED
  BY <1>1, <1>2, <1>3, PTL DEF Spec

\* Channel steps are steps of the log: send publishes, subscribe joins at
\* "now", a lag notice skips, a value is delivered in order, Closed ends.
LEMMA LogInit == Init => Log!Init
<1> SUFFICES ASSUME Init PROVE Log!Init
  OBVIOUS
<1>1. \A r \in Receivers : nsent - Len(queue[r]) - missed[r] = 0
  <2>1. nsent = 0 /\ \A r \in Receivers : Len(queue[r]) = 0 /\ missed[r] = 0
    BY DEF Init
  <2> QED
    BY <2>1
<1>2. PICK r \in Receivers :
         phase = [x \in Receivers |-> IF x = r THEN "live" ELSE "unused"]
  BY DEF Init
<1>3. [x \in Receivers |-> IF phase[x] = "live"
                           THEN nsent - Len(queue[x]) - missed[x] ELSE -1]
        = [x \in Receivers |-> IF x = r THEN 0 ELSE -1]
  BY <1>1, <1>2
<1>4. {x \in Receivers : ~alive[x]} = {}
  BY DEF Init
<1>5. nsent = 0 /\ \E s \in Senders : senders = {s}
  BY DEF Init
<1> QED
  BY <1>3, <1>4, <1>5 DEF Log!Init, Log!NoPos

\* A receiver in the map is owed no more than was sent.
Behind(r) == phase[r] = "live" => Len(queue[r]) + missed[r] <= nsent
BehindInv == \A r \in Receivers : Behind(r)

LEMMA BehindInit == Init => BehindInv
<1> SUFFICES ASSUME Init, NEW r \in Receivers PROVE Behind(r)
  BY DEF BehindInv
<1>1. nsent = 0 /\ Len(queue[r]) = 0 /\ missed[r] = 0
  BY DEF Init
<1> QED
  BY <1>1 DEF Behind

LEMMA BehindStep ==
  ASSUME BusInv, BusInv', BehindInv, [Next]_vars
  PROVE  BehindInv'
<1> SUFFICES ASSUME NEW x \in Receivers, phase'[x] = "live"
             PROVE  Len(queue'[x]) + missed'[x] <= nsent'
  BY DEF BehindInv, Behind
<1>1. TypeOK /\ TypeOK' /\ Fresh(x) /\ Behind(x)
  BY DEF BusInv, BehindInv
<1>2. /\ nsent \in Nat /\ missed[x] \in Nat /\ queue[x] \in Seq(Nat) /\ Len(queue[x]) \in Nat
      /\ nsent + 1 \in Nat
  BY <1>1 DEF TypeOK
<1>3. ASSUME NEW s \in Senders, Send(s)
      PROVE  Len(queue'[x]) + missed'[x] <= nsent'
  <2>1. /\ nsent' = nsent + 1 /\ phase' = phase
        /\ \/ queue'[x] = queue[x] /\ missed'[x] = missed[x]
           \/ /\ queue'[x] = Queued(queue[x], nsent + 1)
              /\ missed'[x] = Missed(queue[x], missed[x])
    BY <1>1, <1>3, SendFacts
  <2>2. Len(queue[x]) + missed[x] <= nsent
    BY <1>1, <2>1 DEF Behind
  <2>3. CASE queue'[x] = queue[x] /\ missed'[x] = missed[x]
    BY <1>2, <2>1, <2>2, <2>3
  <2>4. CASE /\ queue'[x] = Queued(queue[x], nsent + 1)
             /\ missed'[x] = Missed(queue[x], missed[x])
    <3>1. \/ /\ Len(Queued(queue[x], nsent + 1)) = Len(queue[x])
             /\ Missed(queue[x], missed[x]) = missed[x] + 1
          \/ /\ Len(Queued(queue[x], nsent + 1)) = Len(queue[x]) + 1
             /\ Missed(queue[x], missed[x]) = missed[x]
      <4>1. CASE Len(queue[x]) >= Cap
        BY <1>2, <4>1, QueuedFull, Zenon
      <4>2. CASE Len(queue[x]) < Cap
        BY <1>2, <4>2, QueuedRoom, Zenon
      <4> QED
        BY <1>2, <4>1, <4>2, CapPositive
    <3> QED
      BY <1>2, <2>1, <2>2, <2>4, <3>1
  <2> QED
    BY <2>1, <2>3, <2>4
<1>4. ASSUME UNCHANGED <<nsent, queue, missed>>,
             phase'[x] = phase[x] \/ phase[x] = "unused"
      PROVE  Len(queue'[x]) + missed'[x] <= nsent'
  <2>1. CASE phase[x] = "unused"
    <3>1. Len(queue'[x]) = 0 /\ missed'[x] = 0
      BY <1>1, <1>4, <2>1 DEF Fresh
    <3> QED
      BY <1>2, <1>4, <3>1
  <2>2. CASE phase'[x] = phase[x]
    BY <1>1, <1>4, <2>2 DEF Behind
  <2> QED
    BY <1>4, <2>1, <2>2
<1>5. CASE UNCHANGED vars
  BY <1>4, <1>5 DEF vars
<1>6. CASE \/ \E s \in Senders : DropSender(s)
           \/ \E s, t \in Senders : CloneSender(s, t)
  BY <1>4, <1>6 DEF DropSender, CloneSender
<1>7. CASE \/ \E s \in Senders, r \in Receivers : Subscribe(s, r)
           \/ \E q, r \in Receivers : CloneReceiver(q, r)
  <2>1. PICK r \in Receivers :
          /\ UNCHANGED <<nsent, queue, missed>>
          /\ phase[r] = "unused" /\ phase' = [phase EXCEPT ![r] = "live"]
    BY <1>7 DEF Subscribe, CloneReceiver
  <2>2. phase'[x] = phase[x] \/ phase[x] = "unused"
    BY <1>1, <2>1 DEF TypeOK
  <2> QED
    BY <1>4, <2>1, <2>2
<1>8. ASSUME NEW r \in Receivers, RecvLagged(r)
      PROVE  Len(queue'[x]) + missed'[x] <= nsent'
  <2>1. /\ UNCHANGED <<nsent, queue, phase>>
        /\ missed' = [missed EXCEPT ![r] = 0]
    BY <1>8 DEF RecvLagged
  <2>2. missed'[x] = missed[x] \/ missed'[x] = 0
    BY <1>1, <2>1 DEF TypeOK
  <2> QED
    BY <1>1, <1>2, <2>1, <2>2 DEF Behind
<1>9. ASSUME NEW r \in Receivers, RecvValue(r)
      PROVE  Len(queue'[x]) + missed'[x] <= nsent'
  <2>1. /\ UNCHANGED <<nsent, missed, phase>> /\ queue[r] # <<>>
        /\ queue' = [queue EXCEPT ![r] = Tail(queue[r])]
    BY <1>9 DEF RecvValue
  <2>2. Len(queue'[x]) <= Len(queue[x]) /\ Len(queue'[x]) \in Nat
    <3>1. CASE x # r
      BY <1>1, <1>2, <2>1, <3>1 DEF TypeOK
    <3>2. CASE x = r
      <4>1. PICK t \in Seq(Nat) : t = Tail(queue[x]) /\ Len(t) = Len(queue[x]) - 1
        BY <1>2, <2>1, <3>2, TailFacts, Zenon
      <4>2. queue'[x] = t
        BY <1>1, <2>1, <3>2, <4>1 DEF TypeOK
      <4> QED
        BY <1>2, <4>1, <4>2
    <3> QED
      BY <3>1, <3>2
  <2> QED
    BY <1>1, <1>2, <2>1, <2>2 DEF Behind
<1>10. ASSUME NEW r \in Receivers,
              \/ RecvClosed(r) \/ RecvPark(r) \/ TryRecvEmpty(r) \/ Wake(r)
              \/ SpuriousPoll(r)
       PROVE  Len(queue'[x]) + missed'[x] <= nsent'
  BY <1>4, <1>10 DEF RecvClosed, RecvPark, TryRecvEmpty, Wake, SpuriousPoll
<1>11. ASSUME NEW r \in Receivers, DropReceiver(r)
       PROVE  Len(queue'[x]) + missed'[x] <= nsent'
  <2>1. UNCHANGED <<nsent, queue, missed>> /\ phase' = [phase EXCEPT ![r] = "dropped"]
    BY <1>11 DEF DropReceiver
  <2>2. phase'[x] = phase[x]
    BY <1>1, <2>1 DEF TypeOK
  <2> QED
    BY <1>4, <2>1, <2>2
<1> QED
  BY <1>3, <1>5, <1>6, <1>7, <1>8, <1>9, <1>10, <1>11 DEF Next, Recv

\* The position of a receiver in the log, and who was told Closed.
Pos == [r \in Receivers |-> IF phase[r] = "live"
                            THEN nsent - Len(queue[r]) - missed[r] ELSE -1]
Ended == {r \in Receivers : ~alive[r]}

LEMMA LogStep ==
  ASSUME ~RxClone, BusInv, BusInv', BehindInv, CountInv, [Next]_vars
  PROVE  [Log!Next]_(Log!vars)
<1>1. TypeOK /\ TypeOK'
  BY DEF BusInv
<1>2. \A r \in Receivers : Fresh(r) /\ Drained(r) /\ Full(r) /\ Behind(r)
  BY DEF BusInv, BehindInv
<1>3. ASSUME UNCHANGED <<nsent, senders, phase, queue, missed, alive>>
      PROVE  UNCHANGED Log!vars
  BY <1>3 DEF Log!vars
<1>4. CASE UNCHANGED vars
  BY <1>3, <1>4 DEF vars
<1>5. ASSUME NEW s \in Senders, Send(s) PROVE Log!Publish
  <2>1. nsent' = nsent + 1 /\ UNCHANGED <<senders, phase, alive>> /\ senders # {}
    BY <1>5 DEF Send
  <2>2. ASSUME NEW r \in Receivers, phase[r] = "live"
        PROVE  nsent' - Len(queue'[r]) - missed'[r] = nsent - Len(queue[r]) - missed[r]
    <3>1. alive[r]
      BY <1>2, <2>1 DEF Drained, CountInv
    <3>2. /\ queue'[r] = Queued(queue[r], nsent + 1)
          /\ missed'[r] = Missed(queue[r], missed[r])
      BY <1>1, <1>5, <2>2, <3>1, SendFacts
    <3>3. /\ queue[r] \in Seq(Nat) /\ Len(queue[r]) \in Nat
          /\ nsent \in Nat /\ nsent + 1 \in Nat /\ missed[r] \in Nat
      BY <1>1 DEF TypeOK
    <3>4. CASE Len(queue[r]) >= Cap
      <4>1. /\ Len(Queued(queue[r], nsent + 1)) = Len(queue[r])
            /\ Missed(queue[r], missed[r]) = missed[r] + 1
        BY <3>3, <3>4, QueuedFull, Zenon
      <4>2. Len(queue'[r]) = Len(queue[r]) /\ missed'[r] = missed[r] + 1
        BY <3>2, <4>1
      <4> DEFINE m == missed[r]
                 l == Len(queue[r])
      <4>3. m \in Int /\ l \in Int /\ nsent \in Int
        BY <3>3
      <4>4. (nsent + 1) - l - (m + 1) = nsent - l - m
        <5> HIDE DEF m, l
        <5> QED
          BY <4>3
      <4> QED
        BY <2>1, <4>2, <4>4, Zenon
    <3>5. CASE Len(queue[r]) < Cap
      <4>1. /\ Len(Queued(queue[r], nsent + 1)) = Len(queue[r]) + 1
            /\ Missed(queue[r], missed[r]) = missed[r]
        BY <3>3, <3>5, QueuedRoom, Zenon
      <4>2. Len(queue'[r]) = Len(queue[r]) + 1 /\ missed'[r] = missed[r]
        BY <3>2, <4>1
      <4> DEFINE m == missed[r]
                 l == Len(queue[r])
      <4>3. m \in Int /\ l \in Int /\ nsent \in Int
        BY <3>3
      <4>4. (nsent + 1) - (l + 1) - m = nsent - l - m
        <5> HIDE DEF m, l
        <5> QED
          BY <4>3
      <4> QED
        BY <2>1, <4>2, <4>4, Zenon
    <3> QED
      BY <3>3, <3>4, <3>5, CapPositive
  <2>3. Pos' = Pos
    BY <2>1, <2>2 DEF Pos
  <2>4. Ended' = Ended
    BY <2>1 DEF Ended
  <2> QED
    BY <2>1, <2>3, <2>4 DEF Log!Publish, Pos, Ended
<1>6. ASSUME NEW s \in Senders, DropSender(s) PROVE Log!Handles
  <2>1. /\ s \in senders /\ senders' = senders \ {s}
        /\ UNCHANGED <<nsent, phase, queue, missed, alive>>
    BY <1>6 DEF DropSender
  <2> QED
    BY <2>1 DEF Log!Handles
<1>7. ASSUME NEW s \in Senders, NEW t \in Senders, CloneSender(s, t) PROVE Log!Handles
  <2>1. /\ s \in senders /\ senders' = senders \cup {t}
        /\ UNCHANGED <<nsent, phase, queue, missed, alive>>
    BY <1>7 DEF CloneSender
  <2> QED
    BY <2>1 DEF Log!Handles
<1>8. ASSUME NEW s \in Senders, NEW r \in Receivers, Subscribe(s, r) PROVE Log!Join(r)
  <2>1. /\ phase[r] = "unused" /\ phase' = [phase EXCEPT ![r] = "live"]
        /\ UNCHANGED <<nsent, senders, queue, missed, alive>>
    BY <1>8 DEF Subscribe
  <2>2. queue[r] = <<>> /\ missed[r] = 0 /\ alive[r]
    BY <1>2, <2>1 DEF Fresh
  <2>3. nsent - Len(queue[r]) - missed[r] = nsent
    BY <1>1, <2>2 DEF TypeOK
  <2>4. Pos' = [Pos EXCEPT ![r] = nsent]
    BY <1>1, <2>1, <2>3 DEF Pos, TypeOK
  <2>5. Ended' = Ended /\ r \notin Ended /\ Pos[r] = -1
    BY <2>1, <2>2 DEF Ended, Pos
  <2> QED
    BY <2>1, <2>4, <2>5 DEF Log!Join, Log!NoPos, Pos, Ended
<1>9. ASSUME NEW r \in Receivers, RecvLagged(r) PROVE Log!Skip(r)
  <2>1. /\ phase[r] = "live" /\ missed[r] > 0 /\ missed' = [missed EXCEPT ![r] = 0]
        /\ UNCHANGED <<nsent, senders, phase, queue, alive>>
    BY <1>9 DEF RecvLagged, Polls
  <2>2. Len(queue[r]) = Cap /\ alive[r]
    BY <1>1, <1>2, <2>1 DEF Full, Drained, TypeOK
  <2>3. /\ Pos[r] = nsent - Cap - missed[r]
        /\ nsent \in Nat /\ missed[r] \in Nat /\ Pos[r] \in Int
    BY <1>1, <2>1, <2>2, CapPositive DEF Pos, TypeOK
  <2>4. Pos' = [Pos EXCEPT ![r] = nsent - Cap]
    <3>1. nsent' - Len(queue'[r]) - missed'[r] = nsent - Cap
      BY <1>1, <2>1, <2>2, CapPositive DEF TypeOK
    <3>2. \A x \in Receivers \ {r} : missed'[x] = missed[x]
      BY <1>1, <2>1 DEF TypeOK
    <3>3. ASSUME NEW x \in Receivers
          PROVE  Pos'[x] = IF x = r THEN nsent - Cap ELSE Pos[x]
      BY <2>1, <3>1, <3>2 DEF Pos
    <3> QED
      BY <3>3 DEF Pos
  <2>5. Ended' = Ended /\ r \notin Ended
    BY <2>1, <2>2 DEF Ended
  <2>6. nsent - Pos[r] > Cap
    BY <2>1, <2>3, CapPositive
  <2>7. Pos[r] # -1
    BY <1>2, <2>1, <2>2, <2>3, CapPositive DEF Behind
  <2> QED
    BY <2>1, <2>4, <2>5, <2>6, <2>7 DEF Log!Skip, Log!NoPos, Pos, Ended
<1>10. ASSUME NEW r \in Receivers, RecvValue(r) PROVE Log!Deliver(r)
  <2>1. /\ phase[r] = "live" /\ missed[r] = 0 /\ queue[r] # <<>>
        /\ queue' = [queue EXCEPT ![r] = Tail(queue[r])]
        /\ UNCHANGED <<nsent, senders, phase, missed, alive>>
    BY <1>10 DEF RecvValue, Polls
  <2>2. queue[r] \in Seq(Nat) /\ nsent \in Nat
    BY <1>1 DEF TypeOK
  <2>3. PICK t \in Seq(Nat) : t = Tail(queue[r]) /\ Len(t) = Len(queue[r]) - 1
    BY <2>1, <2>2, TailFacts, Zenon
  <2>4. alive[r] /\ Len(queue[r]) \in 1..Cap
    BY <1>2, <2>1, <2>2, CapPositive DEF Full, Drained
  <2>5. Pos[r] = nsent - Len(queue[r])
    BY <2>1, <2>2 DEF Pos
  <2>6. Pos' = [Pos EXCEPT ![r] = Pos[r] + 1]
    <3>1. queue'[r] = t /\ \A x \in Receivers \ {r} : queue'[x] = queue[x]
      BY <1>1, <2>1, <2>3 DEF TypeOK
    <3>2. Len(queue'[r]) = Len(queue[r]) - 1 /\ missed'[r] = 0 /\ nsent' = nsent
      BY <2>1, <2>3, <3>1, Zenon
    <3>3. Len(queue[r]) \in Int /\ nsent \in Int
      BY <2>2
    <3>4. nsent' - Len(queue'[r]) - missed'[r] = Pos[r] + 1
      BY <2>5, <3>2, <3>3
    <3>5. ASSUME NEW x \in Receivers
          PROVE  Pos'[x] = IF x = r THEN Pos[r] + 1 ELSE Pos[x]
      <4>1. CASE x = r
        BY <2>1, <3>4, <4>1 DEF Pos
      <4>2. CASE x # r
        BY <2>1, <3>1, <4>2 DEF Pos
      <4> QED
        BY <4>1, <4>2
    <3> QED
      BY <3>5 DEF Pos
  <2>7. Ended' = Ended /\ r \notin Ended
    BY <2>1, <2>4 DEF Ended
  <2>8. nsent - Pos[r] \in 1..Cap /\ Pos[r] # -1
    BY <1>2, <2>1, <2>2, <2>4, <2>5, CapPositive DEF Behind
  <2> QED
    BY <2>1, <2>6, <2>7, <2>8 DEF Log!Deliver, Log!NoPos, Pos, Ended
<1>11. ASSUME NEW r \in Receivers, RecvClosed(r) PROVE Log!End(r)
  <2>1. /\ phase[r] = "live" /\ missed[r] = 0 /\ queue[r] = <<>> /\ ~sendersAlive
        /\ alive' = [alive EXCEPT ![r] = FALSE]
        /\ UNCHANGED <<nsent, senders, phase, queue, missed>>
    BY <1>11 DEF RecvClosed, Polls
  <2>2. Pos[r] = nsent /\ Pos' = Pos
    BY <1>1, <2>1 DEF Pos, TypeOK
  <2>3. Ended' = Ended \cup {r}
    BY <1>1, <2>1 DEF Ended, TypeOK
  <2>4. senders = {}
    BY <2>1 DEF CountInv
  <2> QED
    BY <2>1, <2>2, <2>3, <2>4 DEF Log!End, Pos, Ended
<1>12. ASSUME NEW r \in Receivers, DropReceiver(r) PROVE Log!Leave(r)
  <2>1. /\ phase[r] = "live" /\ phase' = [phase EXCEPT ![r] = "dropped"]
        /\ UNCHANGED <<nsent, senders, queue, missed, alive>>
    BY <1>12 DEF DropReceiver, Live
  <2>2. Pos[r] # -1
    BY <1>1, <1>2, <2>1 DEF Behind, Pos, TypeOK
  <2>3. Pos' = [Pos EXCEPT ![r] = -1]
    BY <1>1, <2>1 DEF Pos, TypeOK
  <2>4. Ended' = Ended
    BY <2>1 DEF Ended
  <2> QED
    BY <2>1, <2>2, <2>3, <2>4 DEF Log!Leave, Log!NoPos, Pos, Ended
<1>13. ASSUME NEW r \in Receivers,
              RecvPark(r) \/ TryRecvEmpty(r) \/ Wake(r) \/ SpuriousPoll(r)
       PROVE  UNCHANGED Log!vars
  BY <1>3, <1>13 DEF RecvPark, TryRecvEmpty, Wake, SpuriousPoll
<1>14. ASSUME NEW q \in Receivers, NEW r \in Receivers, CloneReceiver(q, r) PROVE FALSE
  BY <1>14 DEF CloneReceiver
<1> QED
  BY <1>4, <1>5, <1>6, <1>7, <1>8, <1>9, <1>10, <1>11, <1>12, <1>13, <1>14
  DEF Next, Recv, Log!Next

\* bus.rs without Receiver::clone implements the broadcast log: values are
\* delivered in order, a receiver is told of every value it lost and of none it
\* did not lose, and Closed comes last.
THEOREM Refinement == ASSUME ~RxClone PROVE Spec => ImplementsLog
<1>1. Init => BusInv /\ BehindInv /\ CountInv /\ Log!Init
  BY BusInvInit, BehindInit, CountInvInit, LogInit
<1>2. BusInv /\ BehindInv /\ CountInv /\ [Next]_vars
        => /\ (BusInv /\ BehindInv /\ CountInv)'
           /\ [Log!Next]_(Log!vars)
  <2> SUFFICES ASSUME BusInv, BehindInv, CountInv, [Next]_vars
               PROVE  /\ (BusInv /\ BehindInv /\ CountInv)'
                      /\ [Log!Next]_(Log!vars)
    OBVIOUS
  <2>1. BusInv' /\ TypeOK
    BY BusInvStep DEF BusInv
  <2>2. BehindInv' /\ CountInv'
    BY <2>1, BehindStep, CountInvStep
  <2> QED
    BY <2>1, <2>2, LogStep
<1> QED
  BY <1>1, <1>2, PTL DEF Spec, ImplementsLog, Log!Spec


-----------------------------------------------------------------------------
(***************************************************************************)
(* The scope (src/mutation_cache.rs, src/mutation.rs): type correctness    *)
(***************************************************************************)

LEMMA ScopeTypeInit == ScopeInit => ScopeTypeOK
<1> SUFFICES ASSUME ScopeInit PROVE ScopeTypeOK
  OBVIOUS
<1>1. 0 \in 0..Retry /\ "new" \in Places
  BY ScopeAssumption DEF Places, Suspended
<1>2. scopeQueue \in Seq(Mutations)
  BY DEF ScopeInit
<1> QED
  BY <1>1, <1>2 DEF ScopeInit, ScopeTypeOK

LEMMA ScopeTypeStep == ScopeTypeOK /\ [ScopeNext]_scopeVars => ScopeTypeOK'
<1> SUFFICES ASSUME ScopeTypeOK, [ScopeNext]_scopeVars PROVE ScopeTypeOK'
  OBVIOUS
<1> USE DEF ScopeTypeOK, Runs, Goto, app
<1>1. CASE UNCHANGED scopeVars
  BY <1>1 DEF scopeVars
<1>2. ASSUME NEW m \in Mutations, AddToScope(m) PROVE ScopeTypeOK'
  <2>1. "adding" \in Places
    BY DEF Places
  <2>2. scopeQueue' \in Seq(Mutations)
    <3>1. Append(scopeQueue, m) \in Seq(Mutations)
      BY AppendProperties
    <3> QED
      BY <1>2, <3>1 DEF AddToScope
  <2>3. paused' \in [Mutations -> BOOLEAN]
    BY <1>2 DEF AddToScope
  <2> QED
    BY <1>2, <2>1, <2>2, <2>3 DEF AddToScope
<1>3. ASSUME NEW m \in Mutations,
             \/ AddEntry(m) \/ SubscribeScope(m) \/ CheckScope(m) \/ Woken(m)
             \/ MarkRunning(m) \/ Unpause(m) \/ OnMutate(m) \/ MutateOk(m)
             \/ RetryDelay(m) \/ MarkFinished(m)
      PROVE  ScopeTypeOK'
  <2>1. {"subscribe", "check", "parked", "acquire", "unpause", "on_mutate", "mutating",
         "failed", "succeeded", "announce"} \subseteq Places
    BY DEF Places, Suspended, Holding
  <2> HIDE DEF ScopeTypeOK
  <2>2. /\ scopeQueue' = scopeQueue /\ tries' = tries /\ removing' = removing /\ clearing' = clearing
        /\ \E place \in Places : pc' = [pc EXCEPT ![m] = place]
    BY <1>3, <2>1
    DEF AddEntry, SubscribeScope, CheckScope, Woken, MarkRunning, Unpause, OnMutate,
        MutateOk, RetryDelay, MarkFinished
  <2>3. /\ running' \in {running, TRUE, FALSE}
        /\ entry' = entry \/ entry' = [entry EXCEPT ![m] = "Pending"]
        /\ paused' = paused \/ paused' = [paused EXCEPT ![m] = FALSE]
        /\ signal' = signal \/ signal' = [signal EXCEPT ![m] = FALSE]
    BY <1>3
    DEF AddEntry, SubscribeScope, CheckScope, Woken, MarkRunning, Unpause, OnMutate,
        MutateOk, RetryDelay, MarkFinished
  <2> QED
    BY <2>2, <2>3 DEF ScopeTypeOK
<1>4. ASSUME NEW m \in Mutations, MutateErr(m) PROVE ScopeTypeOK'
  <2>1. {"sleeping", "failed"} \subseteq Places
    BY DEF Places, Suspended, Holding
  <2>2. tries' \in [Mutations -> 0..Retry]
    <3>1. tries[m] \in 0..Retry /\ Retry \in Nat
      BY ScopeAssumption
    <3>2. CASE tries' = tries
      BY <3>2
    <3>3. CASE tries[m] < Retry /\ tries' = [tries EXCEPT ![m] = tries[m] + 1]
      <4>1. tries[m] + 1 \in 0..Retry
        BY <3>1, <3>3
      <4> QED
        BY <3>3, <4>1
    <3> QED
      BY <1>4, <3>2, <3>3 DEF MutateErr
  <2>3. pc' \in [Mutations -> Places]
    BY <1>4, <2>1 DEF MutateErr
  <2> QED
    BY <1>4, <2>2, <2>3 DEF MutateErr
<1>5. ASSUME NEW m \in Mutations, Settle(m) PROVE ScopeTypeOK'
  <2>1. "finish" \in Places
    BY DEF Places, Holding
  <2> QED
    BY <1>5, <2>1 DEF Settle, UpdateEntry
<1>6. ASSUME NEW m \in Mutations, Announce(m) PROVE ScopeTypeOK'
  <2>1. "run_next" \in Places
    BY DEF Places
  <2> QED
    BY <1>6, <2>1 DEF Announce, NotifyScope
<1>7. ASSUME NEW m \in Mutations, RunNext(m) PROVE ScopeTypeOK'
  <2>1. "done" \in Places
    BY DEF Places, Gone
  <2>2. scopeQueue' \in Seq(Mutations)
    <3>1. scopeQueue # <<>> => Tail(scopeQueue) \in Seq(Mutations)
      BY HeadTailProperties
    <3> QED
      BY <1>7, <3>1 DEF RunNext
  <2>3. signal' \in [Mutations -> BOOLEAN]
    BY <1>7 DEF RunNext, NotifyScope
  <2> QED
    BY <1>7, <2>1, <2>2, <2>3 DEF RunNext
<1>8. ASSUME NEW m \in Mutations, RemoveEntry(m) PROVE ScopeTypeOK'
  BY <1>8 DEF RemoveEntry
<1>9. ASSUME NEW m \in Mutations, SpliceQueue(m) PROVE ScopeTypeOK'
  <2>1. scopeQueue' \in Seq(Mutations)
    <3>1. ASSUME NEW i \in 1..Len(scopeQueue)
          PROVE  SubSeq(scopeQueue, 1, i - 1) \o SubSeq(scopeQueue, i + 1, Len(scopeQueue)) \in Seq(Mutations)
      <4>1. /\ SubSeq(scopeQueue, 1, i - 1) \in Seq(Mutations)
            /\ SubSeq(scopeQueue, i + 1, Len(scopeQueue)) \in Seq(Mutations)
        BY SubSeqProperties
      <4> QED
        BY <4>1, ConcatProperties
    <3> QED
      BY <1>9, <3>1 DEF SpliceQueue
  <2> QED
    BY <1>9, <2>1 DEF SpliceQueue
<1>10. ASSUME NEW m \in Mutations, DropFuture(m) PROVE ScopeTypeOK'
  <2>1. "dropped" \in Places
    BY DEF Places, Gone
  <2> QED
    BY <1>10, <2>1 DEF DropFuture
<1>11. CASE ClearEntries
  BY <1>11 DEF ClearEntries
<1>12. CASE ClearScopes
  <2>1. scopeQueue' \in Seq(Mutations)
    BY <1>12 DEF ClearScopes
  <2> QED
    BY <1>12, <2>1 DEF ClearScopes
<1>13. CASE ResumePaused
  BY <1>13 DEF ResumePaused
<1> QED
  BY <1>1, <1>2, <1>3, <1>4, <1>5, <1>6, <1>7, <1>8, <1>9, <1>10, <1>11, <1>12, <1>13
  DEF ScopeNext, Step

\* The scope, entry and execution state keep their types, and retries_used
\* never exceeds mutation.retry.
THEOREM ScopeTypeCorrect == ScopeSpec => []ScopeTypeOK
  BY ScopeTypeInit, ScopeTypeStep, PTL DEF ScopeSpec

-----------------------------------------------------------------------------
(***************************************************************************)
(* The scope is held by a live mutation and its release is never lost, as  *)
(* long as no future is dropped while it holds the scope                   *)
(***************************************************************************)

HoldInv == ScopeTypeOK /\ RunningHasHolder /\ NoLostRelease

LEMMA HoldInvInit == ScopeInit => HoldInv
<1> SUFFICES ASSUME ScopeInit PROVE HoldInv
  OBVIOUS
<1>1. ScopeTypeOK
  BY ScopeTypeInit
<1>2. ~running /\ \A m \in Mutations : pc[m] = "new"
  BY DEF ScopeInit
<1> QED
  BY <1>1, <1>2 DEF HoldInv, RunningHasHolder, NoLostRelease

\* A mutation that holds the scope, or is about to announce its release.
Releaser(n) == pc[n] \in Holding \cup {"announce"}

LEMMA HoldInvStep ==
  ASSUME "drop_running" \notin Ops, HoldInv, [ScopeNext]_scopeVars
  PROVE  HoldInv'
<1>1. ScopeTypeOK /\ ScopeTypeOK' /\ RunningHasHolder /\ NoLostRelease
  BY ScopeTypeStep DEF HoldInv
<1>2. \A m \in Mutations : pc[m] = "parked" /\ ~signal[m] => \E n \in Mutations : Releaser(n)
  BY <1>1 DEF NoLostRelease, Releaser
<1>3. SUFFICES /\ running' => \E n \in Mutations : pc'[n] \in Holding
               /\ \A m \in Mutations : pc'[m] = "parked" /\ ~signal'[m]
                    => \E n \in Mutations : pc'[n] \in Holding \cup {"announce"}
  BY <1>1 DEF HoldInv, RunningHasHolder, NoLostRelease
<1> USE DEF Runs, Goto, Holding, Releaser
<1>4. CASE UNCHANGED scopeVars
  BY <1>1, <1>2, <1>4 DEF scopeVars, RunningHasHolder
<1>5. ASSUME NEW m \in Mutations,
             \/ AddToScope(m) \/ AddEntry(m) \/ SubscribeScope(m) \/ Woken(m)
      PROVE  /\ running' => \E n \in Mutations : pc'[n] \in Holding
             /\ \A k \in Mutations : pc'[k] = "parked" /\ ~signal'[k]
                  => \E n \in Mutations : pc'[n] \in Holding \cup {"announce"}
  <2>1. /\ running' = running
        /\ pc[m] \in {"new", "adding", "subscribe", "parked"}
        /\ \E place \in {"adding", "subscribe", "check"} : pc' = [pc EXCEPT ![m] = place]
        /\ signal' = signal \/ signal' = [signal EXCEPT ![m] = FALSE]
    BY <1>5 DEF AddToScope, AddEntry, SubscribeScope, Woken
  <2>2. \A n \in Mutations : Releaser(n) => pc'[n] = pc[n]
    BY <1>1, <2>1 DEF ScopeTypeOK
  <2>3. \A k \in Mutations : pc'[k] = "parked" => pc[k] = "parked" /\ signal'[k] = signal[k]
    BY <1>1, <2>1 DEF ScopeTypeOK
  <2> QED
    BY <1>1, <1>2, <2>1, <2>2, <2>3 DEF RunningHasHolder
<1>6. ASSUME NEW m \in Mutations, CheckScope(m)
      PROVE  /\ running' => \E n \in Mutations : pc'[n] \in Holding
             /\ \A k \in Mutations : pc'[k] = "parked" /\ ~signal'[k]
                  => \E n \in Mutations : pc'[n] \in Holding \cup {"announce"}
  <2>1. /\ running' = running /\ signal' = signal /\ pc[m] = "check"
        /\ pc' = [pc EXCEPT ![m] = IF running THEN "parked" ELSE "acquire"]
    BY <1>6 DEF CheckScope
  <2>2. \A n \in Mutations : Releaser(n) => pc'[n] = pc[n]
    BY <1>1, <2>1 DEF ScopeTypeOK
  <2>3. \A k \in Mutations : pc'[k] = "parked" => running \/ pc[k] = "parked"
    BY <1>1, <2>1 DEF ScopeTypeOK
  <2> QED
    BY <1>1, <1>2, <2>1, <2>2, <2>3 DEF RunningHasHolder
<1>7. ASSUME NEW m \in Mutations,
             \/ MarkRunning(m) \/ Unpause(m) \/ OnMutate(m) \/ MutateOk(m)
             \/ MutateErr(m) \/ RetryDelay(m) \/ Settle(m)
      PROVE  /\ running' => \E n \in Mutations : pc'[n] \in Holding
             /\ \A k \in Mutations : pc'[k] = "parked" /\ ~signal'[k]
                  => \E n \in Mutations : pc'[n] \in Holding \cup {"announce"}
  <2>1. \E place \in Holding : pc' = [pc EXCEPT ![m] = place]
    BY <1>7 DEF MarkRunning, Unpause, OnMutate, MutateOk, MutateErr, RetryDelay, Settle
  <2>2. pc'[m] \in Holding
    BY <1>1, <2>1 DEF ScopeTypeOK
  <2> QED
    BY <2>2
<1>8. ASSUME NEW m \in Mutations, MarkFinished(m)
      PROVE  /\ running' => \E n \in Mutations : pc'[n] \in Holding
             /\ \A k \in Mutations : pc'[k] = "parked" /\ ~signal'[k]
                  => \E n \in Mutations : pc'[n] \in Holding \cup {"announce"}
  <2>1. ~running' /\ pc'[m] = "announce"
    BY <1>1, <1>8 DEF MarkFinished, ScopeTypeOK
  <2> QED
    BY <2>1
<1>9. ASSUME NEW m \in Mutations, Announce(m)
      PROVE  /\ running' => \E n \in Mutations : pc'[n] \in Holding
             /\ \A k \in Mutations : pc'[k] = "parked" /\ ~signal'[k]
                  => \E n \in Mutations : pc'[n] \in Holding \cup {"announce"}
  <2>1. /\ running' = running /\ pc[m] = "announce"
        /\ pc' = [pc EXCEPT ![m] = "run_next"]
        /\ signal' = [k \in Mutations |-> signal[k] \/ pc[k] \in {"check", "acquire", "parked"}]
    BY <1>9 DEF Announce, NotifyScope
  <2>2. \A n \in Mutations : pc[n] \in Holding => pc'[n] = pc[n]
    BY <1>1, <2>1 DEF ScopeTypeOK
  <2>3. \A k \in Mutations : pc'[k] = "parked" => signal'[k]
    BY <1>1, <2>1 DEF ScopeTypeOK
  <2> QED
    BY <1>1, <2>1, <2>2, <2>3 DEF RunningHasHolder
<1>10. ASSUME NEW m \in Mutations, RunNext(m)
      PROVE  /\ running' => \E n \in Mutations : pc'[n] \in Holding
             /\ \A k \in Mutations : pc'[k] = "parked" /\ ~signal'[k]
                  => \E n \in Mutations : pc'[n] \in Holding \cup {"announce"}
  <2>1. /\ running' = running /\ pc[m] = "run_next" /\ pc' = [pc EXCEPT ![m] = "done"]
        /\ \A k \in Mutations : signal[k] => signal'[k]
    BY <1>10 DEF RunNext, NotifyScope
  <2>2. \A n \in Mutations : Releaser(n) => pc'[n] = pc[n]
    BY <1>1, <2>1 DEF ScopeTypeOK
  <2>3. \A k \in Mutations : pc'[k] = "parked" => pc[k] = "parked"
    BY <1>1, <2>1 DEF ScopeTypeOK
  <2> QED
    BY <1>1, <1>2, <2>1, <2>2, <2>3 DEF RunningHasHolder
<1>11. ASSUME NEW m \in Mutations, DropFuture(m)
      PROVE  /\ running' => \E n \in Mutations : pc'[n] \in Holding
             /\ \A k \in Mutations : pc'[k] = "parked" /\ ~signal'[k]
                  => \E n \in Mutations : pc'[n] \in Holding \cup {"announce"}
  <2>1. /\ running' = running /\ signal' = signal /\ pc[m] = "parked"
        /\ pc' = [pc EXCEPT ![m] = "dropped"]
    BY <1>11 DEF DropFuture
  <2>2. \A n \in Mutations : Releaser(n) => pc'[n] = pc[n]
    BY <1>1, <2>1 DEF ScopeTypeOK
  <2>3. \A k \in Mutations : pc'[k] = "parked" => pc[k] = "parked"
    BY <1>1, <2>1 DEF ScopeTypeOK
  <2> QED
    BY <1>1, <1>2, <2>1, <2>2, <2>3 DEF RunningHasHolder
<1>12. CASE \/ \E m \in Mutations : RemoveEntry(m) \/ SpliceQueue(m)
            \/ ClearEntries \/ ClearScopes \/ ResumePaused
  <2>1. CASE \E m \in Mutations : SpliceQueue(m)
    <3>1. UNCHANGED <<pc, signal, running>>
      BY <2>1, Zenon DEF SpliceQueue
    <3> QED
      BY <1>1, <1>2, <3>1 DEF RunningHasHolder
  <2>2. CASE \/ \E m \in Mutations : RemoveEntry(m)
             \/ ClearEntries \/ ClearScopes \/ ResumePaused
    <3>1. UNCHANGED <<pc, signal>> /\ (running' => running)
      BY <2>2 DEF RemoveEntry, ClearEntries, ClearScopes, ResumePaused, app
    <3> QED
      BY <1>1, <1>2, <3>1 DEF RunningHasHolder
  <2> QED
    BY <1>12, <2>1, <2>2
<1> QED
  BY <1>4, <1>5, <1>6, <1>7, <1>8, <1>9, <1>10, <1>11, <1>12 DEF ScopeNext, Step

\* mutation.rs:382, mutation_cache.rs:447: a set running flag has an owner who will
\* reset it, and a parked mutation with nothing to see waits for a mutation that has
\* yet to call notify_scope, unless a future is dropped while it holds the scope.
THEOREM ReleaseIsNotLost ==
  ASSUME "drop_running" \notin Ops PROVE ScopeSpec => []ReleaseIsOwed
<1>1. HoldInv => ReleaseIsOwed
  BY DEF HoldInv, ReleaseIsOwed
<1> QED
  BY <1>1, HoldInvInit, HoldInvStep, PTL DEF ScopeSpec

-----------------------------------------------------------------------------
(***************************************************************************)
(* Mutual exclusion on a single-threaded executor                          *)
(***************************************************************************)

\* A mutation that found the scope free has not been overtaken when it marks
\* the scope running, and a mutation that holds the scope has it marked.
MutexInv == /\ ScopeTypeOK
            /\ ScopeMutex
            /\ ~clearing
            /\ \A m \in Mutations : /\ pc[m] \in Holding => running
                                    /\ pc[m] = "acquire" => ~running

LEMMA MutexInvInit == ScopeInit => MutexInv
<1> SUFFICES ASSUME ScopeInit PROVE MutexInv
  OBVIOUS
<1>1. ScopeTypeOK
  BY ScopeTypeInit
<1>2. ~clearing /\ \A m \in Mutations : pc[m] = "new"
  BY DEF ScopeInit
<1> QED
  BY <1>1, <1>2 DEF MutexInv, ScopeMutex, Holding

LEMMA MutexInvStep ==
  ASSUME ~Threaded, "clear" \notin Ops, MutexInv, [ScopeNext]_scopeVars
  PROVE  MutexInv'
<1>1. ScopeTypeOK /\ ScopeTypeOK' /\ ScopeMutex /\ ~clearing
  BY ScopeTypeStep DEF MutexInv
<1>2. \A m \in Mutations : /\ pc[m] \in Holding => running
                           /\ pc[m] = "acquire" => ~running
  BY DEF MutexInv
<1> DEFINE Goal == /\ \A m, n \in Mutations : pc'[m] \in Holding /\ pc'[n] \in Holding => m = n
                   /\ ~clearing'
                   /\ \A m \in Mutations : /\ pc'[m] \in Holding => running'
                                           /\ pc'[m] = "acquire" => ~running'
<1> SUFFICES Goal
  BY <1>1 DEF MutexInv, ScopeMutex
<1> USE DEF Runs, Goto, Holding
\* Steps outside the critical section, into a place outside it.
<1>3. ASSUME NEW m \in Mutations, running' = running, clearing' = clearing,
             pc[m] \notin Holding \/ pc[m] \in {"mutating", "sleeping"},
             NEW place \in Places \ Holding, pc' = [pc EXCEPT ![m] = place],
             place = "acquire" => ~running
      PROVE  Goal
  <2>1. \A n \in Mutations : pc'[n] = IF n = m THEN place ELSE pc[n]
    BY <1>1, <1>3 DEF ScopeTypeOK
  <2> QED
    BY <1>1, <1>2, <1>3, <2>1 DEF ScopeMutex
<1>4. CASE UNCHANGED scopeVars
  BY <1>1, <1>2, <1>4 DEF scopeVars, app, ScopeMutex
<1>5. ASSUME NEW m \in Mutations,
             \/ AddToScope(m) \/ AddEntry(m) \/ SubscribeScope(m) \/ Woken(m)
             \/ CheckScope(m) \/ Announce(m) \/ RunNext(m)
      PROVE  Goal
  <2>1. /\ running' = running /\ clearing' = clearing /\ pc[m] \notin Holding
        /\ \E place \in {"adding", "subscribe", "check", "parked", "acquire", "run_next", "done"} :
             pc' = [pc EXCEPT ![m] = place] /\ (place = "acquire" => ~running)
    BY <1>5 DEF AddToScope, AddEntry, SubscribeScope, Woken, CheckScope, Announce, RunNext, app
  <2>2. {"adding", "subscribe", "check", "parked", "acquire", "run_next", "done"}
          \subseteq Places \ Holding
    BY DEF Places, Suspended, Gone
  <2> QED
    BY <1>3, <2>1, <2>2
<1>6. ASSUME NEW m \in Mutations, MarkRunning(m) PROVE Goal
  <2>1. /\ running' /\ clearing' = clearing /\ pc[m] = "acquire"
        /\ pc' = [pc EXCEPT ![m] = "unpause"]
        /\ \A n \in Mutations \ {m} : ~Busy(n)
    BY <1>6 DEF MarkRunning, MayRun, app
  <2>2. \A n \in Mutations : pc'[n] = IF n = m THEN "unpause" ELSE pc[n]
    BY <1>1, <2>1 DEF ScopeTypeOK
  <2>3. \A n \in Mutations : pc[n] \notin Holding
    BY <1>2, <2>1
  <2>4. \A n \in Mutations \ {m} : pc[n] # "acquire"
    BY <2>1 DEF Busy, Suspended, Gone
  <2> QED
    BY <1>1, <2>1, <2>2, <2>3, <2>4
<1>7. ASSUME NEW m \in Mutations,
             \/ Unpause(m) \/ OnMutate(m) \/ MutateOk(m) \/ MutateErr(m)
             \/ RetryDelay(m) \/ Settle(m)
      PROVE  Goal
  <2>1. /\ running' = running /\ clearing' = clearing /\ pc[m] \in Holding
        /\ \E place \in Holding : pc' = [pc EXCEPT ![m] = place]
    BY <1>7 DEF Unpause, OnMutate, MutateOk, MutateErr, RetryDelay, Settle, app
  <2>2. PICK place \in Holding : \A n \in Mutations : pc'[n] = IF n = m THEN place ELSE pc[n]
    BY <1>1, <2>1 DEF ScopeTypeOK
  <2> QED
    BY <1>1, <1>2, <2>1, <2>2 DEF ScopeMutex
<1>8. ASSUME NEW m \in Mutations, MarkFinished(m) PROVE Goal
  <2>1. /\ ~running' /\ clearing' = clearing /\ pc[m] = "finish"
        /\ pc' = [pc EXCEPT ![m] = "announce"]
    BY <1>8 DEF MarkFinished, app
  <2>2. \A n \in Mutations : pc'[n] = IF n = m THEN "announce" ELSE pc[n]
    BY <1>1, <2>1 DEF ScopeTypeOK
  <2>3. \A n \in Mutations : pc'[n] \notin Holding
    BY <1>1, <2>1, <2>2 DEF ScopeMutex
  <2> QED
    BY <1>1, <2>1, <2>3
<1>9. ASSUME NEW m \in Mutations, DropFuture(m) PROVE Goal
  <2>1. /\ running' = running /\ clearing' = clearing
        /\ pc[m] \in {"parked", "mutating", "sleeping"}
        /\ pc' = [pc EXCEPT ![m] = "dropped"]
    BY <1>9 DEF DropFuture, app
  <2>2. "dropped" \in Places \ Holding
    BY DEF Places, Gone
  <2> QED
    BY <1>3, <2>1, <2>2
<1>10. CASE \/ \E m \in Mutations : RemoveEntry(m) \/ SpliceQueue(m)
            \/ ClearEntries \/ ClearScopes \/ ResumePaused
  <2>1. UNCHANGED <<pc, running, clearing>>
    BY <1>1, <1>10 DEF RemoveEntry, SpliceQueue, ClearEntries, ClearScopes, ResumePaused, app
  <2> QED
    BY <1>1, <1>2, <2>1 DEF ScopeMutex
<1> QED
  BY <1>4, <1>5, <1>6, <1>7, <1>8, <1>9, <1>10 DEF ScopeNext, Step

\* mutation_cache.rs:6 on a single-threaded executor: mutations of a scope run
\* one at a time, as long as clear() is not called; futures may be dropped and
\* entries removed at any time.
THEOREM OneAtATime ==
  ASSUME ~Threaded, "clear" \notin Ops PROVE ScopeSpec => []ScopeMutex
<1>1. MutexInv => ScopeMutex
  BY DEF MutexInv
<1> QED
  BY <1>1, MutexInvInit, MutexInvStep, PTL DEF ScopeSpec

-----------------------------------------------------------------------------
(***************************************************************************)
(* The queue of a scope                                                    *)
(***************************************************************************)

\* Mutations that were added to the cache and have not popped the queue.
Unpopped == {m \in Mutations : pc[m] \notin {"new", "done"}}

\* A mutation appends one id at most, on its way into the set, and pops one on its
\* way out of it; the id that is popped need not be its own.
DrainInv == ScopeTypeOK /\ Len(scopeQueue) <= Cardinality(Unpopped)

LEMMA UnpoppedFinite == IsFiniteSet(Unpopped) /\ Cardinality(Unpopped) \in Nat
  BY ScopeAssumption, FS_Subset, FS_CardinalityType DEF Unpopped

LEMMA DrainInvInit == ScopeInit => DrainInv
<1> SUFFICES ASSUME ScopeInit PROVE DrainInv
  OBVIOUS
<1>1. ScopeTypeOK
  BY ScopeTypeInit
<1>2. Len(scopeQueue) = 0
  BY DEF ScopeInit
<1> QED
  BY <1>1, <1>2, UnpoppedFinite DEF DrainInv

\* The id that remove() takes out of the queue shortens it by one.
LEMMA SpliceFacts ==
  ASSUME NEW q \in Seq(Mutations), NEW i \in 1..Len(q)
  PROVE  Len(SubSeq(q, 1, i - 1) \o SubSeq(q, i + 1, Len(q))) = Len(q) - 1
<1> DEFINE front == SubSeq(q, 1, i - 1)
           back == SubSeq(q, i + 1, Len(q))
<1>1. front \in Seq(Mutations) /\ Len(front) = i - 1
  BY SubSeqProperties
<1>2. back \in Seq(Mutations) /\ Len(back) = Len(q) - i
  BY SubSeqProperties
<1>3. Len(front \o back) = Len(front) + Len(back)
  BY <1>1, <1>2, ConcatProperties
<1>4. Len(q) \in Nat /\ i \in Nat
  BY LenProperties
<1>5. Len(front \o back) = (i - 1) + (Len(q) - i)
  BY <1>1, <1>2, <1>3
<1> HIDE DEF front, back
<1>6. Len(front \o back) = Len(q) - 1
  BY <1>4, <1>5
<1> QED
  BY <1>6 DEF front, back

LEMMA DrainInvStep == DrainInv /\ [ScopeNext]_scopeVars => DrainInv'
<1> SUFFICES ASSUME DrainInv, [ScopeNext]_scopeVars PROVE DrainInv'
  OBVIOUS
<1>1. ScopeTypeOK /\ ScopeTypeOK' /\ Len(scopeQueue) <= Cardinality(Unpopped)
  BY ScopeTypeStep DEF DrainInv
<1>2. scopeQueue \in Seq(Mutations) /\ Len(scopeQueue) \in Nat
  BY <1>1 DEF ScopeTypeOK
<1> SUFFICES Len(scopeQueue') <= Cardinality(Unpopped')
  BY <1>1 DEF DrainInv
<1> USE DEF Runs, Goto
\* Steps of a mutation that stays in the set, and those of the cache.
<1>3. ASSUME Unpopped' = Unpopped, Len(scopeQueue') <= Len(scopeQueue), Len(scopeQueue') \in Nat
      PROVE  Len(scopeQueue') <= Cardinality(Unpopped')
  BY <1>1, <1>2, <1>3, UnpoppedFinite
<1>4. CASE UNCHANGED scopeVars
  BY <1>2, <1>3, <1>4 DEF scopeVars, Unpopped
<1>5. ASSUME NEW m \in Mutations, AddToScope(m)
      PROVE  Len(scopeQueue') <= Cardinality(Unpopped')
  <2>1. pc[m] = "new" /\ pc' = [pc EXCEPT ![m] = "adding"]
    BY <1>5 DEF AddToScope
  <2>2. Unpopped' = Unpopped \cup {m} /\ m \notin Unpopped
    BY <1>1, <2>1 DEF Unpopped, ScopeTypeOK
  <2>3. Cardinality(Unpopped') = Cardinality(Unpopped) + 1
    BY <2>2, UnpoppedFinite, FS_AddElement
  <2>4. Len(scopeQueue') \in {Len(scopeQueue), Len(scopeQueue) + 1}
    BY <1>2, <1>5, AppendProperties DEF AddToScope
  <2> QED
    BY <1>1, <1>2, <2>3, <2>4, UnpoppedFinite
<1>6. ASSUME NEW m \in Mutations,
             \/ AddEntry(m) \/ SubscribeScope(m) \/ CheckScope(m) \/ Woken(m) \/ MarkRunning(m)
             \/ Unpause(m) \/ OnMutate(m) \/ MutateOk(m) \/ MutateErr(m) \/ RetryDelay(m)
             \/ Settle(m) \/ MarkFinished(m) \/ Announce(m) \/ DropFuture(m)
      PROVE  Len(scopeQueue') <= Cardinality(Unpopped')
  <2>1. /\ scopeQueue' = scopeQueue
        /\ pc[m] \notin {"new", "done"}
        /\ \E place \in Places \ {"new", "done"} : pc' = [pc EXCEPT ![m] = place]
    BY <1>6 DEF AddEntry, SubscribeScope, CheckScope, Woken, MarkRunning, Unpause, OnMutate,
                MutateOk, MutateErr, RetryDelay, Settle, MarkFinished, Announce, DropFuture,
                Places, Suspended, Gone, Holding
  <2>2. Unpopped' = Unpopped
    BY <1>1, <2>1 DEF Unpopped, ScopeTypeOK
  <2> QED
    BY <1>2, <1>3, <2>1, <2>2
<1>7. ASSUME NEW m \in Mutations, RunNext(m)
      PROVE  Len(scopeQueue') <= Cardinality(Unpopped')
  <2>1. pc[m] = "run_next" /\ pc' = [pc EXCEPT ![m] = "done"]
    BY <1>7 DEF RunNext
  <2>2. Unpopped' = Unpopped \ {m} /\ m \in Unpopped
    BY <1>1, <2>1 DEF Unpopped, ScopeTypeOK
  <2>3. Cardinality(Unpopped') = Cardinality(Unpopped) - 1
    BY <2>2, UnpoppedFinite, FS_RemoveElement
  <2>4. Cardinality(Unpopped') \in Nat
    BY <2>2, UnpoppedFinite, FS_RemoveElement, FS_CardinalityType
  <2>5. CASE scopeQueue = <<>>
    <3>1. Len(scopeQueue') = 0
      BY <1>7, <2>5 DEF RunNext
    <3> QED
      BY <2>4, <3>1
  <2>6. CASE scopeQueue # <<>>
    <3>1. Len(scopeQueue') = Len(scopeQueue) - 1
      BY <1>2, <1>7, <2>6, HeadTailProperties DEF RunNext
    <3> QED
      BY <1>1, <1>2, <2>3, <3>1, UnpoppedFinite
  <2> QED
    BY <2>5, <2>6
<1>8. ASSUME NEW m \in Mutations, SpliceQueue(m)
      PROVE  Len(scopeQueue') <= Cardinality(Unpopped')
  <2>1. Unpopped' = Unpopped
    BY <1>8 DEF SpliceQueue, Unpopped
  <2>2. Len(scopeQueue') \in {Len(scopeQueue), Len(scopeQueue) - 1}
    BY <1>2, <1>8, SpliceFacts DEF SpliceQueue
  <2>3. Len(scopeQueue') \in Nat
    BY <1>1 DEF ScopeTypeOK
  <2> QED
    BY <1>2, <1>3, <2>1, <2>2, <2>3
<1>9. CASE \/ \E m \in Mutations : RemoveEntry(m)
           \/ ClearEntries \/ ClearScopes \/ ResumePaused
  <2>1. Unpopped' = Unpopped /\ scopeQueue' \in {scopeQueue, <<>>}
    BY <1>9 DEF RemoveEntry, ClearEntries, ClearScopes, ResumePaused, app, Unpopped
  <2> QED
    BY <1>2, <1>3, <2>1
<1> QED
  BY <1>4, <1>5, <1>6, <1>7, <1>8, <1>9 DEF ScopeNext, Step

\* mutation_cache.rs, add_with_hook and run_next: when every mutation that was
\* submitted has finished, no id is left in the queue of the scope, whoever popped
\* which id, on the pool and with entries removed in between; a future that was
\* dropped is what may leave one behind.
THEOREM QueueIsDrained == ScopeSpec => []QueueDrains
<1>1. DrainInv => QueueDrains
  <2> SUFFICES ASSUME DrainInv, \A m \in Mutations : pc[m] \in {"new", "done"}
               PROVE  scopeQueue = <<>>
    BY DEF QueueDrains
  <2>1. Unpopped = {}
    BY DEF Unpopped
  <2>2. Cardinality(Unpopped) = 0
    BY <2>1, FS_EmptySet
  <2>3. scopeQueue \in Seq(Mutations) /\ Len(scopeQueue) <= 0
    BY <2>2 DEF DrainInv, ScopeTypeOK
  <2> QED
    BY <2>3, EmptySeq
<1> QED
  BY <1>1, DrainInvInit, DrainInvStep, PTL DEF ScopeSpec

-----------------------------------------------------------------------------
(***************************************************************************)
(* The handles of a spawned task (src/runtime.rs)                          *)
(***************************************************************************)

\* Where the oneshot of the value stands: full once the task has sent, and gone
\* without having been awaited only when the task was taken down before it sent.
ValueInv ==
  /\ value = "full" => spawned \in {"sent", "done"}
  /\ value = "gone" /\ owner.at \in {"held", "parked"} => spawned \in {"aborted", "panicked"}

\* The detached flag records every poll and detach; an is_finished that has not
\* found the sticky flag began before any of them returned true.
FlagsInv ==
  /\ touched = detached
  /\ told => finished
  /\ \A c \in Callers : call[c].at = "try" => ~call[c].started

HandleInv == HandlesTellTrue /\ ValueInv /\ FlagsInv

LEMMA HandleInvInit == ASSUME NEW s \in Nat, TaskInitFor(s) PROVE HandleInv
<1> USE DEF TaskInitFor, Owner, NoCall
<1>1. TaskTypeOK
  BY DEF TaskTypeOK, Over, Oneshot
<1>2. OnlyAskedAborts /\ FallbackMeansNoValue /\ FinishedSticks
  BY DEF OnlyAskedAborts, FallbackMeansNoValue, FinishedSticks
<1>3. ValueInv /\ FlagsInv
  BY DEF ValueInv, FlagsInv
<1> QED
  BY <1>1, <1>2, <1>3 DEF HandleInv, HandlesTellTrue

\* A sender that goes leaves its oneshot gone, unless it had sent.
LEMMA DroppedFacts ==
  ASSUME NEW shot \in Oneshot
  PROVE  /\ Dropped(shot) \in Oneshot
         /\ Dropped(shot) = "full" <=> shot = "full"
  BY DEF Dropped, Oneshot

LEMMA HandleInvStep == HandleInv /\ [TaskNext]_taskVars => HandleInv'
<1> SUFFICES ASSUME HandleInv, [TaskNext]_taskVars PROVE HandleInv'
  OBVIOUS
<1>1. TaskTypeOK /\ OnlyAskedAborts /\ FallbackMeansNoValue /\ FinishedSticks /\ ValueInv /\ FlagsInv
  BY DEF HandleInv, HandlesTellTrue
<1> DEFINE Good == /\ OnlyAskedAborts' /\ FallbackMeansNoValue' /\ FinishedSticks'
                   /\ ValueInv' /\ FlagsInv'
<1> USE DEF TaskTypeOK, Over, Oneshot, handle, ghosts
<1>2. CASE UNCHANGED taskVars
  BY <1>1, <1>2
  DEF taskVars, HandleInv, HandlesTellTrue, OnlyAskedAborts, FallbackMeansNoValue, FinishedSticks,
      ValueInv, FlagsInv
\* The task ends without having sent.
<1>3. ASSUME NEW how \in {"aborted", "panicked"}, End(how), spawned \in {"queued", "suspended", "running"}
      PROVE  HandleInv'
  <2>1. TaskTypeOK'
    BY <1>1, <1>3, DroppedFacts DEF End
  <2>2. Good
    BY <1>1, <1>3, DroppedFacts
    DEF End, OnlyAskedAborts, FallbackMeansNoValue, FinishedSticks, ValueInv, FlagsInv
  <2> QED
    BY <2>1, <2>2 DEF HandleInv, HandlesTellTrue
<1>4. ASSUME NEW place \in {"running", "suspended"}, Continue(place),
             spawned \in {"queued", "suspended", "running"}
      PROVE  HandleInv'
  <2>1. TaskTypeOK'
    BY <1>1, <1>4 DEF Continue
  <2>2. Good
    BY <1>1, <1>4
    DEF Continue, OnlyAskedAborts, FallbackMeansNoValue, FinishedSticks, ValueInv, FlagsInv
  <2> QED
    BY <2>1, <2>2 DEF HandleInv, HandlesTellTrue
<1>5. CASE Poll \/ Suspend \/ Panics
  BY <1>3, <1>4, <1>5 DEF Poll, Suspend, Panics
<1>6. CASE SendValue \/ Finish
  <2>1. TaskTypeOK'
    BY <1>1, <1>6 DEF SendValue, Finish
  <2>2. Good
    BY <1>1, <1>6
    DEF SendValue, Finish, OnlyAskedAborts, FallbackMeansNoValue, FinishedSticks, ValueInv, FlagsInv
  <2> QED
    BY <2>1, <2>2 DEF HandleInv, HandlesTellTrue
\* A call to abort, by the owner or by a clone.
<1>7. ASSUME aborted' = TRUE, asked' = TRUE, live' \in Nat,
             UNCHANGED <<spawned, value, unit, handle, owner, call, touched, told>>
      PROVE  HandleInv'
  <2>1. TaskTypeOK'
    BY <1>1, <1>7
  <2>2. OnlyAskedAborts' /\ FallbackMeansNoValue' /\ FinishedSticks'
    BY <1>1, <1>7 DEF OnlyAskedAborts, FallbackMeansNoValue, FinishedSticks
  <2>3. ValueInv' /\ FlagsInv'
    BY <1>1, <1>7 DEF ValueInv, FlagsInv
  <2> QED
    BY <2>1, <2>2, <2>3 DEF HandleInv, HandlesTellTrue
<1>8. CASE Abort \/ \E c \in Callers : AbortClone(c)
  <2>1. live' \in Nat
    <3>1. live \in Nat
      BY <1>1
    <3> QED
      BY <1>8, <3>1 DEF Abort, AbortClone
  <2>2. /\ aborted' = TRUE /\ asked' = TRUE
        /\ UNCHANGED <<spawned, value, unit, handle, owner, call, touched, told>>
    BY <1>8 DEF Abort, AbortClone
  <2> QED
    BY <1>7, <2>1, <2>2
<1>9. CASE Detach
  <2>1. TaskTypeOK'
    BY <1>1, <1>9 DEF Detach
  <2>2. UNCHANGED <<spawned, aborted, value, owner, call, asked, finished, told>>
    BY <1>9 DEF Detach
  <2>3. owner.at = "held" /\ detached' = TRUE /\ touched' = TRUE
    BY <1>9 DEF Detach
  <2>4. OnlyAskedAborts'
    BY <1>1, <2>2, <2>3 DEF OnlyAskedAborts
  <2>5. FallbackMeansNoValue' /\ FinishedSticks' /\ ValueInv' /\ FlagsInv'
    BY <1>1, <2>2, <2>3 DEF FallbackMeansNoValue, FinishedSticks, ValueInv, FlagsInv
  <2> QED
    BY <2>1, <2>4, <2>5 DEF HandleInv, HandlesTellTrue
<1>10. CASE Await
  <2>1. /\ owner.at \in {"held", "parked"}
        /\ detached' = TRUE /\ touched' = TRUE
        /\ UNCHANGED <<live, spawned, aborted, unit, finished, call, asked, told>>
    BY <1>10 DEF Await
  <2>2. \/ value = "empty" /\ value' = "empty" /\ owner' = [at |-> "parked", result |-> "none"]
        \/ value = "full" /\ value' = "gone" /\ owner' = [at |-> "resolved", result |-> "value"]
        \/ value = "gone" /\ value' = "gone" /\ owner' = [at |-> "resolved", result |-> "fallback"]
    BY <1>1, <1>10 DEF Await, Owner, Result
  <2>3. TaskTypeOK'
    <3>1. value' \in Oneshot
      BY <2>2
    <3>2. owner' \in [at : {"held", "parked", "resolved", "dropped"}, result : {"none", "value", "fallback"}]
      BY <2>2
    <3> QED
      BY <1>1, <2>1, <3>1, <3>2
  <2>4. OnlyAskedAborts' /\ FinishedSticks' /\ FlagsInv'
    BY <1>1, <2>1 DEF OnlyAskedAborts, FinishedSticks, FlagsInv
  <2>5. FallbackMeansNoValue' /\ ValueInv'
    BY <1>1, <2>1, <2>2 DEF FallbackMeansNoValue, ValueInv
  <2> QED
    BY <2>3, <2>4, <2>5 DEF HandleInv, HandlesTellTrue
<1>11. CASE DropTask
  <2>1. /\ owner.at \in {"held", "parked"}
        /\ aborted' = (aborted \/ ~detached)
        /\ owner' = [at |-> "dropped", result |-> "none"]
        /\ UNCHANGED <<live, spawned, value, unit, detached, finished, call, asked, touched, told>>
    BY <1>11 DEF DropTask, Owner
  <2>2. TaskTypeOK'
    BY <1>1, <2>1
  <2>3. OnlyAskedAborts'
    BY <1>1, <2>1 DEF OnlyAskedAborts, FlagsInv
  <2>4. FallbackMeansNoValue' /\ FinishedSticks' /\ ValueInv' /\ FlagsInv'
    BY <1>1, <2>1 DEF FallbackMeansNoValue, FinishedSticks, ValueInv, FlagsInv
  <2> QED
    BY <2>2, <2>3, <2>4 DEF HandleInv, HandlesTellTrue
<1>12. ASSUME NEW c \in Callers, LoadFinished(c) \/ TryFinished(c) \/ AwaitHandle(c) PROVE HandleInv'
  <2> DEFINE Inside == [at : {"none", "try", "answered"}, started : BOOLEAN, answer : BOOLEAN]
  <2>1. TaskTypeOK'
    <3>1. live \in Nat /\ call \in [Callers -> Inside] /\ unit \in Oneshot
          /\ told \in BOOLEAN /\ finished \in BOOLEAN
      BY <1>1
    <3>2. live' \in Nat
      BY <1>12, <3>1 DEF LoadFinished, TryFinished, AwaitHandle
    <3>3. call' \in [Callers -> Inside]
      <4>1. CASE LoadFinished(c)
        <5>1. [at |-> IF finished THEN "answered" ELSE "try", started |-> told, answer |-> finished] \in Inside
          BY <3>1
        <5> QED
          BY <3>1, <4>1, <5>1 DEF LoadFinished
      <4>2. CASE TryFinished(c)
        <5>1. call' = [call EXCEPT ![c] = [call[c] EXCEPT !.at = "answered", !.answer = (unit = "full")]]
          BY <3>1, <4>2 DEF TryFinished
        <5>2. [call[c] EXCEPT !.at = "answered", !.answer = (unit = "full")] \in Inside
          BY <3>1
        <5> QED
          BY <3>1, <5>1, <5>2
      <4>3. CASE AwaitHandle(c)
        BY <3>1, <4>3 DEF AwaitHandle, NoCall
      <4> QED
        BY <1>12, <4>1, <4>2, <4>3
    <3>4. unit' \in Oneshot
      BY <1>12, <3>1 DEF LoadFinished, TryFinished, AwaitHandle
    <3>5. told' \in BOOLEAN /\ finished' \in BOOLEAN
      BY <1>12, <3>1 DEF LoadFinished, TryFinished, AwaitHandle
    <3>6. UNCHANGED <<spawned, aborted, value, detached, owner, asked, touched>>
      BY <1>12 DEF LoadFinished, TryFinished, AwaitHandle
    <3> QED
      BY <1>1, <3>2, <3>3, <3>4, <3>5, <3>6
  <2>2. UNCHANGED <<spawned, aborted, value, detached, owner, asked, touched>>
    BY <1>12 DEF LoadFinished, TryFinished, AwaitHandle
  <2>3. OnlyAskedAborts' /\ FallbackMeansNoValue' /\ ValueInv'
    BY <1>1, <2>2 DEF OnlyAskedAborts, FallbackMeansNoValue, ValueInv
  <2>4. FinishedSticks' /\ FlagsInv'
    BY <1>1, <1>12, <2>2 DEF LoadFinished, TryFinished, AwaitHandle, NoCall, FinishedSticks, FlagsInv
  <2> QED
    BY <2>1, <2>3, <2>4 DEF HandleInv, HandlesTellTrue
<1> QED
  BY <1>2, <1>5, <1>6, <1>8, <1>9, <1>12, <1>10, <1>11 DEF TaskNext

\* runtime.rs, the drop of a SpawnedTask, its await and is_finished: a task is aborted
\* only by a call to abort or by the drop of a handle that was never polled nor
\* detached; the await yields the fallback only for a task that sent nothing; and
\* is_finished, once true, stays true.  For any number of clones of the handle, and
\* whatever of this happens while the task is inside of a poll.
THEOREM HandlesAreTrue == ASSUME NEW s \in Nat PROVE TaskSpec(s) => []HandlesTellTrue
<1>1. HandleInv => HandlesTellTrue
  BY DEF HandleInv
<1>2. TaskInitFor(s) => HandleInv
  BY HandleInvInit
<1> QED
  BY <1>1, <1>2, HandleInvStep, PTL DEF TaskSpec

-----------------------------------------------------------------------------
(***************************************************************************)
(* The query observer (src/observer.rs)                                    *)
(***************************************************************************)

Data(n) == {NoData} \cup 1 .. n
Variants == {"Idle", "Loading", "LoadingWithPlaceholder", "Refetching", "Success", "Stale", "Error"}

\* What an observer may be when n data have been written.
Records(n) ==
  [at : {"none", "new", "query", "read", "seed", "seeded", "idle", "lagged"},
   state : [s : Variants, data : Data(n) \cup {Placeholder}],
   seen : Data(n), queue : Seq(Variants), missed : Nat, left : Nat, got : BOOLEAN,
   started : BOOLEAN, failures : Nat, reason : BOOLEAN, errors : Nat, fetched : BOOLEAN,
   mounted : BOOLEAN, owes : BOOLEAN, driven : BOOLEAN]

ObserverTypes ==
  /\ plan \in [ops : SUBSET ObserverOps, budget : Nat, initial : BOOLEAN, placeholder : BOOLEAN]
  /\ made \in Nat
  /\ cache \in [data : Data(made), stale : BOOLEAN]
  /\ note \in {"none", "Success", "Idle"}
  /\ obs \in [Observers -> Records(made)]

\* The failure bookkeeping of one observer.
Failures(r) ==
  /\ Status(r.state) = "Error" => r.failures > 0 /\ r.reason
  /\ r.reason <=> r.failures > 0
  /\ r.failures <= r.errors
  /\ FetchStatus(r.state) = "Fetching" => r.failures = 0
  /\ r.mounted => r.fetched

\* What is lost leaves the queue full, so that a lagged observer finds something to
\* return; before its first read an observer shows nothing.
Shape(r) ==
  /\ Len(r.queue) <= Cap
  /\ r.missed > 0 => r.queue # <<>>
  /\ r.at = "lagged" => r.queue # <<>> \/ r.got
  /\ r.at \in {"new", "query"} => r.state = Idle
  /\ Failures(r)

\* With no update to read and no re-read owed, what was read is what is cached.
CaughtUp(r, c) ==
  r.queue = <<>> /\ ~r.owes =>
    /\ r.at = "read" => r.seen = c.data
    /\ r.at = "idle" /\ ~r.driven => r.state = Seen(c.data, c.stale)

\* Nobody has written without having sent the notification.
Announced == note = "none" /\ \A o \in Observers : obs[o].at # "seeded"

ObserverInv ==
  /\ ObserverTypes
  /\ \A o \in Observers : Shape(obs[o])
  /\ Announced => \A o \in Observers : CaughtUp(obs[o], cache)

LEMMA AbsentFacts ==
  ASSUME NEW n \in Nat, NEW place \in {"none", "new", "query"}
  PROVE  /\ [Absent EXCEPT !.at = place] \in Records(n)
         /\ Shape([Absent EXCEPT !.at = place])
         /\ \A c : CaughtUp([Absent EXCEPT !.at = place], c)
<1> DEFINE r == [Absent EXCEPT !.at = place]
<1>1. <<>> \in Seq(Variants) /\ Len(<<>>) = 0
  OBVIOUS
<1>2. Idle \in [s : Variants, data : Data(n) \cup {Placeholder}] /\ NoData \in Data(n)
  <2>1. NoData \in Data(n)
    BY DEF Data
  <2>2. \A S : NoData \in S => [s |-> "Idle", data |-> NoData] \in [s : Variants, data : S]
    BY DEF Variants
  <2> QED
    BY <2>1, <2>2 DEF Idle, State
<1>3. Absent \in Records(n)
  BY <1>1, <1>2 DEF Absent, Records
<1>4. r \in Records(n) /\ r.at = place /\ r.state = Idle /\ r.queue = <<>> /\ r.missed = 0
  <2>1. r \in Records(n) /\ r.at = place /\ r.state = Absent.state /\ r.queue = Absent.queue
        /\ r.missed = Absent.missed
    BY <1>3 DEF Records
  <2> QED
    BY <2>1 DEF Absent
<1>5. r.failures = 0 /\ ~r.reason /\ r.errors = 0 /\ ~r.mounted
  <2>1. r.failures = Absent.failures /\ r.reason = Absent.reason /\ r.errors = Absent.errors
        /\ r.mounted = Absent.mounted
    BY <1>3 DEF Records
  <2> QED
    BY <2>1 DEF Absent
<1> HIDE DEF r
<1>6. Failures(r)
  BY <1>4, <1>5 DEF Failures, Idle, State, Status, FetchStatus, InProgress
<1>7. Shape(r)
  BY <1>1, <1>4, <1>6, CapPositive DEF Shape
<1>8. \A c : CaughtUp(r, c)
  BY <1>4 DEF CaughtUp
<1> QED
  BY <1>4, <1>7, <1>8 DEF r

LEMMA ObserverInvInit ==
  ASSUME NEW p \in [ops : SUBSET ObserverOps, budget : Nat, initial : BOOLEAN, placeholder : BOOLEAN],
         ObserverInitFor(p)
  PROVE  ObserverInv
<1> USE DEF ObserverInitFor
<1>1. Absent = [Absent EXCEPT !.at = "none"]
  <2>1. Absent.at = "none"
    BY DEF Absent
  <2>2. Absent = [f \in DOMAIN Absent |-> Absent[f]]
    BY DEF Absent
  <2> QED
    BY <2>1, <2>2
<1>2. Absent \in Records(0) /\ Shape(Absent) /\ \A c : CaughtUp(Absent, c)
  BY <1>1, AbsentFacts
<1>3. ObserverTypes
  BY <1>2 DEF ObserverTypes, Data
<1> QED
  BY <1>2, <1>3 DEF ObserverInv

\* bus.rs, send: whatever was queued, something is queued afterwards.
LEMMA ToldQueue ==
  ASSUME NEW q \in Seq(Variants), Len(q) <= Cap, NEW v \in Variants, NEW n \in Nat
  PROVE  /\ Queued(q, v) \in Seq(Variants) /\ Queued(q, v) # <<>> /\ Len(Queued(q, v)) <= Cap
         /\ Missed(q, n) \in Nat
<1> DEFINE kept == IF Len(q) >= Cap THEN Tail(q) ELSE q
<1>1. kept \in Seq(Variants) /\ Len(kept) < Cap /\ Len(kept) \in Nat
  <2>1. CASE Len(q) >= Cap
    <3>1. q # <<>>
      BY <2>1, CapPositive
    <3> QED
      BY <2>1, <3>1, HeadTailProperties, LenProperties, CapPositive
  <2>2. CASE ~(Len(q) >= Cap)
    BY <2>2, LenProperties, CapPositive
  <2> QED
    BY <2>1, <2>2
<1> HIDE DEF kept
<1>2. Append(kept, v) \in Seq(Variants) /\ Append(kept, v) # <<>> /\ Len(Append(kept, v)) = Len(kept) + 1
  BY <1>1, AppendProperties
<1>3. Queued(q, v) = Append(kept, v)
  BY DEF Queued, kept
<1>4. Missed(q, n) \in Nat
  BY DEF Missed
<1>5. Len(Append(kept, v)) <= Cap
  BY <1>1, <1>2, CapPositive
<1> QED
  BY <1>2, <1>3, <1>4, <1>5

\* notify_subscribers: every observer has something to read, and nothing else changes.
LEMMA ToldFacts ==
  ASSUME NEW n \in Nat, NEW os \in [Observers -> Records(n)], NEW v \in Variants,
         \A o \in Observers : Shape(os[o])
  PROVE  /\ Told(os, v) \in [Observers -> Records(n)]
         /\ \A o \in Observers : /\ Shape(Told(os, v)[o])
                                 /\ Told(os, v)[o].at = os[o].at
                                 /\ os[o].at # "none" => Told(os, v)[o].queue # <<>>
                                 /\ \A c : CaughtUp(Told(os, v)[o], c)
<1> DEFINE Fine(o) == /\ Told(os, v)[o] \in Records(n)
                      /\ Shape(Told(os, v)[o])
                      /\ Told(os, v)[o].at = os[o].at
                      /\ os[o].at # "none" => Told(os, v)[o].queue # <<>>
                      /\ \A c : CaughtUp(Told(os, v)[o], c)
<1>0. ASSUME \A o \in Observers : Fine(o) PROVE Told(os, v) \in [Observers -> Records(n)]
  <2>1. \A o \in Observers : Told(os, v)[o] \in Records(n)
    BY <1>0
  <2>2. Told(os, v) = [o \in Observers |-> Told(os, v)[o]]
    BY Zenon DEF Told
  <2> HIDE DEF Fine
  <2> QED
    BY <2>1, <2>2, Zenon
<1> SUFFICES ASSUME NEW o \in Observers PROVE Fine(o)
  BY <1>0
<1> DEFINE r == os[o]
           t == [r EXCEPT !.queue = Queued(r.queue, v), !.missed = Missed(r.queue, r.missed)]
<1>1. r \in Records(n) /\ Shape(r)
  OBVIOUS
<1>2. CASE r.at = "none"
  <2>1. Told(os, v)[o] = r
    BY <1>2 DEF Told
  <2> QED
    BY <1>1, <1>2, <2>1 DEF CaughtUp
<1>3. CASE r.at # "none"
  <2>1. Told(os, v)[o] = t
    BY <1>3 DEF Told
  <2> HIDE DEF r
  <2>2. /\ Queued(r.queue, v) \in Seq(Variants) /\ Queued(r.queue, v) # <<>>
        /\ Len(Queued(r.queue, v)) <= Cap /\ Missed(r.queue, r.missed) \in Nat
    <3>1. r.queue \in Seq(Variants) /\ r.missed \in Nat
      BY <1>1 DEF Records
    <3>2. Len(r.queue) <= Cap
      BY <1>1 DEF Shape
    <3> QED
      BY <3>1, <3>2, ToldQueue
  <2>3. t \in Records(n) /\ t.queue = Queued(r.queue, v) /\ t.at = r.at /\ t.got = r.got
    BY <1>1, <2>2 DEF Records
  <2>4. /\ t.state = r.state /\ t.failures = r.failures /\ t.reason = r.reason
        /\ t.errors = r.errors /\ t.mounted = r.mounted /\ t.fetched = r.fetched
    BY <1>1, <2>2 DEF Records
  <2> HIDE DEF t
  <2>5. Shape(t)
    BY <1>1, <2>2, <2>3, <2>4 DEF Shape, Failures
  <2>6. \A c : CaughtUp(t, c)
    BY <2>2, <2>3 DEF CaughtUp
  <2> QED
    BY <2>1, <2>2, <2>3, <2>5, <2>6 DEF r
<1> QED
  BY <1>2, <1>3

LEMMA RecordsGrow ==
  ASSUME NEW n \in Nat, NEW k \in Nat, n <= k
  PROVE  Records(n) \subseteq Records(k) /\ Data(n) \subseteq Data(k)
<1>1. Data(n) \subseteq Data(k)
  BY DEF Data
<1> QED
  BY <1>1 DEF Records

\* What a step leaves of the types when it is not about an observer.
OthersTyped ==
  /\ plan \in [ops : SUBSET ObserverOps, budget : Nat, initial : BOOLEAN, placeholder : BOOLEAN]
  /\ made \in Nat
  /\ cache \in [data : Data(made), stale : BOOLEAN]
  /\ note \in {"none", "Success", "Idle"}

LEMMA BeginFacts ==
  ASSUME ObserverTypes, NEW op, Begin(op)
  PROVE  plan' \in [ops : SUBSET ObserverOps, budget : Nat, initial : BOOLEAN, placeholder : BOOLEAN]
  BY DEF ObserverTypes, Begin

\* A step of one observer, while no notification is pending on its account.
LEMMA OneMoves ==
  ASSUME ObserverInv, OthersTyped', made <= made', UNCHANGED <<cache, note>>,
         NEW o \in Observers, NEW r \in Records(made'), obs' = [obs EXCEPT ![o] = r],
         obs[o].at # "seeded", Shape(r), Announced => CaughtUp(r, cache)
  PROVE  ObserverInv'
<1>1. ObserverTypes /\ made \in Nat /\ made' \in Nat
  BY DEF ObserverInv, ObserverTypes, OthersTyped
<1>2. obs \in [Observers -> Records(made')]
  BY <1>1, RecordsGrow DEF ObserverTypes
<1>3. \A u \in Observers : obs'[u] = IF u = o THEN r ELSE obs[u]
  BY <1>2
<1>4. ObserverTypes'
  BY <1>2 DEF ObserverTypes, OthersTyped
<1>5. \A u \in Observers : Shape(obs'[u])
  BY <1>3 DEF ObserverInv
<1>6. ASSUME Announced' PROVE \A u \in Observers : CaughtUp(obs'[u], cache')
  <2>1. Announced
    BY <1>3, <1>6 DEF Announced
  <2> QED
    BY <1>3, <2>1 DEF ObserverInv
<1> QED
  BY <1>4, <1>5, <1>6 DEF ObserverInv

\* A write whose notification is still to be sent.
LEMMA Unannounced ==
  ASSUME ObserverInv, OthersTyped', obs' \in [Observers -> Records(made')],
         \A o \in Observers : Shape(obs'[o]), ~Announced'
  PROVE  ObserverInv'
  BY DEF ObserverInv, ObserverTypes, OthersTyped

\* A step after which every observer has something to read.
LEMMA EverybodyTold ==
  ASSUME ObserverInv, OthersTyped', made' = made,
         NEW os \in [Observers -> Records(made)], \A o \in Observers : Shape(os[o]),
         NEW v \in Variants, obs' = Told(os, v)
  PROVE  ObserverInv'
<1>1. made \in Nat
  BY DEF ObserverInv, ObserverTypes
<1>2. obs' \in [Observers -> Records(made)] /\ \A o \in Observers : Shape(obs'[o]) /\ \A c : CaughtUp(obs'[o], c)
  BY <1>1, ToldFacts
<1> QED
  BY <1>2 DEF ObserverInv, ObserverTypes, OthersTyped

\* invalidate_queries: data that is not cached stays that way and nobody is told.
LEMMA StaleFacts ==
  ASSUME ObserverTypes, MarkStale
  PROVE  /\ cache' \in [data : Data(made), stale : BOOLEAN]
         /\ cache.data = NoData => cache' = cache
<1>1. cache \in [data : Data(made), stale : BOOLEAN]
  BY DEF ObserverTypes
<1>2. CASE cache.data = NoData
  <2>1. cache' = [cache EXCEPT !.stale = cache.stale]
    BY <1>1, <1>2 DEF MarkStale
  <2> QED
    BY <1>1, <2>1
<1>3. CASE cache.data # NoData
  <2>1. cache' = [cache EXCEPT !.stale = TRUE]
    BY <1>1, <1>3 DEF MarkStale
  <2> QED
    BY <1>1, <1>3, <2>1
<1> QED
  BY <1>2, <1>3

\* What an observer that has read data d and staleness st shows.
LEMMA SeenFacts ==
  ASSUME NEW n \in Nat, NEW d \in Data(n), NEW st \in BOOLEAN
  PROVE  /\ Seen(d, st) \in [s : Variants, data : Data(n) \cup {Placeholder}]
         /\ Status(Seen(d, st)) # "Error" /\ FetchStatus(Seen(d, st)) # "Fetching"
<1>1. PICK v \in {"Idle", "Stale", "Success"} : Seen(d, st) = [s |-> v, data |-> d]
  BY DEF Seen, State, Idle
<1>2. [s |-> v, data |-> d] \in [s : Variants, data : Data(n) \cup {Placeholder}]
  BY DEF Variants
<1> QED
  BY <1>1, <1>2 DEF Status, FetchStatus, InProgress

\* The writer (src/client.rs as an observer sees it).
LEMMA WriterSteps ==
  ASSUME ObserverInv,
         SetQueryData \/ RemoveQueries \/ NotifySubscribers \/ InvalidateQueries
  PROVE  ObserverInv'
<1>1. ObserverTypes /\ made \in Nat /\ obs \in [Observers -> Records(made)]
      /\ \A o \in Observers : Shape(obs[o])
  BY DEF ObserverInv, ObserverTypes
<1>2. CASE SetQueryData
  <2>1. /\ made' = made + 1 /\ note' = "Success" /\ obs' = obs
        /\ cache' = [data |-> made + 1, stale |-> FALSE] /\ Begin("set")
    BY <1>2 DEF SetQueryData
  <2>2. OthersTyped'
    BY <1>1, <2>1, BeginFacts DEF OthersTyped, Data
  <2>3. obs' \in [Observers -> Records(made')]
    BY <1>1, <2>1, RecordsGrow
  <2>4. ~Announced'
    BY <2>1 DEF Announced
  <2> QED
    BY <1>1, <2>1, <2>2, <2>3, <2>4, Unannounced
<1>3. CASE RemoveQueries
  <2>1. /\ made' = made /\ note' = "Idle" /\ obs' = obs
        /\ cache' = [data |-> NoData, stale |-> FALSE] /\ Begin("remove")
    BY <1>3 DEF RemoveQueries
  <2>2. OthersTyped'
    BY <1>1, <2>1, BeginFacts DEF OthersTyped, Data
  <2>3. ~Announced'
    BY <2>1 DEF Announced
  <2> QED
    BY <1>1, <2>1, <2>2, <2>3, Unannounced
<1>4. CASE NotifySubscribers
  <2>1. note \in Variants
    BY <1>1, <1>4 DEF NotifySubscribers, ObserverTypes, Variants
  <2>2. OthersTyped' /\ made' = made
    BY <1>1, <1>4 DEF NotifySubscribers, OthersTyped, ObserverTypes
  <2> QED
    BY <1>1, <1>4, <2>1, <2>2, EverybodyTold DEF NotifySubscribers
<1>5. CASE InvalidateQueries
  <2>1. /\ made' = made /\ note' = note /\ MarkStale /\ obs' = Invalidated(obs) /\ Begin("invalidate")
    BY <1>5 DEF InvalidateQueries
  <2>2. OthersTyped'
    BY <1>1, <2>1, BeginFacts, StaleFacts DEF OthersTyped, ObserverTypes
  <2>3. CASE cache.data = NoData
    <3>1. obs' = obs /\ cache' = cache
      BY <1>1, <2>1, <2>3, StaleFacts DEF Invalidated
    <3> QED
      BY <1>1, <2>1, <2>2, <3>1 DEF ObserverInv, ObserverTypes, OthersTyped, Announced
  <2>4. CASE cache.data # NoData
    <3>1. obs' = Told(obs, "Stale") /\ "Stale" \in Variants
      BY <2>1, <2>4 DEF Invalidated, Variants
    <3> QED
      BY <1>1, <2>1, <2>2, <3>1, EverybodyTold
  <2> QED
    BY <2>3, <2>4
<1> QED
  BY <1>2, <1>3, <1>4, <1>5

\* new, from_query, and the first reads of both.
LEMMA ConstructionSteps ==
  ASSUME ObserverInv, NEW o \in Observers,
         \/ \E op \in {"new", "query"} : Construct(o, op)
         \/ ReadData(o) \/ Seed(o) \/ SeedNotify(o) \/ ReadStale(o)
  PROVE  ObserverInv'
<1>1. ObserverTypes /\ made \in Nat /\ obs \in [Observers -> Records(made)]
      /\ \A u \in Observers : Shape(obs[u])
  BY DEF ObserverInv, ObserverTypes
<1> DEFINE q == obs[o]
<1>2. q \in Records(made) /\ Shape(q) /\ (Announced => CaughtUp(q, cache))
  BY <1>1 DEF ObserverInv
<1>3. cache.data \in Data(made) /\ cache.stale \in BOOLEAN
  BY <1>1 DEF ObserverTypes
<1>4. ASSUME NEW op \in {"new", "query"}, Construct(o, op) PROVE ObserverInv'
  <2> DEFINE r == [Absent EXCEPT !.at = op]
  <2>1. /\ obs' = [obs EXCEPT ![o] = r] /\ q.at = "none"
        /\ UNCHANGED <<cache, note, made>> /\ Begin(op)
    BY <1>4 DEF Construct
  <2>2. r \in Records(made) /\ Shape(r) /\ CaughtUp(r, cache)
    BY <1>1, AbsentFacts
  <2>3. OthersTyped'
    BY <1>1, <2>1, BeginFacts DEF OthersTyped, ObserverTypes
  <2> HIDE DEF r
  <2>4. obs[o].at # "seeded" /\ made <= made' /\ r \in Records(made')
    BY <1>1, <2>1, <2>2
  <2> QED
    BY <2>1, <2>2, <2>3, <2>4, OneMoves
<1>5. CASE ReadData(o)
  <2> DEFINE place == CASE cache.data # NoData -> "read"
                        [] q.at = "query" /\ plan.initial -> "seed"
                        [] OTHER -> "idle"
             r == [q EXCEPT !.seen = cache.data, !.at = place]
  <2>1. q.at \in {"new", "query"} /\ UNCHANGED <<plan, cache, note, made>>
    BY <1>5 DEF ReadData
  <2>2. obs' = [obs EXCEPT ![o].seen = cache.data, ![o].at = place]
    BY <1>5, Zenon DEF ReadData
  <2>3. /\ place \in {"read", "seed", "idle"}
        /\ place = "idle" => cache.data = NoData
    <3>1. CASE cache.data # NoData
      BY <3>1
    <3>2. CASE cache.data = NoData /\ q.at = "query" /\ plan.initial
      BY <3>2
    <3>3. CASE cache.data = NoData /\ ~(q.at = "query" /\ plan.initial)
      BY <3>3
    <3> QED
      BY <3>1, <3>2, <3>3
  <2> HIDE DEF place
  <2>4. obs' = [obs EXCEPT ![o] = r]
    BY <1>1, <2>2
  <2>5. /\ r \in Records(made) /\ r.at = place /\ r.seen = cache.data /\ r.state = q.state
        /\ r.queue = q.queue /\ r.missed = q.missed /\ r.failures = q.failures
        /\ r.reason = q.reason /\ r.errors = q.errors /\ r.mounted = q.mounted /\ r.fetched = q.fetched
    BY <1>2, <1>3, <2>3 DEF Records
  <2> HIDE DEF r
  <2>6. Shape(r)
    BY <1>2, <2>3, <2>5 DEF Shape, Failures
  <2>7. CaughtUp(r, cache)
    <3>1. q.state = Idle
      BY <1>2, <2>1 DEF Shape
    <3> QED
      BY <2>3, <2>5, <3>1 DEF CaughtUp, Seen
  <2>8. OthersTyped'
    BY <1>1, <2>1 DEF OthersTyped, ObserverTypes
  <2>9. obs[o].at # "seeded" /\ made <= made' /\ r \in Records(made')
    BY <1>1, <2>1, <2>5
  <2> HIDE DEF q
  <2> QED
    BY <2>1, <2>6, <2>7, <2>8, <2>9, <2>4, OneMoves
<1>6. CASE Seed(o)
  <2> DEFINE r == [q EXCEPT !.at = "seeded", !.seen = made + 1]
  <2>1. /\ q.at = "seed" /\ made' = made + 1 /\ cache' = [data |-> made + 1, stale |-> FALSE]
        /\ UNCHANGED <<plan, note>>
    BY <1>6 DEF Seed
  <2>2. obs' = [obs EXCEPT ![o] = r]
    BY <1>1, <1>6 DEF Seed
  <2>3. q \in Records(made + 1) /\ made + 1 \in Data(made + 1)
    BY <1>1, <1>2, RecordsGrow DEF Data
  <2>4. /\ r \in Records(made + 1) /\ r.at = "seeded" /\ r.state = q.state
        /\ r.queue = q.queue /\ r.missed = q.missed /\ r.failures = q.failures
        /\ r.reason = q.reason /\ r.errors = q.errors /\ r.mounted = q.mounted /\ r.fetched = q.fetched
    BY <2>3 DEF Records
  <2> HIDE DEF r
  <2>5. Shape(r)
    BY <1>2, <2>4 DEF Shape, Failures
  <2>6. obs \in [Observers -> Records(made')]
    BY <1>1, <2>1, RecordsGrow
  <2>7. obs' \in [Observers -> Records(made')] /\ \A u \in Observers : obs'[u] = IF u = o THEN r ELSE obs[u]
    BY <2>1, <2>2, <2>4, <2>6
  <2>8. OthersTyped'
    BY <1>1, <2>1 DEF OthersTyped, ObserverTypes, Data
  <2>9. ~Announced'
    BY <2>4, <2>7 DEF Announced
  <2>10. \A u \in Observers : Shape(obs'[u])
    BY <1>1, <2>5, <2>7
  <2> QED
    BY <2>7, <2>8, <2>9, <2>10, Unannounced
<1>7. CASE SeedNotify(o)
  <2> DEFINE ts == Told(obs, "Success")
             t == ts[o]
             shown == State("Success", obs[o].seen)
             r == [t EXCEPT !.at = "idle", !.state = shown]
  <2>1. "Success" \in Variants
    BY DEF Variants
  <2>2. /\ ts \in [Observers -> Records(made)]
        /\ \A u \in Observers : Shape(ts[u]) /\ \A c : CaughtUp(ts[u], c)
        /\ obs[o].at # "none" => t.queue # <<>>
    BY <1>1, <2>1, ToldFacts
  <2> HIDE DEF ts
  <2>3. obs' = [ts EXCEPT ![o] = r] /\ obs[o].at = "seeded" /\ UNCHANGED <<plan, cache, note, made>>
    BY <1>7, <2>2 DEF SeedNotify, ts
  <2>4. t \in Records(made) /\ Shape(t) /\ t.queue # <<>>
    BY <2>2, <2>3
  <2>5. shown \in [s : Variants, data : Data(made) \cup {Placeholder}]
        /\ Status(shown) = "Success" /\ FetchStatus(shown) = "Idle"
    <3>1. obs[o].seen \in Data(made)
      BY <1>2 DEF Records
    <3>2. \A S : obs[o].seen \in S => [s |-> "Success", data |-> obs[o].seen] \in [s : Variants, data : S]
      BY DEF Variants
    <3>3. [s |-> "Success", data |-> obs[o].seen] \in [s : Variants, data : Data(made) \cup {Placeholder}]
      BY <3>1, <3>2
    <3> QED
      BY <3>3 DEF State, Status, FetchStatus, InProgress
  <2> HIDE DEF shown, t
  <2>6. /\ r \in Records(made) /\ r.at = "idle" /\ r.state = shown
        /\ r.queue = t.queue /\ r.missed = t.missed /\ r.failures = t.failures
        /\ r.reason = t.reason /\ r.errors = t.errors /\ r.mounted = t.mounted /\ r.fetched = t.fetched
    BY <2>4, <2>5 DEF Records
  <2> HIDE DEF r
  <2>7. Shape(r) /\ \A c : CaughtUp(r, c)
    BY <2>4, <2>5, <2>6 DEF Shape, Failures, CaughtUp
  <2>8. obs' \in [Observers -> Records(made)] /\ \A u \in Observers : obs'[u] = IF u = o THEN r ELSE ts[u]
    BY <2>2, <2>3, <2>6
  <2>9. \A u \in Observers : Shape(obs'[u]) /\ \A c : CaughtUp(obs'[u], c)
    BY <2>2, <2>7, <2>8
  <2> QED
    BY <1>1, <2>3, <2>8, <2>9 DEF ObserverInv, ObserverTypes
<1>8. CASE ReadStale(o)
  <2> DEFINE shown == Seen(q.seen, cache.stale)
             r == [q EXCEPT !.at = "idle", !.driven = FALSE, !.state = shown]
  <2>1. q.at = "read" /\ UNCHANGED <<plan, cache, note, made>>
    BY <1>8 DEF ReadStale
  <2>2. obs' = [obs EXCEPT ![o] = r]
    BY <1>1, <1>8 DEF ReadStale
  <2>3. q.seen \in Data(made)
    BY <1>2 DEF Records
  <2>4. /\ shown \in [s : Variants, data : Data(made) \cup {Placeholder}]
        /\ Status(shown) # "Error" /\ FetchStatus(shown) # "Fetching"
    BY <1>1, <1>3, <2>3, SeenFacts
  <2>5. Announced /\ q.queue = <<>> /\ ~q.owes => shown = Seen(cache.data, cache.stale)
    BY <1>2, <2>1 DEF CaughtUp
  <2> HIDE DEF shown
  <2>6. /\ r \in Records(made) /\ r.at = "idle" /\ r.state = shown /\ r.owes = q.owes
        /\ r.queue = q.queue /\ r.missed = q.missed /\ r.failures = q.failures
        /\ r.reason = q.reason /\ r.errors = q.errors /\ r.mounted = q.mounted /\ r.fetched = q.fetched
    BY <1>2, <2>4 DEF Records
  <2> HIDE DEF r
  <2>7. Shape(r)
    BY <1>2, <2>4, <2>6 DEF Shape, Failures
  <2>8. Announced => CaughtUp(r, cache)
    BY <2>5, <2>6 DEF CaughtUp
  <2>9. OthersTyped'
    BY <1>1, <2>1 DEF OthersTyped, ObserverTypes
  <2>10. obs[o].at # "seeded" /\ made <= made' /\ r \in Records(made')
    BY <1>1, <2>1, <2>6
  <2> HIDE DEF q
  <2> QED
    BY <2>1, <2>2, <2>7, <2>8, <2>9, <2>10, OneMoves
<1> QED
  BY <1>4, <1>5, <1>6, <1>7, <1>8

\* Clone, update and try_recv.
LEMMA ReadingSteps ==
  ASSUME ObserverInv, NEW o \in Observers,
         \/ \E c \in Observers : Clone(o, c)
         \/ Update(o) \/ TryRecv(o) \/ SkipLagged(o)
  PROVE  ObserverInv'
<1>1. ObserverTypes /\ made \in Nat /\ obs \in [Observers -> Records(made)]
      /\ \A u \in Observers : Shape(obs[u])
  BY DEF ObserverInv, ObserverTypes
<1> DEFINE q == obs[o]
<1>2. q \in Records(made) /\ Shape(q) /\ (Announced => CaughtUp(q, cache))
  BY <1>1 DEF ObserverInv
<1>3. cache.data \in Data(made) /\ cache.stale \in BOOLEAN
  BY <1>1 DEF ObserverTypes
<1>4. q.queue \in Seq(Variants) /\ q.missed \in Nat /\ q.left \in Nat
  BY <1>2 DEF Records
\* The record of one observer becomes r, and nothing is written.
<1>5. ASSUME NEW c \in Observers, NEW r \in Records(made), obs' = [obs EXCEPT ![c] = r],
             UNCHANGED <<cache, note, made>>, OthersTyped', obs[c].at # "seeded",
             Shape(r), Announced => CaughtUp(r, cache)
      PROVE  ObserverInv'
  <2>1. made <= made' /\ r \in Records(made')
    BY <1>1, <1>5
  <2> QED
    BY <1>5, <2>1, OneMoves
<1>6. ASSUME NEW op, Begin(op), UNCHANGED <<cache, note, made>> PROVE OthersTyped'
  BY <1>1, <1>6, BeginFacts DEF OthersTyped, ObserverTypes
\* The oldest value is taken.
<1>7. ASSUME q.queue # <<>>
      PROVE  Tail(q.queue) \in Seq(Variants) /\ Len(Tail(q.queue)) <= Cap
  <2>1. Tail(q.queue) \in Seq(Variants) /\ Len(Tail(q.queue)) = Len(q.queue) - 1
    BY <1>4, <1>7, HeadTailProperties
  <2>2. Len(q.queue) \in Nat /\ Len(q.queue) <= Cap
    BY <1>2, <1>4, LenProperties DEF Shape
  <2> QED
    BY <2>1, <2>2, CapPositive
<1>8. ASSUME NEW c \in Observers, Clone(o, c) PROVE ObserverInv'
  <2> DEFINE more == q.owes \/ q.queue # <<>> \/ q.missed > 0
             r == [q EXCEPT !.queue = <<>>, !.missed = 0, !.owes = more]
  <2>1. q.at = "idle" /\ obs[c].at = "none" /\ Begin("clone") /\ UNCHANGED <<cache, note, made>>
    BY <1>8 DEF Clone
  <2>2. obs' = [obs EXCEPT ![c] = r]
    BY <1>8 DEF Clone
  <2>3. more \in BOOLEAN /\ (~more => ~q.owes /\ q.queue = <<>>)
    OBVIOUS
  <2> HIDE DEF more
  <2>4. <<>> \in Seq(Variants) /\ Len(<<>>) = 0
    OBVIOUS
  <2>5. /\ r \in Records(made) /\ r.at = q.at /\ r.state = q.state /\ r.owes = more /\ r.driven = q.driven
        /\ r.queue = <<>> /\ r.missed = 0 /\ r.failures = q.failures
        /\ r.reason = q.reason /\ r.errors = q.errors /\ r.mounted = q.mounted /\ r.fetched = q.fetched
    BY <1>2, <2>3, <2>4 DEF Records
  <2> HIDE DEF r
  <2>6. Shape(r)
    BY <1>2, <2>1, <2>4, <2>5, CapPositive DEF Shape, Failures
  <2>7. Announced => CaughtUp(r, cache)
    BY <1>2, <2>1, <2>3, <2>5 DEF CaughtUp
  <2> QED
    BY <1>5, <1>6, <2>1, <2>2, <2>5, <2>6, <2>7
<1>9. CASE Update(o)
  <2> DEFINE r == [q EXCEPT !.at = "read", !.seen = cache.data, !.owes = FALSE]
  <2>1. q.at = "idle" /\ Begin("update") /\ UNCHANGED <<cache, note, made>>
    BY <1>9 DEF Update
  <2>2. obs' = [obs EXCEPT ![o] = r]
    BY <1>1, <1>9 DEF Update
  <2>3. /\ r \in Records(made) /\ r.at = "read" /\ r.state = q.state /\ r.seen = cache.data
        /\ r.queue = q.queue /\ r.missed = q.missed /\ r.failures = q.failures
        /\ r.reason = q.reason /\ r.errors = q.errors /\ r.mounted = q.mounted /\ r.fetched = q.fetched
    BY <1>2, <1>3 DEF Records
  <2> HIDE DEF r
  <2>4. Shape(r) /\ CaughtUp(r, cache)
    BY <1>2, <2>3 DEF Shape, Failures, CaughtUp
  <2>5. obs[o].at # "seeded"
    BY <2>1
  <2> HIDE DEF q
  <2> QED
    BY <1>5, <1>6, <2>1, <2>2, <2>3, <2>4, <2>5
<1>10. CASE TryRecv(o)
  <2>1. q.at = "idle" /\ Begin("recv") /\ UNCHANGED <<cache, note, made>>
    BY <1>10 DEF TryRecv
  <2>2. obs[o].at # "seeded"
    BY <2>1
  <2>3. CASE q.missed > 0
    <3> DEFINE r == [q EXCEPT !.at = "lagged", !.left = q.missed, !.missed = 0, !.got = FALSE]
    <3>1. obs' = [obs EXCEPT ![o] = r]
      BY <1>1, <1>10, <2>3 DEF TryRecv
    <3>2. /\ r \in Records(made) /\ r.at = "lagged" /\ r.state = q.state
          /\ r.queue = q.queue /\ r.missed = 0 /\ r.failures = q.failures
          /\ r.reason = q.reason /\ r.errors = q.errors /\ r.mounted = q.mounted /\ r.fetched = q.fetched
      BY <1>2, <1>4 DEF Records
    <3> HIDE DEF r
    <3>3. Shape(r) /\ CaughtUp(r, cache)
      BY <1>2, <2>3, <3>2 DEF Shape, Failures, CaughtUp
    <3> HIDE DEF q
    <3> QED
      BY <1>5, <1>6, <2>1, <2>2, <3>1, <3>2, <3>3
  <2>4. CASE ~(q.missed > 0)
    <3> DEFINE r == [q EXCEPT !.queue = Tail(q.queue), !.owes = TRUE]
    <3>1. obs' = [obs EXCEPT ![o] = r] /\ q.queue # <<>>
      BY <1>1, <1>10, <2>4 DEF TryRecv
    <3>2. /\ r \in Records(made) /\ r.at = q.at /\ r.state = q.state /\ r.owes
          /\ r.queue = Tail(q.queue) /\ r.missed = q.missed /\ r.failures = q.failures
          /\ r.reason = q.reason /\ r.errors = q.errors /\ r.mounted = q.mounted /\ r.fetched = q.fetched
      BY <1>2, <1>7, <3>1 DEF Records
    <3>3. Len(Tail(q.queue)) <= Cap
      BY <1>7, <3>1
    <3> HIDE DEF r
    <3>4. Shape(r) /\ CaughtUp(r, cache)
      BY <1>2, <2>1, <2>4, <3>2, <3>3 DEF Shape, Failures, CaughtUp
    <3> HIDE DEF q
    <3> QED
      BY <1>5, <1>6, <2>1, <2>2, <3>1, <3>2, <3>4
  <2> QED
    BY <2>3, <2>4
<1>11. CASE SkipLagged(o)
  <2>1. q.at = "lagged" /\ UNCHANGED <<plan, cache, note, made>>
    BY <1>11 DEF SkipLagged
  <2>2. obs[o].at # "seeded" /\ OthersTyped'
    BY <1>1, <2>1 DEF OthersTyped, ObserverTypes
  <2>3. CASE q.left = 0 \/ q.missed > 0 \/ q.queue = <<>>
    <3> DEFINE owed == q.owes \/ q.got
               r == [q EXCEPT !.at = "idle", !.missed = 0, !.owes = owed]
    <3>1. obs' = [obs EXCEPT ![o] = r]
      BY <1>1, <1>11, <2>3 DEF SkipLagged
    <3>2. owed \in BOOLEAN /\ (q.got => owed)
      OBVIOUS
    <3> HIDE DEF owed
    <3>3. /\ r \in Records(made) /\ r.at = "idle" /\ r.state = q.state /\ r.owes = owed
          /\ r.queue = q.queue /\ r.missed = 0 /\ r.failures = q.failures
          /\ r.reason = q.reason /\ r.errors = q.errors /\ r.mounted = q.mounted /\ r.fetched = q.fetched
      BY <1>2, <3>2 DEF Records
    <3> HIDE DEF r
    <3>4. Shape(r) /\ CaughtUp(r, cache)
      BY <1>2, <2>1, <3>2, <3>3 DEF Shape, Failures, CaughtUp
    <3> HIDE DEF q
    <3> QED
      BY <1>5, <2>1, <2>2, <3>1, <3>3, <3>4
  <2>4. CASE ~(q.left = 0 \/ q.missed > 0 \/ q.queue = <<>>)
    <3> DEFINE r == [q EXCEPT !.queue = Tail(q.queue), !.left = q.left - 1, !.got = TRUE]
    <3>1. obs' = [obs EXCEPT ![o] = r]
      BY <1>1, <1>11, <2>4 DEF SkipLagged
    <3>2. q.left - 1 \in Nat
      BY <1>4, <2>4
    <3>3. /\ r \in Records(made) /\ r.at = q.at /\ r.state = q.state /\ r.got
          /\ r.queue = Tail(q.queue) /\ r.missed = q.missed /\ r.failures = q.failures
          /\ r.reason = q.reason /\ r.errors = q.errors /\ r.mounted = q.mounted /\ r.fetched = q.fetched
      BY <1>2, <1>7, <2>4, <3>2 DEF Records
    <3>4. Len(Tail(q.queue)) <= Cap
      BY <1>7, <2>4
    <3> HIDE DEF r
    <3>5. Shape(r) /\ CaughtUp(r, cache)
      BY <1>2, <2>1, <2>4, <3>3, <3>4 DEF Shape, Failures, CaughtUp
    <3> HIDE DEF q
    <3> QED
      BY <1>5, <2>1, <2>2, <3>1, <3>3, <3>5
  <2> QED
    BY <2>3, <2>4
<1> QED
  BY <1>8, <1>9, <1>10, <1>11

\* set_loading, set_success, set_error and set_stale.
LEMMA DriveSteps ==
  ASSUME ObserverInv, NEW o \in Observers,
         SetLoading(o) \/ SetSuccess(o) \/ SetError(o) \/ SetStale(o)
  PROVE  ObserverInv'
<1>1. ObserverTypes /\ made \in Nat /\ obs \in [Observers -> Records(made)]
      /\ \A u \in Observers : Shape(obs[u])
  BY DEF ObserverInv, ObserverTypes
<1> DEFINE q == obs[o]
<1>2. q \in Records(made) /\ Shape(q)
  BY <1>1
<1>3. q.failures \in Nat /\ q.errors \in Nat /\ q.state.data \in Data(made) \cup {Placeholder}
      /\ q.started \in BOOLEAN /\ q.mounted \in BOOLEAN
  BY <1>2 DEF Records
\* The record becomes r, which is driven.
<1>4. ASSUME NEW op, q.at = "idle", Begin(op), UNCHANGED <<cache, note>>, made' \in {made, made + 1},
             NEW r \in Records(made'), obs' = [obs EXCEPT ![o] = r],
             r.at = "idle", r.driven, r.queue = q.queue, r.missed = q.missed, Failures(r)
      PROVE  ObserverInv'
  <2>1. OthersTyped' /\ made <= made'
    <3>1. cache \in [data : Data(made'), stale : BOOLEAN]
      BY <1>1, <1>4, RecordsGrow DEF ObserverTypes
    <3> QED
      BY <1>1, <1>4, <3>1, BeginFacts DEF OthersTyped, ObserverTypes
  <2>2. Shape(r) /\ CaughtUp(r, cache)
    BY <1>2, <1>4 DEF Shape, CaughtUp
  <2>3. obs[o].at # "seeded"
    BY <1>4
  <2> HIDE DEF q
  <2> QED
    BY <1>4, <2>1, <2>2, <2>3, OneMoves
<1>5. ASSUME NEW n \in {made, made + 1}, NEW v \in Variants, NEW d \in Data(n) \cup {Placeholder}
      PROVE  State(v, d) \in [s : Variants, data : Data(n) \cup {Placeholder}]
  BY DEF State
<1>6. CASE SetLoading(o)
  <2> DEFINE state == CASE q.state.data # NoData -> State("Refetching", q.state.data)
                        [] q.state.data = NoData /\ plan.placeholder -> State("LoadingWithPlaceholder", Placeholder)
                        [] OTHER -> State("Loading", NoData)
             r == [q EXCEPT !.started = TRUE, !.failures = 0, !.reason = FALSE, !.state = state, !.driven = TRUE]
  <2>1. /\ q.at = "idle" /\ Begin("loading") /\ UNCHANGED <<cache, note, made>>
        /\ obs' = [obs EXCEPT ![o] = [[obs[o] EXCEPT !.started = TRUE, !.failures = 0, !.reason = FALSE,
                                                    !.state = state] EXCEPT !.driven = TRUE]]
    BY <1>6, Zenon DEF SetLoading, Drive
  <2>2. PICK v \in {"Refetching", "LoadingWithPlaceholder", "Loading"} :
               \E d \in Data(made) \cup {Placeholder} : state = State(v, d)
    <3>1. NoData \in Data(made)
      BY DEF Data
    <3>2. CASE q.state.data # NoData
      BY <1>3, <3>2
    <3>3. CASE q.state.data = NoData /\ plan.placeholder
      BY <3>3
    <3>4. CASE q.state.data = NoData /\ ~plan.placeholder
      BY <3>1, <3>4
    <3> QED
      BY <3>2, <3>3, <3>4
  <2>3. state \in [s : Variants, data : Data(made) \cup {Placeholder}] /\ state.s = v
    <3>1. v \in Variants
      BY DEF Variants
    <3> QED
      BY <1>5, <2>2, <3>1 DEF State
  <2> HIDE DEF state
  <2>4. obs' = [obs EXCEPT ![o] = r]
    BY <2>1
  <2>5. /\ r \in Records(made) /\ r.at = q.at /\ r.state = state /\ r.driven
        /\ r.queue = q.queue /\ r.missed = q.missed /\ r.failures = 0
        /\ ~r.reason /\ r.errors = q.errors /\ r.mounted = q.mounted /\ r.fetched = q.fetched
    BY <1>2, <2>3 DEF Records
  <2> HIDE DEF r
  <2>6. Failures(r)
    BY <1>2, <1>3, <2>3, <2>5 DEF Failures, Shape, Status
  <2> QED
    BY <1>4, <2>1, <2>4, <2>5, <2>6
<1>7. CASE SetSuccess(o)
  <2> DEFINE mount == q.mounted \/ q.started
             r == [q EXCEPT !.started = FALSE, !.state = State("Success", made + 1), !.fetched = TRUE,
                            !.mounted = mount, !.failures = 0, !.reason = FALSE, !.driven = TRUE]
  <2>1. /\ q.at = "idle" /\ Begin("success") /\ UNCHANGED <<cache, note>> /\ made' = made + 1
        /\ obs' = [obs EXCEPT ![o] = [[obs[o] EXCEPT !.started = FALSE, !.state = State("Success", made + 1),
                     !.fetched = TRUE, !.mounted = mount, !.failures = 0, !.reason = FALSE]
                     EXCEPT !.driven = TRUE]]
    BY <1>7, Zenon DEF SetSuccess, Drive
  <2>2. State("Success", made + 1) \in [s : Variants, data : Data(made + 1) \cup {Placeholder}]
    <3>1. made + 1 \in Data(made + 1) /\ "Success" \in Variants
      BY <1>1 DEF Data, Variants
    <3> QED
      BY <1>5, <3>1
  <2>3. mount \in BOOLEAN
    BY <1>3
  <2>4. q \in Records(made + 1)
    BY <1>1, <1>2, RecordsGrow
  <2> HIDE DEF mount
  <2>5. obs' = [obs EXCEPT ![o] = r]
    BY <2>1
  <2>6. /\ r \in Records(made + 1) /\ r.at = q.at /\ r.state = State("Success", made + 1) /\ r.driven
        /\ r.queue = q.queue /\ r.missed = q.missed /\ r.failures = 0
        /\ ~r.reason /\ r.errors = q.errors /\ r.mounted = mount /\ r.fetched
    BY <2>2, <2>3, <2>4 DEF Records
  <2> HIDE DEF r
  <2>7. Failures(r)
    BY <1>3, <2>6 DEF Failures, State, Status, FetchStatus, InProgress
  <2> QED
    BY <1>4, <2>1, <2>5, <2>6, <2>7
<1>8. CASE SetError(o)
  <2> DEFINE mount == q.mounted \/ q.started
             errors == q.errors + 1
             failures == q.failures + 1
             error == State("Error", q.state.data)
             r == [q EXCEPT !.started = FALSE, !.state = error,
                            !.errors = errors, !.failures = failures, !.reason = TRUE,
                            !.fetched = TRUE, !.mounted = mount, !.driven = TRUE]
  <2>1. /\ q.at = "idle" /\ Begin("error") /\ UNCHANGED <<cache, note, made>>
        /\ obs' = [obs EXCEPT ![o] = [[obs[o] EXCEPT !.started = FALSE, !.state = error,
                     !.errors = errors, !.failures = failures, !.reason = TRUE,
                     !.fetched = TRUE, !.mounted = mount] EXCEPT !.driven = TRUE]]
    BY <1>8, Zenon DEF SetError, Drive
  <2>2. error \in [s : Variants, data : Data(made) \cup {Placeholder}]
    <3>1. "Error" \in Variants
      BY DEF Variants
    <3> QED
      BY <1>3, <1>5, <3>1
  <2>3. mount \in BOOLEAN /\ errors \in Nat /\ failures \in Nat
    BY <1>3
  <2>4. errors = q.errors + 1 /\ failures = q.failures + 1 /\ error = State("Error", q.state.data)
    OBVIOUS
  <2> HIDE DEF mount, errors, failures, error
  <2>5. obs' = [obs EXCEPT ![o] = r]
    BY <2>1
  <2>6. /\ r \in Records(made) /\ r.at = q.at /\ r.state = error /\ r.driven
        /\ r.queue = q.queue /\ r.missed = q.missed /\ r.failures = failures
        /\ r.reason /\ r.errors = errors /\ r.mounted = mount /\ r.fetched
    <3> DEFINE half == [q EXCEPT !.started = FALSE, !.state = error, !.errors = errors, !.failures = failures]
    <3>1. r = [half EXCEPT !.reason = TRUE, !.fetched = TRUE, !.mounted = mount, !.driven = TRUE]
      OBVIOUS
    <3>2. /\ half \in Records(made) /\ half.at = q.at /\ half.state = error
          /\ half.queue = q.queue /\ half.missed = q.missed /\ half.failures = failures /\ half.errors = errors
      BY <1>2, <2>2, <2>3 DEF Records
    <3> HIDE DEF half, r
    <3> QED
      BY <2>3, <3>1, <3>2 DEF Records
  <2> HIDE DEF r
  <2>7. Failures(r)
    BY <1>2, <1>3, <2>4, <2>6 DEF Failures, Shape, State, FetchStatus, InProgress
  <2> QED
    BY <1>4, <2>1, <2>5, <2>6, <2>7
<1>9. CASE SetStale(o)
  <2> DEFINE r == [q EXCEPT !.state = State("Stale", q.state.data), !.driven = TRUE]
  <2>1. /\ q.at = "idle" /\ Begin("stale") /\ UNCHANGED <<cache, note, made>>
        /\ obs' = [obs EXCEPT ![o] = [[obs[o] EXCEPT !.state = State("Stale", q.state.data)]
                                      EXCEPT !.driven = TRUE]]
    BY <1>9, Zenon DEF SetStale, Drive
  <2>2. State("Stale", q.state.data) \in [s : Variants, data : Data(made) \cup {Placeholder}]
    <3>1. "Stale" \in Variants
      BY DEF Variants
    <3> QED
      BY <1>3, <1>5, <3>1
  <2>3. obs' = [obs EXCEPT ![o] = r]
    BY <2>1
  <2>4. /\ r \in Records(made) /\ r.at = q.at /\ r.state = State("Stale", q.state.data) /\ r.driven
        /\ r.queue = q.queue /\ r.missed = q.missed /\ r.failures = q.failures
        /\ r.reason = q.reason /\ r.errors = q.errors /\ r.mounted = q.mounted /\ r.fetched = q.fetched
    BY <1>2, <2>2 DEF Records
  <2> HIDE DEF r
  <2>5. Failures(r)
    BY <1>2, <2>4 DEF Failures, Shape, State, Status, FetchStatus, InProgress
  <2> QED
    BY <1>4, <2>1, <2>3, <2>4, <2>5
<1> QED
  BY <1>6, <1>7, <1>8, <1>9

\* refetch_with: a cancelled fetch is announced, then the data are marked stale.
LEMMA RefetchStep ==
  ASSUME ObserverInv, NEW o \in Observers, NEW op, NEW inFlight, Refetch(o, op, inFlight)
  PROVE  ObserverInv'
<1>1. ObserverTypes /\ made \in Nat /\ obs \in [Observers -> Records(made)]
      /\ \A u \in Observers : Shape(obs[u])
  BY DEF ObserverInv, ObserverTypes
<1>2. PICK os \in {obs, Told(obs, "Error")} : obs' = Invalidated(os)
  BY DEF Refetch
<1>3. Begin(op) /\ MarkStale /\ UNCHANGED <<note, made>>
  BY DEF Refetch
<1>4. "Error" \in Variants /\ "Stale" \in Variants
  BY DEF Variants
<1>5. os \in [Observers -> Records(made)] /\ \A u \in Observers : Shape(os[u])
  BY <1>1, <1>4, ToldFacts
<1>6. OthersTyped'
  BY <1>1, <1>3, BeginFacts, StaleFacts DEF OthersTyped, ObserverTypes
<1>7. CASE cache.data # NoData
  <2>1. obs' = Told(os, "Stale")
    BY <1>2, <1>7 DEF Invalidated
  <2> QED
    BY <1>3, <1>4, <1>5, <1>6, <2>1, EverybodyTold
<1>8. CASE cache.data = NoData
  <2>1. obs' = os /\ cache' = cache
    BY <1>1, <1>2, <1>3, <1>8, StaleFacts DEF Invalidated
  <2>2. CASE os = Told(obs, "Error")
    BY <1>1, <1>3, <1>4, <1>6, <2>1, <2>2, EverybodyTold
  <2>3. CASE os = obs
    BY <1>1, <1>3, <1>6, <2>1, <2>3 DEF ObserverInv, ObserverTypes, OthersTyped, Announced
  <2> QED
    BY <2>2, <2>3
<1> QED
  BY <1>7, <1>8

LEMMA ObserverInvStep == ObserverInv /\ [ObserverNext]_observerVars => ObserverInv'
<1> SUFFICES ASSUME ObserverInv, [ObserverNext]_observerVars PROVE ObserverInv'
  OBVIOUS
<1>1. CASE UNCHANGED observerVars
  BY <1>1 DEF observerVars, ObserverInv, ObserverTypes, Announced
<1>2. CASE ObserverNext
  BY <1>2, WriterSteps, ConstructionSteps, ReadingSteps, DriveSteps, RefetchStep DEF ObserverNext
<1> QED
  BY <1>1, <1>2

LEMMA ObserverInvImplies == ObserverInv => ObserversInStep
<1> SUFFICES ASSUME ObserverInv PROVE ObserversInStep
  OBVIOUS
<1>1. ObserverTypes /\ \A o \in Observers : obs[o] \in Records(made) /\ Shape(obs[o])
  BY DEF ObserverInv, ObserverTypes
<1>2. ObserverTypeOK
  <2>1. \A o \in Observers :
          /\ obs[o].at \in {"none", "new", "query", "read", "seed", "seeded", "idle", "lagged"}
          /\ obs[o].state.data \in {NoData, Placeholder} \cup 1 .. made
          /\ obs[o].missed \in Nat
    BY <1>1 DEF Records, Data
  <2>2. \A o \in Observers : Len(obs[o].queue) <= Cap
    BY <1>1 DEF Shape
  <2> QED
    BY <1>1, <2>1, <2>2 DEF ObserverTypeOK, ObserverTypes, Data
<1>3. InStep
  BY DEF InStep, ObserverInv, Announced, CaughtUp
<1>4. FailuresAgree
  BY <1>1 DEF FailuresAgree, Shape, Failures
<1> QED
  BY <1>2, <1>3, <1>4 DEF ObserversInStep

\* observer.rs: whatever was written before, during or after its construction, an observer
\* that has read its updates and re-read after the last of them shows what is cached, and
\* its failure bookkeeping agrees with its state.  For any number of observers, any
\* capacity and any sequence of calls.
THEOREM ObserversKeepStep ==
  ASSUME NEW p \in [ops : SUBSET ObserverOps, budget : Nat, initial : BOOLEAN, placeholder : BOOLEAN]
  PROVE  ObserverSpec(p) => []ObserversInStep
<1>1. ObserverInitFor(p) => ObserverInv
  BY ObserverInvInit
<1> QED
  BY <1>1, ObserverInvStep, ObserverInvImplies, PTL DEF ObserverSpec

-----------------------------------------------------------------------------
(***************************************************************************)
(* The notify manager (src/notify_manager.rs)                              *)
(***************************************************************************)

CallbacksTo(k) == [id : 1 .. k, echo : BOOLEAN]
Frames(k) == [at : {"load", "drain", "run", "batch"}, pending : Seq(CallbacksTo(k))]

NotifyTypes ==
  /\ notifyPlan \in [budget : Nat, threads : SUBSET Threads, ops : SUBSET Calls]
  /\ depth \in Nat /\ issued \in Nat
  /\ notifyQueue \in Seq(CallbacksTo(issued)) /\ ran \in Seq(CallbacksTo(issued))
  /\ lost \subseteq CallbacksTo(issued)
  /\ calls \in [Threads -> Seq(Frames(issued))]

\* Only a flush holds callbacks, and until it has run them all it holds some;
\* nobody is called from a notify or a flush that is still to look.
Stacked(s) ==
  \A i \in 1 .. Len(s) :
    /\ s[i].at = "run" <=> s[i].pending # <<>>
    /\ i < Len(s) => s[i].at \in {"batch", "run"}

StackInv == \A t \in Threads : Stacked(calls[t]) /\ (calls[t] # <<>> => t \in notifyPlan.threads)

\* The open batches are counted; those that a panic tore down still are.
Open == {x \in Threads \X (Nat \ {0}) : x[2] \in 1 .. Len(calls[x[1]]) /\ calls[x[1]][x[2]].at = "batch"}
DepthInv == IsFiniteSet(Open) /\ Cardinality(Open) <= depth

NotifyInv == NotifyTypes /\ StackInv /\ DepthInv /\ RunOnce /\ NoneStranded /\ HeldInBatch

LEMMA AppendFacts ==
  ASSUME NEW S, NEW s \in Seq(S), NEW x \in S
  PROVE  /\ Append(s, x) \in Seq(S) /\ Len(Append(s, x)) = Len(s) + 1
         /\ \A i \in 1 .. Len(s) : Append(s, x)[i] = s[i]
         /\ Append(s, x)[Len(s) + 1] = x
  BY AppendProperties

LEMMA FrontFacts ==
  ASSUME NEW S, NEW s \in Seq(S), s # <<>>
  PROVE  /\ Front(s) \in Seq(S) /\ Len(Front(s)) = Len(s) - 1
         /\ \A i \in 1 .. Len(s) - 1 : Front(s)[i] = s[i]
         /\ Last(s) = s[Len(s)] /\ Last(s) \in S /\ Len(s) \in Nat \ {0}
<1>1. Len(s) \in Nat \ {0}
  BY EmptySeq
<1>2. /\ SubSeq(s, 1, Len(s) - 1) \in Seq(S)
      /\ Len(SubSeq(s, 1, Len(s) - 1)) = Len(s) - 1
      /\ \A i \in 1 .. Len(s) - 1 : SubSeq(s, 1, Len(s) - 1)[i] = s[i]
  <2>1. PICK n \in Nat \ {0} : n = Len(s)
    BY <1>1
  <2>2. 1 \in Int /\ n - 1 \in Int /\ \A i \in 1 .. n - 1 : s[i] \in S
    BY <2>1, ElementOfSeq
  <2>3. /\ SubSeq(s, 1, n - 1) \in Seq(S)
        /\ Len(SubSeq(s, 1, n - 1)) = IF 1 <= n - 1 THEN (n - 1) - 1 + 1 ELSE 0
        /\ \A i \in 1 .. (n - 1) - 1 + 1 : SubSeq(s, 1, n - 1)[i] = s[1 + i - 1]
    BY ONLY <2>2, SubSeqProperties
  <2>4. (IF 1 <= n - 1 THEN (n - 1) - 1 + 1 ELSE 0) = n - 1 /\ (n - 1) - 1 + 1 = n - 1
    BY ONLY n \in Nat \ {0}
  <2>5. \A i \in 1 .. n - 1 : 1 + i - 1 = i
    BY ONLY n \in Nat \ {0}
  <2> QED BY <2>1, <2>3, <2>4, <2>5
<1> QED
  BY <1>1, <1>2, ElementOfSeq DEF Front, Last

LEMMA IdsEmpty == Ids(<<>>) = {} /\ NoRepeats(<<>>)
  BY DEF Ids, NoRepeats

LEMMA IdsAppend ==
  ASSUME NEW k, NEW s \in Seq(CallbacksTo(k)), NEW c \in CallbacksTo(k)
  PROVE  /\ Ids(Append(s, c)) = Ids(s) \cup {c.id}
         /\ NoRepeats(s) /\ c.id \notin Ids(s) => NoRepeats(Append(s, c))
<1>1. PICK n, r : /\ n \in Nat /\ n = Len(s) /\ r = Append(s, c) /\ DOMAIN s = 1 .. n /\ DOMAIN r = 1 .. n + 1
                          /\ r[n + 1] = c /\ \A i \in 1 .. n : r[i] = s[i]
  <2>1. Len(s) \in Nat /\ DOMAIN s = 1 .. Len(s)
    BY LenProperties
  <2>2. /\ Append(s, c) \in Seq(CallbacksTo(k)) /\ Len(Append(s, c)) = Len(s) + 1
        /\ \A i \in 1 .. Len(s) : Append(s, c)[i] = s[i]
        /\ Append(s, c)[Len(s) + 1] = c
    BY AppendFacts
  <2>3. DOMAIN Append(s, c) = 1 .. Len(s) + 1
    BY <2>2, LenProperties
  <2> QED BY <2>1, <2>2, <2>3
<1>2. Ids(r) = Ids(s) \cup {c.id}
  <2>1. ASSUME NEW x \in Ids(r) PROVE x \in Ids(s) \cup {c.id}
    <3>1. PICK i \in 1 .. n + 1 : x = r[i].id
      BY <1>1 DEF Ids
    <3>2. i \in 1 .. n \/ i = n + 1
      BY <1>1
    <3> QED BY <1>1, <3>1, <3>2 DEF Ids
  <2>2. ASSUME NEW x \in Ids(s) PROVE x \in Ids(r)
    <3>1. PICK i \in 1 .. n : x = s[i].id
      BY <1>1 DEF Ids
    <3>2. i \in 1 .. n + 1
      BY <1>1
    <3> QED BY <1>1, <3>1, <3>2 DEF Ids
  <2>3. c.id \in Ids(r)
    <3>1. n + 1 \in 1 .. n + 1
      BY <1>1
    <3> QED BY <1>1, <3>1 DEF Ids
  <2> QED BY <2>1, <2>2, <2>3
<1>3. ASSUME NoRepeats(s), c.id \notin Ids(s) PROVE NoRepeats(r)
  <2> SUFFICES ASSUME NEW i \in 1 .. n + 1, NEW j \in 1 .. n + 1, r[i].id = r[j].id PROVE i = j
    BY <1>1 DEF NoRepeats
  <2>1. \A a \in 1 .. n : s[a].id \in Ids(s)
    BY <1>1 DEF Ids
  <2>2. (i \in 1 .. n \/ i = n + 1) /\ (j \in 1 .. n \/ j = n + 1)
    BY <1>1
  <2>3. \A a, b \in 1 .. n : s[a].id = s[b].id => a = b
    BY <1>1, <1>3 DEF NoRepeats
  <2> QED BY <1>1, <1>3, <2>1, <2>2, <2>3
<1> QED BY <1>1, <1>2, <1>3

LEMMA IdsTail ==
  ASSUME NEW k, NEW s \in Seq(CallbacksTo(k)), s # <<>>, NoRepeats(s)
  PROVE  /\ Head(s) \in CallbacksTo(k) /\ Head(s).id \in Ids(s)
         /\ Tail(s) \in Seq(CallbacksTo(k)) /\ Len(Tail(s)) = Len(s) - 1
         /\ Ids(Tail(s)) = Ids(s) \ {Head(s).id} /\ NoRepeats(Tail(s))
<1>1. PICK n \in Nat \ {0}, r \in Seq(CallbacksTo(k)) :
         /\ n = Len(s) /\ r = Tail(s) /\ DOMAIN s = 1 .. n /\ DOMAIN r = 1 .. n - 1 /\ Len(r) = n - 1
         /\ Head(s) = s[1] /\ s[1] \in CallbacksTo(k) /\ \A i \in 1 .. n - 1 : r[i] = s[i + 1]
  <2>1. PICK n \in Nat \ {0} : n = Len(s) /\ DOMAIN s = 1 .. n
    BY EmptySeq, LenProperties
  <2>2. Head(s) = s[1] /\ s[1] \in CallbacksTo(k)
    BY <2>1, ElementOfSeq
  <2>3. PICK r \in Seq(CallbacksTo(k)) : r = Tail(s) /\ Len(r) = n - 1 /\ \A i \in 1 .. Len(r) : r[i] = s[i + 1]
    BY <2>1, HeadTailProperties
  <2>4. DOMAIN r = 1 .. n - 1
    BY <2>3, LenProperties
  <2> QED BY <2>1, <2>2, <2>3, <2>4
<1>2. \A a, b \in 1 .. n : s[a].id = s[b].id => a = b
  BY <1>1 DEF NoRepeats
<1>3. Ids(r) = Ids(s) \ {s[1].id}
  <2>1. ASSUME NEW x \in Ids(r) PROVE x \in Ids(s) /\ x # s[1].id
    <3>1. PICK i \in 1 .. n - 1 : x = r[i].id
      BY <1>1 DEF Ids
    <3>2. i + 1 \in 1 .. n /\ 1 \in 1 .. n /\ i + 1 # 1 /\ x = s[i + 1].id
      BY <1>1, <3>1
    <3> QED BY <1>1, <1>2, <3>2 DEF Ids
  <2>2. ASSUME NEW x \in Ids(s), x # s[1].id PROVE x \in Ids(r)
    <3>1. PICK i \in 1 .. n : x = s[i].id
      BY <1>1 DEF Ids
    <3>2. i - 1 \in 1 .. n - 1 /\ r[i - 1] = s[(i - 1) + 1] /\ (i - 1) + 1 = i
      BY <1>1, <2>2, <3>1
    <3> QED BY <1>1, <3>1, <3>2 DEF Ids
  <2> QED BY <2>1, <2>2
<1>4. NoRepeats(r)
  <2> SUFFICES ASSUME NEW i \in 1 .. n - 1, NEW j \in 1 .. n - 1, r[i].id = r[j].id PROVE i = j
    BY <1>1 DEF NoRepeats
  <2>1. i + 1 \in 1 .. n /\ j + 1 \in 1 .. n /\ s[i + 1].id = s[j + 1].id
    BY <1>1
  <2>2. i + 1 = j + 1
    BY <1>2, <2>1
  <2> QED BY <2>2
<1>5. s[1].id \in Ids(s)
  BY <1>1 DEF Ids
<1> QED BY <1>1, <1>3, <1>4, <1>5

-----------------------------------------------------------------------------
\* No callback is in two flushes, or twice in one.
Apart ==
  /\ \A t, u \in Threads : \A i \in DOMAIN calls[t], j \in DOMAIN calls[u] :
       (t # u \/ i # j) => Ids(calls[t][i].pending) \cap Ids(calls[u][j].pending) = {}
  /\ \A t \in Threads : \A i \in DOMAIN calls[t] : NoRepeats(calls[t][i].pending)

InFlush(n) == \E t \in Threads : \E i \in DOMAIN calls[t] : n \in Ids(calls[t][i].pending)
InOne(n) == \E place \in Spots : \A p \in Spots : Holds(p, n) <=> p = place

LEMMA RunOnceIs ==
  RunOnce <=> Apart /\ NoRepeats(notifyQueue) /\ NoRepeats(ran) /\ \A n \in 1 .. issued : InOne(n)
  BY DEF RunOnce, Apart, InOne

\* InOne, place by place.
LEMMA InOneIs ==
  ASSUME NEW n
  PROVE  InOne(n) <=>
           LET q == n \in Ids(notifyQueue)
               f == InFlush(n)
               r == n \in Ids(ran)
               l == \E c \in lost : c.id = n
           IN /\ q \/ f \/ r \/ l
              /\ ~(q /\ f) /\ ~(q /\ r) /\ ~(q /\ l) /\ ~(f /\ r) /\ ~(f /\ l) /\ ~(r /\ l)
<1>1. /\ Holds("queue", n) <=> n \in Ids(notifyQueue)
      /\ Holds("flush", n) <=> InFlush(n)
      /\ Holds("ran", n) <=> n \in Ids(ran)
      /\ Holds("lost", n) <=> \E c \in lost : c.id = n
  BY DEF Holds, InFlush
<1>2. InOne(n) <=>
        \/ Holds("queue", n) /\ ~Holds("flush", n) /\ ~Holds("ran", n) /\ ~Holds("lost", n)
        \/ ~Holds("queue", n) /\ Holds("flush", n) /\ ~Holds("ran", n) /\ ~Holds("lost", n)
        \/ ~Holds("queue", n) /\ ~Holds("flush", n) /\ Holds("ran", n) /\ ~Holds("lost", n)
        \/ ~Holds("queue", n) /\ ~Holds("flush", n) /\ ~Holds("ran", n) /\ Holds("lost", n)
  BY DEF InOne, Spots
<1> QED BY <1>1, <1>2

\* A move of thread t leaves its k outermost calls alone; of the others, before and
\* after, at most the first holds callbacks.
Top(s, k) == IF Len(s) > k THEN Ids(s[k + 1].pending) ELSE {}

Move(t, k) ==
  /\ \A u \in Threads : u # t => calls'[u] = calls[u]
  /\ DOMAIN calls[t] = 1 .. Len(calls[t]) /\ DOMAIN calls'[t] = 1 .. Len(calls'[t])
  /\ Len(calls[t]) \in Nat /\ Len(calls'[t]) \in Nat
  /\ Len(calls[t]) >= k /\ Len(calls'[t]) >= k
  /\ \A i \in 1 .. k : calls'[t][i] = calls[t][i]
  /\ \A i \in 1 .. Len(calls[t]) : i > k + 1 => calls[t][i].pending = <<>>
  /\ \A i \in 1 .. Len(calls'[t]) : i > k + 1 => calls'[t][i].pending = <<>>

LEMMA FlushMove ==
  ASSUME NEW t \in Threads, NEW k \in Nat, Move(t, k), Apart,
         Len(calls'[t]) > k => NoRepeats(calls'[t][k + 1].pending),
         \A n \in Top(calls'[t], k) : n \in Top(calls[t], k) \/ ~InFlush(n)
  PROVE  /\ Apart'
         /\ \A n : InFlush(n)' <=> ((InFlush(n) /\ n \notin Top(calls[t], k)) \/ n \in Top(calls'[t], k))
<1> DEFINE Kept(u, i) == u # t \/ i \in 1 .. k
           A == Top(calls[t], k)
           B == Top(calls'[t], k)
<1>1. ASSUME NEW u \in Threads, NEW i, Kept(u, i)
      PROVE  /\ i \in DOMAIN calls'[u] <=> i \in DOMAIN calls[u]
             /\ calls'[u][i] = calls[u][i]
  BY <1>1 DEF Move
<1>2. ASSUME NEW i \in DOMAIN calls[t], ~Kept(t, i)
      PROVE  (i = k + 1 /\ Ids(calls[t][i].pending) = A) \/ Ids(calls[t][i].pending) = {}
  <2>1. i \in 1 .. Len(calls[t]) /\ (i = k + 1 \/ i > k + 1)
    BY <1>2 DEF Move
  <2>2. CASE i = k + 1
    BY <2>1, <2>2 DEF Move, Top
  <2>3. CASE i > k + 1
    BY <2>1, <2>3, IdsEmpty DEF Move
  <2> QED BY <2>1, <2>2, <2>3
<1>3. ASSUME NEW i \in DOMAIN calls'[t], ~Kept(t, i)
      PROVE  (i = k + 1 /\ Ids(calls'[t][i].pending) = B) \/ Ids(calls'[t][i].pending) = {}
  <2>1. i \in 1 .. Len(calls'[t]) /\ (i = k + 1 \/ i > k + 1)
    BY <1>3 DEF Move
  <2>2. CASE i = k + 1
    BY <2>1, <2>2 DEF Move, Top
  <2>3. CASE i > k + 1
    BY <2>1, <2>3, IdsEmpty DEF Move
  <2> QED BY <2>1, <2>2, <2>3
<1>4. /\ A # {} => k + 1 \in DOMAIN calls[t] /\ A = Ids(calls[t][k + 1].pending)
      /\ B # {} => k + 1 \in DOMAIN calls'[t] /\ B = Ids(calls'[t][k + 1].pending)
      /\ ~Kept(t, k + 1)
  BY DEF Move, Top
<1>5. ASSUME NEW i \in DOMAIN calls'[t], ~Kept(t, i) PROVE NoRepeats(calls'[t][i].pending)
  <2>1. i \in 1 .. Len(calls'[t]) /\ (i = k + 1 \/ i > k + 1)
    BY <1>5 DEF Move
  <2>2. CASE i = k + 1
    BY <2>1, <2>2 DEF Move
  <2>3. CASE i > k + 1
    BY <2>1, <2>3, IdsEmpty DEF Move
  <2> QED BY <2>1, <2>2, <2>3
<1> HIDE DEF A, B, Kept
<1>6. ASSUME NEW n \in A, NEW u \in Threads, NEW i \in DOMAIN calls[u], Kept(u, i)
      PROVE  n \notin Ids(calls[u][i].pending)
  <2>1. u # t \/ i # k + 1
    BY <1>4, <1>6
  <2>2. k + 1 \in DOMAIN calls[t] /\ n \in Ids(calls[t][k + 1].pending)
    BY <1>4, <1>6
  <2>3. Ids(calls[t][k + 1].pending) \cap Ids(calls[u][i].pending) = {}
    BY <1>6, <2>1, <2>2 DEF Apart
  <2> QED BY <2>2, <2>3
<1>7. ASSUME NEW n \in B, NEW u \in Threads, NEW i \in DOMAIN calls[u], Kept(u, i)
      PROVE  n \notin Ids(calls[u][i].pending)
  <2>1. n \in A \/ ~InFlush(n)
    BY DEF A, B
  <2> QED BY <1>6, <1>7, <2>1 DEF InFlush
<1>8. ASSUME NEW n
      PROVE  InFlush(n)' <=> ((InFlush(n) /\ n \notin A) \/ n \in B)
  <2> DEFINE R == \E u \in Threads : \E i \in DOMAIN calls[u] : Kept(u, i) /\ n \in Ids(calls[u][i].pending)
  <2>1. InFlush(n) <=> R \/ n \in A
    <3>1. ASSUME InFlush(n), ~R PROVE n \in A
      <4>1. PICK u, i : u \in Threads /\ i \in DOMAIN calls[u] /\ n \in Ids(calls[u][i].pending)
        BY <3>1 DEF InFlush
      <4>2. ~Kept(u, i)
        BY <3>1, <4>1
      <4>3. u = t
        BY <4>2 DEF Kept
      <4> QED BY <1>2, <4>1, <4>2, <4>3
    <3>2. ASSUME R \/ n \in A PROVE InFlush(n)
      BY <1>4, <3>2 DEF InFlush
    <3> QED BY <3>1, <3>2
  <2>2. InFlush(n)' <=> R \/ n \in B
    <3>1. ASSUME InFlush(n)', ~R PROVE n \in B
      <4>1. PICK u, i : u \in Threads /\ i \in DOMAIN calls'[u] /\ n \in Ids(calls'[u][i].pending)
        BY <3>1 DEF InFlush, Ids
      <4>2. ~Kept(u, i)
        BY <1>1, <3>1, <4>1
      <4>3. u = t
        BY <4>2 DEF Kept
      <4> QED BY <1>3, <4>1, <4>2, <4>3
    <3>2. ASSUME n \in B PROVE InFlush(n)'
      <4>1. k + 1 \in DOMAIN calls'[t] /\ n \in Ids(calls'[t][k + 1].pending)
        BY <1>4, <3>2
      <4> QED BY <4>1 DEF InFlush, Ids
    <3>3. ASSUME R PROVE InFlush(n)'
      <4>1. PICK u, i : u \in Threads /\ i \in DOMAIN calls[u] /\ Kept(u, i) /\ n \in Ids(calls[u][i].pending)
        BY <3>3
      <4>2. i \in DOMAIN calls'[u] /\ n \in Ids(calls'[u][i].pending)
        BY <1>1, <4>1
      <4> QED BY <4>1, <4>2 DEF InFlush, Ids
    <3> QED BY <3>1, <3>2, <3>3
  <2>3. n \in A => ~R
    BY <1>6
  <2> QED BY <2>1, <2>2, <2>3
<1>9. Apart'
  <2>1. ASSUME NEW u \in Threads, NEW v \in Threads, NEW i \in DOMAIN calls'[u], NEW j \in DOMAIN calls'[v],
               u # v \/ i # j
        PROVE  Ids(calls'[u][i].pending) \cap Ids(calls'[v][j].pending) = {}
    <3>1. CASE Kept(u, i) /\ Kept(v, j)
      <4>1. /\ i \in DOMAIN calls[u] /\ calls'[u][i] = calls[u][i]
            /\ j \in DOMAIN calls[v] /\ calls'[v][j] = calls[v][j]
        BY <1>1, <3>1
      <4> QED BY <2>1, <4>1 DEF Apart
    <3>2. CASE Kept(u, i) /\ ~Kept(v, j)
      <4>1. v = t
        BY <3>2 DEF Kept
      <4>2. Ids(calls'[v][j].pending) = B \/ Ids(calls'[v][j].pending) = {}
        BY <1>3, <3>2, <4>1
      <4>3. i \in DOMAIN calls[u] /\ calls'[u][i] = calls[u][i]
        BY <1>1, <3>2
      <4> QED BY <1>7, <3>2, <4>2, <4>3
    <3>3. CASE ~Kept(u, i) /\ Kept(v, j)
      <4>1. u = t
        BY <3>3 DEF Kept
      <4>2. Ids(calls'[u][i].pending) = B \/ Ids(calls'[u][i].pending) = {}
        BY <1>3, <3>3, <4>1
      <4>3. j \in DOMAIN calls[v] /\ calls'[v][j] = calls[v][j]
        BY <1>1, <3>3
      <4> QED BY <1>7, <3>3, <4>2, <4>3
    <3>4. CASE ~Kept(u, i) /\ ~Kept(v, j)
      <4>1. u = t /\ v = t
        BY <3>4 DEF Kept
      <4> QED BY <1>3, <2>1, <3>4, <4>1
    <3> QED BY <3>1, <3>2, <3>3, <3>4
  <2>2. ASSUME NEW u \in Threads, NEW i \in DOMAIN calls'[u] PROVE NoRepeats(calls'[u][i].pending)
    <3>1. CASE Kept(u, i)
      BY <1>1, <3>1 DEF Apart
    <3>2. CASE ~Kept(u, i)
      <4>1. u = t
        BY <3>2 DEF Kept
      <4> QED BY <1>5, <3>2, <4>1
    <3> QED BY <3>1, <3>2
  <2>3. Apart' <=>
          /\ \A u, v \in Threads : \A i \in DOMAIN calls'[u], j \in DOMAIN calls'[v] :
               (u # v \/ i # j) => Ids(calls'[u][i].pending) \cap Ids(calls'[v][j].pending) = {}
          /\ \A u \in Threads : \A i \in DOMAIN calls'[u] : NoRepeats(calls'[u][i].pending)
    BY DEF Apart, Ids, NoRepeats
  <2> QED BY <2>1, <2>2, <2>3
<1> QED BY <1>8, <1>9 DEF A, B

-----------------------------------------------------------------------------
LEMMA Widen ==
  ASSUME NEW k \in Nat, NEW m \in Nat, k <= m
  PROVE  /\ CallbacksTo(k) \subseteq CallbacksTo(m)
         /\ Seq(CallbacksTo(k)) \subseteq Seq(CallbacksTo(m))
         /\ Seq(Frames(k)) \subseteq Seq(Frames(m))
<1>1. CallbacksTo(k) \subseteq CallbacksTo(m)
  <2>1. 1 .. k \subseteq 1 .. m
    OBVIOUS
  <2> QED BY <2>1 DEF CallbacksTo
<1>2. Seq(CallbacksTo(k)) \subseteq Seq(CallbacksTo(m))
  BY <1>1, SeqMonotonic
<1>3. Frames(k) \subseteq Frames(m)
  BY <1>2 DEF Frames
<1> QED BY <1>1, <1>2, <1>3, SeqMonotonic

LEMMA IdsInRange ==
  ASSUME NEW k \in Nat, NEW s \in Seq(CallbacksTo(k)) PROVE Ids(s) \subseteq 1 .. k
<1>1. \A i \in DOMAIN s : s[i] \in CallbacksTo(k)
  OBVIOUS
<1> QED BY <1>1 DEF Ids, CallbacksTo

LEMMA FlushInRange == ASSUME NotifyTypes, NEW n, InFlush(n) PROVE n \in 1 .. issued
<1>1. PICK t, i : t \in Threads /\ i \in DOMAIN calls[t] /\ n \in Ids(calls[t][i].pending)
  BY DEF InFlush
<1>2. calls[t] \in Seq(Frames(issued)) /\ issued \in Nat
  BY <1>1 DEF NotifyTypes
<1>3. calls[t][i] \in Frames(issued)
  BY <1>1, <1>2
<1>4. calls[t][i].pending \in Seq(CallbacksTo(issued))
  BY <1>3 DEF Frames
<1> QED BY <1>1, <1>2, <1>4, IdsInRange

LEMMA OpenIs ==
  ASSUME NEW t \in Threads, NEW i
  PROVE  <<t, i>> \in Open <=> i \in Nat \ {0} /\ i \in 1 .. Len(calls[t]) /\ calls[t][i].at = "batch"
  BY DEF Open

LEMMA CallIs ==
  ASSUME NEW k \in Nat, NEW x \in {"load", "drain", "batch"}
  PROVE  Call(x) \in Frames(k) /\ Call(x).at = x /\ Call(x).pending = <<>>
<1>1. <<>> \in Seq(CallbacksTo(k))
  OBVIOUS
<1> QED BY <1>1 DEF Call, Frames

LEMMA RunningIs ==
  ASSUME NEW k \in Nat, NEW p \in Seq(CallbacksTo(k))
  PROVE  Running(p) \in Frames(k) /\ Running(p).at = "run" /\ Running(p).pending = p
  BY DEF Running, Frames

\* A thread enters a call.
LEMMA EnterStep ==
  ASSUME NotifyInv, NEW t \in Threads, t \in notifyPlan.threads, NEW x \in {"load", "drain", "batch"},
         calls[t] = <<>> \/ InnerAt(t, "batch"), calls' = Enter(t, Call(x)),
         notifyPlan'.threads = notifyPlan.threads, issued' \in Nat, issued' >= issued
  PROVE  /\ calls' \in [Threads -> Seq(Frames(issued'))]
         /\ StackInv' /\ Apart'
         /\ \A n : InFlush(n)' <=> InFlush(n)
         /\ \A u \in Threads : u # t => calls'[u] = calls[u]
         /\ Len(calls[t]) \in Nat /\ Len(calls'[t]) = Len(calls[t]) + 1 /\ calls'[t][Len(calls[t]) + 1] = Call(x)
         /\ \A i \in 1 .. Len(calls[t]) : calls'[t][i] = calls[t][i]
         /\ Open' = IF x = "batch" THEN Open \cup {<<t, Len(calls[t]) + 1>>} ELSE Open
<1> DEFINE s == calls[t]
           k == Len(s)
           c == Call(x)
           s2 == Append(s, c)
<1>1. /\ s = calls[t] /\ s \in Seq(Frames(issued')) /\ k \in Nat /\ k = Len(s) /\ s2 = Append(s, c) /\ c = Call(x)
      /\ calls \in [Threads -> Seq(Frames(issued'))]
  <2>1. issued \in Nat /\ calls \in [Threads -> Seq(Frames(issued))]
    BY DEF NotifyInv, NotifyTypes
  <2>2. Seq(Frames(issued)) \subseteq Seq(Frames(issued'))
    BY <2>1, Widen
  <2>3. calls[t] \in Seq(Frames(issued')) /\ calls \in [Threads -> Seq(Frames(issued'))]
    BY <2>1, <2>2
  <2>4. Len(calls[t]) \in Nat
    BY <2>3, LenProperties
  <2> QED BY <2>3, <2>4
<1> HIDE DEF s, k, c, s2
<1>2. c \in Frames(issued') /\ c.at = x /\ c.pending = <<>>
  BY <1>1, CallIs
<1>3. /\ s2 \in Seq(Frames(issued')) /\ Len(s2) = k + 1
      /\ \A i \in 1 .. k : s2[i] = s[i]
      /\ s2[k + 1] = c
      /\ DOMAIN s2 = 1 .. k + 1 /\ DOMAIN s = 1 .. k
  BY <1>1, <1>2, AppendFacts
<1>4. /\ calls' \in [Threads -> Seq(Frames(issued'))] /\ calls'[t] = s2
      /\ \A u \in Threads : u # t => calls'[u] = calls[u]
  BY <1>1, <1>3 DEF Enter
<1>5. k > 0 => s[k].at = "batch"
  <2> SUFFICES ASSUME k > 0 PROVE s[k].at = "batch"
    OBVIOUS
  <2>1. s # <<>>
    BY <1>1
  <2> QED BY <1>1, <2>1, FrontFacts DEF InnerAt
<1>6. Stacked(s) /\ Apart
  BY <1>1, RunOnceIs DEF NotifyInv, StackInv
<1>7. Stacked(s2)
  <2> SUFFICES ASSUME NEW i \in 1 .. k + 1
               PROVE  /\ s2[i].at = "run" <=> s2[i].pending # <<>>
                      /\ i < k + 1 => s2[i].at \in {"batch", "run"}
    BY <1>3 DEF Stacked
  <2>1. CASE i = k + 1
    BY <1>2, <1>3, <2>1
  <2>2. CASE i \in 1 .. k /\ i < k
    BY <1>1, <1>3, <1>6, <2>2 DEF Stacked
  <2>3. CASE i = k /\ k > 0
    BY <1>1, <1>3, <1>5, <1>6, <2>3 DEF Stacked
  <2> QED BY <1>1, <2>1, <2>2, <2>3
<1>8. StackInv'
  <2> SUFFICES ASSUME NEW u \in Threads
               PROVE  Stacked(calls'[u]) /\ (calls'[u] # <<>> => u \in notifyPlan'.threads)
    BY DEF StackInv, Stacked
  <2>1. CASE u = t
    BY <1>4, <1>7, <2>1
  <2>2. CASE u # t
    BY <1>4, <2>2 DEF NotifyInv, StackInv
  <2> QED BY <2>1, <2>2
<1>9. Move(t, k)
  BY <1>1, <1>3, <1>4 DEF Move
<1>10. Top(calls[t], k) = {} /\ Top(calls'[t], k) = {} /\ NoRepeats(calls'[t][k + 1].pending)
  BY <1>1, <1>2, <1>3, <1>4, IdsEmpty DEF Top
<1>11. Apart' /\ \A n : InFlush(n)' <=> InFlush(n)
  BY <1>1, <1>6, <1>9, <1>10, FlushMove
<1>12. ASSUME NEW u \in Threads, NEW i \in Nat \ {0}
       PROVE  <<u, i>> \in Open' <=> <<u, i>> \in Open \/ (x = "batch" /\ u = t /\ i = k + 1)
  <2>1. <<u, i>> \in Open' <=> i \in 1 .. Len(calls'[u]) /\ calls'[u][i].at = "batch"
    BY DEF Open
  <2>2. <<u, i>> \in Open <=> i \in 1 .. Len(calls[u]) /\ calls[u][i].at = "batch"
    BY DEF Open
  <2>3. CASE u # t
    BY <1>4, <2>1, <2>2, <2>3
  <2>4. CASE u = t /\ i \in 1 .. k
    <3>1. i \in 1 .. Len(s) /\ i \in 1 .. Len(s2) /\ s2[i] = s[i] /\ i # k + 1
      BY <1>1, <1>3, <2>4
    <3> QED BY <1>1, <1>4, <2>1, <2>2, <2>4, <3>1
  <2>5. CASE u = t /\ i = k + 1
    BY <1>1, <1>2, <1>3, <1>4, <2>1, <2>2, <2>5
  <2>6. CASE u = t /\ i > k + 1
    BY <1>1, <1>3, <1>4, <2>1, <2>2, <2>6
  <2> QED BY <1>1, <2>3, <2>4, <2>5, <2>6
<1>13. Open' = IF x = "batch" THEN Open \cup {<<t, k + 1>>} ELSE Open
  <2>1. \A y : y \in Open' => y \in Threads \X (Nat \ {0})
    BY DEF Open
  <2>2. \A y : y \in Open => y \in Threads \X (Nat \ {0})
    BY DEF Open
  <2>3. <<t, k + 1>> \in Threads \X (Nat \ {0})
    BY <1>1
  <2>4. \A y \in Threads \X (Nat \ {0}) : y \in Open' <=> y \in Open \/ (x = "batch" /\ y = <<t, k + 1>>)
    BY <1>12
  <2> QED BY <2>1, <2>2, <2>3, <2>4
<1> QED BY <1>1, <1>3, <1>4, <1>8, <1>11, <1>13

\* The innermost call of a thread goes on, ends, or calls notify.
LEMMA InnerStep ==
  ASSUME NotifyInv, NEW t \in Threads, calls[t] # <<>>, issued' \in Nat, issued' >= issued,
         NEW cs \in Seq(Frames(issued')), Len(cs) <= 2, Stacked(cs),
         \A i \in 1 .. Len(cs) : cs[i].at # "batch" /\ (i = 2 => cs[i].pending = <<>>),
         cs # <<>> => /\ NoRepeats(cs[1].pending)
                      /\ \A n \in Ids(cs[1].pending) : n \in Ids(Last(calls[t]).pending) \/ ~InFlush(n),
         calls' = Inner(t, cs), notifyPlan'.threads = notifyPlan.threads
  PROVE  /\ calls' \in [Threads -> Seq(Frames(issued'))]
         /\ StackInv' /\ Apart'
         /\ \A n : InFlush(n)' <=> \/ InFlush(n) /\ n \notin Ids(Last(calls[t]).pending)
                                   \/ cs # <<>> /\ n \in Ids(cs[1].pending)
         /\ \A u \in Threads : u # t => calls'[u] = calls[u]
         /\ Len(calls[t]) \in Nat \ {0} /\ Last(calls[t]) = calls[t][Len(calls[t])]
         /\ Len(calls'[t]) = Len(calls[t]) - 1 + Len(cs)
         /\ \A i \in 1 .. Len(calls[t]) - 1 : calls'[t][i] = calls[t][i]
         /\ \A i \in 1 .. Len(cs) : calls'[t][Len(calls[t]) - 1 + i] = cs[i]
         /\ Open' = IF Last(calls[t]).at = "batch" THEN Open \ {<<t, Len(calls[t])>>} ELSE Open
<1> DEFINE s == calls[t]
           k == Len(s) - 1
           l == Last(s)
           s2 == Front(s) \o cs
           m == Len(cs)
<1>1. /\ s = calls[t] /\ s \in Seq(Frames(issued')) /\ k \in Nat /\ Len(s) = k + 1 /\ s2 = Front(s) \o cs
      /\ calls \in [Threads -> Seq(Frames(issued'))]
      /\ l = Last(s) /\ l = s[k + 1]
      /\ Front(s) \in Seq(Frames(issued')) /\ Len(Front(s)) = k /\ \A i \in 1 .. k : Front(s)[i] = s[i]
  <2>1. issued \in Nat /\ calls \in [Threads -> Seq(Frames(issued))]
    BY DEF NotifyInv, NotifyTypes
  <2>2. Seq(Frames(issued)) \subseteq Seq(Frames(issued'))
    BY <2>1, Widen
  <2>3. calls[t] \in Seq(Frames(issued'))
    BY <2>1, <2>2
  <2>4. Len(calls[t]) - 1 \in Nat /\ Len(calls[t]) = (Len(calls[t]) - 1) + 1
    <3>1. Len(calls[t]) \in Nat \ {0}
      BY <2>3, EmptySeq
    <3> QED BY <3>1
  <2>5. /\ Front(calls[t]) \in Seq(Frames(issued')) /\ Len(Front(calls[t])) = Len(calls[t]) - 1
        /\ \A i \in 1 .. Len(calls[t]) - 1 : Front(calls[t])[i] = calls[t][i]
        /\ Last(calls[t]) = calls[t][Len(calls[t])]
    BY <2>3, FrontFacts
  <2>6. calls \in [Threads -> Seq(Frames(issued'))]
    BY <2>1, <2>2
  <2> QED BY <2>3, <2>4, <2>5, <2>6
<1>2. m \in 0 .. 2 /\ m = Len(cs)
  <2>1. Len(cs) \in Nat /\ Len(cs) <= 2
    BY LenProperties
  <2>2. \A n \in Nat : n <= 2 => n \in 0 .. 2
    OBVIOUS
  <2> QED BY <2>1, <2>2
<1> HIDE DEF s, k, l, s2, m
<1>3. /\ s2 \in Seq(Frames(issued')) /\ Len(s2) = k + m
      /\ \A i \in 1 .. k : s2[i] = s[i]
      /\ \A i \in 1 .. m : s2[k + i] = cs[i]
      /\ DOMAIN s2 = 1 .. k + m /\ DOMAIN s = 1 .. k + 1
  <2>1. PICK f \in Seq(Frames(issued')) : f = Front(s) /\ Len(f) = k /\ \A i \in 1 .. k : f[i] = s[i]
    BY <1>1
  <2>2. PICK g \in Seq(Frames(issued')) :
          /\ g = f \o cs /\ Len(g) = Len(f) + Len(cs)
          /\ \A i \in 1 .. Len(f) + Len(cs) : g[i] = IF i <= Len(f) THEN f[i] ELSE cs[i - Len(f)]
    <3>1. /\ f \o cs \in Seq(Frames(issued')) /\ Len(f \o cs) = Len(f) + Len(cs)
          /\ \A i \in 1 .. Len(f) + Len(cs) : (f \o cs)[i] = IF i <= Len(f) THEN f[i] ELSE cs[i - Len(f)]
      BY ConcatProperties
    <3> QED BY <3>1
  <2>3. /\ \A i \in 1 .. k : i \in 1 .. k + m /\ i <= k
        /\ \A i \in 1 .. m : k + i \in 1 .. k + m /\ ~(k + i <= k) /\ k + i - k = i
    <3>1. k \in Nat /\ m \in Nat
      BY <1>1, <1>2
    <3> QED BY ONLY <3>1
  <2>4. \A i \in 1 .. k + m : g[i] = IF i <= k THEN s[i] ELSE cs[i - k]
    <3>1. Len(f) + Len(cs) = k + m /\ Len(f) = k
      BY <1>2, <2>1
    <3>2. \A i \in 1 .. k + m : i <= k => i \in 1 .. k
      <4>1. k \in Nat
        BY <1>1
      <4> QED BY ONLY <4>1
    <3> QED BY <2>1, <2>2, <3>1, <3>2
  <2>5. DOMAIN g = 1 .. k + m /\ DOMAIN s = 1 .. k + 1
    BY <1>1, <1>2, <2>1, <2>2, LenProperties
  <2>6. /\ \A i \in 1 .. k : g[i] = s[i]
        /\ \A i \in 1 .. m : g[k + i] = cs[i]
    <3>1. ASSUME NEW i \in 1 .. k PROVE g[i] = s[i]
      BY <2>3, <2>4
    <3>2. ASSUME NEW i \in 1 .. m PROVE g[k + i] = cs[i]
      <4>1. k + i \in 1 .. k + m /\ ~(k + i <= k) /\ k + i - k = i
        BY <2>3
      <4>2. k \in Nat /\ m \in Nat /\ i \in Nat
        BY <1>1, <1>2
      <4>3. PICK j \in 1 .. k + m : j = k + i /\ ~(j <= k) /\ j - k = i
        BY ONLY <4>1, <4>2
      <4>4. g[j] = cs[j - k]
        BY <2>4, <4>3
      <4> QED BY <4>3, <4>4
    <3> QED BY <3>1, <3>2
  <2>7. g = s2 /\ Len(g) = k + m /\ g \in Seq(Frames(issued'))
    BY <1>1, <1>2, <2>1, <2>2
  <2> QED BY <2>5, <2>6, <2>7
<1>4. /\ calls' \in [Threads -> Seq(Frames(issued'))] /\ calls'[t] = s2
      /\ \A u \in Threads : u # t => calls'[u] = calls[u]
  BY <1>1, <1>3 DEF Inner
<1>5. Stacked(s) /\ Apart
  BY <1>1, RunOnceIs DEF NotifyInv, StackInv
<1>6. ASSUME NEW i \in 1 .. k + m PROVE i \in 1 .. k \/ (i - k \in 1 .. m /\ s2[i] = cs[i - k])
  <2>1. CASE i > k
    <3>1. i - k \in 1 .. m /\ k + (i - k) = i
      <4>1. k \in Nat /\ m \in Nat /\ i \in 1 .. k + m
        BY <1>1, <1>2
      <4> QED BY ONLY <2>1, <4>1
    <3> QED BY <1>3, <3>1
  <2> QED BY <1>1, <1>2, <2>1
<1>7. Stacked(s2)
  <2> SUFFICES ASSUME NEW i \in 1 .. k + m
               PROVE  /\ s2[i].at = "run" <=> s2[i].pending # <<>>
                      /\ i < k + m => s2[i].at \in {"batch", "run"}
    BY <1>3 DEF Stacked
  <2>1. CASE i \in 1 .. k
    <3>1. i \in 1 .. Len(s) /\ i < Len(s) /\ s2[i] = s[i]
      BY <1>1, <1>3, <2>1
    <3>2. /\ s[i].at = "run" <=> s[i].pending # <<>>
          /\ s[i].at \in {"batch", "run"}
      BY <1>5, <3>1 DEF Stacked
    <3> QED BY <3>1, <3>2
  <2>2. CASE i - k \in 1 .. m /\ s2[i] = cs[i - k]
    <3>1. PICK j \in 1 .. m : j = i - k /\ (i < k + m => j < m)
      BY <1>1, <1>2, <2>2
    <3>2. /\ cs[j].at = "run" <=> cs[j].pending # <<>>
          /\ j < m => cs[j].at \in {"batch", "run"}
      BY <1>2 DEF Stacked
    <3> QED BY <2>2, <3>1, <3>2
  <2> QED BY <1>6, <2>1, <2>2
<1>8. StackInv'
  <2> SUFFICES ASSUME NEW u \in Threads
               PROVE  Stacked(calls'[u]) /\ (calls'[u] # <<>> => u \in notifyPlan'.threads)
    BY DEF StackInv, Stacked
  <2>1. CASE u = t
    BY <1>4, <1>7, <2>1 DEF NotifyInv, StackInv
  <2>2. CASE u # t
    BY <1>4, <2>2 DEF NotifyInv, StackInv
  <2> QED BY <2>1, <2>2
<1>9. ASSUME NEW i \in 1 .. k + m, i > k + 1 PROVE s2[i].pending = <<>>
  <2>1. i - k \in 1 .. m /\ i - k = 2 /\ s2[i] = cs[i - k]
    BY <1>1, <1>2, <1>6, <1>9
  <2> QED BY <1>2, <2>1
<1>10. Move(t, k)
  BY <1>1, <1>3, <1>4, <1>9 DEF Move
<1>11. Top(calls[t], k) = Ids(l.pending)
  BY <1>1 DEF Top
<1>12. IF cs # <<>> THEN m > 0 /\ s2[k + 1] = cs[1] /\ Top(s2, k) = Ids(cs[1].pending)
                    ELSE m = 0 /\ Top(s2, k) = {}
  <2>1. CASE m = 0
    <3>1. cs = <<>>
      BY <1>2, <2>1, EmptySeq
    <3> QED BY <1>1, <1>2, <1>3, <2>1, <3>1 DEF Top
  <2>2. CASE m > 0
    <3>1. cs # <<>> /\ 1 \in 1 .. m
      BY <1>2, <2>2
    <3>2. k + 1 \in 1 .. k + m /\ Len(s2) > k /\ s2[k + 1] = cs[1]
      BY <1>1, <1>2, <1>3, <2>2, <3>1
    <3> QED BY <2>2, <3>1, <3>2 DEF Top
  <2> QED BY <1>2, <2>1, <2>2
<1>13. Apart' /\ \A n : InFlush(n)' <=> ((InFlush(n) /\ n \notin Top(calls[t], k)) \/ n \in Top(calls'[t], k))
  <2>1. Len(calls'[t]) > k => NoRepeats(calls'[t][k + 1].pending)
    BY <1>1, <1>2, <1>3, <1>4, <1>12
  <2>2. \A n \in Top(calls'[t], k) : n \in Top(calls[t], k) \/ ~InFlush(n)
    BY <1>1, <1>4, <1>11, <1>12
  <2> QED BY <1>1, <1>5, <1>10, <2>1, <2>2, FlushMove
<1>14. \A n : InFlush(n)' <=> \/ InFlush(n) /\ n \notin Ids(l.pending)
                              \/ cs # <<>> /\ n \in Ids(cs[1].pending)
  BY <1>4, <1>11, <1>12, <1>13
<1>15. ASSUME NEW u \in Threads, NEW i \in Nat \ {0}
       PROVE  <<u, i>> \in Open' <=> <<u, i>> \in Open /\ ~(u = t /\ i = k + 1 /\ l.at = "batch")
  <2>1. <<u, i>> \in Open' <=> i \in 1 .. Len(calls'[u]) /\ calls'[u][i].at = "batch"
    BY DEF Open
  <2>2. <<u, i>> \in Open <=> i \in 1 .. Len(calls[u]) /\ calls[u][i].at = "batch"
    BY DEF Open
  <2>3. CASE u # t
    BY <1>4, <2>1, <2>2, <2>3
  <2>4. CASE u = t /\ i \in 1 .. k
    <3>1. i \in 1 .. Len(s) /\ i \in 1 .. Len(s2) /\ s2[i] = s[i] /\ i # k + 1
      BY <1>1, <1>2, <1>3, <2>4
    <3> QED BY <1>1, <1>4, <2>1, <2>2, <2>4, <3>1
  <2>5. CASE u = t /\ i > k
    <3>1. <<u, i>> \notin Open'
      <4> SUFFICES ASSUME i \in 1 .. k + m PROVE s2[i].at # "batch"
        BY <1>3, <1>4, <2>1, <2>5
      <4>1. i - k \in 1 .. m /\ s2[i] = cs[i - k]
        BY <1>1, <1>2, <1>6, <2>5
      <4> QED BY <1>2, <4>1
    <3>2. <<u, i>> \in Open => i = k + 1 /\ l.at = "batch"
      BY <1>1, <2>2, <2>5
    <3> QED BY <2>5, <3>1, <3>2
  <2> QED BY <1>1, <2>3, <2>4, <2>5
<1>16. Open' = IF l.at = "batch" THEN Open \ {<<t, k + 1>>} ELSE Open
  <2>1. \A y : y \in Open' => y \in Threads \X (Nat \ {0})
    BY DEF Open
  <2>2. \A y : y \in Open => y \in Threads \X (Nat \ {0})
    BY DEF Open
  <2>3. \A y \in Threads \X (Nat \ {0}) : y \in Open' <=> y \in Open /\ ~(l.at = "batch" /\ y = <<t, k + 1>>)
    BY <1>15
  <2> QED BY <2>1, <2>2, <2>3
<1>17. Len(s) - 1 = k /\ Len(s) \in Nat \ {0}
  BY <1>1
<1> QED
  BY <1>1, <1>2, <1>3, <1>4, <1>8, <1>13, <1>14, <1>16, <1>17

-----------------------------------------------------------------------------
InQueue(n) == n \in Ids(notifyQueue)
HasRun(n) == n \in Ids(ran)
IsLost(n) == \E c \in lost : c.id = n

\* One of four.
Only(q, f, r, l) ==
  /\ q \/ f \/ r \/ l
  /\ ~(q /\ f) /\ ~(q /\ r) /\ ~(q /\ l) /\ ~(f /\ r) /\ ~(f /\ l) /\ ~(r /\ l)

LEMMA RunOnceParts ==
  RunOnce => /\ Apart /\ NoRepeats(notifyQueue) /\ NoRepeats(ran)
             /\ \A n \in 1 .. issued : Only(InQueue(n), InFlush(n), HasRun(n), IsLost(n))
  BY RunOnceIs, InOneIs DEF Only, InQueue, HasRun, IsLost

LEMMA RunOnceNext ==
  ASSUME Apart', NoRepeats(notifyQueue'), NoRepeats(ran'),
         \A n \in 1 .. issued' : Only(InQueue(n)', InFlush(n)', HasRun(n)', IsLost(n)')
  PROVE  RunOnce'
<1>1. ASSUME NEW n \in 1 .. issued'
      PROVE  \E place \in Spots : \A p \in Spots : Holds(p, n)' <=> p = place
  <2>1. /\ Holds("queue", n)' <=> InQueue(n)'
        /\ Holds("flush", n)' <=> InFlush(n)'
        /\ Holds("ran", n)' <=> HasRun(n)'
        /\ Holds("lost", n)' <=> IsLost(n)'
    BY DEF Holds, InFlush, InQueue, HasRun, IsLost
  <2>2. \/ Holds("queue", n)' /\ ~Holds("flush", n)' /\ ~Holds("ran", n)' /\ ~Holds("lost", n)'
        \/ ~Holds("queue", n)' /\ Holds("flush", n)' /\ ~Holds("ran", n)' /\ ~Holds("lost", n)'
        \/ ~Holds("queue", n)' /\ ~Holds("flush", n)' /\ Holds("ran", n)' /\ ~Holds("lost", n)'
        \/ ~Holds("queue", n)' /\ ~Holds("flush", n)' /\ ~Holds("ran", n)' /\ Holds("lost", n)'
    BY <2>1 DEF Only
  <2> QED BY <2>2 DEF Spots
<1>2. RunOnce' <=>
        /\ \A n \in 1 .. issued' : \E place \in Spots : \A p \in Spots : Holds(p, n)' <=> p = place
        /\ Apart' /\ NoRepeats(notifyQueue') /\ NoRepeats(ran')
  BY DEF RunOnce, Apart, Spots
<1> QED BY <1>1, <1>2

\* The number of the next callback is nobody's yet.
LEMMA NextIsNew ==
  ASSUME NotifyTypes, NEW n, n \notin 1 .. issued
  PROVE  ~InQueue(n) /\ ~InFlush(n) /\ ~HasRun(n) /\ ~IsLost(n)
<1>1. issued \in Nat /\ notifyQueue \in Seq(CallbacksTo(issued)) /\ ran \in Seq(CallbacksTo(issued))
  BY DEF NotifyTypes
<1>2. \A c \in lost : c.id \in 1 .. issued
  BY DEF NotifyTypes, CallbacksTo
<1> QED BY <1>1, <1>2, IdsInRange, FlushInRange DEF InQueue, HasRun, IsLost

LEMMA CallbackIs ==
  ASSUME NEW e \in BOOLEAN, issued \in Nat
  PROVE  Callback(e) \in CallbacksTo(issued + 1) /\ Callback(e).id = issued + 1
<1>1. issued + 1 \in 1 .. issued + 1
  OBVIOUS
<1> QED BY <1>1 DEF Callback, CallbacksTo

\* A callback is queued.
LEMMA QueueStep ==
  ASSUME NotifyTypes, RunOnce, NEW e \in BOOLEAN, notifyQueue' = Append(notifyQueue, Callback(e))
  PROVE  /\ notifyQueue' \in Seq(CallbacksTo(issued + 1)) /\ NoRepeats(notifyQueue')
         /\ \A n : InQueue(n)' <=> InQueue(n) \/ n = issued + 1
<1>1. issued \in Nat /\ issued + 1 \in Nat /\ notifyQueue \in Seq(CallbacksTo(issued))
  BY DEF NotifyTypes
<1>2. notifyQueue \in Seq(CallbacksTo(issued + 1))
  BY <1>1, Widen
<1>3. Callback(e) \in CallbacksTo(issued + 1) /\ Callback(e).id = issued + 1
  BY <1>1, CallbackIs
<1>4. issued + 1 \notin Ids(notifyQueue)
  <2>1. issued + 1 \notin 1 .. issued
    BY <1>1
  <2> QED BY <2>1, NextIsNew DEF InQueue
<1>5. NoRepeats(notifyQueue)
  BY RunOnceParts
<1>6. /\ Ids(notifyQueue') = Ids(notifyQueue) \cup {issued + 1}
      /\ NoRepeats(notifyQueue')
  BY <1>2, <1>3, <1>4, <1>5, IdsAppend
<1>7. notifyQueue' \in Seq(CallbacksTo(issued + 1))
  BY <1>2, <1>3, AppendFacts
<1> QED BY <1>6, <1>7 DEF InQueue

LEMMA CallingIs ==
  ASSUME NotifyTypes, NEW t, NEW op, Calling(t, op)
  PROVE  /\ t \in notifyPlan.threads /\ t \in Threads /\ op \in notifyPlan.ops
         /\ calls[t] = <<>> \/ InnerAt(t, "batch")
         /\ notifyPlan'.threads = notifyPlan.threads /\ notifyPlan'.ops = notifyPlan.ops
         /\ notifyPlan' \in [budget : Nat, threads : SUBSET Threads, ops : SUBSET Calls]
<1>1. PICK b \in Nat, ts \in SUBSET Threads, os \in SUBSET Calls :
        notifyPlan = [budget |-> b, threads |-> ts, ops |-> os]
  BY DEF NotifyTypes
<1>2. b > 0 /\ b - 1 \in Nat /\ notifyPlan' = [budget |-> b - 1, threads |-> ts, ops |-> os]
  BY <1>1 DEF Calling
<1> QED BY <1>1, <1>2 DEF Calling

LEMMA OpenOne == ASSUME DepthInv, depth \in Nat, NEW x \in Open PROVE depth > 0
<1>1. Open # {} /\ IsFiniteSet(Open) /\ Cardinality(Open) \in Nat
  BY FS_CardinalityType DEF DepthInv
<1>2. Cardinality(Open) # 0
  BY <1>1, FS_EmptySet
<1> QED BY <1>1, <1>2 DEF DepthInv

LEMMA SameThread ==
  ASSUME NotifyTypes, Cardinality(notifyPlan.threads) = 1, NEW t \in notifyPlan.threads,
         NEW u \in notifyPlan.threads
  PROVE  u = t
<1>1. IsFiniteSet(notifyPlan.threads)
  BY NotifyAssumption, FS_Subset DEF NotifyTypes
<1>2. \E x : notifyPlan.threads = {x}
  BY <1>1, FS_Singleton
<1> QED BY <1>2

\* HeldInBatch, of the next state.
LEMMA HeldNext ==
  ASSUME calls' \in [Threads -> Seq(Frames(issued'))], NotifyTypes,
         notifyPlan'.threads = notifyPlan.threads, notifyPlan'.ops = notifyPlan.ops,
         Cardinality(notifyPlan.threads) = 1 /\ "flush" \notin notifyPlan.ops /\ depth' > 0 =>
           \A u \in notifyPlan.threads : \A i \in 1 .. Len(calls'[u]) : calls'[u][i].at \notin {"drain", "run"}
  PROVE  HeldInBatch'
<1>1. \A u \in notifyPlan.threads : DOMAIN calls'[u] = 1 .. Len(calls'[u])
  BY LenProperties DEF NotifyTypes
<1> QED BY <1>1 DEF HeldInBatch

LEMMA HeldNow ==
  ASSUME NotifyInv, Cardinality(notifyPlan.threads) = 1, "flush" \notin notifyPlan.ops, depth > 0,
         NEW u \in notifyPlan.threads, NEW i \in 1 .. Len(calls[u])
  PROVE  calls[u][i].at \notin {"drain", "run"}
<1>1. DOMAIN calls[u] = 1 .. Len(calls[u])
  BY LenProperties DEF NotifyInv, NotifyTypes
<1> QED BY <1>1 DEF NotifyInv, HeldInBatch

\* The next state has a call that is going to flush.
LEMMA FlushIsDue ==
  ASSUME calls' \in [Threads -> Seq(Frames(issued'))], NEW u \in Threads, NEW i \in 1 .. Len(calls'[u]),
         calls'[u][i].at \in {"load", "drain"}
  PROVE  NoneStranded'
<1>1. DOMAIN calls'[u] = 1 .. Len(calls'[u])
  BY LenProperties
<1> QED BY <1>1 DEF NoneStranded

-----------------------------------------------------------------------------
LEMMA HeldEnter ==
  ASSUME NotifyInv, NEW t \in Threads, Cardinality(notifyPlan.threads) = 1, "flush" \notin notifyPlan.ops,
         depth > 0, \A u \in Threads : u # t => calls'[u] = calls[u],
         Len(calls[t]) \in Nat, Len(calls'[t]) = Len(calls[t]) + 1,
         calls'[t][Len(calls[t]) + 1].at \notin {"drain", "run"},
         \A i \in 1 .. Len(calls[t]) : calls'[t][i] = calls[t][i],
         NEW u \in notifyPlan.threads, NEW i \in 1 .. Len(calls'[u])
  PROVE  calls'[u][i].at \notin {"drain", "run"}
<1>1. u \in Threads
  BY DEF NotifyInv, NotifyTypes
<1>2. CASE u # t
  BY <1>1, <1>2, HeldNow
<1>3. CASE u = t /\ i \in 1 .. Len(calls[t])
  BY <1>3, HeldNow
<1>4. CASE u = t /\ i \notin 1 .. Len(calls[t])
  <2>1. i = Len(calls[t]) + 1
    BY <1>4
  <2> QED BY <1>4, <2>1
<1> QED BY <1>2, <1>3, <1>4

LEMMA NotifyKeeps == ASSUME NotifyInv, NEW t \in Threads, NEW op, Notify(t, op) PROVE NotifyInv'
<1>1. /\ t \in notifyPlan.threads
      /\ calls[t] = <<>> \/ InnerAt(t, "batch")
      /\ notifyPlan'.threads = notifyPlan.threads /\ notifyPlan'.ops = notifyPlan.ops
      /\ notifyPlan' \in [budget : Nat, threads : SUBSET Threads, ops : SUBSET Calls]
  BY CallingIs DEF Notify, NotifyInv
<1>2. /\ issued \in Nat /\ issued' = issued + 1 /\ issued' \in Nat /\ issued' >= issued
      /\ calls' = Enter(t, Call("load"))
      /\ depth' = depth /\ ran' = ran /\ lost' = lost
      /\ notifyQueue' = Append(notifyQueue, Callback(op = "echo")) /\ (op = "echo") \in BOOLEAN
  BY DEF Notify, NotifyInv, NotifyTypes
<1>3. /\ calls' \in [Threads -> Seq(Frames(issued'))]
      /\ StackInv' /\ Apart'
      /\ \A n : InFlush(n)' <=> InFlush(n)
      /\ \A u \in Threads : u # t => calls'[u] = calls[u]
      /\ Len(calls[t]) \in Nat /\ Len(calls'[t]) = Len(calls[t]) + 1
      /\ calls'[t][Len(calls[t]) + 1] = Call("load")
      /\ \A i \in 1 .. Len(calls[t]) : calls'[t][i] = calls[t][i]
      /\ Open' = Open
  BY <1>1, <1>2, EnterStep
<1>4. /\ notifyQueue' \in Seq(CallbacksTo(issued')) /\ NoRepeats(notifyQueue')
      /\ \A n : InQueue(n)' <=> InQueue(n) \/ n = issued + 1
  BY <1>2, QueueStep DEF NotifyInv
<1>5. NotifyTypes'
  <2>1. ran \in Seq(CallbacksTo(issued')) /\ lost \subseteq CallbacksTo(issued')
    BY <1>2, Widen DEF NotifyInv, NotifyTypes
  <2> QED BY <1>1, <1>2, <1>3, <1>4, <2>1 DEF NotifyInv, NotifyTypes
<1>6. DepthInv'
  BY <1>2, <1>3 DEF NotifyInv, DepthInv
<1>7. RunOnce'
  <2>1. ASSUME NEW n \in 1 .. issued' PROVE Only(InQueue(n)', InFlush(n)', HasRun(n)', IsLost(n)')
    <3>1. (HasRun(n)' <=> HasRun(n)) /\ (IsLost(n)' <=> IsLost(n))
      BY <1>2 DEF HasRun, IsLost
    <3>2. CASE n = issued + 1
      <4>1. n \notin 1 .. issued
        BY <1>2, <3>2
      <4> QED BY <1>3, <1>4, <3>1, <3>2, <4>1, NextIsNew DEF Only, NotifyInv
    <3>3. CASE n # issued + 1
      <4>1. n \in 1 .. issued
        BY <1>2, <3>3
      <4> QED BY <1>3, <1>4, <3>1, <3>3, <4>1, RunOnceParts DEF Only, NotifyInv
    <3> QED BY <3>2, <3>3
  <2>2. NoRepeats(ran')
    BY <1>2, RunOnceParts DEF NotifyInv
  <2> QED BY <1>3, <1>4, <2>1, <2>2, RunOnceNext
<1>8. Call("load").at = "load"
  BY DEF Call
<1>9. NoneStranded'
  <2>1. Len(calls[t]) + 1 \in 1 .. Len(calls'[t])
    BY <1>3
  <2> QED BY <1>3, <1>8, <2>1, FlushIsDue
<1>10. HeldInBatch'
  BY <1>1, <1>2, <1>3, <1>8, HeldNext, HeldEnter DEF NotifyInv
<1> QED BY <1>3, <1>5, <1>6, <1>7, <1>9, <1>10 DEF NotifyInv

LEMMA OpenKeeps == ASSUME NotifyInv, NEW t \in Threads, OpenBatch(t) PROVE NotifyInv'
<1>1. /\ t \in notifyPlan.threads
      /\ calls[t] = <<>> \/ InnerAt(t, "batch")
      /\ notifyPlan'.threads = notifyPlan.threads /\ notifyPlan'.ops = notifyPlan.ops
      /\ notifyPlan' \in [budget : Nat, threads : SUBSET Threads, ops : SUBSET Calls]
  BY CallingIs DEF OpenBatch, NotifyInv
<1>2. /\ issued \in Nat /\ issued' = issued /\ issued' \in Nat /\ issued' >= issued
      /\ calls' = Enter(t, Call("batch")) /\ depth \in Nat
      /\ depth' = depth + 1 /\ ran' = ran /\ lost' = lost /\ notifyQueue' = notifyQueue
  BY DEF OpenBatch, NotifyInv, NotifyTypes
<1>3. /\ calls' \in [Threads -> Seq(Frames(issued'))]
      /\ StackInv' /\ Apart'
      /\ \A n : InFlush(n)' <=> InFlush(n)
      /\ \A u \in Threads : u # t => calls'[u] = calls[u]
      /\ Len(calls[t]) \in Nat /\ Len(calls'[t]) = Len(calls[t]) + 1
      /\ calls'[t][Len(calls[t]) + 1] = Call("batch")
      /\ \A i \in 1 .. Len(calls[t]) : calls'[t][i] = calls[t][i]
      /\ Open' = Open \cup {<<t, Len(calls[t]) + 1>>}
  BY <1>1, <1>2, EnterStep
<1>4. NotifyTypes'
  BY <1>1, <1>2, <1>3 DEF NotifyInv, NotifyTypes
<1>5. DepthInv'
  <2>1. /\ IsFiniteSet(Open) /\ Cardinality(Open) <= depth /\ Cardinality(Open) \in Nat
    BY FS_CardinalityType DEF NotifyInv, DepthInv
  <2>2. IsFiniteSet(Open') /\ Cardinality(Open') \in {Cardinality(Open), Cardinality(Open) + 1}
    BY <1>3, <2>1, FS_AddElement
  <2>3. Cardinality(Open') <= depth + 1
    BY <1>2, <2>1, <2>2
  <2> QED BY <1>2, <2>2, <2>3 DEF DepthInv
<1>6. RunOnce'
  <2>1. ASSUME NEW n \in 1 .. issued' PROVE Only(InQueue(n)', InFlush(n)', HasRun(n)', IsLost(n)')
    <3>1. (HasRun(n)' <=> HasRun(n)) /\ (IsLost(n)' <=> IsLost(n)) /\ (InQueue(n)' <=> InQueue(n))
      BY <1>2 DEF HasRun, IsLost, InQueue
    <3> QED BY <1>2, <1>3, <3>1, RunOnceParts DEF Only, NotifyInv
  <2>2. NoRepeats(ran') /\ NoRepeats(notifyQueue')
    BY <1>2, RunOnceParts DEF NotifyInv
  <2> QED BY <1>3, <2>1, <2>2, RunOnceNext
<1>7. NoneStranded'
  BY <1>2 DEF NoneStranded
<1>8. HeldInBatch'
  <2> SUFFICES ASSUME Cardinality(notifyPlan.threads) = 1, "flush" \notin notifyPlan.ops,
                      NEW u \in notifyPlan.threads, NEW i \in 1 .. Len(calls'[u])
               PROVE  calls'[u][i].at \notin {"drain", "run"}
    BY <1>1, <1>3, HeldNext DEF NotifyInv
  <2>1. Call("batch").at = "batch"
    BY DEF Call
  <2>2. CASE depth > 0
    BY <1>3, <2>1, <2>2, HeldEnter
  <2>3. CASE depth = 0
    <3>1. calls[t] = <<>>
      <4> SUFFICES ASSUME calls[t] # <<>> PROVE FALSE
        OBVIOUS
      <4>1. /\ Last(calls[t]).at = "batch" /\ Last(calls[t]) = calls[t][Len(calls[t])]
            /\ Len(calls[t]) \in Nat \ {0}
        BY <1>1, FrontFacts DEF InnerAt, NotifyInv, NotifyTypes
      <4>2. <<t, Len(calls[t])>> \in Open
        BY <4>1, OpenIs
      <4> QED BY <1>2, <2>3, <4>2, OpenOne DEF NotifyInv
    <3>2. u = t
      <4>1. NotifyTypes
        BY DEF NotifyInv
      <4> QED BY <1>1, <4>1, SameThread
    <3>3. i = Len(calls[t]) + 1
      <4>1. Len(calls[t]) = 0 /\ i \in 1 .. Len(calls'[t])
        BY <3>1, <3>2, EmptySeq
      <4> QED BY <1>3, <3>2, <4>1
    <3> QED BY <1>3, <2>1, <3>2, <3>3
  <2> QED BY <1>2, <2>2, <2>3
<1> QED BY <1>3, <1>4, <1>5, <1>6, <1>7, <1>8 DEF NotifyInv

LEMMA FlushKeeps == ASSUME NotifyInv, NEW t \in Threads, Flush(t) PROVE NotifyInv'
<1>1. /\ t \in notifyPlan.threads /\ "flush" \in notifyPlan.ops
      /\ calls[t] = <<>> \/ InnerAt(t, "batch")
      /\ notifyPlan'.threads = notifyPlan.threads /\ notifyPlan'.ops = notifyPlan.ops
      /\ notifyPlan' \in [budget : Nat, threads : SUBSET Threads, ops : SUBSET Calls]
  BY CallingIs DEF Flush, NotifyInv
<1>2. /\ issued \in Nat /\ issued' = issued /\ issued' \in Nat /\ issued' >= issued
      /\ calls' = Enter(t, Call("drain"))
      /\ depth' = depth /\ ran' = ran /\ lost' = lost /\ notifyQueue' = notifyQueue
  BY DEF Flush, NotifyInv, NotifyTypes
<1>3. /\ calls' \in [Threads -> Seq(Frames(issued'))]
      /\ StackInv' /\ Apart'
      /\ \A n : InFlush(n)' <=> InFlush(n)
      /\ Len(calls[t]) \in Nat /\ Len(calls'[t]) = Len(calls[t]) + 1
      /\ calls'[t][Len(calls[t]) + 1] = Call("drain")
      /\ Open' = Open
  BY <1>1, <1>2, EnterStep
<1>4. NotifyTypes'
  BY <1>1, <1>2, <1>3 DEF NotifyInv, NotifyTypes
<1>5. DepthInv'
  BY <1>2, <1>3 DEF NotifyInv, DepthInv
<1>6. RunOnce'
  <2>1. ASSUME NEW n \in 1 .. issued' PROVE Only(InQueue(n)', InFlush(n)', HasRun(n)', IsLost(n)')
    <3>1. (HasRun(n)' <=> HasRun(n)) /\ (IsLost(n)' <=> IsLost(n)) /\ (InQueue(n)' <=> InQueue(n))
      BY <1>2 DEF HasRun, IsLost, InQueue
    <3> QED BY <1>2, <1>3, <3>1, RunOnceParts DEF Only, NotifyInv
  <2>2. NoRepeats(ran') /\ NoRepeats(notifyQueue')
    BY <1>2, RunOnceParts DEF NotifyInv
  <2> QED BY <1>3, <2>1, <2>2, RunOnceNext
<1>7. NoneStranded'
  <2>1. Len(calls[t]) + 1 \in 1 .. Len(calls'[t])
    BY <1>3
  <2>2. Call("drain").at = "drain"
    BY DEF Call
  <2> QED BY <1>3, <2>1, <2>2, FlushIsDue
<1>8. HeldInBatch'
  BY <1>1, <1>3, HeldNext, CallingIs DEF NotifyInv, Flush
<1> QED BY <1>3, <1>4, <1>5, <1>6, <1>7, <1>8 DEF NotifyInv

-----------------------------------------------------------------------------
\* What is known of the innermost call of a thread.
LEMMA InnerIs ==
  ASSUME NotifyInv, NEW t \in Threads, NEW x, InnerAt(t, x)
  PROVE  /\ calls[t] # <<>> /\ Len(calls[t]) \in Nat \ {0}
         /\ Last(calls[t]) = calls[t][Len(calls[t])] /\ Last(calls[t]).at = x
         /\ t \in notifyPlan.threads
         /\ Last(calls[t]).pending \in Seq(CallbacksTo(issued)) /\ NoRepeats(Last(calls[t]).pending)
         /\ x = "run" <=> Last(calls[t]).pending # <<>>
         /\ \A n \in Ids(Last(calls[t]).pending) : InFlush(n)
<1>1. calls[t] # <<>> /\ calls[t] \in Seq(Frames(issued)) /\ Stacked(calls[t]) /\ t \in notifyPlan.threads
  BY DEF InnerAt, NotifyInv, NotifyTypes, StackInv
<1>2. /\ Len(calls[t]) \in Nat \ {0} /\ Last(calls[t]) = calls[t][Len(calls[t])]
      /\ Last(calls[t]) \in Frames(issued) /\ Last(calls[t]).at = x
  BY <1>1, FrontFacts DEF InnerAt
<1>3. Len(calls[t]) \in DOMAIN calls[t] /\ Len(calls[t]) \in 1 .. Len(calls[t])
  BY <1>1, <1>2, LenProperties
<1>4. Last(calls[t]).pending \in Seq(CallbacksTo(issued))
  BY <1>2 DEF Frames
<1>5. Apart
  BY RunOnceIs DEF NotifyInv
<1>6. NoRepeats(Last(calls[t]).pending)
  BY <1>2, <1>3, <1>5 DEF Apart
<1>7. x = "run" <=> Last(calls[t]).pending # <<>>
  BY <1>1, <1>2, <1>3 DEF Stacked
<1>8. \A n \in Ids(Last(calls[t]).pending) : InFlush(n)
  BY <1>2, <1>3 DEF InFlush
<1> QED BY <1>1, <1>2, <1>4, <1>6, <1>7, <1>8

\* An innermost call that ends leaves its caller's calls in the next state.
LEMMA HeldEnd ==
  ASSUME NotifyInv, NEW t \in Threads, Cardinality(notifyPlan.threads) = 1, "flush" \notin notifyPlan.ops,
         depth > 0, \A u \in Threads : u # t => calls'[u] = calls[u],
         Len(calls[t]) \in Nat \ {0}, Len(calls'[t]) = Len(calls[t]) - 1,
         \A i \in 1 .. Len(calls[t]) - 1 : calls'[t][i] = calls[t][i],
         NEW u \in notifyPlan.threads, NEW i \in 1 .. Len(calls'[u])
  PROVE  calls'[u][i].at \notin {"drain", "run"}
<1>1. u \in Threads
  BY DEF NotifyInv, NotifyTypes
<1>2. CASE u # t
  BY <1>1, <1>2, HeldNow
<1>3. CASE u = t
  <2>1. i \in 1 .. Len(calls[t]) - 1 /\ i \in 1 .. Len(calls[t])
    BY <1>3
  <2> QED BY <1>3, <2>1, HeldNow
<1> QED BY <1>2, <1>3

LEMMA EmptyStack == ASSUME NEW k \in Nat PROVE <<>> \in Seq(Frames(k)) /\ Len(<<>>) = 0 /\ Stacked(<<>>)
  BY DEF Stacked

LEMMA OneFrame ==
  ASSUME NEW k \in Nat, NEW f \in Frames(k), f.at = "run" <=> f.pending # <<>>
  PROVE  <<f>> \in Seq(Frames(k)) /\ Len(<<f>>) = 1 /\ <<f>>[1] = f /\ <<f>> # <<>> /\ Stacked(<<f>>)
<1>1. <<f>> \in Seq(Frames(k)) /\ Len(<<f>>) = 1 /\ <<f>>[1] = f
  OBVIOUS
<1>2. Stacked(<<f>>)
  BY <1>1 DEF Stacked
<1>3. <<f>> # <<>>
  BY <1>1, EmptySeq
<1> QED BY <1>1, <1>2, <1>3

\* A flush goes on below the notify of the callback it has just run.
LEMMA TwoFrames ==
  ASSUME NEW k \in Nat, NEW f \in Frames(k), f.at = "run", f.pending # <<>>
  PROVE  LET cs == <<f>> \o <<Call("load")>>
         IN /\ cs \in Seq(Frames(k)) /\ Len(cs) = 2 /\ cs[1] = f /\ cs[2] = Call("load")
            /\ cs # <<>> /\ Stacked(cs)
<1>1. PICK g \in Frames(k) : g = Call("load") /\ g.at = "load" /\ g.pending = <<>>
  BY CallIs
<1>2. PICK a \in Seq(Frames(k)) : a = <<f>> /\ Len(a) = 1 /\ a[1] = f
  <2>1. <<f>> \in Seq(Frames(k)) /\ Len(<<f>>) = 1 /\ <<f>>[1] = f
    OBVIOUS
  <2> QED BY <2>1
<1>3. PICK b \in Seq(Frames(k)) : b = <<g>> /\ Len(b) = 1 /\ b[1] = g
  <2>1. <<g>> \in Seq(Frames(k)) /\ Len(<<g>>) = 1 /\ <<g>>[1] = g
    OBVIOUS
  <2> QED BY <2>1
<1>4. /\ a \o b \in Seq(Frames(k)) /\ Len(a \o b) = 1 + 1
      /\ \A i \in 1 .. 1 + 1 : (a \o b)[i] = IF i <= 1 THEN a[i] ELSE b[i - 1]
  BY <1>2, <1>3, ConcatProperties
<1>5. PICK cs \in Seq(Frames(k)) : cs = a \o b /\ Len(cs) = 2 /\ cs[1] = f /\ cs[2] = g
  <2>1. 1 + 1 = 2 /\ 1 \in 1 .. 1 + 1 /\ 2 \in 1 .. 1 + 1 /\ 1 <= 1 /\ ~(2 <= 1) /\ 2 - 1 = 1
    OBVIOUS
  <2>2. (a \o b)[1] = a[1] /\ (a \o b)[2] = b[1] /\ Len(a \o b) = 2
    BY <1>4, <2>1
  <2> QED BY <1>2, <1>3, <1>4, <2>2
<1>6. \A i \in 1 .. 2 : i = 1 \/ i = 2
  OBVIOUS
<1>7. Stacked(cs)
  BY <1>1, <1>5, <1>6 DEF Stacked
<1>8. cs # <<>>
  BY <1>5, EmptySeq
<1> QED BY <1>1, <1>2, <1>3, <1>5, <1>7, <1>8

LEMMA LoadKeeps == ASSUME NotifyInv, NEW t \in Threads, LoadDepth(t) PROVE NotifyInv'
<1> DEFINE cs == IF depth = 0 THEN <<Call("drain")>> ELSE <<>>
<1>1. /\ notifyPlan' = notifyPlan
      /\ issued \in Nat /\ issued' = issued /\ issued' \in Nat /\ issued' >= issued
      /\ depth' = depth /\ ran' = ran /\ lost' = lost /\ notifyQueue' = notifyQueue
      /\ InnerAt(t, "load") /\ calls' = Inner(t, cs)
      /\ notifyPlan'.threads = notifyPlan.threads /\ notifyPlan'.ops = notifyPlan.ops
  BY DEF LoadDepth, NotifyInv, NotifyTypes
<1>2. /\ calls[t] # <<>> /\ Len(calls[t]) \in Nat \ {0} /\ Last(calls[t]).at = "load"
      /\ Last(calls[t]).pending = <<>>
  BY <1>1, InnerIs
<1>3. /\ Call("drain") \in Frames(issued') /\ Call("drain").at = "drain" /\ Call("drain").pending = <<>>
  BY <1>1, CallIs
<1>4. /\ cs \in Seq(Frames(issued')) /\ Len(cs) <= 2 /\ Stacked(cs) /\ Len(cs) \in {0, 1}
      /\ cs # <<>> => cs[1] = Call("drain") /\ Len(cs) = 1
      /\ depth = 0 => cs = <<Call("drain")>> /\ Len(cs) = 1 /\ cs[1] = Call("drain")
      /\ depth # 0 => Len(cs) = 0
  BY <1>1, <1>3, EmptyStack, OneFrame
<1> HIDE DEF cs
<1>5. /\ \A i \in 1 .. Len(cs) : cs[i].at # "batch" /\ (i = 2 => cs[i].pending = <<>>)
      /\ cs # <<>> => NoRepeats(cs[1].pending) /\ Ids(cs[1].pending) = {}
  <2>1. \A i \in 1 .. Len(cs) : i = 1
    <3>1. \A m \in {0, 1} : \A i \in 1 .. m : i = 1
      OBVIOUS
    <3> QED BY <1>4, <3>1
  <2>2. 1 \in 1 .. Len(cs) => cs # <<>>
    BY <1>4, EmptySeq
  <2> QED BY <1>3, <1>4, <2>1, <2>2, IdsEmpty
<1>6. /\ calls' \in [Threads -> Seq(Frames(issued'))]
      /\ StackInv' /\ Apart'
      /\ \A n : InFlush(n)' <=> \/ InFlush(n) /\ n \notin Ids(Last(calls[t]).pending)
                                \/ cs # <<>> /\ n \in Ids(cs[1].pending)
      /\ \A u \in Threads : u # t => calls'[u] = calls[u]
      /\ Len(calls'[t]) = Len(calls[t]) - 1 + Len(cs)
      /\ \A i \in 1 .. Len(calls[t]) - 1 : calls'[t][i] = calls[t][i]
      /\ \A i \in 1 .. Len(cs) : calls'[t][Len(calls[t]) - 1 + i] = cs[i]
      /\ Open' = Open
  <2>1. /\ calls[t] # <<>> /\ issued' \in Nat /\ issued' >= issued
        /\ cs \in Seq(Frames(issued')) /\ Len(cs) <= 2 /\ Stacked(cs)
        /\ \A i \in 1 .. Len(cs) : cs[i].at # "batch" /\ (i = 2 => cs[i].pending = <<>>)
        /\ cs # <<>> => /\ NoRepeats(cs[1].pending)
                        /\ \A n \in Ids(cs[1].pending) : n \in Ids(Last(calls[t]).pending) \/ ~InFlush(n)
        /\ calls' = Inner(t, cs) /\ notifyPlan'.threads = notifyPlan.threads
    BY <1>1, <1>2, <1>4, <1>5
  <2> QED BY ONLY NotifyInv, t \in Threads, <1>2, <2>1, InnerStep
<1>7. \A n : InFlush(n)' <=> InFlush(n)
  BY <1>2, <1>5, <1>6, IdsEmpty
<1>8. NotifyTypes' /\ DepthInv'
  BY <1>1, <1>6 DEF NotifyInv, NotifyTypes, DepthInv
<1>9. RunOnce'
  <2>1. ASSUME NEW n \in 1 .. issued' PROVE Only(InQueue(n)', InFlush(n)', HasRun(n)', IsLost(n)')
    <3>1. (HasRun(n)' <=> HasRun(n)) /\ (IsLost(n)' <=> IsLost(n)) /\ (InQueue(n)' <=> InQueue(n))
      BY <1>1 DEF HasRun, IsLost, InQueue
    <3> QED BY <1>1, <1>7, <3>1, RunOnceParts DEF Only, NotifyInv
  <2>2. NoRepeats(ran') /\ NoRepeats(notifyQueue')
    BY <1>1, RunOnceParts DEF NotifyInv
  <2> QED BY <1>6, <2>1, <2>2, RunOnceNext
<1>10. NoneStranded'
  <2>1. CASE depth = 0
    <3>1. Len(calls[t]) \in 1 .. Len(calls'[t]) /\ 1 \in 1 .. Len(cs) /\ Len(calls[t]) - 1 + 1 = Len(calls[t])
      <4>1. PICK k \in Nat \ {0} : k = Len(calls[t])
        BY <1>2
      <4>2. Len(cs) = 1 /\ Len(calls'[t]) = k - 1 + 1
        BY <1>4, <1>6, <2>1, <4>1
      <4> QED BY <4>1, <4>2
    <3>2. calls'[t][Len(calls[t])].at = "drain"
      BY <1>3, <1>4, <1>6, <2>1, <3>1
    <3> QED BY <1>6, <3>1, <3>2, FlushIsDue
  <2>2. CASE depth # 0
    BY <1>1, <2>2 DEF NoneStranded
  <2> QED BY <2>1, <2>2
<1>11. HeldInBatch'
  <2> SUFFICES ASSUME Cardinality(notifyPlan.threads) = 1, "flush" \notin notifyPlan.ops, depth > 0,
                      NEW u \in notifyPlan.threads, NEW i \in 1 .. Len(calls'[u])
               PROVE  calls'[u][i].at \notin {"drain", "run"}
    BY <1>1, <1>6, HeldNext DEF NotifyInv
  <2>1. Len(calls'[t]) = Len(calls[t]) - 1
    BY <1>2, <1>4, <1>6
  <2> QED BY <1>2, <1>6, <2>1, HeldEnd
<1> QED BY <1>6, <1>8, <1>9, <1>10, <1>11 DEF NotifyInv

LEMMA CloseKeeps == ASSUME NotifyInv, NEW t \in Threads, CloseBatch(t) PROVE NotifyInv'
<1> DEFINE cs == IF depth = 1 THEN <<Call("drain")>> ELSE <<>>
<1>1. /\ notifyPlan' = notifyPlan /\ depth \in Nat
      /\ issued \in Nat /\ issued' = issued /\ issued' \in Nat /\ issued' >= issued
      /\ depth' = depth - 1 /\ ran' = ran /\ lost' = lost /\ notifyQueue' = notifyQueue
      /\ InnerAt(t, "batch") /\ calls' = Inner(t, cs)
      /\ notifyPlan'.threads = notifyPlan.threads /\ notifyPlan'.ops = notifyPlan.ops
  BY DEF CloseBatch, NotifyInv, NotifyTypes
<1>2. /\ calls[t] # <<>> /\ Len(calls[t]) \in Nat \ {0} /\ Last(calls[t]).at = "batch"
      /\ Last(calls[t]) = calls[t][Len(calls[t])]
      /\ Last(calls[t]).pending = <<>>
  BY <1>1, InnerIs
<1>3. /\ Call("drain") \in Frames(issued') /\ Call("drain").at = "drain" /\ Call("drain").pending = <<>>
  BY <1>1, CallIs
<1>4. /\ cs \in Seq(Frames(issued')) /\ Len(cs) <= 2 /\ Stacked(cs) /\ Len(cs) \in {0, 1}
      /\ cs # <<>> => cs[1] = Call("drain") /\ Len(cs) = 1
      /\ depth = 1 => cs = <<Call("drain")>> /\ Len(cs) = 1 /\ cs[1] = Call("drain")
      /\ depth # 1 => Len(cs) = 0
  BY <1>1, <1>3, EmptyStack, OneFrame
<1> HIDE DEF cs
<1>5. /\ \A i \in 1 .. Len(cs) : cs[i].at # "batch" /\ (i = 2 => cs[i].pending = <<>>)
      /\ cs # <<>> => NoRepeats(cs[1].pending) /\ Ids(cs[1].pending) = {}
  <2>1. \A i \in 1 .. Len(cs) : i = 1
    <3>1. \A m \in {0, 1} : \A i \in 1 .. m : i = 1
      OBVIOUS
    <3> QED BY <1>4, <3>1
  <2>2. 1 \in 1 .. Len(cs) => cs # <<>>
    BY <1>4, EmptySeq
  <2> QED BY <1>3, <1>4, <2>1, <2>2, IdsEmpty
<1>6. /\ calls' \in [Threads -> Seq(Frames(issued'))]
      /\ StackInv' /\ Apart'
      /\ \A n : InFlush(n)' <=> \/ InFlush(n) /\ n \notin Ids(Last(calls[t]).pending)
                                \/ cs # <<>> /\ n \in Ids(cs[1].pending)
      /\ \A u \in Threads : u # t => calls'[u] = calls[u]
      /\ Len(calls'[t]) = Len(calls[t]) - 1 + Len(cs)
      /\ \A i \in 1 .. Len(calls[t]) - 1 : calls'[t][i] = calls[t][i]
      /\ \A i \in 1 .. Len(cs) : calls'[t][Len(calls[t]) - 1 + i] = cs[i]
      /\ Open' = Open \ {<<t, Len(calls[t])>>}
  <2>1. /\ calls[t] # <<>> /\ issued' \in Nat /\ issued' >= issued
        /\ cs \in Seq(Frames(issued')) /\ Len(cs) <= 2 /\ Stacked(cs)
        /\ \A i \in 1 .. Len(cs) : cs[i].at # "batch" /\ (i = 2 => cs[i].pending = <<>>)
        /\ cs # <<>> => /\ NoRepeats(cs[1].pending)
                        /\ \A n \in Ids(cs[1].pending) : n \in Ids(Last(calls[t]).pending) \/ ~InFlush(n)
        /\ calls' = Inner(t, cs) /\ notifyPlan'.threads = notifyPlan.threads
    BY <1>1, <1>2, <1>4, <1>5
  <2> QED BY ONLY NotifyInv, t \in Threads, <1>2, <2>1, InnerStep
<1>7. \A n : InFlush(n)' <=> InFlush(n)
  BY <1>2, <1>5, <1>6, IdsEmpty
<1>8. <<t, Len(calls[t])>> \in Open /\ depth > 0
  <2>1. <<t, Len(calls[t])>> \in Open
    BY <1>2, OpenIs
  <2> QED BY <1>1, <2>1, OpenOne DEF NotifyInv
<1>9. NotifyTypes'
  BY <1>1, <1>6, <1>8 DEF NotifyInv, NotifyTypes
<1>10. DepthInv'
  <2>1. IsFiniteSet(Open) /\ Cardinality(Open) <= depth /\ Cardinality(Open) \in Nat
    BY FS_CardinalityType DEF NotifyInv, DepthInv
  <2>2. IsFiniteSet(Open') /\ Cardinality(Open') = Cardinality(Open) - 1
    BY <1>6, <1>8, <2>1, FS_RemoveElement
  <2>3. Cardinality(Open') <= depth - 1
    BY <1>1, <2>1, <2>2
  <2> QED BY <1>1, <2>2, <2>3 DEF DepthInv
<1>11. RunOnce'
  <2>1. ASSUME NEW n \in 1 .. issued' PROVE Only(InQueue(n)', InFlush(n)', HasRun(n)', IsLost(n)')
    <3>1. (HasRun(n)' <=> HasRun(n)) /\ (IsLost(n)' <=> IsLost(n)) /\ (InQueue(n)' <=> InQueue(n))
      BY <1>1 DEF HasRun, IsLost, InQueue
    <3> QED BY <1>1, <1>7, <3>1, RunOnceParts DEF Only, NotifyInv
  <2>2. NoRepeats(ran') /\ NoRepeats(notifyQueue')
    BY <1>1, RunOnceParts DEF NotifyInv
  <2> QED BY <1>6, <2>1, <2>2, RunOnceNext
<1>12. NoneStranded'
  <2>1. CASE depth = 1
    <3>1. Len(calls[t]) \in 1 .. Len(calls'[t]) /\ 1 \in 1 .. Len(cs) /\ Len(calls[t]) - 1 + 1 = Len(calls[t])
      <4>1. PICK k \in Nat \ {0} : k = Len(calls[t])
        BY <1>2
      <4>2. Len(cs) = 1 /\ Len(calls'[t]) = k - 1 + 1
        BY <1>4, <1>6, <2>1, <4>1
      <4> QED BY <4>1, <4>2
    <3>2. calls'[t][Len(calls[t])].at = "drain"
      BY <1>3, <1>4, <1>6, <2>1, <3>1
    <3> QED BY <1>6, <3>1, <3>2, FlushIsDue
  <2>2. CASE depth # 1
    BY <1>1, <2>2 DEF NoneStranded
  <2> QED BY <2>1, <2>2
<1>13. HeldInBatch'
  <2> SUFFICES ASSUME Cardinality(notifyPlan.threads) = 1, "flush" \notin notifyPlan.ops, depth' > 0,
                      NEW u \in notifyPlan.threads, NEW i \in 1 .. Len(calls'[u])
               PROVE  calls'[u][i].at \notin {"drain", "run"}
    BY <1>1, <1>6, HeldNext DEF NotifyInv
  <2>1. Len(calls'[t]) = Len(calls[t]) - 1
    BY <1>1, <1>2, <1>4, <1>6
  <2> QED BY <1>2, <1>6, <1>8, <2>1, HeldEnd
<1> QED BY <1>6, <1>9, <1>10, <1>11, <1>12, <1>13 DEF NotifyInv

LEMMA DrainKeeps == ASSUME NotifyInv, NEW t \in Threads, Drain(t) PROVE NotifyInv'
<1> DEFINE cs == IF notifyQueue = <<>> THEN <<>> ELSE <<Running(notifyQueue)>>
<1>1. /\ notifyPlan' = notifyPlan
      /\ issued \in Nat /\ issued' = issued /\ issued' \in Nat /\ issued' >= issued
      /\ depth' = depth /\ ran' = ran /\ lost' = lost /\ notifyQueue' = <<>>
      /\ notifyQueue \in Seq(CallbacksTo(issued))
      /\ InnerAt(t, "drain") /\ calls' = Inner(t, cs)
      /\ notifyPlan'.threads = notifyPlan.threads /\ notifyPlan'.ops = notifyPlan.ops
  BY DEF Drain, NotifyInv, NotifyTypes
<1>2. /\ calls[t] # <<>> /\ Len(calls[t]) \in Nat \ {0} /\ Last(calls[t]).at = "drain"
      /\ Last(calls[t]) = calls[t][Len(calls[t])] /\ t \in notifyPlan.threads
      /\ Last(calls[t]).pending = <<>>
  BY <1>1, InnerIs
<1>3. /\ Running(notifyQueue) \in Frames(issued') /\ Running(notifyQueue).at = "run"
      /\ Running(notifyQueue).pending = notifyQueue
  BY <1>1, RunningIs
<1>4. /\ cs \in Seq(Frames(issued')) /\ Len(cs) <= 2 /\ Stacked(cs) /\ Len(cs) \in {0, 1}
      /\ notifyQueue # <<>> => cs[1] = Running(notifyQueue) /\ cs # <<>>
      /\ notifyQueue = <<>> => cs = <<>> /\ Len(cs) = 0
  <2>1. CASE notifyQueue = <<>>
    BY <1>1, <2>1, EmptyStack
  <2>2. CASE notifyQueue # <<>>
    <3>1. cs = <<Running(notifyQueue)>>
      BY <2>2
    <3>2. cs \in Seq(Frames(issued')) /\ Len(cs) = 1 /\ cs[1] = Running(notifyQueue) /\ cs # <<>> /\ Stacked(cs)
      BY <1>1, <1>3, <2>2, <3>1, OneFrame
    <3> HIDE DEF cs
    <3> QED BY <2>2, <3>2
  <2> QED BY <2>1, <2>2
<1> HIDE DEF cs
<1>5. NoRepeats(notifyQueue) /\ \A n \in Ids(notifyQueue) : ~InFlush(n)
  <2>1. \A n \in Ids(notifyQueue) : n \in 1 .. issued
    BY <1>1, IdsInRange
  <2> QED BY <2>1, RunOnceParts DEF NotifyInv, Only, InQueue
<1>6. /\ \A i \in 1 .. Len(cs) : cs[i].at # "batch" /\ (i = 2 => cs[i].pending = <<>>)
      /\ cs # <<>> => cs[1].pending = notifyQueue
  <2>1. CASE notifyQueue = <<>>
    BY <1>4, <2>1
  <2>2. CASE notifyQueue # <<>>
    <3>1. \A i \in 1 .. Len(cs) : i = 1
      <4>1. \A m \in {0, 1} : \A i \in 1 .. m : i = 1
        OBVIOUS
      <4> QED BY <1>4, <4>1
    <3> QED BY <1>3, <1>4, <2>2, <3>1
  <2> QED BY <2>1, <2>2
<1>7. /\ calls' \in [Threads -> Seq(Frames(issued'))]
      /\ StackInv' /\ Apart'
      /\ \A n : InFlush(n)' <=> \/ InFlush(n) /\ n \notin Ids(Last(calls[t]).pending)
                                \/ cs # <<>> /\ n \in Ids(cs[1].pending)
      /\ Open' = Open
  <2>1. cs # <<>> => /\ NoRepeats(cs[1].pending)
                     /\ \A n \in Ids(cs[1].pending) : n \in Ids(Last(calls[t]).pending) \/ ~InFlush(n)
    BY <1>5, <1>6
  <2> QED BY <1>1, <1>2, <1>4, <1>6, <2>1, InnerStep
<1>8. \A n : InFlush(n)' <=> InFlush(n) \/ InQueue(n)
  BY <1>2, <1>4, <1>6, <1>7, IdsEmpty DEF InQueue
<1>9. \A n : ~InQueue(n)'
  BY <1>1, IdsEmpty DEF InQueue
<1>10. NotifyTypes' /\ DepthInv'
  <2>1. notifyQueue' \in Seq(CallbacksTo(issued'))
    BY <1>1
  <2> QED BY <1>1, <1>7, <2>1 DEF NotifyInv, NotifyTypes, DepthInv
<1>11. RunOnce'
  <2>1. ASSUME NEW n \in 1 .. issued' PROVE Only(InQueue(n)', InFlush(n)', HasRun(n)', IsLost(n)')
    <3>1. (HasRun(n)' <=> HasRun(n)) /\ (IsLost(n)' <=> IsLost(n))
      BY <1>1 DEF HasRun, IsLost
    <3>2. Only(InQueue(n), InFlush(n), HasRun(n), IsLost(n))
      BY <1>1, RunOnceParts DEF NotifyInv
    <3>3. (InFlush(n)' <=> InFlush(n) \/ InQueue(n)) /\ ~InQueue(n)'
      BY <1>8, <1>9
    <3> QED BY <3>1, <3>2, <3>3 DEF Only
  <2>2. NoRepeats(ran') /\ NoRepeats(notifyQueue')
    BY <1>1, RunOnceParts, IdsEmpty DEF NotifyInv
  <2> QED BY <1>7, <2>1, <2>2, RunOnceNext
<1>12. NoneStranded'
  BY <1>1 DEF NoneStranded
<1>13. HeldInBatch'
  <2>1. Len(calls[t]) \in 1 .. Len(calls[t])
    BY <1>2
  <2>2. ~(Cardinality(notifyPlan.threads) = 1 /\ "flush" \notin notifyPlan.ops /\ depth' > 0)
    BY <1>1, <1>2, <2>1, HeldNow
  <2> QED BY <1>1, <2>2 DEF HeldInBatch
<1> QED BY <1>7, <1>10, <1>11, <1>12, <1>13 DEF NotifyInv

LEMMA RunKeeps == ASSUME NotifyInv, NEW t \in Threads, RunCallback(t) PROVE NotifyInv'
<1> DEFINE p == Last(calls[t]).pending
           c == Head(p)
           rest == IF Len(p) = 1 THEN <<>> ELSE <<Running(Tail(p))>>
           cs == IF c.echo THEN rest \o <<Call("load")>> ELSE rest
<1>1. /\ notifyPlan' = notifyPlan
      /\ issued \in Nat /\ issued' = (IF c.echo THEN issued + 1 ELSE issued)
      /\ depth' = depth /\ ran' = Append(ran, c) /\ lost' = lost
      /\ notifyQueue' = (IF c.echo THEN Append(notifyQueue, Callback(FALSE)) ELSE notifyQueue)
      /\ InnerAt(t, "run") /\ calls' = Inner(t, cs)
      /\ notifyPlan'.threads = notifyPlan.threads /\ notifyPlan'.ops = notifyPlan.ops
  BY DEF RunCallback, NotifyInv, NotifyTypes
<1>2. issued' \in Nat /\ issued' >= issued
  BY <1>1
<1>3. /\ calls[t] # <<>> /\ Len(calls[t]) \in Nat \ {0} /\ Last(calls[t]).at = "run"
      /\ Last(calls[t]) = calls[t][Len(calls[t])] /\ t \in notifyPlan.threads
      /\ p \in Seq(CallbacksTo(issued)) /\ NoRepeats(p) /\ p # <<>>
      /\ \A n \in Ids(p) : InFlush(n)
  BY <1>1, InnerIs
<1>4. /\ c \in CallbacksTo(issued) /\ c.id \in Ids(p) /\ c.id \in 1 .. issued
      /\ Tail(p) \in Seq(CallbacksTo(issued)) /\ Len(Tail(p)) = Len(p) - 1
      /\ Ids(Tail(p)) = Ids(p) \ {c.id} /\ NoRepeats(Tail(p))
  BY <1>3, IdsTail DEF CallbacksTo
<1>5. /\ Running(Tail(p)) \in Frames(issued') /\ Running(Tail(p)).at = "run"
      /\ Running(Tail(p)).pending = Tail(p)
      /\ Call("load") \in Frames(issued') /\ Call("load").at = "load" /\ Call("load").pending = <<>>
  <2>1. Seq(CallbacksTo(issued)) \subseteq Seq(CallbacksTo(issued'))
    BY ONLY <1>1, <1>2, Widen
  <2>2. Tail(p) \in Seq(CallbacksTo(issued'))
    BY <1>4, <2>1
  <2> QED BY <1>2, <2>2, RunningIs, CallIs
<1>6. /\ Len(p) = 1 => Tail(p) = <<>>
      /\ Len(p) # 1 => Tail(p) # <<>>
  <2>1. Len(p) \in Nat \ {0}
    BY <1>3, EmptySeq
  <2>2. Len(Tail(p)) = 0 <=> Len(p) = 1
    BY <1>4, <2>1
  <2>3. Len(Tail(p)) = 0 <=> Tail(p) = <<>>
    BY <1>4, EmptySeq
  <2> QED BY <2>2, <2>3
<1>7. /\ cs \in Seq(Frames(issued')) /\ Len(cs) <= 2 /\ Stacked(cs)
      /\ \A i \in 1 .. Len(cs) : cs[i].at # "batch" /\ (i = 2 => cs[i].pending = <<>>)
      /\ cs # <<>> => cs[1].pending = Tail(p)
      /\ cs = <<>> => Tail(p) = <<>>
      /\ c.echo => Len(cs) \in 1 .. 2 /\ cs[Len(cs)].at = "load"
  <2> HIDE DEF p, c
  <2>1. CASE Len(p) = 1 /\ ~c.echo
    BY <1>2, <1>6, <2>1, EmptyStack
  <2>2. CASE Len(p) = 1 /\ c.echo
    <3>1. <<>> \o <<Call("load")>> = <<Call("load")>>
      <4>1. <<Call("load")>> \in Seq(Frames(issued'))
        BY <1>5
      <4> QED BY <4>1, ConcatEmptySeq
    <3>2. cs = <<Call("load")>>
      BY <2>2, <3>1
    <3>3. cs \in Seq(Frames(issued')) /\ Len(cs) = 1 /\ cs[1] = Call("load") /\ cs # <<>> /\ Stacked(cs)
      BY <1>2, <1>5, <3>2, OneFrame
    <3>4. 1 \in 1 .. 2 /\ 1 <= 2 /\ \A i \in 1 .. 1 : i = 1
      OBVIOUS
    <3> HIDE DEF cs
    <3> QED BY <1>5, <1>6, <2>2, <3>3, <3>4
  <2>3. CASE Len(p) # 1 /\ ~c.echo
    <3>1. cs = <<Running(Tail(p))>>
      BY <2>3
    <3>2. cs \in Seq(Frames(issued')) /\ Len(cs) = 1 /\ cs[1] = Running(Tail(p)) /\ cs # <<>> /\ Stacked(cs)
      BY <1>2, <1>5, <1>6, <2>3, <3>1, OneFrame
    <3>3. 1 <= 2 /\ \A i \in 1 .. 1 : i = 1
      OBVIOUS
    <3> HIDE DEF cs
    <3> QED BY <1>5, <2>3, <3>2, <3>3
  <2>4. CASE Len(p) # 1 /\ c.echo
    <3>1. cs = <<Running(Tail(p))>> \o <<Call("load")>>
      BY <2>4
    <3>2. /\ cs \in Seq(Frames(issued')) /\ Len(cs) = 2 /\ cs[1] = Running(Tail(p)) /\ cs[2] = Call("load")
          /\ cs # <<>> /\ Stacked(cs)
      BY <1>2, <1>5, <1>6, <2>4, <3>1, TwoFrames
    <3>3. 2 \in 1 .. 2 /\ 2 <= 2 /\ \A i \in 1 .. 2 : i = 1 \/ i = 2
      OBVIOUS
    <3> HIDE DEF cs
    <3> QED BY <1>5, <3>2, <3>3
  <2> QED BY <2>1, <2>2, <2>3, <2>4
<1> HIDE DEF p, c, cs
<1>8. /\ calls' \in [Threads -> Seq(Frames(issued'))]
      /\ StackInv' /\ Apart'
      /\ \A n : InFlush(n)' <=> \/ InFlush(n) /\ n \notin Ids(Last(calls[t]).pending)
                                \/ cs # <<>> /\ n \in Ids(cs[1].pending)
      /\ \A u \in Threads : u # t => calls'[u] = calls[u]
      /\ Len(calls'[t]) = Len(calls[t]) - 1 + Len(cs)
      /\ \A i \in 1 .. Len(calls[t]) - 1 : calls'[t][i] = calls[t][i]
      /\ \A i \in 1 .. Len(cs) : calls'[t][Len(calls[t]) - 1 + i] = cs[i]
      /\ Open' = Open
  <2>1. cs # <<>> => /\ NoRepeats(cs[1].pending)
                     /\ \A n \in Ids(cs[1].pending) : n \in Ids(Last(calls[t]).pending) \/ ~InFlush(n)
    BY <1>4, <1>7 DEF p
  <2>2. /\ calls[t] # <<>> /\ issued' \in Nat /\ issued' >= issued
        /\ cs \in Seq(Frames(issued')) /\ Len(cs) <= 2 /\ Stacked(cs)
        /\ \A i \in 1 .. Len(cs) : cs[i].at # "batch" /\ (i = 2 => cs[i].pending = <<>>)
        /\ calls' = Inner(t, cs) /\ notifyPlan'.threads = notifyPlan.threads
        /\ Last(calls[t]).at # "batch"
    BY <1>1, <1>2, <1>3, <1>7
  <2> QED BY ONLY NotifyInv, <2>1, <2>2, t \in Threads, InnerStep
<1>9. \A n : InFlush(n)' <=> InFlush(n) /\ n # c.id
  <2> SUFFICES ASSUME NEW n PROVE InFlush(n)' <=> InFlush(n) /\ n # c.id
    OBVIOUS
  <2>1. InFlush(n)' <=> (InFlush(n) /\ n \notin Ids(p)) \/ n \in Ids(Tail(p))
    <3>1. CASE cs = <<>>
      BY <1>7, <1>8, <3>1, IdsEmpty DEF p
    <3>2. CASE cs # <<>>
      BY <1>7, <1>8, <3>2 DEF p
    <3> QED BY <3>1, <3>2
  <2> QED BY <1>3, <1>4, <2>1
<1>10. /\ Only(InQueue(c.id), InFlush(c.id), HasRun(c.id), IsLost(c.id))
       /\ InFlush(c.id) /\ c.id \notin Ids(ran)
  BY <1>3, <1>4, RunOnceParts DEF NotifyInv, Only, HasRun
<1>11. /\ ran' \in Seq(CallbacksTo(issued')) /\ NoRepeats(ran')
       /\ \A n : HasRun(n)' <=> HasRun(n) \/ n = c.id
  <2>1. /\ ran \in Seq(CallbacksTo(issued)) /\ ran \in Seq(CallbacksTo(issued'))
        /\ c \in CallbacksTo(issued')
    BY <1>1, <1>2, <1>4, Widen DEF NotifyInv, NotifyTypes
  <2>2. NoRepeats(ran)
    BY RunOnceParts DEF NotifyInv
  <2>3. Ids(ran') = Ids(ran) \cup {c.id} /\ NoRepeats(ran')
    BY <1>1, <1>10, <2>1, <2>2, IdsAppend
  <2>4. ran' \in Seq(CallbacksTo(issued'))
    BY <1>1, <2>1, AppendFacts
  <2> QED BY <2>3, <2>4 DEF HasRun
<1>12. /\ notifyQueue' \in Seq(CallbacksTo(issued')) /\ NoRepeats(notifyQueue')
       /\ \A n : InQueue(n)' <=> InQueue(n) \/ (c.echo /\ n = issued + 1)
  <2>1. CASE c.echo
    BY <1>1, <2>1, QueueStep DEF NotifyInv
  <2>2. CASE ~c.echo
    BY <1>1, <2>2, RunOnceParts DEF NotifyInv, NotifyTypes, InQueue
  <2> QED BY <2>1, <2>2
<1>13. NotifyTypes' /\ DepthInv'
  <2>1. lost' \subseteq CallbacksTo(issued')
    BY <1>1, <1>2, Widen DEF NotifyInv, NotifyTypes
  <2> QED BY <1>1, <1>2, <1>8, <1>11, <1>12, <2>1 DEF NotifyInv, NotifyTypes, DepthInv
<1>14. RunOnce'
  <2>1. ASSUME NEW n \in 1 .. issued' PROVE Only(InQueue(n)', InFlush(n)', HasRun(n)', IsLost(n)')
    <3>1. IsLost(n)' <=> IsLost(n)
      BY <1>1 DEF IsLost
    <3>2. CASE n \in 1 .. issued
      <4>1. n # issued + 1
        BY <1>1, <3>2
      <4>2. Only(InQueue(n), InFlush(n), HasRun(n), IsLost(n))
        BY <3>2, RunOnceParts DEF NotifyInv
      <4>3. CASE n = c.id
        BY <1>9, <1>10, <1>11, <1>12, <3>1, <4>1, <4>3 DEF Only
      <4>4. CASE n # c.id
        BY <1>9, <1>11, <1>12, <3>1, <4>1, <4>2, <4>4 DEF Only
      <4> QED BY <4>3, <4>4
    <3>3. CASE n \notin 1 .. issued
      <4>1. n = issued + 1 /\ c.echo /\ n # c.id
        BY <1>1, <1>4, <3>3
      <4>2. ~InQueue(n) /\ ~InFlush(n) /\ ~HasRun(n) /\ ~IsLost(n)
        BY <3>3, NextIsNew DEF NotifyInv
      <4> QED BY <1>9, <1>11, <1>12, <3>1, <4>1, <4>2 DEF Only
    <3> QED BY <3>2, <3>3
  <2> QED BY <1>8, <1>11, <1>12, <2>1, RunOnceNext
<1>15. NoneStranded'
  <2>1. CASE c.echo
    <3>1. PICK k \in Nat : Len(calls[t]) = k + 1
      <4>1. Len(calls[t]) - 1 \in Nat /\ Len(calls[t]) = (Len(calls[t]) - 1) + 1
        BY <1>3
      <4> QED BY <4>1
    <3>2. PICK m \in 1 .. 2 : m = Len(cs) /\ cs[m].at = "load"
      BY <1>7, <2>1
    <3>3. /\ k + m \in 1 .. Len(calls'[t]) /\ m \in 1 .. Len(cs) /\ Len(calls[t]) - 1 + m = k + m
      BY <1>8, <3>1, <3>2
    <3>4. calls'[t][k + m].at = "load"
      BY <1>8, <3>2, <3>3
    <3> QED BY <1>8, <3>3, <3>4, FlushIsDue
  <2>2. CASE ~c.echo
    <3> SUFFICES ASSUME depth = 0, notifyQueue # <<>> PROVE NoneStranded'
      BY <1>1, <2>2 DEF NoneStranded
    <3>1. PICK u, i : u \in Threads /\ i \in DOMAIN calls[u] /\ calls[u][i].at \in {"load", "drain"}
      BY DEF NotifyInv, NoneStranded
    <3>2. i \in 1 .. Len(calls[u])
      BY <3>1, LenProperties DEF NotifyInv, NotifyTypes
    <3>3. CASE u # t
      BY <1>8, <3>1, <3>2, <3>3, FlushIsDue
    <3>4. CASE u = t
      <4>1. i # Len(calls[t])
        BY <1>3, <3>1, <3>4
      <4>2. i \in 1 .. Len(calls[t]) - 1 /\ i \in 1 .. Len(calls'[t])
        <5>1. Len(cs) \in Nat
          BY <1>7, LenProperties
        <5>2. PICK m \in Nat : m = Len(cs)
          BY <5>1
        <5>3. PICK k \in Nat \ {0} : k = Len(calls[t])
          BY <1>3
        <5> QED BY <1>8, <3>2, <3>4, <4>1, <5>2, <5>3
      <4> QED BY <1>8, <3>1, <3>4, <4>2, FlushIsDue
    <3> QED BY <3>3, <3>4
  <2> QED BY <2>1, <2>2
<1>16. HeldInBatch'
  <2>1. Len(calls[t]) \in 1 .. Len(calls[t])
    BY <1>3
  <2>2. ~(Cardinality(notifyPlan.threads) = 1 /\ "flush" \notin notifyPlan.ops /\ depth' > 0)
    BY <1>1, <1>3, <2>1, HeldNow
  <2> QED BY <1>1, <2>2 DEF HeldInBatch
<1> QED BY <1>8, <1>13, <1>14, <1>15, <1>16 DEF NotifyInv

LEMMA PanicKeeps == ASSUME NotifyInv, NEW t \in Threads, Panic(t) PROVE NotifyInv'
<1> DEFINE In(n) == \E i \in DOMAIN calls[t] : n \in Ids(calls[t][i].pending)
<1>1. /\ notifyPlan' \in [budget : Nat, threads : SUBSET Threads, ops : SUBSET Calls]
      /\ notifyPlan'.threads = notifyPlan.threads /\ notifyPlan'.ops = notifyPlan.ops
  <2>1. PICK b \in Nat, ts \in SUBSET Threads, os \in SUBSET Calls :
          notifyPlan = [budget |-> b, threads |-> ts, ops |-> os]
    BY DEF NotifyInv, NotifyTypes
  <2>2. b > 0 /\ b - 1 \in Nat /\ notifyPlan' = [budget |-> b - 1, threads |-> ts, ops |-> os]
    BY <2>1 DEF Panic
  <2> QED BY <2>1, <2>2
<1>2. /\ issued \in Nat /\ issued' = issued /\ depth' = depth /\ depth \in Nat
      /\ ran' = ran /\ notifyQueue' = notifyQueue
      /\ lost' = lost \cup UNION {ToSet(calls[t][i].pending) : i \in DOMAIN calls[t]}
      /\ InnerAt(t, "batch") \/ InnerAt(t, "run")
      /\ calls \in [Threads -> Seq(Frames(issued))]
      /\ calls' = [calls EXCEPT ![t] = <<>>]
  BY DEF Panic, NotifyInv, NotifyTypes
<1>3. /\ calls' \in [Threads -> Seq(Frames(issued'))] /\ calls'[t] = <<>>
      /\ \A u \in Threads : u # t => calls'[u] = calls[u]
      /\ Len(calls'[t]) = 0 /\ DOMAIN calls'[t] = {}
  BY <1>2, EmptySeq
<1>4. Apart
  BY RunOnceParts DEF NotifyInv
<1>5. \A i \in DOMAIN calls[t] :
        /\ calls[t][i].pending \in Seq(CallbacksTo(issued))
        /\ calls[t][i].at \in {"batch", "run"}
  <2> SUFFICES ASSUME NEW i \in DOMAIN calls[t]
               PROVE  /\ calls[t][i].pending \in Seq(CallbacksTo(issued))
                      /\ calls[t][i].at \in {"batch", "run"}
    OBVIOUS
  <2>1. calls[t][i] \in Frames(issued) /\ calls[t] \in Seq(Frames(issued))
    BY <1>2
  <2>2. /\ Len(calls[t]) \in Nat \ {0} /\ Last(calls[t]) = calls[t][Len(calls[t])]
        /\ Last(calls[t]).at \in {"batch", "run"}
    <3>1. CASE InnerAt(t, "batch")
      BY <3>1, InnerIs
    <3>2. CASE InnerAt(t, "run")
      BY <3>2, InnerIs
    <3> QED BY <1>2, <3>1, <3>2
  <2>3. i \in 1 .. Len(calls[t])
    BY <2>1, LenProperties
  <2>4. i = Len(calls[t]) \/ i < Len(calls[t])
    BY <2>2, <2>3
  <2>5. i < Len(calls[t]) => calls[t][i].at \in {"batch", "run"}
    BY <2>3 DEF NotifyInv, StackInv, Stacked
  <2> QED BY <2>1, <2>2, <2>4, <2>5 DEF Frames
<1>6. lost' \subseteq CallbacksTo(issued')
  <2>1. lost \subseteq CallbacksTo(issued)
    BY DEF NotifyInv, NotifyTypes
  <2>2. \A i \in DOMAIN calls[t] : ToSet(calls[t][i].pending) \subseteq CallbacksTo(issued)
    BY <1>5 DEF ToSet
  <2> QED BY <1>2, <2>1, <2>2
<1>7. NotifyTypes'
  BY <1>1, <1>2, <1>3, <1>6 DEF NotifyInv, NotifyTypes
<1>8. StackInv'
  <2> SUFFICES ASSUME NEW u \in Threads
               PROVE  Stacked(calls'[u]) /\ (calls'[u] # <<>> => u \in notifyPlan'.threads)
    BY DEF StackInv, Stacked
  <2>1. CASE u = t
    BY <1>3, <2>1 DEF Stacked
  <2>2. CASE u # t
    BY <1>1, <1>3, <2>2 DEF NotifyInv, StackInv
  <2> QED BY <2>1, <2>2
<1>9. DepthInv'
  <2>1. Open' \subseteq Open
    BY <1>3 DEF Open
  <2>2. IsFiniteSet(Open) /\ Cardinality(Open) <= depth
    BY DEF NotifyInv, DepthInv
  <2>3. /\ IsFiniteSet(Open') /\ Cardinality(Open') <= Cardinality(Open)
        /\ Cardinality(Open) \in Nat /\ Cardinality(Open') \in Nat
    BY <2>1, <2>2, FS_Subset, FS_CardinalityType
  <2>4. Cardinality(Open') <= depth
    BY <1>2, <2>2, <2>3
  <2> QED BY <1>2, <2>3, <2>4 DEF DepthInv
<1>10. Apart'
  <2>1. ASSUME NEW u \in Threads, NEW i \in DOMAIN calls'[u]
        PROVE  u # t /\ i \in DOMAIN calls[u] /\ calls'[u][i] = calls[u][i]
    BY <1>3, <2>1
  <2>2. Apart' <=>
          /\ \A u, v \in Threads : \A i \in DOMAIN calls'[u], j \in DOMAIN calls'[v] :
               (u # v \/ i # j) => Ids(calls'[u][i].pending) \cap Ids(calls'[v][j].pending) = {}
          /\ \A u \in Threads : \A i \in DOMAIN calls'[u] : NoRepeats(calls'[u][i].pending)
    BY DEF Apart, Ids, NoRepeats
  <2>3. ASSUME NEW u \in Threads, NEW v \in Threads, NEW i \in DOMAIN calls'[u], NEW j \in DOMAIN calls'[v],
               u # v \/ i # j
        PROVE  Ids(calls'[u][i].pending) \cap Ids(calls'[v][j].pending) = {}
    <3>1. /\ i \in DOMAIN calls[u] /\ calls'[u][i] = calls[u][i]
          /\ j \in DOMAIN calls[v] /\ calls'[v][j] = calls[v][j]
      BY <2>1
    <3> QED BY <1>4, <2>3, <3>1 DEF Apart
  <2>4. ASSUME NEW u \in Threads, NEW i \in DOMAIN calls'[u] PROVE NoRepeats(calls'[u][i].pending)
    BY <1>4, <2>1 DEF Apart
  <2> QED BY <2>2, <2>3, <2>4
<1>11. ASSUME NEW n
       PROVE  /\ InFlush(n)' => InFlush(n) /\ ~In(n)
              /\ InFlush(n) => InFlush(n)' \/ In(n)
              /\ In(n) => InFlush(n)
  <2>1. ASSUME InFlush(n)' PROVE InFlush(n) /\ ~In(n)
    <3>1. PICK u, i : u \in Threads /\ i \in DOMAIN calls'[u] /\ n \in Ids(calls'[u][i].pending)
      BY <2>1 DEF InFlush, Ids
    <3>2. u # t /\ i \in DOMAIN calls[u] /\ n \in Ids(calls[u][i].pending)
      BY <1>3, <3>1
    <3> QED BY <1>4, <3>1, <3>2 DEF InFlush, Apart
  <2>2. ASSUME InFlush(n), ~In(n) PROVE InFlush(n)'
    <3>1. PICK u, i : u \in Threads /\ i \in DOMAIN calls[u] /\ n \in Ids(calls[u][i].pending)
      BY <2>2 DEF InFlush
    <3>2. u # t
      BY <2>2, <3>1
    <3>3. i \in DOMAIN calls'[u] /\ n \in Ids(calls'[u][i].pending)
      BY <1>3, <3>1, <3>2
    <3> QED BY <3>1, <3>3 DEF InFlush, Ids
  <2>3. In(n) => InFlush(n)
    BY DEF InFlush
  <2> QED BY <2>1, <2>2, <2>3
<1>12. \A n : IsLost(n)' <=> IsLost(n) \/ In(n)
  <2> SUFFICES ASSUME NEW n PROVE IsLost(n)' <=> IsLost(n) \/ In(n)
    OBVIOUS
  <2>1. ASSUME IsLost(n)', ~IsLost(n) PROVE In(n)
    <3>1. PICK c \in lost' : c.id = n
      BY <2>1 DEF IsLost
    <3>2. PICK i \in DOMAIN calls[t] : c \in ToSet(calls[t][i].pending)
      BY <1>2, <2>1, <3>1 DEF IsLost
    <3>3. n \in Ids(calls[t][i].pending)
      BY <3>1, <3>2 DEF ToSet, Ids
    <3> QED BY <3>3
  <2>2. ASSUME In(n) PROVE IsLost(n)'
    <3>1. PICK i \in DOMAIN calls[t] : n \in Ids(calls[t][i].pending)
      BY <2>2
    <3>2. PICK c \in ToSet(calls[t][i].pending) : c.id = n
      BY <3>1 DEF ToSet, Ids
    <3> QED BY <1>2, <3>1, <3>2 DEF IsLost
  <2>3. IsLost(n) => IsLost(n)'
    BY <1>2 DEF IsLost
  <2> QED BY <2>1, <2>2, <2>3
<1> HIDE DEF In
<1>13. RunOnce'
  <2>1. ASSUME NEW n \in 1 .. issued' PROVE Only(InQueue(n)', InFlush(n)', HasRun(n)', IsLost(n)')
    <3>1. (HasRun(n)' <=> HasRun(n)) /\ (InQueue(n)' <=> InQueue(n))
      BY <1>2 DEF HasRun, InQueue
    <3>2. Only(InQueue(n), InFlush(n), HasRun(n), IsLost(n))
      BY <1>2, RunOnceParts DEF NotifyInv
    <3>3. /\ InFlush(n)' <=> InFlush(n) /\ ~In(n)
          /\ IsLost(n)' <=> IsLost(n) \/ In(n)
          /\ In(n) => InFlush(n)
      BY <1>11, <1>12
    <3> QED BY <3>1, <3>2, <3>3 DEF Only
  <2>2. NoRepeats(ran') /\ NoRepeats(notifyQueue')
    BY <1>2, RunOnceParts DEF NotifyInv
  <2> QED BY <1>10, <2>1, <2>2, RunOnceNext
<1>14. NoneStranded'
  <2> SUFFICES ASSUME depth = 0, notifyQueue # <<>> PROVE NoneStranded'
    BY <1>2 DEF NoneStranded
  <2>1. PICK u, i : u \in Threads /\ i \in DOMAIN calls[u] /\ calls[u][i].at \in {"load", "drain"}
    BY DEF NotifyInv, NoneStranded
  <2>2. u # t
    BY <1>5, <2>1
  <2>3. i \in 1 .. Len(calls'[u]) /\ calls'[u][i].at \in {"load", "drain"}
    BY <1>2, <1>3, <2>1, <2>2, LenProperties
  <2> QED BY <1>3, <2>1, <2>3, FlushIsDue
<1>15. HeldInBatch'
  <2> SUFFICES ASSUME Cardinality(notifyPlan.threads) = 1, "flush" \notin notifyPlan.ops, depth > 0,
                      NEW u \in notifyPlan.threads, NEW i \in 1 .. Len(calls'[u])
               PROVE  calls'[u][i].at \notin {"drain", "run"}
    BY <1>1, <1>2, <1>3, HeldNext DEF NotifyInv
  <2>1. u # t /\ u \in Threads
    BY <1>3 DEF NotifyInv, NotifyTypes
  <2>2. i \in 1 .. Len(calls[u]) /\ calls'[u][i] = calls[u][i]
    BY <1>3, <2>1
  <2> QED BY <2>2, HeldNow
<1> QED BY <1>7, <1>8, <1>9, <1>13, <1>14, <1>15 DEF NotifyInv

LEMMA StutterKeeps == ASSUME NotifyInv, UNCHANGED notifyVars PROVE NotifyInv'
<1>1. /\ notifyPlan' = notifyPlan /\ notifyQueue' = notifyQueue /\ depth' = depth /\ calls' = calls
      /\ ran' = ran /\ lost' = lost /\ issued' = issued
  BY DEF notifyVars
<1>2. NotifyTypes' /\ StackInv' /\ DepthInv'
  BY <1>1 DEF NotifyInv, NotifyTypes, StackInv, DepthInv, Open
<1>3. RunOnce'
  <2>1. Apart' /\ NoRepeats(notifyQueue') /\ NoRepeats(ran')
    BY <1>1, RunOnceParts DEF NotifyInv, Apart
  <2>2. ASSUME NEW n \in 1 .. issued' PROVE Only(InQueue(n)', InFlush(n)', HasRun(n)', IsLost(n)')
    <3>1. /\ InQueue(n)' <=> InQueue(n)
          /\ InFlush(n)' <=> InFlush(n)
          /\ HasRun(n)' <=> HasRun(n)
          /\ IsLost(n)' <=> IsLost(n)
      BY <1>1 DEF InQueue, InFlush, HasRun, IsLost
    <3> QED BY <1>1, <2>2, <3>1, RunOnceParts DEF NotifyInv, Only
  <2> QED BY <2>1, <2>2, RunOnceNext
<1>4. NoneStranded' /\ HeldInBatch'
  BY <1>1 DEF NotifyInv, NoneStranded, HeldInBatch
<1> QED BY <1>2, <1>3, <1>4 DEF NotifyInv

LEMMA NotifyStarts ==
  ASSUME NEW p \in [budget : Nat, threads : SUBSET Threads, ops : SUBSET Calls], NotifyInitFor(p)
  PROVE  NotifyInv
<1>1. /\ notifyPlan = p /\ notifyQueue = <<>> /\ depth = 0 /\ ran = <<>> /\ lost = {} /\ issued = 0
      /\ calls = [t \in Threads |-> <<>>]
  BY DEF NotifyInitFor
<1>2. \A t \in Threads : calls[t] = <<>> /\ Len(calls[t]) = 0 /\ DOMAIN calls[t] = {}
  BY <1>1
<1>3. NotifyTypes
  <2>1. calls \in [Threads -> Seq(Frames(0))] /\ <<>> \in Seq(CallbacksTo(0))
    BY <1>1, EmptyStack
  <2> QED BY <1>1, <2>1 DEF NotifyTypes
<1>4. StackInv
  BY <1>2 DEF StackInv, Stacked
<1>5. DepthInv
  <2>1. Open = {}
    BY <1>2 DEF Open
  <2> QED BY <1>1, <2>1, FS_EmptySet DEF DepthInv
<1>6. RunOnce
  <2>1. 1 .. issued = {}
    BY <1>1
  <2>2. Apart
    BY <1>2 DEF Apart
  <2> QED BY <1>1, <2>1, <2>2, IdsEmpty, RunOnceIs
<1>7. NoneStranded /\ HeldInBatch
  BY <1>1 DEF NoneStranded, HeldInBatch
<1> QED BY <1>3, <1>4, <1>5, <1>6, <1>7 DEF NotifyInv

LEMMA NotifyTyped == NotifyInv => NotifyTypeOK
<1> SUFFICES ASSUME NotifyInv PROVE NotifyTypeOK
  OBVIOUS
<1>1. NotifyTypes /\ CallbacksTo(issued) = Callbacks
  BY DEF NotifyInv, CallbacksTo, Callbacks
<1>2. ToSet(notifyQueue) \cup ToSet(ran) \cup lost \subseteq Callbacks
  <2>1. notifyQueue \in Seq(Callbacks) /\ ran \in Seq(Callbacks) /\ lost \subseteq Callbacks
    BY <1>1 DEF NotifyTypes
  <2> QED BY <2>1 DEF ToSet
<1>3. ASSUME NEW t \in Threads, NEW i \in DOMAIN calls[t]
      PROVE  /\ calls[t][i].at \in {"load", "drain", "run", "batch"}
             /\ ToSet(calls[t][i].pending) \subseteq Callbacks
  <2>1. calls[t] \in Seq(Frames(issued))
    BY <1>1 DEF NotifyTypes
  <2>2. calls[t][i] \in Frames(issued)
    BY <2>1
  <2>3. calls[t][i].at \in {"load", "drain", "run", "batch"} /\ calls[t][i].pending \in Seq(Callbacks)
    BY <1>1, <2>2 DEF Frames
  <2> QED BY <2>3 DEF ToSet
<1> QED BY <1>1, <1>2, <1>3 DEF NotifyTypeOK, NotifyTypes

\* A callback given to notify runs once, whoever flushes and however batches, flushes
\* and panics interleave: it is in the queue, in one flush, among those that ran, or lost
\* to a panic, never in two of them.  None is left queued outside of batches with no
\* flush to come, and on one thread none runs while a batch is open.
THEOREM CallbacksAreRunOnce ==
  ASSUME NEW p \in [budget : Nat, threads : SUBSET Threads, ops : SUBSET Calls]
  PROVE  NotifySpec(p) => []CallbacksRunOnce
<1>1. NotifyInitFor(p) => NotifyInv
  BY NotifyStarts
<1>2. ASSUME NotifyInv, [NotifyNext]_notifyVars PROVE NotifyInv'
  <2>1. CASE UNCHANGED notifyVars
    BY <1>2, <2>1, StutterKeeps
  <2>2. CASE NotifyNext
    <3>1. PICK t \in Threads :
            \/ \E op \in Calls : Notify(t, op)
            \/ LoadDepth(t) \/ OpenBatch(t) \/ CloseBatch(t) \/ Flush(t)
            \/ Drain(t) \/ RunCallback(t) \/ Panic(t)
      BY <2>2 DEF NotifyNext
    <3> QED BY <1>2, <3>1, NotifyKeeps, LoadKeeps, OpenKeeps, CloseKeeps, FlushKeeps, DrainKeeps,
               RunKeeps, PanicKeeps
  <2> QED BY <1>2, <2>1, <2>2
<1>3. NotifyInv => CallbacksRunOnce
  BY NotifyTyped DEF CallbacksRunOnce, NotifyInv
<1> QED BY <1>1, <1>2, <1>3, PTL DEF NotifySpec
=============================================================================
