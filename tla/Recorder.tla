----------------------------- MODULE Recorder -----------------------------
(***************************************************************************)
(* The timeline recorder of the devtools (src/devtools.rs): a collector    *)
(* task that selects over the activity stream and the stream of all state  *)
(* updates of a client and appends to a bounded timeline.                  *)
(***************************************************************************)
EXTENDS Channel, SequencesExt, FiniteSets

CONSTANTS
  Threads,   \* threads that start and stop the recording
  Timeline   \* capacity of the timeline

VARIABLES
  plan,        \* the calls and events left, the threads and the calls there are
  recording,   \* DevtoolsState.recording
  stop,        \* DevtoolsState.stop
  filter,      \* the kinds the timeline shows
  timeline,    \* DevtoolsState.timeline
  at,          \* thread -> the call it is inside of
  collectors,  \* the collectors, in the order they were started
  sent,        \* events the client has sent so far
  silenced,    \* those that were sent while stop was set
  overlap      \* a recording was started while another collector was alive or starting

vars == <<plan, recording, stop, filter, timeline, at, collectors, sent, silenced, overlap>>
Controls == {"record", "stop", "clear", "filter"}

Variants == {"Idle", "Loading", "Refetching", "Success", "Stale", "Error"}

\* map_variant
Kind(variant) == IF variant = "Idle" THEN "Stale" ELSE variant
Kinds == {Kind(v) : v \in Variants} \cup {"Activity"}

Quiet == [calls |-> 0, events |-> 0, threads |-> {}, ops |-> {}, variants |-> {}]

InitFor(p) ==
  /\ plan = p
  /\ recording = FALSE /\ stop = FALSE
  /\ filter = Kinds
  /\ timeline = <<>>
  /\ at = [t \in Threads |-> "idle"]
  /\ collectors = <<>>
  /\ sent = 0 /\ silenced = {} /\ overlap = FALSE

NoEvent == [id |-> 0, kind |-> "Activity"]
Receiver == [queue |-> <<>>, missed |-> 0]
Alive(c) == c.at # "ended"

\* Receivers that exist get the event; a collector that ends drops its own.
Deliver(which, e) ==
  collectors' = [i \in DOMAIN collectors |->
    IF which \in collectors[i].subscribed /\ Alive(collectors[i])
    THEN [collectors[i] EXCEPT ![which] = [queue |-> Queued(@.queue, e), missed |-> Missed(@.queue, @.missed)]]
    ELSE collectors[i]]

-----------------------------------------------------------------------------
(***************************************************************************)
(* The client                                                              *)
(***************************************************************************)

Emit(which, kind) ==
  /\ plan.events > 0
  /\ plan' = [plan EXCEPT !.events = @ - 1]
  /\ sent' = sent + 1
  /\ silenced' = IF stop THEN silenced \cup {sent + 1} ELSE silenced
  /\ Deliver(which, [id |-> sent + 1, kind |-> kind])
  /\ UNCHANGED <<recording, stop, filter, timeline, at, overlap>>

EmitUpdate == \E v \in plan.variants : Emit("updates", Kind(v))
EmitActivity == Emit("activity", "Activity")

-----------------------------------------------------------------------------
(***************************************************************************)
(* The controls                                                            *)
(***************************************************************************)

Begin(t, op) ==
  /\ t \in plan.threads /\ op \in plan.ops /\ plan.calls > 0
  /\ at[t] = "idle"
  /\ plan' = [plan EXCEPT !.calls = @ - 1]

Go(t, place) == at' = [at EXCEPT ![t] = place]

Starting(t) == at[t] \in {"reset", "updates", "activity"}

\* record_from_client returns at once when a recording is on.
Record(t) ==
  /\ Begin(t, "record")
  /\ recording' = TRUE
  /\ Go(t, IF recording THEN "idle" ELSE "reset")
  /\ overlap' = \/ overlap
                \/ ~recording /\ \E i \in DOMAIN collectors : Alive(collectors[i])
                \/ ~recording /\ \E u \in Threads : Starting(u)
  /\ UNCHANGED <<stop, filter, timeline, collectors, sent, silenced>>

ResetStop(t) ==
  /\ at[t] = "reset" /\ Go(t, "updates")
  /\ stop' = FALSE
  /\ UNCHANGED <<plan, recording, filter, timeline, collectors, sent, silenced, overlap>>

\* subscribe_all
SubscribeUpdates(t) ==
  /\ at[t] = "updates" /\ Go(t, "activity")
  /\ collectors' = Append(collectors, [at |-> "starting", by |-> t, subscribed |-> {"updates"},
                                       updates |-> Receiver, activity |-> Receiver, event |-> NoEvent])
  /\ UNCHANGED <<plan, recording, stop, filter, timeline, sent, silenced, overlap>>

\* subscribe_activity, and the task is spawned and detached.
SubscribeActivity(t) ==
  /\ at[t] = "activity" /\ Go(t, "idle")
  /\ collectors' = [i \in DOMAIN collectors |->
       IF collectors[i].at = "starting" /\ collectors[i].by = t
       THEN [collectors[i] EXCEPT !.at = "select", !.subscribed = @ \cup {"activity"}]
       ELSE collectors[i]]
  /\ UNCHANGED <<plan, recording, stop, filter, timeline, sent, silenced, overlap>>

StopRecording(t) ==
  /\ Begin(t, "stop") /\ Go(t, "stopping")
  /\ recording' = FALSE
  /\ UNCHANGED <<stop, filter, timeline, collectors, sent, silenced, overlap>>

StoreStop(t) ==
  /\ at[t] = "stopping" /\ Go(t, "idle")
  /\ stop' = TRUE
  /\ UNCHANGED <<plan, recording, filter, timeline, collectors, sent, silenced, overlap>>

ClearTimeline(t) ==
  /\ Begin(t, "clear")
  /\ timeline' = <<>>
  /\ UNCHANGED <<recording, stop, filter, at, collectors, sent, silenced, overlap>>

SetFilter(t) ==
  /\ Begin(t, "filter")
  /\ \E shown \in {{"Activity"}, Kinds} : filter' = shown
  /\ UNCHANGED <<recording, stop, timeline, at, collectors, sent, silenced, overlap>>

-----------------------------------------------------------------------------
(***************************************************************************)
(* The collector                                                           *)
(***************************************************************************)

\* select polls the activity stream first.
Ready(c) == IF c.activity.missed > 0 \/ c.activity.queue # <<>> THEN "activity" ELSE "updates"

Selects(i) ==
  LET r == collectors[i][Ready(collectors[i])] IN
  collectors[i].at = "select" /\ (r.missed > 0 \/ r.queue # <<>>)

\* Lagged: continue, without looking at the stop flag.
SelectLag(i) ==
  LET c == collectors[i] IN
  /\ Selects(i) /\ c[Ready(c)].missed > 0
  /\ collectors' = [collectors EXCEPT ![i][Ready(c)].missed = 0]
  /\ UNCHANGED <<plan, recording, stop, filter, timeline, at, sent, silenced, overlap>>

SelectEvent(i) ==
  LET c == collectors[i] IN
  /\ Selects(i) /\ c[Ready(c)].missed = 0
  /\ collectors' = [collectors EXCEPT ![i].at = "check", ![i].event = Head(c[Ready(c)].queue),
                                      ![i][Ready(c)].queue = Tail(@)]
  /\ UNCHANGED <<plan, recording, stop, filter, timeline, at, sent, silenced, overlap>>

CheckStop(i) ==
  /\ collectors[i].at = "check"
  /\ collectors' = [collectors EXCEPT ![i].at = IF stop THEN "ended" ELSE "push"]
  /\ UNCHANGED <<plan, recording, stop, filter, timeline, at, sent, silenced, overlap>>

MutPushCappedEvent(tl, e) == IF Len(tl) >= Timeline THEN <<e>> \o Tail(tl) ELSE Append(tl, e)

\* push_capped_event
PushCappedEvent(tl, e) == Append(IF Len(tl) >= Timeline THEN Tail(tl) ELSE tl, e)

PushEvent(i) ==
  /\ collectors[i].at = "push"
  /\ timeline' = PushCappedEvent(timeline, collectors[i].event)
  /\ collectors' = [collectors EXCEPT ![i].at = "select"]
  /\ UNCHANGED <<plan, recording, stop, filter, at, sent, silenced, overlap>>

Collect(i) == SelectLag(i) \/ SelectEvent(i) \/ CheckStop(i) \/ PushEvent(i)

Next ==
  \/ EmitUpdate \/ EmitActivity
  \/ \E t \in Threads : Record(t) \/ ResetStop(t) \/ SubscribeUpdates(t) \/ SubscribeActivity(t)
                        \/ StopRecording(t) \/ StoreStop(t) \/ ClearTimeline(t) \/ SetFilter(t)
  \/ \E i \in DOMAIN collectors : SelectLag(i) \/ SelectEvent(i) \/ CheckStop(i) \/ PushEvent(i)

\* Bound of the quantifiers over collectors.
MaxCollectors == 3

Fairness ==
  /\ \A t \in Threads : WF_vars(ResetStop(t) \/ SubscribeUpdates(t) \/ SubscribeActivity(t) \/ StoreStop(t))
  /\ \A i \in 1 .. MaxCollectors : WF_vars(i \in DOMAIN collectors /\ Collect(i))

-----------------------------------------------------------------------------

Events == [id : 0 .. sent, kind : Kinds]
Streams == [queue : Seq(Events), missed : Nat]

\* Type invariant.
TypeOK ==
  /\ plan.calls \in Nat /\ plan.events \in Nat
  /\ {recording, stop, overlap} \subseteq BOOLEAN
  /\ filter \subseteq Kinds
  /\ timeline \in Seq(Events) /\ Len(timeline) <= Timeline
  /\ at \in [Threads -> {"idle", "reset", "updates", "activity", "stopping"}]
  /\ Len(collectors) <= MaxCollectors
  /\ \A i \in DOMAIN collectors :
       /\ collectors[i].at \in {"starting", "select", "check", "push", "ended"}
       /\ {collectors[i].updates, collectors[i].activity} \subseteq Streams
       /\ collectors[i].event \in Events

\* timeline(): the rows after the current filter, oldest first.
Shown == SelectSeq(timeline, LAMBDA e : e.kind \in filter)

\* As long as a recording is started only after the collector of the one before
\* has ended, the rows of one stream are in the order the client sent them, each
\* once, and nothing shows up that was sent while the recording was stopped.
TimelineFaithful ==
  ~overlap =>
    /\ \A i, j \in DOMAIN Shown :
         i < j /\ (Shown[i].kind = "Activity") = (Shown[j].kind = "Activity") => Shown[i].id < Shown[j].id
    /\ \A i \in DOMAIN Shown : Shown[i].id \notin silenced

\* is_recording can be trusted between calls when one thread has the controls:
\* it is true exactly while a collector runs that is not told to stop.
RecordingIsTrue ==
  (Cardinality(plan.threads) = 1 /\ \A t \in Threads : at[t] = "idle") =>
    (recording <=> ~stop /\ \E i \in DOMAIN collectors : Alive(collectors[i]))

\* A stopped collector ends when the next event reaches it, unless the recording
\* was restarted before it looked at the flag.
StopTakesEffect ==
  \A i \in 1 .. MaxCollectors :
    (stop /\ i \in DOMAIN collectors /\ Selects(i)) ~> (~stop \/ (i \in DOMAIN collectors /\ ~Alive(collectors[i])))
=============================================================================
