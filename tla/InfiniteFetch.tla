---------------------------- MODULE InfiniteFetch ----------------------------
(***************************************************************************)
(* Infinite queries (src/infinite_executor.rs, src/infinite.rs, and the    *)
(* page operations of src/client.rs): every InfiniteQueryObserver has one  *)
(* loop task that fetches the first page and then serves page requests     *)
(* which reach it through a slot of capacity one and a watch cell.         *)
(*                                                                         *)
(* All observers of Observers watch the same key.  A page is named by its  *)
(* parameter; the page after n is n + 1 up to HighPage, the page before n is   *)
(* n - 1 down to LowPage, and 0 is initial_page_param.                       *)
(***************************************************************************)
EXTENDS Integers, Sequences, FiniteSets, SequencesExt, Watch

CONSTANTS
  Observers,    \* infinite query observers of one key
  Setups,       \* what may be going on (AllSetups)
  LowPage, HighPage,  \* the first and the last page there is
  MaxCalls      \* bound: calls on the observers and on the client

\* A setup says where tasks run, which observers there are, how many pages are kept (max_pages, NoMax for
\* None), which calls the application makes and whether page fetches may panic.
NoMax == -1
Calls == {"fetch", "fetch_with", "drop", "clear", "set_infinite_data"}
AllSetups == [pool : BOOLEAN, live : SUBSET Observers, max : Nat \cup {NoMax}, calls : SUBSET Calls, panics : BOOLEAN]

ASSUME InfiniteFetchAssumption ==
  /\ IsFiniteSet(Observers)
  /\ \A s \in Setups : s \in AllSetups
  /\ LowPage \in Int /\ LowPage <= 0
  /\ HighPage \in Nat
  /\ MaxCalls \in Nat

VARIABLES
  setup,      \* the setup, chosen initially
  data,       \* the cached InfiniteData: a sequence of pages, or NoData
  inFlight,   \* the key is in the in-flight registry
  slot,       \* observer -> its pending PageRequest, "None" when there is none
  release,    \* observer -> the watch cell of its slot
  pc,         \* observer -> where its loop task stands
  asked,      \* observer -> the request its loop works on, and its parameter
  seen,       \* observer -> last_seen of its loop's release watcher
  woken,      \* observers whose loop was woken since its last poll
  at,         \* observer -> where its owner stands in a method
  direction,  \* observer -> fetch_direction: that of its most recent request
  strong,     \* observer -> its sender's reference to the slot is alive
  calls       \* calls made (bounded by MaxCalls)

loopVars == <<pc, asked, seen>>
slotVars == <<slot, release, woken>>
ownVars  == <<at, direction, strong, calls>>
vars == <<setup, data, inFlight, loopVars, slotVars, ownVars>>

Requests == {"Next", "Previous"}
NoData == [has |-> FALSE, pages |-> <<>>, params |-> <<>>]
At(step) == [step |-> step, request |-> "None"]
NoAsk == [request |-> "None", param |-> 0]

\* Where a loop task is suspended or over, and where its page fetch counts as
\* in flight.
LoopRests == {"ready", "initial", "asleep", "fetching", "exited", "panicked"}
LoopPlaces == LoopRests \cup
              {"take", "count", "park", "lookup", "gate", "register",
               "write", "clear"}
Window == {"fetching", "write", "clear"}

MayRun(x, who) ==
  \/ setup.pool
  \/ \A o \in Observers :
       /\ pc[o] \in LoopRests \/ (who = "loop" /\ o = x)
       /\ at[o].step \in {"idle", "gone"} \/ (who = "owner" /\ o = x)

Init ==
  /\ setup \in Setups
  /\ data = NoData
  /\ inFlight = FALSE
  /\ slot = [o \in Observers |-> "None"]
  /\ release = [o \in Observers |-> NewCell("unit")]
  /\ pc = [o \in Observers |-> IF o \in setup.live THEN "ready" ELSE "exited"]
  /\ asked = [o \in Observers |-> NoAsk]
  /\ seen = [o \in Observers |-> 0]
  /\ woken = {}
  /\ at = [o \in Observers |-> At(IF o \in setup.live THEN "idle" ELSE "gone")]
  /\ direction = [o \in Observers |-> "Next"]
  /\ strong = [o \in Observers |-> o \in setup.live]
  /\ calls = 0

-----------------------------------------------------------------------------
(***************************************************************************)
(* InfiniteData and the page operations of the client                      *)
(***************************************************************************)

\* InfiniteData::new and push_page of the first page.
FirstPage(p) == [has |-> TRUE, pages |-> <<p>>, params |-> <<p>>]

\* get_next_page_param and get_previous_page_param of the application, with
\* the guards around them: no page, no parameter.
HasParam(d, request) ==
  /\ d.has /\ d.pages # <<>>
  /\ IF request = "Next" THEN Last(d.pages) < HighPage ELSE Head(d.pages) > LowPage
ParamOf(d, request) ==
  IF request = "Next" THEN Last(d.pages) + 1 ELSE Head(d.pages) - 1

\* The trimming loops of append_infinite_page and prepend_infinite_page.
TooLong(s) == setup.max # NoMax /\ Len(s) > setup.max
TrimFront(s) == IF TooLong(s) THEN SubSeq(s, Len(s) - setup.max + 1, Len(s)) ELSE s
TrimBack(s) == IF TooLong(s) THEN SubSeq(s, 1, setup.max) ELSE s

MutAppendPage(d, p) ==
  [d EXCEPT !.pages = TrimFront(Append(@, p)), !.params = TrimBack(Append(@, p))]

\* append_infinite_page and prepend_infinite_page on an existing entry.
AppendPage(d, p) ==
  [d EXCEPT !.pages = TrimFront(Append(@, p)), !.params = TrimFront(Append(@, p))]
PrependPage(d, p) ==
  [d EXCEPT !.pages = TrimBack(Cons(p, @)), !.params = TrimBack(Cons(p, @))]

-----------------------------------------------------------------------------
(***************************************************************************)
(* The loop task: run_infinite_query_loop                                  *)
(***************************************************************************)

Goto(o, place) == pc' = [pc EXCEPT ![o] = place]
Runs(o, place) == pc[o] = place /\ MayRun(o, "loop")

\* A page fetch panics: nothing catches it, the task and its receiver are gone.
Panics(o) == setup.panics /\ Goto(o, "panicked")

\* The first poll starts the fetch of the initial page.
StartLoop(o) ==
  /\ Runs(o, "ready")
  /\ Goto(o, "initial")
  /\ UNCHANGED <<setup, data, inFlight, asked, seen, slotVars, ownVars>>

\* The initial fetch is not in the in-flight registry.  Its page replaces
\* whatever is cached; an error is only notified.
InitialPage(o) ==
  /\ Runs(o, "initial")
  /\ \/ data' = FirstPage(0) /\ Goto(o, "take")
     \/ UNCHANGED data /\ (Goto(o, "take") \/ Panics(o))
  /\ UNCHANGED <<setup, inFlight, asked, seen, slotVars, ownVars>>

\* recv: take the pending request ...
RecvTake(o) ==
  /\ Runs(o, "take")
  /\ slot' = [slot EXCEPT ![o] = "None"]
  /\ IF slot[o] = "None"
     THEN Goto(o, "count") /\ UNCHANGED asked
     ELSE Goto(o, "lookup") /\ asked' = [asked EXCEPT ![o].request = slot[o]]
  /\ UNCHANGED <<setup, data, inFlight, seen, release, woken, ownVars>>

\* ... or stop when the sender is gone ...
RecvCount(o) ==
  /\ Runs(o, "count")
  /\ Goto(o, IF strong[o] THEN "park" ELSE "exited")
  /\ UNCHANGED <<setup, data, inFlight, asked, seen, slotVars, ownVars>>

\* ... or subscribe and park.  Nothing can have changed at the first poll.
RecvPark(o) ==
  /\ Runs(o, "park")
  /\ seen' = [seen EXCEPT ![o] = SubscribedAt(release[o])]
  /\ release' = [release EXCEPT ![o] = Registered(@, o)]
  /\ Goto(o, "asleep")
  /\ UNCHANGED <<setup, data, inFlight, asked, slot, woken, ownVars>>

\* The woken task finds the change and looks at the slot again.
RecvWoken(o) ==
  /\ Runs(o, "asleep") /\ o \in woken
  /\ woken' = woken \ {o}
  /\ IF HasChanged(release[o], seen[o])
     THEN Goto(o, "take") /\ UNCHANGED release
     ELSE release' = [release EXCEPT ![o] = Registered(@, o)] /\ UNCHANGED pc
  /\ UNCHANGED <<setup, data, inFlight, asked, seen, slot, ownVars>>

MutLookup(o) ==
  /\ Runs(o, "lookup")
  /\ LET request == asked[o].request
     IN IF HasParam(data, request)
        THEN /\ asked' = [asked EXCEPT ![o].param = ParamOf(data, request)]
             /\ Goto(o, "gate")
        ELSE asked' = [asked EXCEPT ![o] = NoAsk] /\ Goto(o, "exited")
  /\ UNCHANGED <<setup, data, inFlight, seen, slotVars, ownVars>>

\* The cached pages, from which the parameter is computed; without data the
\* request is dropped.
Lookup(o) ==
  /\ Runs(o, "lookup")
  /\ LET request == asked[o].request
     IN IF HasParam(data, request)
        THEN /\ asked' = [asked EXCEPT ![o].param = ParamOf(data, request)]
             /\ Goto(o, "gate")
        ELSE asked' = [asked EXCEPT ![o] = NoAsk] /\ Goto(o, "take")
  /\ UNCHANGED <<setup, data, inFlight, seen, slotVars, ownVars>>

MutGate(o) ==
  /\ Runs(o, "gate")
  /\ Goto(o, "register") /\ UNCHANGED asked
  /\ UNCHANGED <<setup, data, inFlight, seen, slotVars, ownVars>>

\* A request that finds the key in flight is dropped.
Gate(o) ==
  /\ Runs(o, "gate")
  /\ IF inFlight
     THEN Goto(o, "take") /\ asked' = [asked EXCEPT ![o] = NoAsk]
     ELSE Goto(o, "register") /\ UNCHANGED asked
  /\ UNCHANGED <<setup, data, inFlight, seen, slotVars, ownVars>>

\* set_in_flight, then the fetch function is polled.
Register(o) ==
  /\ Runs(o, "register")
  /\ inFlight' = TRUE
  /\ Goto(o, "fetching")
  /\ UNCHANGED <<setup, data, asked, seen, slotVars, ownVars>>

\* The page fetch resolves.  Its token is never handed to fetch_fn, so a
\* cancelled fetch resolves like any other.
PageFetched(o) ==
  /\ Runs(o, "fetching")
  /\ Goto(o, "write") \/ Goto(o, "clear") \/ Panics(o)
  /\ UNCHANGED <<setup, data, inFlight, asked, seen, slotVars, ownVars>>

\* append_infinite_page or prepend_infinite_page, if there is an entry.
WritePage(o) ==
  /\ Runs(o, "write")
  /\ data' = CASE ~data.has -> data
               [] data.has /\ asked[o].request = "Next" -> AppendPage(data, asked[o].param)
               [] data.has /\ asked[o].request = "Previous" -> PrependPage(data, asked[o].param)
  /\ Goto(o, "clear")
  /\ UNCHANGED <<setup, inFlight, asked, seen, slotVars, ownVars>>

\* clear_in_flight removes the entry of the key, whoever made it.
ClearPage(o) ==
  /\ Runs(o, "clear")
  /\ inFlight' = FALSE
  /\ Goto(o, "take")
  /\ asked' = [asked EXCEPT ![o] = NoAsk]
  /\ UNCHANGED <<setup, data, seen, slotVars, ownVars>>

LoopStep(o) ==
  \/ StartLoop(o) \/ InitialPage(o)
  \/ RecvTake(o) \/ RecvCount(o) \/ RecvPark(o) \/ RecvWoken(o)
  \/ Lookup(o) \/ Gate(o) \/ Register(o) \/ PageFetched(o) \/ WritePage(o) \/ ClearPage(o)

-----------------------------------------------------------------------------
(***************************************************************************)
(* The observer's methods, its drop, and other users of the key            *)
(***************************************************************************)

Arrive(o, place) == at' = [at EXCEPT ![o] = place]

\* Watch::send on the slot's cell.
Release(o) ==
  /\ release' = [release EXCEPT ![o] = Sent(@, "unit")]
  /\ woken' = woken \cup Wakes(release[o])

\* An idle owner makes a call.
Enter(o, call) ==
  /\ call \in setup.calls
  /\ at[o].step = "idle" /\ MayRun(o, "owner")
  /\ calls < MaxCalls
  /\ calls' = calls + 1

\* try_send: dropped when a request is pending, else stored and announced
\* under the slot's lock.
TrySend(o, request) ==
  IF slot[o] # "None"
  THEN UNCHANGED slotVars
  ELSE slot' = [slot EXCEPT ![o] = request] /\ Release(o)

\* fetch_next_page and fetch_previous_page: the direction is stored even when
\* the request is then dropped.
FetchPage(o, request) ==
  /\ Enter(o, "fetch")
  /\ direction' = [direction EXCEPT ![o] = request]
  /\ TrySend(o, request)
  /\ UNCHANGED <<setup, data, inFlight, loopVars, at, strong>>

\* fetch_page_with: a fetch in flight is kept, and the request dropped, or
\* cancelled through the client before the request is sent.
FetchPageWith(o, request, cancel_refetch) ==
  /\ Enter(o, "fetch_with")
  /\ inFlight => cancel_refetch
  /\ Arrive(o, [step |-> IF inFlight THEN "cancel" ELSE "send", request |-> request])
  /\ UNCHANGED <<setup, data, inFlight, loopVars, slotVars, direction, strong>>

\* cancel_query: the entry goes; its abort does nothing and its token is not
\* looked at.
CancelPage(o) ==
  /\ at[o].step = "cancel" /\ MayRun(o, "owner")
  /\ inFlight' = FALSE
  /\ at' = [at EXCEPT ![o].step = "send"]
  /\ UNCHANGED <<setup, data, loopVars, slotVars, direction, strong, calls>>

SendPage(o) ==
  /\ at[o].step = "send" /\ MayRun(o, "owner")
  /\ direction' = [direction EXCEPT ![o] = at[o].request]
  /\ TrySend(o, at[o].request)
  /\ Arrive(o, At("idle"))
  /\ UNCHANGED <<setup, data, inFlight, loopVars, strong, calls>>

\* The observer is dropped: its sender announces it, and only then lets go of
\* the slot.
DropObserver(o) ==
  /\ Enter(o, "drop")
  /\ Release(o)
  /\ Arrive(o, At("dropping"))
  /\ UNCHANGED <<setup, data, inFlight, loopVars, slot, direction, strong>>

DropSender(o) ==
  /\ at[o].step = "dropping" /\ MayRun(o, "owner")
  /\ strong' = [strong EXCEPT ![o] = FALSE]
  /\ Arrive(o, At("gone"))
  /\ UNCHANGED <<setup, data, inFlight, loopVars, slotVars, direction, calls>>

\* The client is cleared, or somebody writes the first page anew.
WipeKey(o) ==
  /\ Enter(o, "clear")
  /\ data' = NoData
  /\ inFlight' = FALSE
  /\ UNCHANGED <<setup, loopVars, slotVars, at, direction, strong>>

SetInfiniteData(o) ==
  /\ Enter(o, "set_infinite_data")
  /\ data' = FirstPage(0)
  /\ UNCHANGED <<setup, inFlight, loopVars, slotVars, at, direction, strong>>

OwnerStep(o) ==
  CancelPage(o) \/ SendPage(o) \/ DropSender(o)

Next ==
  \E o \in Observers :
    \/ LoopStep(o) \/ OwnerStep(o)
    \/ \E request \in Requests :
         \/ FetchPage(o, request)
         \/ \E c \in BOOLEAN : FetchPageWith(o, request, c)
    \/ DropObserver(o) \/ WipeKey(o) \/ SetInfiniteData(o)

\* Loop tasks are polled when woken, page fetches resolve, methods go on.
Fairness == \A o \in Observers : WF_vars(LoopStep(o)) /\ WF_vars(OwnerStep(o))

Spec == Init /\ [][Next]_vars /\ Fairness
-----------------------------------------------------------------------------
(***************************************************************************)
(* Properties                                                              *)
(***************************************************************************)

\* Type correctness of the cached pages, the slots and the loops.
TypeOK ==
  /\ setup \in Setups
  /\ data \in [has : BOOLEAN, pages : Seq(LowPage..HighPage), params : Seq(LowPage..HighPage)]
  /\ inFlight \in BOOLEAN
  /\ slot \in [Observers -> Requests \cup {"None"}]
  /\ release \in [Observers -> Cells({"unit"}, Observers)]
  /\ pc \in [Observers -> LoopPlaces]
  /\ asked \in [Observers -> [request : Requests \cup {"None"}, param : LowPage..HighPage]]
  /\ seen \in [Observers -> Nat]
  /\ woken \subseteq Observers
  /\ at \in [Observers -> [step : {"idle", "cancel", "send", "dropping", "gone"},
                           request : Requests \cup {"None"}]]
  /\ direction \in [Observers -> Requests]
  /\ strong \in [Observers -> BOOLEAN]
  /\ calls \in 0..MaxCalls

\* While one observer is the only writer of the key, the cached pages are
\* consecutive, each next to its own parameter, at most max_pages of them and
\* (but for max_pages = 0, which empties the list) at least one: pages are
\* appended after the fetch was awaited, and cancelled fetches append too.
PagesContiguous ==
  (/\ Cardinality(setup.live) = 1
   /\ "set_infinite_data" \notin setup.calls
   /\ data.has) =>
     /\ data.pages = data.params
     /\ \A i \in 1..(Len(data.pages) - 1) : data.pages[i + 1] = data.pages[i] + 1
     /\ setup.max # NoMax => Len(data.pages) <= IF setup.max = 0 THEN 1 ELSE setup.max
     /\ setup.max # 0 => data.pages # <<>>

\* is_fetching is never stuck: an in-flight entry belongs to a loop whose page
\* fetch is under way (unless a fetch panicked, which leaves the entry behind).
InFlightMeansFetching ==
  inFlight => \E o \in Observers : pc[o] \in Window \cup {"panicked"}

\* One page fetch of a key at a time, as long as nobody cancels or clears:
\* on one thread the in-flight check and the registration are not separated.
OnePageFetch ==
  ~setup.pool /\ setup.calls \subseteq {"fetch", "drop", "set_infinite_data"} =>
    Cardinality({o \in Observers : pc[o] \in Window}) <= 1

\* On one thread every accepted request is taken by the loop.
RequestTaken ==
  \A o \in Observers :
    (slot[o] # "None" /\ ~setup.pool /\ ~setup.panics) ~> (slot[o] = "None")

\* "the loop lives as long as the observer" (infinite_executor.rs): on one
\* thread the loop of a dropped observer exits.
LoopExits ==
  \A o \in Observers :
    (at[o].step = "gone" /\ ~setup.pool /\ ~setup.panics) ~> (pc[o] = "exited")

\* The in-flight entry of the key has an owner: it stands for a page fetch under
\* way, and for one only.
InFlightIsOwned == TypeOK /\ InFlightMeansFetching /\ OnePageFetch

\* The loop serves its observer and does not outlive it.
LoopServes == RequestTaken /\ LoopExits
=============================================================================
