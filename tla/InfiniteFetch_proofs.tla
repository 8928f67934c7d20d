------------------------ MODULE InfiniteFetch_proofs ------------------------
(***************************************************************************)
(* Proofs about infinite queries, for any number of observers, any         *)
(* max_pages and any range of pages.                                       *)
(***************************************************************************)
EXTENDS InfiniteFetch, FiniteSetTheorems, SequenceTheorems, TLAPS

Pages == LowPage..HighPage
DataType == [has : BOOLEAN, pages : Seq(Pages), params : Seq(Pages)]
AskType == [request : Requests \cup {"None"}, param : Pages]
StepType == [step : {"idle", "cancel", "send", "dropping", "gone"}, request : Requests \cup {"None"}]

\* Each page is followed by the next one.
Consecutive(s) == \A i \in 1..(Len(s) - 1) : s[i + 1] = s[i] + 1

-----------------------------------------------------------------------------
(***************************************************************************)
(* The inductive invariant                                                 *)
(***************************************************************************)

\* A loop that left recv works on a request, and an owner sends one.
AskInv ==
  \A o \in Observers :
    /\ pc[o] \in {"lookup", "gate", "register", "fetching", "write"} => asked[o].request \in Requests
    /\ at[o].step \in {"cancel", "send"} => at[o].request \in Requests

\* Observers that do not live never start.
GoneInv ==
  \A o \in Observers \ setup.live : pc[o] = "exited" /\ at[o].step = "gone"

\* The calls that neither cancel nor clear, on one thread: the registry and the
\* loops tell the same story.
Undisturbed == ~setup.pool /\ setup.calls \subseteq {"fetch", "drop", "set_infinite_data"}

OneInv ==
  Undisturbed =>
    /\ \A o, p \in Observers : pc[o] \in Window /\ pc[p] \in Window => o = p
    /\ \A o \in Observers : pc[o] \in Window => inFlight
    /\ \A o \in Observers : pc[o] = "register" => ~inFlight
    /\ \A o \in Observers : at[o].step # "cancel"

\* With one writer, the parameter that its loop works on is still that of the
\* page next to the cached ones when the page is written.
Solo == (\E w \in Observers : setup.live = {w}) /\ "set_infinite_data" \notin setup.calls

Fitting(s) ==
  /\ setup.max # NoMax => Len(s) <= IF setup.max = 0 THEN 1 ELSE setup.max
  /\ setup.max # 0 => s # <<>>

PagesInv ==
  Solo /\ data.has =>
    /\ data.pages = data.params
    /\ Consecutive(data.pages)
    /\ Fitting(data.pages)
    /\ \A o \in Observers :
         pc[o] \in {"gate", "register", "fetching", "write"} =>
           /\ HasParam(data, asked[o].request)
           /\ asked[o].param = ParamOf(data, asked[o].request)

InfiniteInv ==
  TypeOK /\ AskInv /\ GoneInv /\ InFlightMeansFetching /\ OneInv /\ PagesInv

-----------------------------------------------------------------------------
(***************************************************************************)
(* Lists of pages                                                          *)
(***************************************************************************)

LEMMA Arith ==
  ASSUME NEW l \in Nat, NEW m \in Nat, m < l
  PROVE  /\ l - (l - m + 1) + 1 = m /\ (l - m + 1 <= l <=> m > 0)
         /\ \A i \in 1..m : (l - m + 1) + i - 1 = i + (l - m)
         /\ l - m \in 0..l /\ m = l - (l - m)
         /\ (l - m + 1)..l \subseteq 1..l /\ l - m + 1 \in Int /\ l \in Int
  OBVIOUS

MaxType == setup.max \in Nat \cup {NoMax}

\* Trimming at the front keeps the last max_pages pages ...
LEMMA TrimFrontFacts ==
  ASSUME MaxType, NEW S, NEW s \in Seq(S)
  PROVE  /\ TrimFront(s) \in Seq(S)
         /\ \E d \in 0..Len(s) : /\ Len(TrimFront(s)) = Len(s) - d
                                 /\ \A i \in 1..Len(TrimFront(s)) : TrimFront(s)[i] = s[i + d]
         /\ setup.max # NoMax => Len(TrimFront(s)) <= setup.max
         /\ Len(TrimFront(s)) >= Len(s) \/ Len(TrimFront(s)) = setup.max
<1>1. Len(s) \in Nat /\ \A i \in 1..Len(s) : s[i] \in S
  BY ElementOfSeq
<1>2. CASE ~TooLong(s)
  <2>1. TrimFront(s) = s
    BY <1>2 DEF TrimFront
  <2>2. setup.max # NoMax => Len(s) <= setup.max
    BY <1>1, <1>2 DEF TooLong, MaxType, NoMax
  <2> QED
    BY <1>1, <2>1, <2>2
<1>3. CASE TooLong(s)
  <2>1. /\ setup.max \in Nat /\ setup.max < Len(s)
        /\ TrimFront(s) = SubSeq(s, Len(s) - setup.max + 1, Len(s))
    BY <1>1, <1>3 DEF TooLong, MaxType, TrimFront
  <2>2. PICK l \in Nat, m \in Nat : l = Len(s) /\ m = setup.max
    BY <1>1, <2>1
  <2> DEFINE t == SubSeq(s, l - m + 1, l)
  <2>3. m < l /\ TrimFront(s) = t
    BY <2>1, <2>2
  <2>4. \A i \in (l - m + 1)..l : s[i] \in S
    BY <1>1, <2>2, <2>3, Arith
  <2>5. /\ t \in Seq(S)
        /\ Len(t) = IF l - m + 1 <= l THEN l - (l - m + 1) + 1 ELSE 0
        /\ \A i \in 1 .. l - (l - m + 1) + 1 : t[i] = s[(l - m + 1) + i - 1]
    BY <2>3, <2>4, Arith, SubSeqProperties
  <2> HIDE DEF t
  <2>6. Len(t) = m /\ \A i \in 1..m : t[i] = s[i + (l - m)]
    <3>1. Len(t) = m
      BY <2>3, <2>5, Arith
    <3> QED
      BY <2>3, <2>5, <3>1, Arith
  <2>7. PICK d \in 0..l : d = l - m /\ m = l - d
    BY <2>3, Arith
  <2>8. Len(t) = l - d /\ \A i \in 1..Len(t) : t[i] = s[i + d]
    BY <2>6, <2>7
  <2>9. Len(t) <= m /\ Len(t) = m
    BY <2>6
  <2> QED
    BY <2>2, <2>3, <2>5, <2>7, <2>8, <2>9
<1> QED
  BY <1>2, <1>3

\* ... and trimming at the back the first ones.
LEMMA TrimBackFacts ==
  ASSUME MaxType, NEW S, NEW s \in Seq(S)
  PROVE  /\ TrimBack(s) \in Seq(S)
         /\ Len(TrimBack(s)) <= Len(s)
         /\ \A i \in 1..Len(TrimBack(s)) : TrimBack(s)[i] = s[i]
         /\ setup.max # NoMax => Len(TrimBack(s)) <= setup.max
         /\ Len(TrimBack(s)) >= Len(s) \/ Len(TrimBack(s)) = setup.max
<1>1. Len(s) \in Nat /\ \A i \in 1..Len(s) : s[i] \in S
  BY ElementOfSeq
<1>2. CASE ~TooLong(s)
  <2>1. TrimBack(s) = s
    BY <1>2 DEF TrimBack
  <2>2. setup.max # NoMax => Len(s) <= setup.max
    BY <1>1, <1>2 DEF TooLong, MaxType, NoMax
  <2> QED
    BY <1>1, <2>1, <2>2
<1>3. CASE TooLong(s)
  <2> DEFINE m == setup.max
             t == SubSeq(s, 1, m)
  <2>1. m \in Nat /\ m < Len(s) /\ TrimBack(s) = t
    BY <1>1, <1>3 DEF TooLong, MaxType, TrimBack
  <2>2. \A i \in 1..m : s[i] \in S
    BY <1>1, <2>1
  <2>3. /\ t \in Seq(S)
        /\ Len(t) = IF 1 <= m THEN m - 1 + 1 ELSE 0
        /\ \A i \in 1 .. m - 1 + 1 : t[i] = s[1 + i - 1]
    <3>1. 1 \in Int /\ m \in Int
      BY <2>1
    <3> QED
      BY <2>2, <3>1, SubSeqProperties
  <2>4. Len(t) = m /\ \A i \in 1..m : t[i] = s[i]
    <3>1. m - 1 + 1 = m /\ \A i \in 1..m : 1 + i - 1 = i
      BY <2>1
    <3> QED
      BY <2>1, <2>3, <3>1
  <2> HIDE DEF t
  <2> QED
    BY <1>1, <2>1, <2>3, <2>4
<1> QED
  BY <1>2, <1>3

\* Cons puts an element in front.
LEMMA ConsFacts ==
  ASSUME NEW S, NEW s \in Seq(S), NEW e \in S
  PROVE  /\ Cons(e, s) \in Seq(S)
         /\ Len(Cons(e, s)) = Len(s) + 1
         /\ Cons(e, s)[1] = e
         /\ \A i \in 1..Len(s) : Cons(e, s)[i + 1] = s[i]
<1>1. Cons(e, s) = <<e>> \o s
  BY DEF Cons
<1>2. <<e>> \in Seq(S) /\ Len(<<e>>) = 1 /\ <<e>>[1] = e
  OBVIOUS
<1> HIDE DEF Cons
<1> QED
  BY <1>1, <1>2, ConcatProperties

-----------------------------------------------------------------------------
(***************************************************************************)
(* Type correctness                                                        *)
(***************************************************************************)

LEMMA SetupFacts ==
  ASSUME TypeOK
  PROVE  /\ setup.pool \in BOOLEAN /\ setup.live \subseteq Observers /\ MaxType
         /\ setup.calls \subseteq Calls
  BY InfiniteFetchAssumption DEF TypeOK, AllSetups, MaxType

LEMMA PageNumbers ==
  /\ LowPage \in Int /\ HighPage \in Int /\ 0 \in Pages /\ Pages \subseteq Int
  /\ FirstPage(0) \in DataType /\ NoData \in DataType /\ NoAsk \in AskType
<1>1. LowPage \in Int /\ HighPage \in Int /\ 0 \in Pages /\ Pages \subseteq Int
  BY InfiniteFetchAssumption DEF Pages
<1>2. <<0>> \in Seq(Pages) /\ <<>> \in Seq(Pages)
  BY <1>1
<1> QED
  BY <1>1, <1>2 DEF FirstPage, NoData, NoAsk, DataType, AskType

\* The parameter of the next or the previous page is a page.
LEMMA ParamFacts ==
  ASSUME NEW d \in DataType, NEW request \in Requests, HasParam(d, request)
  PROVE  /\ ParamOf(d, request) \in Pages
         /\ d.has /\ Len(d.pages) \in Nat \ {0}
         /\ request = "Next" => ParamOf(d, request) = d.pages[Len(d.pages)] + 1
         /\ request = "Previous" => ParamOf(d, request) = d.pages[1] - 1
<1>1. d.has /\ d.pages \in Seq(Pages) /\ d.pages # <<>>
  BY DEF DataType, HasParam
<1>2. Len(d.pages) \in Nat \ {0} /\ \A i \in 1..Len(d.pages) : d.pages[i] \in Pages
  BY <1>1, EmptySeq, ElementOfSeq
<1>3. Last(d.pages) = d.pages[Len(d.pages)] /\ Head(d.pages) = d.pages[1]
  BY <1>1 DEF Last
<1>4. d.pages[1] \in Pages /\ d.pages[Len(d.pages)] \in Pages
  BY <1>2
<1>5. CASE request = "Next"
  <2>1. d.pages[Len(d.pages)] < HighPage /\ ParamOf(d, request) = d.pages[Len(d.pages)] + 1
    BY <1>3, <1>5 DEF HasParam, ParamOf
  <2> QED
    BY <1>1, <1>2, <1>4, <1>5, <2>1, PageNumbers DEF Pages
<1>6. CASE request = "Previous"
  <2>1. d.pages[1] > LowPage /\ ParamOf(d, request) = d.pages[1] - 1
    BY <1>3, <1>6 DEF HasParam, ParamOf
  <2> QED
    BY <1>1, <1>2, <1>4, <1>6, <2>1, PageNumbers DEF Pages
<1> QED
  BY <1>5, <1>6 DEF Requests

LEMMA PushType ==
  ASSUME MaxType, NEW d \in DataType, NEW q \in Pages
  PROVE  AppendPage(d, q) \in DataType /\ PrependPage(d, q) \in DataType
<1>1. /\ Append(d.pages, q) \in Seq(Pages) /\ Append(d.params, q) \in Seq(Pages)
      /\ Cons(q, d.pages) \in Seq(Pages) /\ Cons(q, d.params) \in Seq(Pages)
  BY AppendProperties, ConsFacts DEF DataType
<1>2. /\ TrimFront(Append(d.pages, q)) \in Seq(Pages) /\ TrimFront(Append(d.params, q)) \in Seq(Pages)
      /\ TrimBack(Cons(q, d.pages)) \in Seq(Pages) /\ TrimBack(Cons(q, d.params)) \in Seq(Pages)
  BY <1>1, TrimFrontFacts, TrimBackFacts
<1> QED
  BY <1>2 DEF AppendPage, PrependPage, DataType

LEMMA CellFacts ==
  ASSUME NEW c \in Cells({"unit"}, Observers)
  PROVE  /\ c.version \in Nat /\ Wakes(c) \subseteq Observers
         /\ Sent(c, "unit") \in Cells({"unit"}, Observers)
         /\ \A o \in Observers : Registered(c, o) \in Cells({"unit"}, Observers)
  BY DEF Cells, Sent, Registered, Wakes

LEMMA TypeInit == Init => TypeOK
<1> SUFFICES ASSUME Init PROVE TypeOK
  OBVIOUS
<1>1. NewCell("unit") \in Cells({"unit"}, Observers)
  BY DEF NewCell, Cells
<1>2. /\ release \in [Observers -> Cells({"unit"}, Observers)]
      /\ data \in DataType /\ asked \in [Observers -> AskType]
  BY <1>1, PageNumbers DEF Init
<1>3. pc \in [Observers -> LoopPlaces]
  BY DEF Init, LoopPlaces, LoopRests
<1>4. at \in [Observers -> StepType]
  BY DEF Init, StepType, At
<1>5. calls \in 0..MaxCalls
  BY InfiniteFetchAssumption DEF Init
<1>6. /\ setup \in Setups /\ inFlight \in BOOLEAN
      /\ slot \in [Observers -> Requests \cup {"None"}] /\ direction \in [Observers -> Requests]
      /\ seen \in [Observers -> Nat] /\ woken \subseteq Observers
  BY DEF Init, Requests
<1>7. strong \in [Observers -> BOOLEAN]
  BY DEF Init
<1> QED
  BY <1>2, <1>3, <1>4, <1>5, <1>6, <1>7 DEF TypeOK, DataType, Pages, AskType, StepType

\* What a step of a loop leaves alone, and where it goes.
LEMMA LoopMoves ==
  ASSUME TypeOK, AskInv, NEW o \in Observers, LoopStep(o)
  PROVE  /\ UNCHANGED <<setup, at, direction, strong, calls>>
         /\ pc[o] \notin {"exited", "panicked"}
         /\ \E x \in LoopPlaces : pc' = [pc EXCEPT ![o] = x]
         /\ asked' = asked \/ \E x \in AskType : asked' = [asked EXCEPT ![o] = x]
<1> USE DEF Runs, Goto, Panics, LoopPlaces, LoopRests, slotVars, ownVars
<1>0. /\ pc \in [Observers -> LoopPlaces] /\ asked \in [Observers -> AskType]
      /\ data \in DataType /\ slot \in [Observers -> Requests \cup {"None"}]
  BY DEF TypeOK, AskType, DataType, Pages
<1>1. /\ UNCHANGED <<setup, at, direction, strong, calls>>
      /\ pc[o] \notin {"exited", "panicked"}
  BY DEF LoopStep, StartLoop, InitialPage, RecvTake, RecvCount, RecvPark, RecvWoken, Lookup, Gate,
         Register, PageFetched, WritePage, ClearPage
<1>2. \E x \in LoopPlaces : pc' = [pc EXCEPT ![o] = x]
  <2>1. pc' = pc => pc' = [pc EXCEPT ![o] = pc[o]]
    BY <1>0
  <2> QED
    BY <1>0, <2>1 DEF LoopStep, StartLoop, InitialPage, RecvTake, RecvCount, RecvPark, RecvWoken, Lookup, Gate,
         Register, PageFetched, WritePage, ClearPage
<1>3. asked' = asked \/ \E x \in AskType : asked' = [asked EXCEPT ![o] = x]
  <2>1. CASE RecvTake(o)
    <3> DEFINE x == [asked[o] EXCEPT !.request = slot[o]]
    <3>1. x \in AskType
      BY <1>0 DEF AskType
    <3>2. asked' = asked \/ asked' = [asked EXCEPT ![o] = x]
      BY <2>1 DEF RecvTake
    <3> QED
      BY <3>1, <3>2
  <2>2. CASE Lookup(o)
    <3>a. asked[o].request \in Requests
      BY <2>2 DEF Lookup, AskInv
    <3>1. CASE HasParam(data, asked[o].request)
      <4> DEFINE x == [asked[o] EXCEPT !.param = ParamOf(data, asked[o].request)]
      <4>1. x \in AskType
        BY <1>0, <3>a, <3>1, ParamFacts DEF AskType
      <4>2. asked' = [asked EXCEPT ![o] = x]
        BY <2>2, <3>1 DEF Lookup
      <4> QED
        BY <4>1, <4>2
    <3>2. CASE ~HasParam(data, asked[o].request)
      BY <2>2, <3>2, PageNumbers DEF Lookup
    <3> QED
      BY <3>1, <3>2
  <2>3. CASE Gate(o) \/ ClearPage(o)
    BY <2>3, PageNumbers DEF Gate, ClearPage
  <2> QED
    BY <2>1, <2>2, <2>3 DEF LoopStep, StartLoop, InitialPage, RecvCount, RecvPark, RecvWoken,
         Register, PageFetched, WritePage
<1> QED
  BY <1>1, <1>2, <1>3
LEMMA LoopType ==
  ASSUME TypeOK, AskInv, NEW o \in Observers, LoopStep(o)
  PROVE  TypeOK'
<1> USE DEF Runs, Goto, Panics, slotVars, ownVars
<1>0. /\ pc \in [Observers -> LoopPlaces] /\ asked \in [Observers -> AskType] /\ MaxType
      /\ data \in DataType /\ slot \in [Observers -> Requests \cup {"None"}]
      /\ release \in [Observers -> Cells({"unit"}, Observers)] /\ seen \in [Observers -> Nat]
      /\ woken \subseteq Observers /\ inFlight \in BOOLEAN
  BY SetupFacts DEF TypeOK, AskType, DataType, Pages
<1>1. /\ UNCHANGED <<setup, at, direction, strong, calls>>
      /\ pc' \in [Observers -> LoopPlaces] /\ asked' \in [Observers -> AskType]
  BY <1>0, LoopMoves
<1>2. data' \in DataType
  <2>1. CASE InitialPage(o)
    BY <1>0, <2>1, PageNumbers DEF InitialPage
  <2>2. CASE WritePage(o)
    <3>1. asked[o].request \in Requests /\ asked[o].param \in Pages
      BY <1>0, <2>2 DEF WritePage, AskInv, AskType
    <3>2. AppendPage(data, asked[o].param) \in DataType /\ PrependPage(data, asked[o].param) \in DataType
      BY <1>0, <3>1, PushType
    <3>3. CASE ~data.has
      BY <1>0, <2>2, <3>3 DEF WritePage
    <3>4. CASE data.has
      BY <2>2, <3>1, <3>2, <3>4 DEF WritePage, Requests
    <3> QED
      BY <3>3, <3>4
  <2> QED
    BY <1>0, <2>1, <2>2 DEF LoopStep, StartLoop, RecvTake, RecvCount, RecvPark, RecvWoken, Lookup,
         Gate, Register, PageFetched, ClearPage
<1>3. /\ slot' \in [Observers -> Requests \cup {"None"}] /\ inFlight' \in BOOLEAN
      /\ woken' \subseteq Observers
  BY <1>0 DEF LoopStep, StartLoop, InitialPage, RecvTake, RecvCount, RecvPark, RecvWoken, Lookup,
       Gate, Register, PageFetched, WritePage, ClearPage
<1>4. seen' \in [Observers -> Nat] /\ release' \in [Observers -> Cells({"unit"}, Observers)]
  <2>1. /\ release[o].version \in Nat
        /\ Registered(release[o], o) \in Cells({"unit"}, Observers)
    BY <1>0, CellFacts
  <2> QED
    BY <1>0, <2>1 DEF LoopStep, StartLoop, InitialPage, RecvTake, RecvCount, RecvPark, RecvWoken, Lookup,
         Gate, Register, PageFetched, WritePage, ClearPage, SubscribedAt
<1> QED
  BY <1>1, <1>2, <1>3, <1>4 DEF TypeOK, AskType, DataType, Pages

\* The owner's side: calls, their later steps, and other users of the key.
OwnerMove(o) ==
  \/ OwnerStep(o)
  \/ \E request \in Requests :
       FetchPage(o, request) \/ \E c \in BOOLEAN : FetchPageWith(o, request, c)
  \/ DropObserver(o) \/ WipeKey(o) \/ SetInfiniteData(o)

LEMMA OwnerMoves ==
  ASSUME TypeOK, AskInv, NEW o \in Observers, OwnerMove(o)
  PROVE  /\ UNCHANGED <<setup, loopVars>>
         /\ at[o].step # "gone"
         /\ \E x \in StepType : /\ at' = [at EXCEPT ![o] = x]
                                /\ x.step = "cancel" => "fetch_with" \in setup.calls
                                /\ x.step \in {"cancel", "send"} => x.request \in Requests
         /\ \/ data' = data
            \/ data' = NoData
            \/ data' = FirstPage(0) /\ "set_infinite_data" \in setup.calls
         /\ \/ inFlight' = inFlight
            \/ inFlight' = FALSE /\ ("clear" \in setup.calls \/ at[o].step = "cancel")
<1> USE DEF Enter, Arrive, OwnerStep, OwnerMove, loopVars, slotVars
<1>0. at \in [Observers -> StepType]
  BY DEF TypeOK, StepType
<1>1. /\ UNCHANGED <<setup, loopVars>>
      /\ at[o].step # "gone"
      /\ \/ data' = data
         \/ data' = NoData
         \/ data' = FirstPage(0) /\ "set_infinite_data" \in setup.calls
      /\ \/ inFlight' = inFlight
         \/ inFlight' = FALSE /\ ("clear" \in setup.calls \/ at[o].step = "cancel")
  BY DEF FetchPage, FetchPageWith, CancelPage, SendPage, DropObserver, DropSender, WipeKey, SetInfiniteData
<1>2. \E x \in StepType : /\ at' = [at EXCEPT ![o] = x]
                          /\ x.step = "cancel" => "fetch_with" \in setup.calls
                          /\ x.step \in {"cancel", "send"} => x.request \in Requests
  <2>1. CASE at' = at /\ at[o].step # "cancel"
    <3>1. /\ at' = [at EXCEPT ![o] = at[o]] /\ at[o] \in StepType
          /\ at[o].step \in {"cancel", "send"} => at[o].request \in Requests
      BY <1>0, <2>1 DEF AskInv
    <3> QED
      BY <2>1, <3>1
  <2>2. CASE \E request \in Requests, c \in BOOLEAN : FetchPageWith(o, request, c)
    <3>1. PICK request \in Requests : \E c \in BOOLEAN : FetchPageWith(o, request, c)
      BY <2>2
    <3> DEFINE x == [step |-> IF inFlight THEN "cancel" ELSE "send", request |-> request]
    <3>2. x \in StepType /\ x.request \in Requests
      BY DEF StepType
    <3>3. at' = [at EXCEPT ![o] = x] /\ "fetch_with" \in setup.calls
      BY <3>1 DEF FetchPageWith
    <3> QED
      BY <3>2, <3>3
  <2>3. CASE CancelPage(o)
    <3> DEFINE x == [at[o] EXCEPT !.step = "send"]
    <3>1. /\ x \in StepType /\ x.step = "send" /\ x.request \in Requests
          /\ at' = [at EXCEPT ![o] = x]
      BY <1>0, <2>3 DEF StepType, CancelPage, AskInv
    <3> QED
      BY <3>1
  <2>4. CASE \E step \in {"idle", "gone", "dropping"} : at' = [at EXCEPT ![o] = At(step)]
    <3>1. PICK step \in {"idle", "gone", "dropping"} : at' = [at EXCEPT ![o] = At(step)]
      BY <2>4
    <3>2. At(step) \in StepType /\ At(step).step \notin {"cancel", "send"}
      BY DEF At, StepType
    <3> QED
      BY <3>1, <3>2
  <2>5. CASE \E request \in Requests : FetchPage(o, request)
    BY <2>1, <2>5 DEF FetchPage
  <2>6. CASE WipeKey(o) \/ SetInfiniteData(o)
    BY <2>1, <2>6 DEF WipeKey, SetInfiniteData
  <2>7. CASE SendPage(o)
    BY <2>4, <2>7 DEF SendPage
  <2>8. CASE DropObserver(o) \/ DropSender(o)
    BY <2>4, <2>8 DEF DropObserver, DropSender
  <2> QED
    BY <2>2, <2>3, <2>5, <2>6, <2>7, <2>8
<1> QED
  BY <1>1, <1>2

LEMMA OwnerType ==
  ASSUME TypeOK, AskInv, NEW o \in Observers, OwnerMove(o)
  PROVE  TypeOK'
<1> USE DEF Enter, Arrive, OwnerStep, OwnerMove, loopVars, slotVars
<1>0. /\ slot \in [Observers -> Requests \cup {"None"}]
      /\ release \in [Observers -> Cells({"unit"}, Observers)] /\ woken \subseteq Observers
      /\ at \in [Observers -> StepType] /\ direction \in [Observers -> Requests]
      /\ strong \in [Observers -> BOOLEAN] /\ calls \in 0..MaxCalls
      /\ data \in DataType /\ inFlight \in BOOLEAN /\ MaxCalls \in Nat
  BY InfiniteFetchAssumption DEF TypeOK, StepType, DataType, Pages
<1>1. /\ UNCHANGED <<setup, loopVars>> /\ at' \in [Observers -> StepType]
      /\ data' \in DataType /\ inFlight' \in BOOLEAN
  BY <1>0, OwnerMoves, PageNumbers
<1>2. calls' \in 0..MaxCalls
  BY <1>0 DEF FetchPage, FetchPageWith, CancelPage, SendPage, DropObserver, DropSender, WipeKey, SetInfiniteData
<1>3. Release(o) => /\ release' \in [Observers -> Cells({"unit"}, Observers)]
                    /\ woken' \subseteq Observers
  BY <1>0, CellFacts DEF Release
<1>4. ASSUME NEW request \in Requests, TrySend(o, request)
      PROVE  /\ slot' \in [Observers -> Requests \cup {"None"}]
             /\ release' \in [Observers -> Cells({"unit"}, Observers)] /\ woken' \subseteq Observers
  BY <1>0, <1>3, <1>4 DEF TrySend
<1>5. /\ slot' \in [Observers -> Requests \cup {"None"}]
      /\ release' \in [Observers -> Cells({"unit"}, Observers)] /\ woken' \subseteq Observers
      /\ direction' \in [Observers -> Requests] /\ strong' \in [Observers -> BOOLEAN]
  <2>1. CASE SendPage(o)
    <3>1. at[o].request \in Requests
      BY <2>1 DEF SendPage, AskInv
    <3> QED
      BY <1>0, <1>4, <2>1, <3>1 DEF SendPage
  <2>2. CASE \E request \in Requests : FetchPage(o, request)
    BY <1>0, <1>4, <2>2 DEF FetchPage
  <2>3. CASE DropObserver(o)
    BY <1>0, <1>3, <2>3 DEF DropObserver
  <2> QED
    BY <1>0, <2>1, <2>2, <2>3 DEF FetchPageWith, CancelPage, DropSender, WipeKey, SetInfiniteData
<1> QED
  BY <1>1, <1>2, <1>5 DEF TypeOK, DataType, Pages, StepType
-----------------------------------------------------------------------------
(***************************************************************************)
(* One step                                                                *)
(***************************************************************************)

LEMMA NextMoves ==
  ASSUME [Next]_vars
  PROVE  \/ UNCHANGED vars
         \/ \E o \in Observers : LoopStep(o) \/ OwnerMove(o)
  BY DEF Next, OwnerMove

\* The others keep their places and their requests.
LEMMA LoopOthers ==
  ASSUME TypeOK, AskInv, NEW o \in Observers, LoopStep(o)
  PROVE  \A p \in Observers \ {o} : pc'[p] = pc[p] /\ asked'[p] = asked[p]
<1>0. pc \in [Observers -> LoopPlaces] /\ asked \in [Observers -> AskType]
  BY DEF TypeOK, AskType, Pages
<1> QED
  BY <1>0, LoopMoves

LEMMA AskInvStep ==
  ASSUME TypeOK, AskInv, [Next]_vars
  PROVE  AskInv'
<1>0. /\ pc \in [Observers -> LoopPlaces] /\ asked \in [Observers -> AskType]
      /\ slot \in [Observers -> Requests \cup {"None"}] /\ at \in [Observers -> StepType]
  BY DEF TypeOK, AskType, StepType, Pages
<1>1. CASE UNCHANGED vars
  BY <1>1 DEF vars, loopVars, ownVars, AskInv
<1>2. ASSUME NEW o \in Observers, LoopStep(o) PROVE AskInv'
  <2>1. \/ pc'[o] = "lookup" /\ asked'[o].request \in Requests
        \/ pc'[o] \in {"gate", "register", "fetching", "write"} /\ pc[o] \in {"lookup", "gate", "register", "fetching"}
           /\ asked'[o].request = asked[o].request
        \/ pc'[o] \notin {"lookup", "gate", "register", "fetching", "write"}
    BY <1>0, <1>2 DEF LoopStep, StartLoop, InitialPage, RecvTake, RecvCount, RecvPark, RecvWoken,
         Lookup, Gate, Register, PageFetched, WritePage, ClearPage, Runs, Goto, Panics, AskType
  <2>2. at' = at /\ \A p \in Observers \ {o} : pc'[p] = pc[p] /\ asked'[p] = asked[p]
    BY <1>2, LoopMoves, LoopOthers
  <2> QED
    BY <2>1, <2>2 DEF AskInv
<1>3. ASSUME NEW o \in Observers, OwnerMove(o) PROVE AskInv'
  <2>1. /\ UNCHANGED loopVars
        /\ at'[o].step \in {"cancel", "send"} => at'[o].request \in Requests
        /\ \A p \in Observers \ {o} : at'[p] = at[p]
    BY <1>0, <1>3, OwnerMoves
  <2> QED
    BY <2>1 DEF AskInv, loopVars
<1> QED
  BY <1>1, <1>2, <1>3, NextMoves

LEMMA GoneInvStep ==
  ASSUME TypeOK, AskInv, GoneInv, [Next]_vars
  PROVE  GoneInv'
<1>0. at \in [Observers -> StepType]
  BY DEF TypeOK, StepType
<1>1. CASE UNCHANGED vars
  BY <1>1 DEF vars, loopVars, ownVars, GoneInv
<1>2. ASSUME NEW o \in Observers, LoopStep(o) PROVE GoneInv'
  <2>1. pc[o] # "exited" /\ UNCHANGED <<setup, at>>
    BY <1>2, LoopMoves
  <2> QED
    BY <1>2, <2>1, LoopOthers DEF GoneInv
<1>3. ASSUME NEW o \in Observers, OwnerMove(o) PROVE GoneInv'
  <2>1. at[o].step # "gone" /\ UNCHANGED <<setup, loopVars>> /\ \A p \in Observers \ {o} : at'[p] = at[p]
    BY <1>0, <1>3, OwnerMoves
  <2> QED
    BY <2>1 DEF GoneInv, loopVars
<1> QED
  BY <1>1, <1>2, <1>3, NextMoves

\* An entry of the registry is made by a loop that goes on to fetch, and stays
\* no longer than its fetch, or for ever when that panics.
LEMMA InFlightStep ==
  ASSUME TypeOK, AskInv, InFlightMeansFetching, [Next]_vars
  PROVE  InFlightMeansFetching'
<1>0. pc \in [Observers -> LoopPlaces]
  BY DEF TypeOK
<1>1. CASE UNCHANGED vars
  BY <1>1 DEF vars, loopVars, InFlightMeansFetching
<1>2. ASSUME NEW o \in Observers, LoopStep(o) PROVE InFlightMeansFetching'
  <2>1. \/ inFlight' = inFlight /\ (pc[o] \in Window => pc'[o] \in Window \cup {"panicked"})
        \/ pc'[o] \in Window
        \/ ~inFlight'
    BY <1>0, <1>2 DEF LoopStep, StartLoop, InitialPage, RecvTake, RecvCount, RecvPark, RecvWoken,
         Lookup, Gate, Register, PageFetched, WritePage, ClearPage, Runs, Goto, Panics, Window
  <2>2. pc[o] # "panicked"
    BY <1>2, LoopMoves
  <2> QED
    BY <1>2, <2>1, <2>2, LoopOthers DEF InFlightMeansFetching
<1>3. ASSUME NEW o \in Observers, OwnerMove(o) PROVE InFlightMeansFetching'
  <2>1. UNCHANGED loopVars /\ (inFlight' = inFlight \/ inFlight' = FALSE)
    BY <1>3, OwnerMoves
  <2> QED
    BY <2>1 DEF InFlightMeansFetching, loopVars
<1> QED
  BY <1>1, <1>2, <1>3, NextMoves

LEMMA OneInvStep ==
  ASSUME TypeOK, AskInv, OneInv, [Next]_vars
  PROVE  OneInv'
<1>0. pc \in [Observers -> LoopPlaces] /\ at \in [Observers -> StepType]
  BY DEF TypeOK, StepType
<1>1. CASE UNCHANGED vars
  BY <1>1 DEF vars, loopVars, ownVars, OneInv, Undisturbed
<1>2. ASSUME NEW o \in Observers, LoopStep(o), Undisturbed PROVE OneInv'
  <2>1. \A p \in Observers \ {o} : pc[p] \in LoopRests
    BY <1>2 DEF Undisturbed, LoopStep, StartLoop, InitialPage, RecvTake, RecvCount, RecvPark, RecvWoken,
         Lookup, Gate, Register, PageFetched, WritePage, ClearPage, Runs, MayRun
  <2>2. /\ UNCHANGED <<setup, at>> /\ \A p \in Observers \ {o} : pc'[p] = pc[p]
    BY <1>2, LoopMoves, LoopOthers
  <2>3. \/ pc[o] \in Window /\ inFlight' = inFlight /\ pc'[o] # "register"
        \/ pc[o] = "clear" /\ ~inFlight' /\ pc'[o] \notin Window \cup {"register"}
        \/ pc[o] = "gate" /\ inFlight' = inFlight /\ pc'[o] \notin Window /\ (pc'[o] = "register" => ~inFlight)
        \/ pc[o] = "register" /\ inFlight' /\ pc'[o] = "fetching"
        \/ inFlight' = inFlight /\ pc'[o] \notin Window \cup {"register"}
    BY <1>0, <1>2 DEF LoopStep, StartLoop, InitialPage, RecvTake, RecvCount, RecvPark, RecvWoken,
         Lookup, Gate, Register, PageFetched, WritePage, ClearPage, Runs, Goto, Panics, Window
  <2>4. "register" \notin LoopRests /\ "register" \notin Window /\ "clear" \in Window /\ "fetching" \in Window
    BY DEF LoopRests, Window
  <2>5. OneInv /\ Undisturbed
    BY <1>2
  <2> QED
    BY <2>1, <2>2, <2>3, <2>4, <2>5 DEF OneInv
<1>3. ASSUME NEW o \in Observers, OwnerMove(o), Undisturbed PROVE OneInv'
  <2>1. /\ UNCHANGED <<setup, loopVars>> /\ inFlight' = inFlight /\ at'[o].step # "cancel"
        /\ \A p \in Observers \ {o} : at'[p] = at[p]
    BY <1>0, <1>3, OwnerMoves DEF Undisturbed, OneInv
  <2> QED
    BY <1>3, <2>1 DEF OneInv, loopVars
<1>4. Undisturbed' => Undisturbed
  BY LoopMoves, OwnerMoves, NextMoves DEF Undisturbed, vars
<1> QED
  BY <1>1, <1>2, <1>3, <1>4, NextMoves DEF OneInv
-----------------------------------------------------------------------------
(***************************************************************************)
(* The pages of one writer                                                 *)
(***************************************************************************)

LEMMA TrimFrontKeeps ==
  ASSUME MaxType, NEW s \in Seq(Pages), Consecutive(s), s # <<>>
  PROVE  Consecutive(TrimFront(s)) /\ Fitting(TrimFront(s))
<1>1. Len(s) \in Nat \ {0} /\ \A i \in 1..Len(s) : s[i] \in Int
  BY EmptySeq, ElementOfSeq, PageNumbers
<1> DEFINE t == TrimFront(s)
<1>2. /\ t \in Seq(Pages)
      /\ \E d \in 0..Len(s) : /\ Len(t) = Len(s) - d
                              /\ \A i \in 1..Len(t) : t[i] = s[i + d]
      /\ setup.max # NoMax => Len(t) <= setup.max
      /\ Len(t) >= Len(s) \/ Len(t) = setup.max
  BY TrimFrontFacts
<1> HIDE DEF t
<1>3. Consecutive(t)
  <2>1. PICK d \in 0..Len(s) : /\ Len(t) = Len(s) - d
                               /\ \A i \in 1..Len(t) : t[i] = s[i + d]
    BY <1>2
  <2>2. ASSUME NEW i \in 1..(Len(t) - 1) PROVE t[i + 1] = t[i] + 1
    <3>1. i \in 1..Len(t) /\ i + 1 \in 1..Len(t) /\ i + d \in 1..(Len(s) - 1) /\ (i + 1) + d = (i + d) + 1
      BY <1>1, <2>1
    <3>2. t[i] = s[i + d] /\ t[i + 1] = s[(i + d) + 1]
      BY <2>1, <3>1
    <3>3. s[(i + d) + 1] = s[i + d] + 1
      BY <3>1 DEF Consecutive
    <3> QED
      BY <3>2, <3>3
  <2> QED
    BY <2>2 DEF Consecutive
<1>4. Fitting(t)
  <2>1. Len(t) \in Nat /\ (t # <<>> <=> Len(t) # 0)
    BY <1>2, EmptySeq
  <2> QED
    BY <1>1, <1>2, <2>1 DEF Fitting, MaxType
<1> QED
  BY <1>3, <1>4 DEF t

LEMMA TrimBackKeeps ==
  ASSUME MaxType, NEW s \in Seq(Pages), Consecutive(s), s # <<>>
  PROVE  Consecutive(TrimBack(s)) /\ Fitting(TrimBack(s))
<1>1. Len(s) \in Nat \ {0} /\ \A i \in 1..Len(s) : s[i] \in Int
  BY EmptySeq, ElementOfSeq, PageNumbers
<1> DEFINE t == TrimBack(s)
<1>2. /\ t \in Seq(Pages)
      /\ Len(t) <= Len(s)
      /\ \A i \in 1..Len(t) : t[i] = s[i]
      /\ setup.max # NoMax => Len(t) <= setup.max
      /\ Len(t) >= Len(s) \/ Len(t) = setup.max
  BY TrimBackFacts
<1> HIDE DEF t
<1>3. Len(t) \in Nat /\ (t # <<>> <=> Len(t) # 0)
  BY <1>2, EmptySeq
<1>4. Consecutive(t)
  <2>1. ASSUME NEW i \in 1..(Len(t) - 1) PROVE t[i + 1] = t[i] + 1
    <3>1. i \in 1..Len(t) /\ i + 1 \in 1..Len(t) /\ i \in 1..(Len(s) - 1)
      BY <1>1, <1>2, <1>3
    <3> QED
      BY <1>2, <3>1 DEF Consecutive
  <2> QED
    BY <2>1 DEF Consecutive
<1>5. Fitting(t)
  BY <1>1, <1>2, <1>3 DEF Fitting, MaxType
<1> QED
  BY <1>4, <1>5 DEF t

LEMMA ConsKeeps ==
  ASSUME NEW s \in Seq(Pages), NEW q \in Pages
  PROVE  Len(s) # 0 /\ q = s[1] - 1 /\ Consecutive(s) =>
           /\ Cons(q, s) \in Seq(Pages) /\ Cons(q, s) # <<>>
           /\ Consecutive(Cons(q, s))
<1>1. PICK t : t = Cons(q, s)
  OBVIOUS
<1>2. t \in Seq(Pages) /\ Len(t) = Len(s) + 1
  BY <1>1, ConsFacts
<1>3. t[1] = q
  BY <1>1, ConsFacts
<1>4. \A i \in 1..Len(s) : t[i + 1] = s[i]
  BY <1>1, ConsFacts
<1> SUFFICES ASSUME Len(s) # 0, q = s[1] - 1, Consecutive(s)
             PROVE  t \in Seq(Pages) /\ t # <<>> /\ Consecutive(t)
  BY <1>1
<1>5. Len(s) \in Nat \ {0} /\ \A i \in 1..Len(s) : s[i] \in Int
  BY ElementOfSeq, PageNumbers, EmptySeq
<1>6. /\ t \in Seq(Pages) /\ Len(t) = Len(s) + 1 /\ t[1] = q
      /\ \A i \in 1..Len(s) : t[i + 1] = s[i]
  BY <1>2, <1>3, <1>4
<1>7. t # <<>>
  BY <1>5, <1>6, EmptySeq
<1>8. ASSUME NEW i \in 1..(Len(t) - 1) PROVE t[i + 1] = t[i] + 1
  <2>1. CASE i = 1
    <3>1. 1 \in 1..Len(s) /\ 1 + 1 = 2
      BY <1>5
    <3>2. t[2] = s[1]
      BY <1>6, <3>1
    <3> QED
      BY <1>5, <1>6, <2>1, <3>1, <3>2
  <2>2. CASE i > 1
    <3>1. PICK j \in Int : i = j + 1
      <4>1. i - 1 \in Int /\ i = (i - 1) + 1
        OBVIOUS
      <4> QED
        BY <4>1
    <3>2. j \in 1..(Len(s) - 1) /\ j + 1 \in 1..Len(s) /\ j \in 1..Len(s)
      BY <1>6, <2>2, <3>1
    <3>3. s[j + 1] = s[j] + 1
      BY <3>2 DEF Consecutive
    <3>4. t[(j + 1) + 1] = s[j + 1] /\ t[j + 1] = s[j]
      BY <1>6, <3>2
    <3> QED
      BY <3>1, <3>3, <3>4
  <2> QED
    BY <2>1, <2>2
<1> QED
  BY <1>6, <1>7, <1>8 DEF Consecutive

\* The page next to the last, or to the first, keeps them consecutive.
LEMMA PushKeeps ==
  ASSUME MaxType, NEW d \in DataType, NEW request \in Requests, HasParam(d, request),
         d.pages = d.params, Consecutive(d.pages),
         NEW e, e = IF request = "Next" THEN AppendPage(d, ParamOf(d, request))
                                        ELSE PrependPage(d, ParamOf(d, request))
  PROVE  e.pages = e.params /\ Consecutive(e.pages) /\ Fitting(e.pages)
<1> DEFINE q == ParamOf(d, request)
<1>1. /\ q \in Pages /\ Len(d.pages) \in Nat \ {0} /\ d.pages \in Seq(Pages)
      /\ request = "Next" => q = d.pages[Len(d.pages)] + 1
      /\ request = "Previous" => q = d.pages[1] - 1
  BY ParamFacts DEF DataType
<1>2. q \in Int /\ \A i \in 1..Len(d.pages) : d.pages[i] \in Int
  BY <1>1, ElementOfSeq, PageNumbers
<1> HIDE DEF q
<1>3. CASE request = "Next"
  <2> DEFINE s == Append(d.pages, q)
  <2>1. /\ s \in Seq(Pages) /\ s # <<>> /\ Len(s) = Len(d.pages) + 1
        /\ \A i \in 1..Len(d.pages) : s[i] = d.pages[i]
        /\ s[Len(d.pages) + 1] = q
    BY <1>1, AppendProperties
  <2>2. e.pages = TrimFront(s) /\ e.params = TrimFront(s)
    BY <1>3 DEF AppendPage, DataType, q
  <2> HIDE DEF s
  <2>3. Consecutive(s)
    <3>1. ASSUME NEW i \in 1..(Len(s) - 1) PROVE s[i + 1] = s[i] + 1
      <4>1. CASE i < Len(d.pages)
        <5>1. i \in 1..(Len(d.pages) - 1) /\ i + 1 \in 1..Len(d.pages) /\ i \in 1..Len(d.pages)
          BY <1>1, <4>1
        <5>2. d.pages[i + 1] = d.pages[i] + 1
          BY <5>1 DEF Consecutive
        <5> QED
          BY <2>1, <5>1, <5>2
      <4>2. CASE i = Len(d.pages)
        BY <1>1, <1>3, <2>1, <4>2
      <4>3. i \in Nat /\ i <= Len(d.pages)
        BY <1>1, <2>1
      <4> QED
        BY <1>1, <4>1, <4>2, <4>3
    <3> QED
      BY <3>1 DEF Consecutive
  <2> QED
    BY <2>1, <2>2, <2>3, TrimFrontKeeps
<1>4. CASE request = "Previous"
  <2>1. PICK w \in Seq(Pages), v \in Pages : w = d.pages /\ v = q
    BY <1>1
  <2>2. /\ Cons(v, w) \in Seq(Pages) /\ Cons(v, w) # <<>> /\ Consecutive(Cons(v, w))
    <3>1. Len(w) # 0 /\ v = w[1] - 1 /\ Consecutive(w)
      BY <1>1, <1>4, <2>1
    <3> QED
      BY <3>1, ConsKeeps
  <2>3. e.pages = TrimBack(Cons(v, w)) /\ e.params = TrimBack(Cons(v, w))
    BY <1>4, <2>1 DEF PrependPage, DataType, q
  <2> QED
    BY <2>2, <2>3, TrimBackKeeps
<1> QED
  BY <1>3, <1>4 DEF Requests

LEMMA FirstPageFits ==
  ASSUME MaxType
  PROVE  /\ FirstPage(0).pages = FirstPage(0).params /\ Consecutive(FirstPage(0).pages)
         /\ Fitting(FirstPage(0).pages)
<1>1. FirstPage(0).pages = <<0>> /\ FirstPage(0).params = <<0>>
  BY DEF FirstPage
<1>2. Len(<<0>>) = 1 /\ <<0>> # <<>>
  OBVIOUS
<1>3. Consecutive(<<0>>)
  BY <1>2 DEF Consecutive
<1>4. Fitting(<<0>>)
  BY <1>2 DEF Fitting, MaxType
<1> QED
  BY <1>1, <1>3, <1>4

LEMMA PagesInvStep ==
  ASSUME TypeOK, AskInv, GoneInv, PagesInv, [Next]_vars
  PROVE  PagesInv'
<1>0. /\ pc \in [Observers -> LoopPlaces] /\ asked \in [Observers -> AskType]
      /\ data \in DataType /\ MaxType
  BY SetupFacts DEF TypeOK, AskType, DataType, Pages
<1> DEFINE Placed(s) == s \in {"gate", "register", "fetching", "write"}
<1>1. CASE UNCHANGED vars
  BY <1>1 DEF vars, loopVars, PagesInv, Solo, Fitting, HasParam, ParamOf
<1>2. ASSUME NEW o \in Observers, LoopStep(o), Solo, data'.has PROVE PagesInv'
  <2>1. UNCHANGED setup /\ \A p \in Observers \ {o} : ~Placed(pc'[p])
    <3>1. UNCHANGED setup /\ pc[o] # "exited"
      BY <1>2, LoopMoves
    <3>2. \A p \in Observers \ {o} : pc[p] = "exited"
      BY <1>2, <3>1 DEF GoneInv, Solo
    <3> QED
      BY <1>2, <3>1, <3>2, LoopOthers
  <2>2. ASSUME data'.pages = data'.params, Consecutive(data'.pages), Fitting(data'.pages),
               Placed(pc'[o]) => /\ HasParam(data', asked'[o].request)
                                 /\ asked'[o].param = ParamOf(data', asked'[o].request)
        PROVE  PagesInv'
    BY <2>1, <2>2 DEF PagesInv, Fitting, HasParam, ParamOf, Consecutive
  <2>3. CASE data' = data /\ Placed(pc[o]) /\ asked' = asked
    <3>1. /\ data.pages = data.params /\ Consecutive(data.pages) /\ Fitting(data.pages)
          /\ HasParam(data, asked[o].request)
          /\ asked[o].param = ParamOf(data, asked[o].request)
      BY <1>2, <2>3 DEF PagesInv
    <3> QED
      BY <2>2, <2>3, <3>1
  <2>4. CASE data' = data /\ ~Placed(pc'[o])
    BY <1>2, <2>2, <2>4 DEF PagesInv
  <2>5. CASE InitialPage(o)
    <3>1. ~Placed(pc'[o]) /\ (data' = data \/ data' = FirstPage(0))
      BY <1>0, <2>5 DEF InitialPage, Runs, Goto, Panics
    <3> QED
      BY <1>0, <2>2, <2>4, <3>1, FirstPageFits
  <2>6. CASE Lookup(o)
    <3>1. data' = data
      BY <2>6 DEF Lookup
    <3>2. CASE HasParam(data, asked[o].request)
      <4>1. asked'[o].request = asked[o].request /\ asked'[o].param = ParamOf(data, asked[o].request)
        BY <1>0, <2>6, <3>2 DEF Lookup, AskType
      <4> QED
        BY <1>2, <2>2, <3>1, <3>2, <4>1 DEF PagesInv
    <3>3. CASE ~HasParam(data, asked[o].request)
      BY <1>0, <2>4, <2>6, <3>1, <3>3 DEF Lookup, Goto
    <3> QED
      BY <3>2, <3>3
  <2>7. CASE WritePage(o)
    <3>1. /\ pc[o] = "write" /\ pc'[o] = "clear" /\ asked[o].request \in Requests
      BY <1>0, <2>7 DEF WritePage, Runs, Goto, AskInv
    <3>2. CASE ~data.has
      BY <1>2, <2>7, <3>2 DEF WritePage
    <3>3. CASE data.has
      <4>1. /\ data.pages = data.params /\ Consecutive(data.pages)
            /\ HasParam(data, asked[o].request)
            /\ asked[o].param = ParamOf(data, asked[o].request)
        BY <1>2, <3>1, <3>3 DEF PagesInv
      <4>2. data' = IF asked[o].request = "Next" THEN AppendPage(data, ParamOf(data, asked[o].request))
                    ELSE PrependPage(data, ParamOf(data, asked[o].request))
        BY <2>7, <3>1, <3>3, <4>1 DEF WritePage, Requests
      <4>3. data'.pages = data'.params /\ Consecutive(data'.pages) /\ Fitting(data'.pages)
        BY <1>0, <3>1, <4>1, <4>2, PushKeeps
      <4> QED
        BY <2>2, <3>1, <4>3
    <3> QED
      BY <3>2, <3>3
  <2>8. CASE Gate(o) \/ Register(o) \/ PageFetched(o) \/ ClearPage(o)
    <3>1. /\ data' = data /\ Placed(pc'[o]) => (Placed(pc[o]) /\ asked' = asked)
      BY <1>0, <2>8 DEF Gate, Register, PageFetched, ClearPage, Runs, Goto, Panics
    <3>2. data' = data
      BY <2>8 DEF Gate, Register, PageFetched, ClearPage
    <3> QED
      BY <2>3, <2>4, <3>1, <3>2
  <2>9. CASE StartLoop(o) \/ RecvTake(o) \/ RecvCount(o) \/ RecvPark(o) \/ RecvWoken(o)
    <3>1. data' = data /\ ~Placed(pc'[o])
      BY <1>0, <2>9 DEF StartLoop, RecvTake, RecvCount, RecvPark, RecvWoken, Runs, Goto
    <3> QED
      BY <2>4, <3>1
  <2> QED
    BY <1>2, <2>5, <2>6, <2>7, <2>8, <2>9 DEF LoopStep
<1>3. ASSUME NEW o \in Observers, OwnerMove(o), Solo, data'.has PROVE PagesInv'
  <2>1. UNCHANGED <<setup, loopVars>> /\ data' = data
    <3>1. ~NoData.has
      BY DEF NoData
    <3>2. /\ UNCHANGED <<setup, loopVars>>
          /\ data' = data \/ data' = NoData \/ (data' = FirstPage(0) /\ "set_infinite_data" \in setup.calls)
      BY <1>3, OwnerMoves
    <3> QED
      BY <1>3, <3>1, <3>2 DEF Solo
  <2> QED
    BY <2>1 DEF PagesInv, Solo, Fitting, HasParam, ParamOf, loopVars
<1>4. Solo' => Solo
  BY LoopMoves, OwnerMoves, NextMoves DEF Solo, vars
<1> QED
  BY <1>1, <1>2, <1>3, <1>4, NextMoves DEF PagesInv
-----------------------------------------------------------------------------
(***************************************************************************)
(* Results                                                                 *)
(***************************************************************************)

LEMMA InfiniteInvInit == Init => InfiniteInv
<1> SUFFICES ASSUME Init PROVE InfiniteInv
  OBVIOUS
<1>1. \A o \in Observers : pc[o] \in {"ready", "exited"} /\ at[o].step \in {"idle", "gone"}
  BY DEF Init, At
<1>2. GoneInv
  BY DEF Init, At, GoneInv
<1>3. ~data.has /\ ~inFlight
  BY DEF Init, NoData
<1> QED
  BY <1>1, <1>2, <1>3, TypeInit
     DEF InfiniteInv, AskInv, InFlightMeansFetching, OneInv, PagesInv, Window

LEMMA InfiniteInvStep == InfiniteInv /\ [Next]_vars => InfiniteInv'
<1> SUFFICES ASSUME InfiniteInv, [Next]_vars PROVE InfiniteInv'
  OBVIOUS
<1>1. TypeOK /\ AskInv /\ GoneInv /\ InFlightMeansFetching /\ OneInv /\ PagesInv
  BY DEF InfiniteInv
<1>2. TypeOK'
  <2>1. CASE UNCHANGED vars
    BY <1>1, <2>1 DEF vars, loopVars, slotVars, ownVars, TypeOK
  <2> QED
    BY <1>1, <2>1, LoopType, OwnerType, NextMoves
<1> QED
  BY <1>1, <1>2, AskInvStep, GoneInvStep, InFlightStep, OneInvStep, PagesInvStep DEF InfiniteInv

\* As long as one loop is the only writer of the key, the cached pages are
\* consecutive, each next to its own parameter, and as many as max_pages
\* allows, whenever the pages are cleared, and although a page is appended
\* only after its fetch was awaited and a cancelled fetch appends too
\* (infinite_executor.rs run_infinite_query_loop, client.rs append_infinite_page).
THEOREM PagesStayContiguous == Spec => []PagesContiguous
<1>1. InfiniteInv => PagesContiguous
  <2> SUFFICES ASSUME InfiniteInv, Cardinality(setup.live) = 1,
                      "set_infinite_data" \notin setup.calls, data.has
               PROVE  /\ data.pages = data.params
                      /\ \A i \in 1..(Len(data.pages) - 1) : data.pages[i + 1] = data.pages[i] + 1
                      /\ setup.max # NoMax => Len(data.pages) <= IF setup.max = 0 THEN 1 ELSE setup.max
                      /\ setup.max # 0 => data.pages # <<>>
    BY DEF PagesContiguous
  <2>1. IsFiniteSet(setup.live)
    BY SetupFacts, InfiniteFetchAssumption, FS_Subset DEF InfiniteInv
  <2>2. \E w : setup.live = {w}
    BY <2>1, FS_Singleton
  <2>3. Solo
    BY <2>2, SetupFacts DEF Solo, InfiniteInv
  <2> QED
    BY <2>3 DEF InfiniteInv, PagesInv, Consecutive, Fitting
<1> QED
  BY <1>1, InfiniteInvInit, InfiniteInvStep, PTL DEF Spec

\* The in-flight entry of the key stands for a page fetch that is under way,
\* unless one panicked, which leaves it behind; so is_fetching does not stay true
\* and page requests are not dropped for ever.  On one thread, when nobody cancels
\* or clears, it stands for one fetch only (infinite_executor.rs: set_in_flight and
\* clear_in_flight).
THEOREM EntryIsOwned == Spec => []InFlightIsOwned
<1>1. InfiniteInv => InFlightIsOwned
  <2> SUFFICES ASSUME InfiniteInv PROVE OnePageFetch
    BY DEF InfiniteInv, InFlightIsOwned
  <2> SUFFICES ASSUME Undisturbed
               PROVE  Cardinality({o \in Observers : pc[o] \in Window}) <= 1
    BY DEF OnePageFetch, Undisturbed
  <2> DEFINE W == {o \in Observers : pc[o] \in Window}
  <2>1. \A o, p \in W : o = p
    BY DEF InfiniteInv, OneInv
  <2>2. W = {} \/ \E o : W = {o}
    <3>1. CASE W # {}
      <4>1. PICK o : o \in W
        BY <3>1
      <4>2. W = {o}
        BY <2>1, <4>1
      <4> QED
        BY <4>2
    <3> QED
      BY <3>1
  <2> HIDE DEF W
  <2>3. Cardinality(W) \in {0, 1}
    BY <2>2, FS_EmptySet, FS_Singleton
  <2> QED
    BY <2>3 DEF W
<1> QED
  BY <1>1, InfiniteInvInit, InfiniteInvStep, PTL DEF Spec
====
