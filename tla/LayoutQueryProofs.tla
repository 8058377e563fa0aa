------------------------- MODULE LayoutQueryProofs -------------------------
(***************************************************************************)
(* Proofs about LayoutQuery, for every set of concurrent GetLayout calls.  *)
(***************************************************************************)
EXTENDS LayoutQuery, TLAPS, SequenceTheorems

\* The requests on the wire: ListPanes directly follows its own ListTabs.
PanesFollowTheirTabs ==
  \A i \in 1 .. Len(script) :
    script[i].kind = "panes" => i > 1 /\ script[i - 1].q = script[i].q

\* The reader has a Log in hand only between recv() and its match, and it is
\* the last one received.
HandIsLastTaken ==
  hand # NoLog => hand = taken /\ reader \in {"got", "match"}

\* The tabs Log held in the slot is the last one matched: nothing has been
\* matched since, and the next Log to be matched is the next one fired.
TabsAreLastMatched ==
  slot.tabs # NoLog =>
     slot.q # None /\ slot.tabs = (IF hand = NoLog THEN taken ELSE taken - 1)

\* The two Logs of a snapshot were adjacent, the second one a panes Log.
AnswersAdjacent ==
  \A q \in Query : rpc[q] = "snapshot" =>
    /\ answer[q].panes \in 1 .. Len(script)
    /\ answer[q].panes = answer[q].tabs + 1
    /\ script[answer[q].panes].kind = "panes"

LogOrder == PanesFollowTheirTabs /\ HandIsLastTaken /\ TabsAreLastMatched

IInv == TypeOK /\ LogOrder /\ AnswersAdjacent

----------------------------------------------------------------------------
\* What Cancel leaves alone: calls that are not waiting, and the type of rpc.
LEMMA CancelSpares ==
  ASSUME rpc \in [Query -> {"idle", "found", "waiting", "snapshot", "fallback"}],
         NEW S, Cancel(S)
  PROVE  /\ rpc' \in [Query -> {"idle", "found", "waiting", "snapshot", "fallback"}]
         /\ \A q \in Query : rpc'[q] = "snapshot" => rpc[q] = "snapshot"
BY DEF Cancel

\* The shape of the request history after a fire of n requests.
LEMMA Firing ==
  ASSUME script \in Seq(Request), NEW q \in Query, NEW n \in 0 .. 2,
         NEW s, s = script \o SubSeq(<<[q |-> q, kind |-> "tabs"],
                                       [q |-> q, kind |-> "panes"]>>, 1, n)
  PROVE  /\ s \in Seq(Request)
         /\ Len(s) = Len(script) + n
         /\ \A i \in 1 .. Len(script) : s[i] = script[i]
         /\ n >= 1 => s[Len(script) + 1] = [q |-> q, kind |-> "tabs"]
         /\ n >= 2 => s[Len(script) + 2] = [q |-> q, kind |-> "panes"]
<1> DEFINE pair == <<[q |-> q, kind |-> "tabs"], [q |-> q, kind |-> "panes"]>>
           add  == SubSeq(pair, 1, n)
<1>1. pair \in Seq(Request) /\ Len(pair) = 2
  BY DEF Request, Kind
<1>2. /\ add \in Seq(Request)
      /\ Len(add) = n
      /\ \A i \in 1 .. n : add[i] = pair[i]
  BY <1>1
<1>3. QED
  BY <1>1, <1>2

\* Steps that touch neither the Logs nor the slot keep the Logs in order.
LEMMA LogOrderFrame ==
  ASSUME LogOrder, script' = script, slot' = slot, hand' = hand, taken' = taken,
         reader' = reader
  PROVE  LogOrder'
BY DEF LogOrder, PanesFollowTheirTabs, HandIsLastTaken, TabsAreLastMatched

LEMMA InitIInv == Init => IInv
<1> SUFFICES ASSUME Init PROVE IInv
  OBVIOUS
<1>1. RpcTypeOK
  <2>1. clean \in [DOMAIN clean -> Nat] /\ DOMAIN clean \subseteq Query
    BY DEF Init
  <2>2. rpc \in [Query -> {"idle", "found", "waiting", "snapshot", "fallback"}]
    BY DEF Init
  <2>3. answer \in [Query -> [tabs : Nat, panes : Nat]]
    BY DEF Init, Unanswered, NoLog
  <2>4. QED
    BY <2>1, <2>2, <2>3 DEF RpcTypeOK
<1>2. InboundTypeOK
  BY DEF Init, InboundTypeOK
<1>3. ReaderTypeOK
  BY DEF Init, ReaderTypeOK, NoLog, Empty
<1>4. LinkTypeOK
  BY QueryAssumption DEF Init, LinkTypeOK
<1>5. AnswersAdjacent
  BY DEF Init, AnswersAdjacent
<1>6. LogOrder
  <2>1. PanesFollowTheirTabs
    BY DEF Init, PanesFollowTheirTabs
  <2>2. HandIsLastTaken /\ TabsAreLastMatched
    BY DEF Init, HandIsLastTaken, TabsAreLastMatched, Empty, NoLog
  <2>3. QED
    BY <2>1, <2>2 DEF LogOrder
<1>7. QED
  BY <1>1, <1>2, <1>3, <1>4, <1>5, <1>6 DEF IInv, TypeOK

----------------------------------------------------------------------------
(* The steps of the RPCs.                                                  *)

LEMMA RpcStep ==
  ASSUME IInv, NEW q \in Query, Lookup(q) \/ SendQuery(q) \/ Timeout(q)
  PROVE  IInv'
<1>1. /\ UNCHANGED <<answer, clean, inbound, firing, readerVars, linkVars>>
      /\ \A p \in Query : rpc'[p] = "snapshot" => rpc[p] = "snapshot"
      /\ rpc' \in [Query -> {"idle", "found", "waiting", "snapshot", "fallback"}]
      /\ ctrl' \in Seq(Query)
  <2>1. rpc \in [Query -> {"idle", "found", "waiting", "snapshot", "fallback"}]
    BY DEF IInv, TypeOK, RpcTypeOK
  <2>2. ctrl \in Seq(Query)
    BY DEF IInv, TypeOK, InboundTypeOK
  <2>3. CASE Lookup(q)
    BY <2>1, <2>2, <2>3 DEF Lookup, inbVars
  <2>4. CASE SendQuery(q)
    BY <2>1, <2>2, <2>4 DEF SendQuery
  <2>5. CASE Timeout(q)
    BY <2>1, <2>2, <2>5 DEF Timeout, inbVars
  <2>6. QED
    BY <2>3, <2>4, <2>5
<1>2. TypeOK'
  BY <1>1 DEF IInv, TypeOK, RpcTypeOK, InboundTypeOK, ReaderTypeOK, LinkTypeOK,
     readerVars, linkVars
<1>3. AnswersAdjacent'
  BY <1>1 DEF IInv, AnswersAdjacent, linkVars
<1>4. QED
  BY <1>1, <1>2, <1>3, LogOrderFrame DEF IInv, readerVars, linkVars

----------------------------------------------------------------------------
(* The steps of the inbound task.                                          *)

LEMMA ArmStep == ASSUME IInv, ArmQuery PROVE IInv'
<1>1. /\ UNCHANGED <<answer, inbound, slot, reader, hand, linkVars>>
      /\ Head(ctrl) \in Query
      /\ ctrl' \in Seq(Query)
  BY DEF ArmQuery, IInv, TypeOK, InboundTypeOK
<1>2. /\ rpc' \in [Query -> {"idle", "found", "waiting", "snapshot", "fallback"}]
      /\ \A p \in Query : rpc'[p] = "snapshot" => rpc[p] = "snapshot"
  BY CancelSpares DEF ArmQuery, IInv, TypeOK, RpcTypeOK
<1>3. /\ DOMAIN clean' \subseteq Query
      /\ clean' \in [DOMAIN clean' -> Nat]
  <2>1. CASE clean' = clean
    BY <2>1 DEF IInv, TypeOK, RpcTypeOK
  <2>2. CASE clean' = [p \in DOMAIN clean \cup {Head(ctrl)} |->
                         IF p = Head(ctrl) THEN Len(script) ELSE clean[p]]
    BY <1>1, <2>2 DEF IInv, TypeOK, RpcTypeOK, LinkTypeOK
  <2>3. QED
    BY <2>1, <2>2 DEF ArmQuery
<1>4. armed' \in Seq(Query) /\ firing' \in SUBSET Query
  <2>1. armed' = armed \/ armed' = Append(armed, Head(ctrl))
    BY DEF ArmQuery
  <2>2. firing' = firing \/ firing' = {Head(ctrl)}
    BY DEF ArmQuery
  <2>3. armed \in Seq(Query) /\ firing \in SUBSET Query
    BY DEF IInv, TypeOK, ReaderTypeOK, InboundTypeOK
  <2>4. QED
    BY <1>1, <2>1, <2>2, <2>3
<1>5. TypeOK'
  BY <1>1, <1>2, <1>3, <1>4 DEF IInv, TypeOK, RpcTypeOK, InboundTypeOK,
     ReaderTypeOK, LinkTypeOK, linkVars
<1>6. AnswersAdjacent'
  BY <1>1, <1>2 DEF IInv, AnswersAdjacent, linkVars
<1>7. QED
  BY <1>1, <1>5, <1>6, LogOrderFrame DEF IInv, linkVars

LEMMA FireStep == ASSUME IInv, FireQuery PROVE IInv'
<1>1. PICK q \in firing, n \in 0 .. 2 :
        /\ script' = script \o SubSeq(<<[q |-> q, kind |-> "tabs"],
                                        [q |-> q, kind |-> "panes"]>>, 1, n)
        /\ link' = IF n = 2 THEN link ELSE "down"
  BY DEF FireQuery
<1>2. q \in Query
  BY DEF IInv, TypeOK, InboundTypeOK
<1>3. /\ script' \in Seq(Request)
      /\ Len(script') = Len(script) + n
      /\ \A i \in 1 .. Len(script) : script'[i] = script[i]
      /\ n >= 1 => script'[Len(script) + 1] = [q |-> q, kind |-> "tabs"]
      /\ n >= 2 => script'[Len(script) + 2] = [q |-> q, kind |-> "panes"]
  BY <1>1, <1>2, Firing DEF IInv, TypeOK, LinkTypeOK
<1>4. /\ UNCHANGED <<rpc, answer, clean, ctrl, inbound, readerVars>>
      /\ UNCHANGED <<answered, taken, noise, sent>>
      /\ firing' = {}
  BY DEF FireQuery
<1>5. Len(script) \in Nat /\ n \in 0 .. 2
  BY DEF IInv, TypeOK, LinkTypeOK
<1>6. TypeOK'
  <2>1. LinkTypeOK'
    BY <1>1, <1>3, <1>4, <1>5 DEF IInv, TypeOK, LinkTypeOK
  <2>2. QED
    BY <1>4, <2>1 DEF IInv, TypeOK, RpcTypeOK, InboundTypeOK, ReaderTypeOK, readerVars
<1>7. PanesFollowTheirTabs'
  <2> SUFFICES ASSUME NEW i \in 1 .. Len(script'), script'[i].kind = "panes"
               PROVE  i > 1 /\ script'[i - 1].q = script'[i].q
    BY DEF PanesFollowTheirTabs
  <2>1. CASE i \in 1 .. Len(script)
    <3>1. /\ script[i].kind = "panes"
          /\ i \in Nat
          /\ script'[i] = script[i]
      BY <1>3, <2>1
    <3>2. i > 1 /\ script[i - 1].q = script[i].q
      BY <2>1, <3>1 DEF IInv, LogOrder, PanesFollowTheirTabs
    <3>3. i - 1 \in 1 .. Len(script)
      BY <1>5, <2>1, <3>2
    <3>4. QED
      BY <1>3, <3>1, <3>2, <3>3
  <2>2. CASE i = Len(script) + 1 /\ n >= 1
    BY <1>3, <2>2
  <2>3. CASE i = Len(script) + 2 /\ n >= 2
    BY <1>3, <1>5, <2>3
  <2>4. QED
    BY <1>3, <1>5, <2>1, <2>2, <2>3
<1>8. AnswersAdjacent'
  BY <1>3, <1>4, <1>5 DEF IInv, AnswersAdjacent
<1>9. HandIsLastTaken' /\ TabsAreLastMatched'
  BY <1>4 DEF IInv, LogOrder, HandIsLastTaken, TabsAreLastMatched, readerVars
<1>10. QED
  BY <1>6, <1>7, <1>8, <1>9 DEF IInv, LogOrder

LEMMA TeardownStep == ASSUME IInv, Deregister \/ Shutdown \/ Join PROVE IInv'
<1>1. /\ UNCHANGED <<answer, clean, firing, readerVars, script, answered, taken, sent>>
      /\ rpc' \in [Query -> {"idle", "found", "waiting", "snapshot", "fallback"}]
      /\ \A p \in Query : rpc'[p] = "snapshot" => rpc[p] = "snapshot"
  BY CancelSpares DEF Deregister, Shutdown, Join, linkVars, IInv, TypeOK, RpcTypeOK
<1>2. InboundTypeOK'
  <2>1. ctrl' = ctrl \/ ctrl' = <<>>
    BY DEF Deregister, Shutdown, Join
  <2>2. inbound' \in {"leaving", "joining", "gone"} /\ firing' = firing
    BY DEF Deregister, Shutdown, Join
  <2>3. <<>> \in Seq(Query)
    OBVIOUS
  <2>4. ctrl' \in Seq(Query)
    BY <2>1, <2>3 DEF IInv, TypeOK, InboundTypeOK
  <2>5. QED
    BY <2>2, <2>4 DEF IInv, TypeOK, InboundTypeOK
<1>3. LinkTypeOK'
  BY DEF Deregister, Shutdown, Join, IInv, TypeOK, LinkTypeOK, linkVars
<1>4. AnswersAdjacent'
  BY <1>1 DEF IInv, AnswersAdjacent
<1>5. QED
  <2>1. TypeOK'
    BY <1>1, <1>2, <1>3 DEF IInv, TypeOK, RpcTypeOK, ReaderTypeOK, readerVars
  <2>2. QED
    BY <1>1, <1>4, <2>1, LogOrderFrame DEF IInv, readerVars

----------------------------------------------------------------------------
(* The steps of the reader thread.                                         *)

\* What drain_queries and every way out of render_loop have in common: calls
\* are only cancelled, and a slot they leave with a tabs Log had it before.
LEMMA DrainOrLeave ==
  ASSUME IInv, Drain \/ Leave
  PROVE  /\ rpc' \in [Query -> {"idle", "found", "waiting", "snapshot", "fallback"}]
         /\ \A p \in Query : rpc'[p] = "snapshot" => rpc[p] = "snapshot"
         /\ armed' \in Seq(Query)
         /\ slot' \in [q : Query \cup {None}, tabs : Nat]
         /\ slot'.tabs # NoLog => slot' = slot
<1>1. /\ rpc \in [Query -> {"idle", "found", "waiting", "snapshot", "fallback"}]
      /\ armed \in Seq(Query)
      /\ slot \in [q : Query \cup {None}, tabs : Nat]
  BY DEF IInv, TypeOK, RpcTypeOK, ReaderTypeOK
<1>2. Empty \in [q : Query \cup {None}, tabs : Nat] /\ Empty.tabs = NoLog
  BY DEF Empty, NoLog
<1>3. <<>> \in Seq(Query)
  OBVIOUS
<1>4. CASE Leave
  BY <1>1, <1>2, <1>3, <1>4, CancelSpares DEF Leave
<1>5. CASE Drain /\ armed = <<>>
  BY <1>1, <1>2, <1>5 DEF Drain
<1>6. CASE Drain /\ armed # <<>>
  <2>1. armed[Len(armed)] \in Query
    BY <1>1, <1>6
  <2>2. slot' = Held(armed[Len(armed)], NoLog) /\ armed' = <<>>
    BY <1>6 DEF Drain
  <2>3. slot' \in [q : Query \cup {None}, tabs : Nat] /\ slot'.tabs = NoLog
    BY <2>1, <2>2 DEF Held, NoLog
  <2>4. PICK S : Cancel(S)
    BY <1>6 DEF Drain
  <2>5. QED
    BY <1>1, <1>3, <2>2, <2>3, <2>4, CancelSpares
<1>7. QED
  BY <1>4, <1>5, <1>6

\* BeforeRecv, AfterRecv, RecvEnd and ForwardOther: they match no Log.
LEMMA LoopStep ==
  ASSUME IInv, BeforeRecv \/ AfterRecv \/ RecvEnd \/ ForwardOther
  PROVE  IInv'
<1>1. UNCHANGED <<answer, clean, inbVars, linkVars>>
  BY DEF BeforeRecv, AfterRecv, RecvEnd, ForwardOther
<1>2. /\ rpc' \in [Query -> {"idle", "found", "waiting", "snapshot", "fallback"}]
      /\ \A p \in Query : rpc'[p] = "snapshot" => rpc[p] = "snapshot"
      /\ armed' \in Seq(Query)
      /\ slot' \in [q : Query \cup {None}, tabs : Nat]
      /\ slot'.tabs # NoLog => slot' = slot
  <2>1. CASE Drain \/ Leave
    BY <2>1, DrainOrLeave
  <2>2. CASE UNCHANGED <<rpc, armed, slot>>
    BY <2>2 DEF IInv, TypeOK, RpcTypeOK, ReaderTypeOK
  <2>3. QED
    BY <2>1, <2>2 DEF BeforeRecv, AfterRecv, RecvEnd, ForwardOther
<1>3. /\ hand' = hand /\ (hand # NoLog => reader' = "match")
      /\ reader' \in {"top", "recv", "match", "exited"}
      \/ /\ hand' = NoLog /\ slot'.tabs = NoLog
         /\ reader' = "exited"
  <2>1. hand # NoLog => reader \in {"got", "match"}
    BY DEF IInv, LogOrder, HandIsLastTaken
  <2>2. Leave => hand' = NoLog /\ slot'.tabs = NoLog /\ reader' = "exited"
    BY DEF Leave, Empty, NoLog
  <2>3. QED
    BY <2>1, <2>2 DEF BeforeRecv, AfterRecv, RecvEnd, ForwardOther
<1>4. TypeOK'
  <2>1. hand' \in Nat /\ reader' \in {"top", "recv", "got", "match", "exited"}
    BY <1>3 DEF IInv, TypeOK, ReaderTypeOK, NoLog
  <2>2. ReaderTypeOK'
    BY <1>2, <2>1 DEF ReaderTypeOK
  <2>3. RpcTypeOK' /\ InboundTypeOK' /\ LinkTypeOK'
    BY <1>1, <1>2 DEF IInv, TypeOK, RpcTypeOK, InboundTypeOK, LinkTypeOK, inbVars, linkVars
  <2>4. QED
    BY <2>2, <2>3 DEF TypeOK
<1>5. LogOrder'
  <2>1. PanesFollowTheirTabs'
    BY <1>1 DEF IInv, LogOrder, PanesFollowTheirTabs, linkVars
  <2>2. HandIsLastTaken'
    BY <1>1, <1>3 DEF IInv, LogOrder, HandIsLastTaken, linkVars
  <2>3. TabsAreLastMatched'
    BY <1>1, <1>2, <1>3 DEF IInv, LogOrder, TabsAreLastMatched, linkVars
  <2>4. QED
    BY <2>1, <2>2, <2>3 DEF LogOrder
<1>6. AnswersAdjacent'
  BY <1>1, <1>2 DEF IInv, AnswersAdjacent, linkVars
<1>7. QED
  BY <1>4, <1>5, <1>6 DEF IInv

LEMMA RecvStep == ASSUME IInv, RecvLog \/ RecvOther PROVE IInv'
<1>1. /\ UNCHANGED <<rpc, answer, clean, inbVars, armed, slot, script, answered, sent, link>>
      /\ reader = "recv" /\ reader' = "got"
      /\ \/ hand' = hand /\ taken' = taken /\ noise > 0 /\ noise' = noise - 1
         \/ hand' = taken + 1 /\ taken' = taken + 1 /\ taken < answered /\ noise' = noise
  BY DEF RecvLog, RecvOther
<1>2. hand = NoLog
  BY <1>1 DEF IInv, LogOrder, HandIsLastTaken
<1>3. taken \in Nat /\ answered \in Nat /\ taken \in 0 .. answered /\ noise \in Nat
  BY DEF IInv, TypeOK, LinkTypeOK
<1>4. taken' \in 0 .. answered' /\ noise' \in Nat /\ hand' \in Nat
  BY <1>1, <1>2, <1>3 DEF NoLog
<1>5. TypeOK'
  BY <1>1, <1>4 DEF IInv, TypeOK, RpcTypeOK, InboundTypeOK, ReaderTypeOK, LinkTypeOK, inbVars
<1>6. PanesFollowTheirTabs'
  BY <1>1 DEF IInv, LogOrder, PanesFollowTheirTabs
<1>7. HandIsLastTaken' /\ TabsAreLastMatched'
  BY <1>1, <1>2, <1>3 DEF IInv, LogOrder, HandIsLastTaken, TabsAreLastMatched, NoLog
<1>8. AnswersAdjacent'
  BY <1>1 DEF IInv, AnswersAdjacent
<1>9. QED
  BY <1>5, <1>6, <1>7, <1>8 DEF IInv, LogOrder

\* The one step that fulfils a reply: the Log in hand directly follows the
\* one in the slot, and only a panes Log completes a snapshot.
LEMMA CaptureStep == ASSUME IInv, CaptureLog PROVE IInv'
<1>1. /\ UNCHANGED <<clean, inbVars, armed, linkVars>>
      /\ reader' = "top" /\ hand' = NoLog
      /\ hand # NoLog
  BY DEF CaptureLog
<1>2. /\ hand = taken /\ taken \in 1 .. Len(script)
      /\ hand \in Nat
      /\ Len(script) \in Nat
  BY <1>1 DEF IInv, LogOrder, HandIsLastTaken, TypeOK, LinkTypeOK, ReaderTypeOK, NoLog
<1>3. /\ rpc \in [Query -> {"idle", "found", "waiting", "snapshot", "fallback"}]
      /\ answer \in [Query -> [tabs : Nat, panes : Nat]]
      /\ slot \in [q : Query \cup {None}, tabs : Nat]
  BY DEF IInv, TypeOK, RpcTypeOK, ReaderTypeOK
<1>4. Empty \in [q : Query \cup {None}, tabs : Nat] /\ Empty.tabs = NoLog
  BY DEF Empty, NoLog
<1> DEFINE Keeps(s) == rpc' = rpc /\ answer' = answer /\ slot' = s
           Fulfils == /\ slot' = Empty
                      /\ slot.q \in Query /\ slot.tabs # NoLog
                      /\ Parses(slot.tabs, hand)
                      /\ rpc' = [rpc EXCEPT ![slot.q] = "snapshot"]
                      /\ answer' = [answer EXCEPT
                                      ![slot.q] = [tabs |-> slot.tabs, panes |-> hand]]
           Fails   == /\ slot' = Empty /\ answer' = answer
                      /\ rpc' = [rpc EXCEPT ![slot.q] = "fallback"]
<1>5. \/ slot.tabs = NoLog /\ Keeps(slot)
      \/ slot.q = None /\ Keeps(slot)
      \/ Keeps(Empty)
      \/ slot.q # None /\ Keeps(Held(slot.q, hand))
      \/ Fulfils
      \/ Fails
  BY <1>3 DEF CaptureLog
<1>6. CASE Fulfils
  <2>1. slot.tabs = hand - 1
    BY <1>1, <1>2, <1>6 DEF IInv, LogOrder, TabsAreLastMatched, NoLog
  <2>2. AnswersAdjacent'
    <3> SUFFICES ASSUME NEW p \in Query, rpc'[p] = "snapshot"
                 PROVE  /\ answer'[p].panes \in 1 .. Len(script)
                        /\ answer'[p].panes = answer'[p].tabs + 1
                        /\ script[answer'[p].panes].kind = "panes"
      BY <1>1 DEF AnswersAdjacent, linkVars
    <3>1. CASE p = slot.q
      <4>1. answer'[p] = [tabs |-> slot.tabs, panes |-> hand]
        BY <1>3, <1>6, <3>1
      <4>2. QED
        BY <1>2, <1>6, <2>1, <4>1 DEF Parses
    <3>2. CASE p # slot.q
      BY <1>3, <1>6, <3>2 DEF IInv, AnswersAdjacent
    <3>3. QED
      BY <3>1, <3>2
  <2>3. /\ rpc' \in [Query -> {"idle", "found", "waiting", "snapshot", "fallback"}]
        /\ answer' \in [Query -> [tabs : Nat, panes : Nat]]
    BY <1>2, <1>3, <1>6
  <2>4. QED
    BY <1>1, <1>4, <1>6, <2>2, <2>3 DEF IInv, TypeOK, RpcTypeOK, InboundTypeOK,
       ReaderTypeOK, LinkTypeOK, LogOrder, PanesFollowTheirTabs, HandIsLastTaken,
       TabsAreLastMatched, inbVars, linkVars, NoLog
<1>7. CASE ~Fulfils
  <2>1. /\ rpc' \in [Query -> {"idle", "found", "waiting", "snapshot", "fallback"}]
        /\ \A p \in Query : rpc'[p] = "snapshot" => rpc[p] = "snapshot"
        /\ answer' = answer
    BY <1>3, <1>5, <1>7
  <2>2. /\ slot' \in [q : Query \cup {None}, tabs : Nat]
        /\ slot'.tabs # NoLog => slot'.q # None /\ slot'.tabs = hand
    <3>1. slot.q = None => slot.tabs = NoLog
      BY DEF IInv, LogOrder, TabsAreLastMatched
    <3>2. QED
      BY <1>2, <1>3, <1>4, <1>5, <1>7, <3>1 DEF Held
  <2>3. AnswersAdjacent'
    BY <1>1, <2>1 DEF IInv, AnswersAdjacent, linkVars
  <2>4. QED
    BY <1>1, <1>2, <2>1, <2>2, <2>3 DEF IInv, TypeOK, RpcTypeOK, InboundTypeOK,
       ReaderTypeOK, LinkTypeOK, LogOrder, PanesFollowTheirTabs, HandIsLastTaken,
       TabsAreLastMatched, inbVars, linkVars, NoLog
<1>8. QED
  BY <1>6, <1>7

----------------------------------------------------------------------------
(* The steps of the server, and the theorems.                              *)

LEMMA ServerStep == ASSUME IInv, Server PROVE IInv'
<1>1. /\ UNCHANGED <<rpc, answer, clean, inbVars, readerVars, script, taken>>
      /\ \/ UNCHANGED <<answered, noise, sent>> /\ link' = "down"
         \/ answered < Len(script) /\ answered' = answered + 1 /\ UNCHANGED <<noise, sent, link>>
         \/ sent < MaxNoise /\ sent' = sent + 1 /\ noise' = noise + 1 /\ UNCHANGED <<answered, link>>
  BY DEF Server, ServerAnswers, ServerRenders, ServerCloses
<1>2. LinkTypeOK'
  BY <1>1, QueryAssumption DEF IInv, TypeOK, LinkTypeOK
<1>3. TypeOK'
  BY <1>1, <1>2 DEF IInv, TypeOK, RpcTypeOK, InboundTypeOK, ReaderTypeOK, inbVars, readerVars
<1>4. AnswersAdjacent'
  BY <1>1 DEF IInv, AnswersAdjacent
<1>5. QED
  BY <1>1, <1>3, <1>4, LogOrderFrame DEF IInv, readerVars

LEMMA StutterStep == ASSUME IInv, UNCHANGED vars PROVE IInv'
<1>1. UNCHANGED <<rpc, answer, clean, inbVars, readerVars, linkVars>>
  BY DEF vars
<1>2. TypeOK'
  BY <1>1 DEF IInv, TypeOK, RpcTypeOK, InboundTypeOK, ReaderTypeOK, LinkTypeOK,
     inbVars, readerVars, linkVars
<1>3. AnswersAdjacent'
  BY <1>1 DEF IInv, AnswersAdjacent, linkVars
<1>4. QED
  BY <1>1, <1>2, <1>3, LogOrderFrame DEF IInv, readerVars, linkVars

LEMMA NextIInv == IInv /\ [Next]_vars => IInv'
<1> SUFFICES ASSUME IInv, [Next]_vars PROVE IInv'
  OBVIOUS
<1>1. CASE Rpc
  BY <1>1, RpcStep DEF Rpc
<1>2. CASE Inbound
  BY <1>2, ArmStep, FireStep, TeardownStep DEF Inbound
<1>3. CASE Reader
  BY <1>3, LoopStep, RecvStep, CaptureStep DEF Reader
<1>4. CASE Server
  BY <1>4, ServerStep
<1>5. CASE UNCHANGED vars
  BY <1>5, StutterStep
<1>6. QED
  BY <1>1, <1>2, <1>3, <1>4, <1>5 DEF Next

\* Every variable keeps its type, and the Logs received never outnumber the
\* answers, nor the answers the requests.
THEOREM TypeCorrect == Spec => []TypeOK
<1>1. IInv => TypeOK
  BY DEF IInv
<1>2. QED
  BY InitIInv, NextIInv, <1>1, PTL DEF Spec

\* For any number of concurrent GetLayout calls, whatever is timed out,
\* replaced or left behind, no snapshot is ever parsed from the tabs of one
\* query and the panes of another.
THEOREM SnapshotsAreNeverTorn == Spec => []NeverTorn
<1>1. ASSUME IInv PROVE NeverTorn
  <2> SUFFICES ASSUME NEW q \in Query, rpc[q] = "snapshot"
               PROVE  script[answer[q].tabs].q = script[answer[q].panes].q
    BY DEF NeverTorn
  <2>1. /\ answer[q].panes \in 1 .. Len(script)
        /\ answer[q].panes = answer[q].tabs + 1
        /\ script[answer[q].panes].kind = "panes"
    BY <1>1 DEF IInv, AnswersAdjacent
  <2>2. script[answer[q].panes - 1].q = script[answer[q].panes].q
    BY <1>1, <2>1 DEF IInv, LogOrder, PanesFollowTheirTabs
  <2>3. answer[q].tabs \in Nat
    BY <1>1 DEF IInv, TypeOK, RpcTypeOK
  <2>4. QED
    BY <2>1, <2>2, <2>3
<1>2. QED
  BY InitIInv, NextIInv, <1>1, PTL DEF Spec

----------------------------------------------------------------------------
(* The relay implements LayoutRpc, its liveness apart.                     *)

\* What LayoutRpc sees of the relay.
CallOf == [q \in Query |-> IF rpc[q] \in {"found", "waiting"} THEN "pending" ELSE rpc[q]]
FiredOf == {script[i].q : i \in {j \in 1 .. Len(script) : script[j].kind = "panes"}}
FromOf == [q \in Query |-> IF answer[q] = Unanswered THEN {}
                           ELSE {script[answer[q].tabs].q, script[answer[q].panes].q}]

\* A query that is anywhere in the relay was asked for.
QueuedAreAsked ==
  \A q \in firing \cup InSlot \cup InArmed \cup InControl : rpc[q] # "idle"

\* Logs are put to the account of snapshots only.
OnlySnapshotsAnswered == \A q \in Query : rpc[q] # "snapshot" => answer[q] = Unanswered

PInv == IInv /\ QueuedAreAsked /\ OnlySnapshotsAnswered

PStep == [Promise!Next]_(Promise!vars)

LEMMA Sees ==
  /\ Promise!vars = <<CallOf, FiredOf, FromOf>>
  /\ Promise!Init <=> /\ CallOf = [q \in Query |-> "idle"] /\ FiredOf = {}
                      /\ FromOf = [q \in Query |-> {}]
BY DEF Promise!vars, Promise!Init, CallOf, FiredOf, FromOf

\* A step that shows nothing of itself, and one that ends some calls.
LEMMA Unseen ==
  ASSUME CallOf' = CallOf, FiredOf' = FiredOf, FromOf' = FromOf
  PROVE  PStep
BY DEF PStep, Promise!vars, CallOf, FiredOf, FromOf

LEMMA SeenAsGivingUp ==
  ASSUME NEW qs \in SUBSET Query, \A q \in qs : rpc[q] \in {"found", "waiting"},
         CallOf' = [q \in Query |-> IF q \in qs THEN "fallback" ELSE CallOf[q]],
         FiredOf' = FiredOf, FromOf' = FromOf
  PROVE  PStep
<1>1. CASE qs = {}
  <2>1. CallOf' = CallOf
    BY <1>1 DEF CallOf
  <2>2. QED
    BY <2>1, Unseen
<1>2. CASE qs # {}
  <2>1. PICK q \in qs : TRUE
    BY <1>2
  <2>2. Promise!GiveUp(qs)
    BY <1>2 DEF Promise!GiveUp, Promise!Pending, CallOf, FiredOf, FromOf
  <2>3. Promise!Ends(q)
    BY <2>1, <2>2 DEF Promise!Ends
  <2>4. QED
    BY <2>1, <2>3 DEF PStep, Promise!Next
<1>3. QED
  BY <1>1, <1>2

\* How a step that changes no Log is seen, by the calls it ends.
LEMMA SeenAsCancel ==
  ASSUME PInv, NEW S, Cancel(S), UNCHANGED <<answer, script>>
  PROVE  PStep
<1> DEFINE qs == {q \in Query : q \in S /\ rpc[q] = "waiting"}
<1>1. CallOf' = [q \in Query |-> IF q \in qs THEN "fallback" ELSE CallOf[q]]
  BY DEF Cancel, CallOf
<1>2. FiredOf' = FiredOf /\ FromOf' = FromOf
  BY DEF FiredOf, FromOf
<1>3. QED
  BY <1>1, <1>2, SeenAsGivingUp

LEMMA SeenAsNothing ==
  ASSUME UNCHANGED <<rpc, answer, script>>
  PROVE  PStep
BY Unseen DEF CallOf, FiredOf, FromOf

\* The queries of a step that queues none anew are asked for, if it makes no
\* call idle.
LEMMA AskedFrame ==
  ASSUME QueuedAreAsked,
         firing' \cup InSlot' \cup InArmed' \cup InControl' \subseteq
           firing \cup InSlot \cup InArmed \cup InControl,
         \A q \in firing \cup InSlot \cup InArmed \cup InControl :
           rpc[q] # "idle" => rpc'[q] # "idle"
  PROVE  QueuedAreAsked'
BY DEF QueuedAreAsked

\* Every query in the relay is one.
LEMMA QueuedAreQueries ==
  ASSUME TypeOK
  PROVE  firing \cup InSlot \cup InArmed \cup InControl \subseteq Query
BY DEF TypeOK, InboundTypeOK, ReaderTypeOK, InSlot, InArmed, InControl

LEMMA CancelKeepsAsked ==
  ASSUME TypeOK, NEW S, Cancel(S)
  PROVE  /\ \A q \in Query : rpc[q] # "idle" => rpc'[q] # "idle"
         /\ \A q \in Query : rpc'[q] # "snapshot" => rpc[q] # "snapshot"
BY DEF TypeOK, RpcTypeOK, Cancel

Kept == QueuedAreAsked' /\ OnlySnapshotsAnswered' /\ PStep

LEMMA RpcSeen ==
  ASSUME PInv, NEW q \in Query, Lookup(q) \/ SendQuery(q) \/ Timeout(q)
  PROVE  Kept
<1>1. /\ rpc \in [Query -> {"idle", "found", "waiting", "snapshot", "fallback"}]
      /\ ctrl \in Seq(Query)
  BY DEF PInv, IInv, TypeOK, RpcTypeOK, InboundTypeOK
<1>2. /\ UNCHANGED <<answer, firing, armed, slot, script>>
      /\ \E to \in {"found", "waiting", "fallback"} : rpc' = [rpc EXCEPT ![q] = to]
      /\ rpc[q] # "snapshot"
      /\ ctrl' \in {ctrl, Append(ctrl, q)}
  BY DEF Lookup, SendQuery, Timeout, inbVars, readerVars, linkVars
<1>3. \A p \in Query : /\ rpc[p] # "idle" => rpc'[p] # "idle"
                       /\ rpc'[p] # "snapshot" => rpc[p] # "snapshot"
  BY <1>1, <1>2
<1>4. OnlySnapshotsAnswered'
  BY <1>2, <1>3 DEF PInv, OnlySnapshotsAnswered
<1>5. QueuedAreAsked'
  <2>1. InControl' \subseteq InControl \cup {q}
    BY <1>1, <1>2 DEF InControl
  <2>2. InSlot' = InSlot /\ InArmed' = InArmed /\ firing' = firing
    BY <1>2 DEF InSlot, InArmed
  <2>3. rpc'[q] # "idle"
    BY <1>1, <1>2
  <2>4. QED
    BY <1>3, <2>1, <2>2, <2>3, QueuedAreQueries DEF PInv, IInv, QueuedAreAsked
<1>6. FiredOf' = FiredOf /\ FromOf' = FromOf
  BY <1>2 DEF FiredOf, FromOf
<1>7. PStep
  <2>1. CASE Lookup(q)
    <3>1. \E to \in {"pending", "fallback"} : CallOf' = [CallOf EXCEPT ![q] = to]
      BY <1>1, <2>1 DEF Lookup, CallOf
    <3>2. CallOf[q] = "idle"
      BY <2>1 DEF Lookup, CallOf
    <3>3. Promise!Ask(q)
      BY <1>6, <3>1, <3>2 DEF Promise!Ask, CallOf, FiredOf, FromOf
    <3>4. QED
      BY <3>3 DEF PStep, Promise!Next
  <2>2. CASE SendQuery(q) /\ rpc'[q] = "waiting"
    <3>1. CallOf' = CallOf
      BY <1>1, <2>2 DEF SendQuery, CallOf
    <3>2. QED
      BY <1>6, <3>1, Unseen
  <2>3. CASE (SendQuery(q) \/ Timeout(q)) /\ rpc' = [rpc EXCEPT ![q] = "fallback"]
    <3>1. rpc[q] \in {"found", "waiting"}
      BY <2>3 DEF SendQuery, Timeout
    <3>2. CallOf' = [p \in Query |-> IF p \in {q} THEN "fallback" ELSE CallOf[p]]
      BY <1>1, <2>3 DEF CallOf
    <3>3. QED
      BY <1>6, <3>1, <3>2, SeenAsGivingUp
  <2>4. QED
    BY <1>1, <2>1, <2>2, <2>3 DEF SendQuery, Timeout
<1>8. QED
  BY <1>4, <1>5, <1>7 DEF Kept

\* The steps that change no Log and cancel replies at most.
LEMMA QuietSeen ==
  ASSUME PInv, UNCHANGED <<answer, script>>,
         firing' \cup InSlot' \cup InArmed' \cup InControl' \subseteq
           firing \cup InSlot \cup InArmed \cup InControl,
         rpc' = rpc \/ \E S : Cancel(S)
  PROVE  Kept
<1>1. /\ \A q \in Query : rpc[q] # "idle" => rpc'[q] # "idle"
      /\ \A q \in Query : rpc'[q] # "snapshot" => rpc[q] # "snapshot"
  BY CancelKeepsAsked DEF PInv, IInv
<1>2. QueuedAreAsked'
  BY <1>1, AskedFrame, QueuedAreQueries DEF PInv, IInv
<1>3. OnlySnapshotsAnswered'
  BY <1>1 DEF PInv, OnlySnapshotsAnswered
<1>4. PStep
  BY SeenAsNothing, SeenAsCancel
<1>5. QED
  BY <1>2, <1>3, <1>4 DEF Kept

LEMMA ArmSeen == ASSUME PInv, ArmQuery PROVE Kept
<1>1. /\ armed \in Seq(Query) /\ ctrl \in Seq(Query) /\ ctrl # <<>>
      /\ ctrl' = Tail(ctrl)
      /\ firing' \in {firing, {Head(ctrl)}}
      /\ armed' \in {armed, Append(armed, Head(ctrl))}
      /\ UNCHANGED <<answer, script, slot>>
  BY DEF ArmQuery, PInv, IInv, TypeOK, InboundTypeOK, ReaderTypeOK, linkVars
<1>2. Head(ctrl) \in InControl /\ InControl' \subseteq InControl
  BY <1>1 DEF InControl
<1>3. InArmed' \subseteq InArmed \cup {Head(ctrl)}
  BY <1>1 DEF InArmed
<1>4. InSlot' = InSlot
  BY <1>1 DEF InSlot
<1>5. rpc' = rpc \/ \E S : Cancel(S)
  BY DEF ArmQuery
<1>6. QED
  BY <1>1, <1>2, <1>3, <1>4, <1>5, QuietSeen

LEMMA TeardownSeen == ASSUME PInv, Deregister \/ Shutdown \/ Join PROVE Kept
<1>1. /\ UNCHANGED <<answer, script, firing, armed, slot>>
      /\ ctrl' \in {ctrl, <<>>}
  BY DEF Deregister, Shutdown, Join, linkVars, readerVars
<1>2. InControl' \subseteq InControl /\ InSlot' = InSlot /\ InArmed' = InArmed
  BY <1>1 DEF InControl, InSlot, InArmed
<1>3. rpc' = rpc \/ \E S : Cancel(S)
  BY DEF Deregister, Shutdown, Join
<1>4. QED
  BY <1>1, <1>2, <1>3, QuietSeen

\* drain_queries and the ways out move queries to the slot or drop them.
LEMMA DrainMoves ==
  ASSUME TypeOK, Drain \/ Leave
  PROVE  /\ InSlot' \cup InArmed' \subseteq InSlot \cup InArmed
         /\ rpc' = rpc \/ \E S : Cancel(S)
<1>1. armed \in Seq(Query)
  BY DEF TypeOK, ReaderTypeOK
<1>2. rpc' = rpc \/ \E S : Cancel(S)
  BY DEF Drain, Leave
<1>3. CASE Leave
  BY <1>3, <1>2 DEF Leave, InSlot, InArmed, Empty
<1>4. CASE Drain /\ armed = <<>>
  BY <1>2, <1>4 DEF Drain, InSlot, InArmed, Empty
<1>5. CASE Drain /\ armed # <<>>
  <2>1. Len(armed) \in 1 .. Len(armed)
    BY <1>1, <1>5
  <2>2. InSlot' \subseteq {armed[Len(armed)]} /\ InArmed' = {}
    BY <1>5 DEF Drain, InSlot, InArmed, Held
  <2>3. QED
    BY <1>2, <2>1, <2>2 DEF InArmed
<1>6. QED
  BY <1>3, <1>4, <1>5

LEMMA LoopSeen ==
  ASSUME PInv, BeforeRecv \/ AfterRecv \/ RecvEnd \/ ForwardOther \/ RecvLog \/ RecvOther
  PROVE  Kept
<1>1. UNCHANGED <<answer, script, firing, ctrl>>
  BY DEF BeforeRecv, AfterRecv, RecvEnd, ForwardOther, RecvLog, RecvOther, inbVars, linkVars
<1>2. InControl' = InControl
  BY <1>1 DEF InControl
<1>3. Drain \/ Leave \/ UNCHANGED <<rpc, armed, slot>>
  BY DEF BeforeRecv, AfterRecv, RecvEnd, ForwardOther, RecvLog, RecvOther
<1>4. CASE Drain \/ Leave
  BY <1>1, <1>2, <1>4, DrainMoves, QuietSeen DEF PInv, IInv
<1>5. CASE UNCHANGED <<rpc, armed, slot>>
  <2>1. InSlot' = InSlot /\ InArmed' = InArmed
    BY <1>5 DEF InSlot, InArmed
  <2>2. QED
    BY <1>1, <1>2, <1>5, <2>1, QuietSeen
<1>6. QED
  BY <1>3, <1>4, <1>5

LEMMA ServerSeen == ASSUME PInv, Server \/ UNCHANGED vars PROVE Kept
<1>1. UNCHANGED <<rpc, answer, inbVars, readerVars, script>>
  BY DEF Server, ServerAnswers, ServerRenders, ServerCloses, vars, linkVars
<1>2. InControl' = InControl /\ InSlot' = InSlot /\ InArmed' = InArmed /\ firing' = firing
  BY <1>1 DEF InControl, InSlot, InArmed, inbVars, readerVars
<1>3. QED
  BY <1>1, <1>2, QuietSeen

\* The query that is fired was asked for, and counts once its ListPanes is sent.
LEMMA FireSeen == ASSUME PInv, FireQuery PROVE Kept
<1>1. PICK q \in firing, n \in 0 .. 2 :
        script' = script \o SubSeq(<<[q |-> q, kind |-> "tabs"],
                                     [q |-> q, kind |-> "panes"]>>, 1, n)
  BY DEF FireQuery
<1>2. q \in Query /\ rpc[q] # "idle"
  BY <1>1 DEF PInv, IInv, TypeOK, InboundTypeOK, QueuedAreAsked
<1>3. /\ Len(script') = Len(script) + n
      /\ \A i \in 1 .. Len(script) : script'[i] = script[i]
      /\ n >= 1 => script'[Len(script) + 1] = [q |-> q, kind |-> "tabs"]
      /\ n >= 2 => script'[Len(script) + 2] = [q |-> q, kind |-> "panes"]
  BY <1>1, <1>2, Firing DEF PInv, IInv, TypeOK, LinkTypeOK
<1>4. /\ UNCHANGED <<rpc, answer, ctrl, armed, slot>>
      /\ firing' = {}
  BY DEF FireQuery, readerVars
<1>5. QueuedAreAsked' /\ OnlySnapshotsAnswered'
  BY <1>4 DEF PInv, QueuedAreAsked, OnlySnapshotsAnswered, InSlot, InArmed, InControl
<1>6. Len(script) \in Nat
  BY DEF PInv, IInv, TypeOK, LinkTypeOK
<1>7. CallOf' = CallOf
  BY <1>4 DEF CallOf
<1>8. FromOf' = FromOf
  <2> SUFFICES ASSUME NEW p \in Query, answer[p] # Unanswered
               PROVE  /\ script'[answer[p].tabs] = script[answer[p].tabs]
                      /\ script'[answer[p].panes] = script[answer[p].panes]
    BY <1>4 DEF FromOf
  <2>1. rpc[p] = "snapshot"
    BY DEF PInv, OnlySnapshotsAnswered
  <2>2. /\ answer[p].panes \in 1 .. Len(script)
        /\ answer[p].panes = answer[p].tabs + 1
        /\ script[answer[p].panes].kind = "panes"
    BY <2>1 DEF PInv, IInv, AnswersAdjacent
  <2>3. answer[p].tabs \in Nat /\ answer[p].panes > 1
    BY <2>2 DEF PInv, IInv, LogOrder, PanesFollowTheirTabs, TypeOK, RpcTypeOK
  <2>4. answer[p].tabs \in 1 .. Len(script)
    BY <1>6, <2>2, <2>3
  <2>5. QED
    BY <1>3, <2>2, <2>4
<1>9. FiredOf' = IF n = 2 THEN FiredOf \cup {q} ELSE FiredOf
  <2>1. ASSUME NEW i \in 1 .. Len(script'), script'[i].kind = "panes"
        PROVE  script'[i].q \in IF n = 2 THEN FiredOf \cup {q} ELSE FiredOf
    <3>1. CASE i \in 1 .. Len(script)
      <4>1. script[i].q \in FiredOf
        BY <1>3, <2>1, <3>1 DEF FiredOf
      <4>2. QED
        BY <1>3, <3>1, <4>1
    <3>2. CASE i = Len(script) + 1 /\ n >= 1
      BY <1>3, <2>1, <3>2
    <3>3. CASE i = Len(script) + 2 /\ n = 2
      BY <1>3, <3>3
    <3>4. QED
      BY <1>3, <1>6, <3>1, <3>2, <3>3
  <2>2. FiredOf \subseteq FiredOf'
    <3> SUFFICES ASSUME NEW i \in 1 .. Len(script), script[i].kind = "panes"
                 PROVE  script[i].q \in FiredOf'
      BY DEF FiredOf
    <3>1. i \in 1 .. Len(script') /\ script'[i] = script[i]
      BY <1>3, <1>6
    <3>2. QED
      BY <3>1 DEF FiredOf
  <2>3. n = 2 => q \in FiredOf'
    <3>1. n = 2 => /\ Len(script) + 2 \in 1 .. Len(script')
                   /\ script'[Len(script) + 2] = [q |-> q, kind |-> "panes"]
      BY <1>3, <1>6
    <3>2. QED
      BY <3>1 DEF FiredOf
  <2>4. FiredOf' \subseteq IF n = 2 THEN FiredOf \cup {q} ELSE FiredOf
    BY <2>1 DEF FiredOf
  <2>5. QED
    BY <2>2, <2>3, <2>4
<1>10. PStep
  <2>1. CASE n = 2
    <3>1. Promise!Fire(q)
      BY <1>2, <1>7, <1>8, <1>9, <2>1 DEF Promise!Fire, CallOf, FiredOf, FromOf
    <3>2. QED
      BY <1>2, <3>1 DEF PStep, Promise!Next
  <2>2. CASE n # 2
    BY <1>7, <1>8, <1>9, <2>2, Unseen
  <2>3. QED
    BY <2>1, <2>2
<1>11. QED
  BY <1>5, <1>10 DEF Kept

\* The reply that is fulfilled is of one query that was fired, completely.
LEMMA CaptureSeen == ASSUME PInv, CaptureLog PROVE Kept
<1>1. /\ UNCHANGED <<firing, ctrl, armed, script>>
      /\ hand # NoLog
  BY DEF CaptureLog, inbVars, linkVars
<1>2. /\ hand = taken /\ hand \in 1 .. Len(script)
      /\ slot.tabs # NoLog => slot.tabs = hand - 1
  BY <1>1 DEF PInv, IInv, LogOrder, HandIsLastTaken, TabsAreLastMatched, TypeOK, LinkTypeOK,
     ReaderTypeOK, NoLog
<1>3. /\ rpc \in [Query -> {"idle", "found", "waiting", "snapshot", "fallback"}]
      /\ answer \in [Query -> [tabs : Nat, panes : Nat]]
      /\ slot \in [q : Query \cup {None}, tabs : Nat]
  BY DEF PInv, IInv, TypeOK, RpcTypeOK, ReaderTypeOK
<1>4. InArmed' = InArmed /\ InControl' = InControl /\ InSlot' \subseteq InSlot
  BY <1>1 DEF InArmed, InControl, InSlot, CaptureLog, Empty, Held
<1>5. CASE rpc' = rpc /\ answer' = answer
  BY <1>1, <1>4, <1>5, QuietSeen
<1>6. CASE /\ slot.q \in Query /\ rpc[slot.q] = "waiting" /\ answer' = answer
           /\ rpc' = [rpc EXCEPT ![slot.q] = "fallback"]
  <2>1. Cancel({slot.q})
    BY <1>3, <1>6 DEF Cancel
  <2>2. QED
    BY <1>1, <1>4, <1>6, <2>1, QuietSeen
<1>7. CASE /\ slot.q \in Query /\ rpc[slot.q] = "waiting" /\ slot.tabs # NoLog
           /\ script[hand].kind = "panes"
           /\ rpc' = [rpc EXCEPT ![slot.q] = "snapshot"]
           /\ answer' = [answer EXCEPT ![slot.q] = [tabs |-> slot.tabs, panes |-> hand]]
  <2>1. /\ \A p \in Query : rpc[p] # "idle" => rpc'[p] # "idle"
        /\ \A p \in Query : rpc'[p] # "snapshot" => rpc[p] # "snapshot" /\ answer'[p] = answer[p]
    BY <1>3, <1>7
  <2>2. QueuedAreAsked'
    BY <1>1, <1>4, <2>1, AskedFrame, QueuedAreQueries DEF PInv, IInv
  <2>3. OnlySnapshotsAnswered'
    BY <2>1 DEF PInv, OnlySnapshotsAnswered
  <2>4. script[slot.tabs].q = script[hand].q
    BY <1>2, <1>7 DEF PInv, IInv, LogOrder, PanesFollowTheirTabs
  <2>5. script[hand].q \in FiredOf
    BY <1>2, <1>7 DEF FiredOf
  <2>6. CallOf' = [CallOf EXCEPT ![slot.q] = "snapshot"] /\ CallOf[slot.q] = "pending"
    BY <1>3, <1>7 DEF CallOf
  <2>7. FromOf' = [FromOf EXCEPT ![slot.q] = {script[hand].q}]
    <3>1. answer'[slot.q] = [tabs |-> slot.tabs, panes |-> hand]
      BY <1>3, <1>7
    <3>2. answer'[slot.q] # Unanswered
      BY <1>7, <3>1 DEF Unanswered
    <3>3. \A p \in Query : p # slot.q => answer'[p] = answer[p]
      BY <1>3, <1>7
    <3>4. {script[answer'[slot.q].tabs].q, script[answer'[slot.q].panes].q} = {script[hand].q}
      BY <2>4, <3>1
    <3>5. QED
      BY <1>1, <3>2, <3>3, <3>4 DEF FromOf
  <2>8. FiredOf' = FiredOf
    BY <1>1 DEF FiredOf
  <2>9. PICK p \in Query : p = slot.q
    BY <1>7
  <2>10. PStep
    <3>1. Promise!Answer(p)
      BY <2>5, <2>6, <2>7, <2>8, <2>9 DEF Promise!Answer, CallOf, FiredOf, FromOf
    <3>2. Promise!Ends(p)
      BY <3>1 DEF Promise!Ends
    <3>3. QED
      BY <3>2 DEF PStep, Promise!Next
  <2>11. QED
    BY <2>2, <2>3, <2>10 DEF Kept
<1>8. QED
  BY <1>3, <1>5, <1>6, <1>7 DEF CaptureLog, Closed, Parses

LEMMA InitPromise == Init => QueuedAreAsked /\ OnlySnapshotsAnswered /\ Promise!Init
<1> SUFFICES ASSUME Init PROVE QueuedAreAsked /\ OnlySnapshotsAnswered /\ Promise!Init
  OBVIOUS
<1>1. QueuedAreAsked /\ OnlySnapshotsAnswered
  BY DEF Init, QueuedAreAsked, OnlySnapshotsAnswered, InSlot, InArmed, InControl, Empty
<1>2. CallOf = [q \in Query |-> "idle"] /\ FiredOf = {} /\ FromOf = [q \in Query |-> {}]
  BY DEF Init, CallOf, FiredOf, FromOf
<1>3. QED
  BY <1>1, <1>2, Sees

LEMMA NextPromise == PInv /\ [Next]_vars => Kept
<1> SUFFICES ASSUME PInv, [Next]_vars PROVE Kept
  OBVIOUS
<1>1. CASE Rpc
  BY <1>1, RpcSeen DEF Rpc
<1>2. CASE Inbound
  BY <1>2, ArmSeen, FireSeen, TeardownSeen DEF Inbound
<1>3. CASE Reader
  BY <1>3, LoopSeen, CaptureSeen DEF Reader
<1>4. CASE Server \/ UNCHANGED vars
  BY <1>4, ServerSeen
<1>5. QED
  BY <1>1, <1>2, <1>3, <1>4 DEF Next

\* The relay implements the safety part of LayoutRpc: each of its steps is a
\* step of some calls there, or none, whatever is timed out, replaced or left
\* behind, for any number of calls.
THEOREM RelayKeepsPromise == Spec => Promise!Spec
<1>1. Init => PInv /\ Promise!Init
  BY InitIInv, InitPromise DEF PInv
<1>2. PInv /\ [Next]_vars => PInv' /\ [Promise!Next]_(Promise!vars)
  BY NextIInv, NextPromise DEF PInv, Kept, PStep
<1>3. QED
  BY <1>1, <1>2, PTL DEF Spec, Promise!Spec

----------------------------------------------------------------------------
(* Where the queries are.                                                  *)

\* A query is in the relay, or was armed, only after it was sent, and once.
QueuedAreSent ==
  \A q \in DOMAIN clean \cup firing \cup InSlot \cup InArmed \cup InControl :
    rpc[q] \notin {"idle", "found"}

\* What is still in the control channel was never armed, nor answered.
ControlIsApart ==
  /\ InControl \cap (DOMAIN clean \cup firing \cup InSlot \cup InArmed) = {}
  /\ \A q \in InControl : rpc[q] # "snapshot"

ControlHasNoCopies == \A i, j \in 1 .. Len(ctrl) : ctrl[i] = ctrl[j] => i = j

Whereabouts == QueuedAreSent /\ ControlIsApart /\ ControlHasNoCopies

WInv == IInv /\ Whereabouts /\ NoOrphanedReply

\* Steps by which queries move on, or out, but not into the control channel.
LEMMA WhereaboutsFrame ==
  ASSUME TypeOK, Whereabouts, UNCHANGED <<clean, ctrl>>, firing' \subseteq firing,
         InSlot' \cup InArmed' \subseteq InSlot \cup InArmed,
         \A q \in Query : rpc[q] \notin {"idle", "found"} => rpc'[q] \notin {"idle", "found"},
         \A q \in InControl : rpc'[q] = "snapshot" => rpc[q] = "snapshot"
  PROVE  Whereabouts'
<1>1. InControl' = InControl
  BY DEF InControl
<1>2. DOMAIN clean \cup firing \cup InSlot \cup InArmed \cup InControl \subseteq Query
  BY QueuedAreQueries DEF TypeOK, RpcTypeOK
<1>3. QueuedAreSent'
  BY <1>1, <1>2 DEF Whereabouts, QueuedAreSent
<1>4. ControlIsApart'
  BY <1>1 DEF Whereabouts, ControlIsApart
<1>5. ControlHasNoCopies'
  BY DEF Whereabouts, ControlHasNoCopies
<1>6. QED
  BY <1>3, <1>4, <1>5 DEF Whereabouts

LEMMA RpcWhere ==
  ASSUME WInv, NEW q \in Query, Lookup(q) \/ SendQuery(q) \/ Timeout(q)
  PROVE  Whereabouts' /\ NoOrphanedReply'
<1>1. /\ rpc \in [Query -> {"idle", "found", "waiting", "snapshot", "fallback"}]
      /\ ctrl \in Seq(Query)
  BY DEF WInv, IInv, TypeOK, RpcTypeOK, InboundTypeOK
<1>2. InSlot' = InSlot /\ InArmed' = InArmed /\ firing' = firing /\ clean' = clean
  BY DEF Lookup, SendQuery, Timeout, inbVars, readerVars, InSlot, InArmed
<1>3. CASE ctrl' = ctrl /\ (Lookup(q) \/ Timeout(q) \/ rpc' = [rpc EXCEPT ![q] = "fallback"])
  <2>1. InControl' = InControl
    BY <1>3 DEF InControl
  <2>2. /\ \A p \in Query : rpc[p] \notin {"idle", "found"} => rpc'[p] \notin {"idle", "found"}
        /\ \A p \in Query : rpc'[p] = "snapshot" => rpc[p] = "snapshot"
        /\ \A p \in Query : rpc'[p] = "waiting" => rpc[p] = "waiting"
    BY <1>1, <1>3 DEF Lookup, Timeout
  <2>3. Whereabouts'
    BY <1>2, <1>3, <2>2, WhereaboutsFrame, QueuedAreQueries DEF WInv, IInv
  <2>4. NoOrphanedReply'
    BY <1>2, <2>1, <2>2 DEF WInv, NoOrphanedReply
  <2>5. QED
    BY <2>3, <2>4
<1>4. CASE SendQuery(q) /\ ctrl' = Append(ctrl, q) /\ rpc' = [rpc EXCEPT ![q] = "waiting"]
  <2>1. rpc[q] = "found" /\ rpc'[q] = "waiting" /\ \A p \in Query : p # q => rpc'[p] = rpc[p]
    BY <1>1, <1>4 DEF SendQuery
  <2>2. q \notin DOMAIN clean \cup firing \cup InSlot \cup InArmed \cup InControl
    BY <2>1 DEF WInv, Whereabouts, QueuedAreSent
  <2>3. InControl' = InControl \cup {q}
    <3>1. /\ Len(ctrl') = Len(ctrl) + 1 /\ ctrl'[Len(ctrl) + 1] = q /\ Len(ctrl) \in Nat
          /\ \A i \in 1 .. Len(ctrl) : ctrl'[i] = ctrl[i]
      BY <1>1, <1>4
    <3>2. QED
      BY <3>1 DEF InControl
  <2>4. DOMAIN clean \cup firing \cup InSlot \cup InArmed \cup InControl \subseteq Query
    BY QueuedAreQueries DEF WInv, IInv, TypeOK, RpcTypeOK
  <2>5. QueuedAreSent'
    BY <1>2, <2>1, <2>3, <2>4 DEF WInv, Whereabouts, QueuedAreSent
  <2>6. ControlIsApart'
    BY <1>2, <2>1, <2>2, <2>3, <2>4 DEF WInv, Whereabouts, ControlIsApart
  <2>7. ControlHasNoCopies'
    BY <1>1, <1>4, <2>2 DEF WInv, Whereabouts, ControlHasNoCopies, InControl
  <2>8. NoOrphanedReply'
    BY <1>2, <2>1, <2>2, <2>3 DEF WInv, NoOrphanedReply
  <2>9. QED
    BY <2>5, <2>6, <2>7, <2>8 DEF Whereabouts
<1>5. QED
  BY <1>3, <1>4 DEF Lookup, SendQuery, Timeout, inbVars

LEMMA CancelEnds ==
  ASSUME TypeOK, NEW S, Cancel(S)
  PROVE  /\ \A q \in Query : rpc[q] \notin {"idle", "found"} => rpc'[q] \notin {"idle", "found"}
         /\ \A q \in Query : rpc'[q] = "snapshot" => rpc[q] = "snapshot"
         /\ \A q \in Query : rpc'[q] = "waiting" => rpc[q] = "waiting" /\ q \notin S
BY DEF TypeOK, RpcTypeOK, Cancel

LEMMA ArmWhere == ASSUME WInv, ArmQuery PROVE Whereabouts' /\ NoOrphanedReply'
<1> DEFINE q == Head(ctrl)
<1>1. /\ ctrl \in Seq(Query) /\ armed \in Seq(Query) /\ ctrl # <<>> /\ q \in Query
      /\ ctrl' = Tail(ctrl) /\ firing = {} /\ slot' = slot
      /\ rpc \in [Query -> {"idle", "found", "waiting", "snapshot", "fallback"}]
  BY DEF ArmQuery, WInv, IInv, TypeOK, RpcTypeOK, InboundTypeOK, ReaderTypeOK
<1>2. q \in InControl /\ InControl' = InControl \ {q} /\ ControlHasNoCopies'
  <2>1. /\ q = ctrl[1] /\ Len(ctrl) \in Nat \ {0} /\ Len(ctrl') = Len(ctrl) - 1
        /\ \A i \in 1 .. Len(ctrl') : ctrl'[i] = ctrl[i + 1]
    BY <1>1
  <2>2. \A i \in 1 .. Len(ctrl) : ctrl[i] = q => i = 1
    BY <2>1 DEF WInv, Whereabouts, ControlHasNoCopies
  <2>3. InControl' \subseteq InControl \ {q}
    BY <2>1, <2>2 DEF InControl
  <2>4. ASSUME NEW i \in 1 .. Len(ctrl), ctrl[i] # q PROVE ctrl[i] \in InControl'
    <3>1. i - 1 \in 1 .. Len(ctrl') /\ ctrl'[i - 1] = ctrl[i]
      BY <2>1, <2>4
    <3>2. QED
      BY <3>1 DEF InControl
  <2>5. ControlHasNoCopies'
    <3> SUFFICES ASSUME NEW i \in 1 .. Len(ctrl'), NEW j \in 1 .. Len(ctrl'), ctrl'[i] = ctrl'[j]
                 PROVE  i = j
      BY DEF ControlHasNoCopies
    <3>1. i + 1 \in 1 .. Len(ctrl) /\ j + 1 \in 1 .. Len(ctrl) /\ ctrl[i + 1] = ctrl[j + 1]
      BY <2>1
    <3>2. i + 1 = j + 1
      BY <3>1 DEF WInv, Whereabouts, ControlHasNoCopies
    <3>3. QED
      BY <3>2
  <2>6. InControl \ {q} \subseteq InControl'
    BY <2>4 DEF InControl
  <2>7. q \in InControl
    BY <2>1 DEF InControl
  <2>8. QED
    BY <2>3, <2>5, <2>6, <2>7
<1>3. InSlot' = InSlot
  BY <1>1 DEF InSlot
<1>4. /\ rpc[q] \notin {"idle", "found", "snapshot"}
      /\ q \notin DOMAIN clean \cup firing \cup InSlot \cup InArmed
  BY <1>2 DEF WInv, Whereabouts, QueuedAreSent, ControlIsApart
<1>5. DOMAIN clean \cup firing \cup InSlot \cup InArmed \cup InControl \subseteq Query
  BY QueuedAreQueries DEF WInv, IInv, TypeOK, RpcTypeOK
<1>6. CASE Cancel({q}) /\ UNCHANGED <<armed, firing, clean>>
  <2>1. InArmed' = InArmed
    BY <1>6 DEF InArmed
  <2>2. /\ \A p \in Query : rpc[p] \notin {"idle", "found"} => rpc'[p] \notin {"idle", "found"}
        /\ \A p \in Query : rpc'[p] = "snapshot" => rpc[p] = "snapshot"
        /\ \A p \in Query : rpc'[p] = "waiting" => rpc[p] = "waiting" /\ p # q
    BY <1>6, CancelEnds DEF WInv, IInv
  <2>3. QueuedAreSent' /\ ControlIsApart'
    BY <1>2, <1>3, <1>5, <1>6, <2>1, <2>2
       DEF WInv, Whereabouts, QueuedAreSent, ControlIsApart
  <2>4. NoOrphanedReply'
    BY <1>2, <1>3, <2>1, <2>2 DEF WInv, NoOrphanedReply
  <2>5. QED
    BY <1>2, <2>3, <2>4 DEF Whereabouts
<1>7. CASE /\ rpc' = rpc /\ armed' = Append(armed, q) /\ firing' = {q}
           /\ DOMAIN clean' \subseteq DOMAIN clean \cup {q}
  <2>1. InArmed' = InArmed \cup {q}
    <3>1. /\ Len(armed') = Len(armed) + 1 /\ armed'[Len(armed) + 1] = q /\ Len(armed) \in Nat
          /\ \A i \in 1 .. Len(armed) : armed'[i] = armed[i]
      BY <1>1, <1>7
    <3>2. QED
      BY <3>1 DEF InArmed
  <2>2. QueuedAreSent' /\ ControlIsApart'
    BY <1>2, <1>3, <1>4, <1>7, <2>1 DEF WInv, Whereabouts, QueuedAreSent, ControlIsApart
  <2>3. NoOrphanedReply'
    BY <1>2, <1>3, <1>4, <1>7, <2>1 DEF WInv, NoOrphanedReply
  <2>4. QED
    BY <1>2, <2>2, <2>3 DEF Whereabouts
<1>8. QED
  BY <1>6, <1>7 DEF ArmQuery

\* Every reply a Drain or a Leave lets go of is cancelled.
LEMMA DrainWhere ==
  ASSUME WInv, Drain \/ Leave, UNCHANGED <<clean, ctrl, firing>>
  PROVE  Whereabouts' /\ NoOrphanedReply'
<1>1. InControl' = InControl /\ armed \in Seq(Query)
  BY DEF InControl, WInv, IInv, TypeOK, ReaderTypeOK
<1>2. InSlot' \cup InArmed' \subseteq InSlot \cup InArmed
  BY DrainMoves DEF WInv, IInv
<1>3. /\ \A q \in Query : rpc[q] \notin {"idle", "found"} => rpc'[q] \notin {"idle", "found"}
      /\ \A q \in Query : rpc'[q] = "snapshot" => rpc[q] = "snapshot"
      /\ \A q \in Query : rpc'[q] = "waiting" => rpc[q] = "waiting"
  <2>1. CASE rpc' = rpc
    BY <2>1
  <2>2. CASE \E S : Cancel(S)
    BY <2>2, CancelEnds DEF WInv, IInv
  <2>3. QED
    BY <2>1, <2>2, DrainMoves DEF WInv, IInv
<1>4. Whereabouts'
  BY <1>2, <1>3, WhereaboutsFrame, QueuedAreQueries DEF WInv, IInv
<1>5. NoOrphanedReply'
  <2> SUFFICES ASSUME NEW q \in Query, rpc'[q] = "waiting"
               PROVE  \/ q \in InControl /\ q \notin InArmed' \cup InSlot'
                      \/ q \in InArmed'   /\ q \notin InControl \cup InSlot'
                      \/ q \in InSlot'    /\ q \notin InControl \cup InArmed'
    BY <1>1 DEF NoOrphanedReply
  <2>1. rpc[q] = "waiting"
    BY <1>3
  <2>2. \/ q \in InControl /\ q \notin InArmed \cup InSlot
        \/ q \in InArmed   /\ q \notin InControl \cup InSlot
        \/ q \in InSlot    /\ q \notin InControl \cup InArmed
    BY <2>1 DEF WInv, NoOrphanedReply
  <2>3. CASE q \in InControl
    BY <1>2, <2>2, <2>3
  <2>4. CASE q \notin InControl /\ Leave
    <3>1. q \notin InSlot \cup InArmed
      BY <2>4, CancelEnds DEF Leave, WInv, IInv
    <3>2. QED
      BY <2>2, <2>4, <3>1
  <2>5. CASE q \notin InControl /\ Drain /\ armed = <<>>
    <3>1. InArmed = {} /\ InArmed' = {}
      BY <2>5 DEF Drain, InArmed
    <3>2. q = slot.q /\ q # None
      BY <2>2, <2>5, <3>1 DEF InSlot
    <3>3. slot' = slot
      BY <2>1, <2>5, <3>2 DEF Drain, Closed
    <3>4. QED
      BY <2>2, <2>5, <3>1, <3>3 DEF InSlot
  <2>6. CASE q \notin InControl /\ Drain /\ armed # <<>>
    <3>1. /\ slot' = Held(armed[Len(armed)], NoLog) /\ InArmed' = {}
          /\ Cancel(InSlot \cup {armed[i] : i \in 1 .. Len(armed) - 1})
      BY <2>6 DEF Drain, InArmed
    <3>2. q \notin InSlot /\ \A i \in 1 .. Len(armed) - 1 : armed[i] # q
      BY <3>1, CancelEnds DEF WInv, IInv
    <3>3. PICK i \in 1 .. Len(armed) : armed[i] = q
      BY <2>2, <2>6, <3>2 DEF InArmed
    <3>4. i = Len(armed)
      BY <1>1, <3>2, <3>3
    <3>5. slot'.q = q /\ q # None
      BY <3>1, <3>3, <3>4, QueryAssumption DEF Held
    <3>6. QED
      BY <2>6, <3>1, <3>5 DEF InSlot
  <2>7. QED
    BY <2>3, <2>4, <2>5, <2>6
<1>6. QED
  BY <1>4, <1>5

LEMMA JoinWhere == ASSUME WInv, Join PROVE Whereabouts' /\ NoOrphanedReply'
<1>1. /\ UNCHANGED <<clean, firing, armed, slot>> /\ ctrl' = <<>> /\ Cancel(InControl)
  BY DEF Join, readerVars
<1>2. InControl' = {} /\ InSlot' = InSlot /\ InArmed' = InArmed
  BY <1>1 DEF InControl, InSlot, InArmed
<1>3. /\ \A q \in Query : rpc[q] \notin {"idle", "found"} => rpc'[q] \notin {"idle", "found"}
      /\ \A q \in Query : rpc'[q] = "waiting" => rpc[q] = "waiting" /\ q \notin InControl
  BY <1>1, CancelEnds DEF WInv, IInv
<1>4. DOMAIN clean \cup firing \cup InSlot \cup InArmed \cup InControl \subseteq Query
  BY QueuedAreQueries DEF WInv, IInv, TypeOK, RpcTypeOK
<1>5. QueuedAreSent' /\ ControlIsApart'
  BY <1>1, <1>2, <1>3, <1>4 DEF WInv, Whereabouts, QueuedAreSent, ControlIsApart
<1>6. ControlHasNoCopies'
  BY <1>1 DEF ControlHasNoCopies
<1>7. NoOrphanedReply'
  BY <1>2, <1>3 DEF WInv, NoOrphanedReply
<1>8. QED
  BY <1>5, <1>6, <1>7 DEF Whereabouts

\* The steps that leave the replies where they are.
LEMMA StillWhere ==
  ASSUME WInv, UNCHANGED <<rpc, clean, ctrl, armed, slot>>, firing' \subseteq firing
  PROVE  Whereabouts' /\ NoOrphanedReply'
<1>1. InControl' = InControl /\ InSlot' = InSlot /\ InArmed' = InArmed
  BY DEF InControl, InSlot, InArmed
<1>2. Whereabouts'
  BY <1>1, WhereaboutsFrame DEF WInv, IInv
<1>3. NoOrphanedReply'
  BY <1>1 DEF WInv, NoOrphanedReply
<1>4. QED
  BY <1>2, <1>3

LEMMA CaptureWhere == ASSUME WInv, CaptureLog PROVE Whereabouts' /\ NoOrphanedReply'
<1>1. /\ UNCHANGED <<clean, firing, ctrl, armed>>
      /\ rpc \in [Query -> {"idle", "found", "waiting", "snapshot", "fallback"}]
      /\ slot \in [q : Query \cup {None}, tabs : Nat]
  BY DEF CaptureLog, inbVars, WInv, IInv, TypeOK, RpcTypeOK, ReaderTypeOK
<1>2. InArmed' = InArmed /\ InControl' = InControl /\ InSlot' \subseteq InSlot
  BY <1>1 DEF InArmed, InControl, InSlot, CaptureLog, Empty, Held
<1>3. \/ rpc' = rpc /\ InSlot' = InSlot
      \/ rpc' = rpc /\ slot.q \in Query /\ rpc[slot.q] # "waiting" /\ slot' = Empty
      \/ /\ slot.q \in Query /\ rpc[slot.q] = "waiting" /\ slot' = Empty
         /\ \E to \in {"snapshot", "fallback"} : rpc' = [rpc EXCEPT ![slot.q] = to]
  BY <1>1 DEF CaptureLog, Closed, InSlot, Held
<1>4. /\ \A q \in Query : rpc[q] \notin {"idle", "found"} => rpc'[q] \notin {"idle", "found"}
      /\ \A q \in InControl : rpc'[q] = "snapshot" => rpc[q] = "snapshot"
  <2>1. \A q \in InControl : q \notin InSlot
    BY DEF WInv, Whereabouts, ControlIsApart
  <2>2. InControl \subseteq Query
    BY QueuedAreQueries DEF WInv, IInv
  <2>3. slot.q \in Query => slot.q \in InSlot
    BY QueryAssumption DEF InSlot
  <2>4. QED
    BY <1>1, <1>3, <2>1, <2>2, <2>3
<1>5. Whereabouts'
  BY <1>1, <1>2, <1>4, WhereaboutsFrame DEF WInv, IInv
<1>6. NoOrphanedReply'
  <2>1. CASE rpc' = rpc /\ InSlot' = InSlot
    BY <1>2, <2>1 DEF WInv, NoOrphanedReply
  <2>2. CASE InSlot' # InSlot
    <3>1. slot.q \in Query /\ InSlot' = {} /\ rpc'[slot.q] # "waiting"
      BY <1>1, <1>3, <2>2 DEF InSlot, Empty
    <3>2. \A q \in Query : rpc'[q] = "waiting" => rpc[q] = "waiting" /\ q # slot.q
      BY <1>1, <1>3, <3>1
    <3>3. QED
      BY <1>2, <3>1, <3>2 DEF WInv, NoOrphanedReply, InSlot
  <2>3. QED
    BY <1>2, <1>3, <2>1, <2>2, QueryAssumption DEF InSlot, Empty
<1>7. QED
  BY <1>5, <1>6

LEMMA InitWhere == Init => Whereabouts /\ NoOrphanedReply
BY DEF Init, Whereabouts, QueuedAreSent, ControlIsApart, ControlHasNoCopies, NoOrphanedReply,
   InSlot, InArmed, InControl, Empty

LEMMA NextWInv == WInv /\ [Next]_vars => WInv'
<1> SUFFICES ASSUME WInv, [Next]_vars PROVE Whereabouts' /\ NoOrphanedReply'
  BY NextIInv DEF WInv
<1>1. CASE Rpc
  BY <1>1, RpcWhere DEF Rpc
<1>2. CASE Inbound
  <2>1. CASE FireQuery \/ Deregister \/ Shutdown
    <3>1. UNCHANGED <<rpc, clean, ctrl, armed, slot>> /\ firing' \subseteq firing
      BY <2>1 DEF FireQuery, Deregister, Shutdown, readerVars
    <3>2. QED
      BY <3>1, StillWhere
  <2>2. QED
    BY <1>2, <2>1, ArmWhere, JoinWhere DEF Inbound
<1>3. CASE Reader
  <2>1. CASE CaptureLog
    BY <2>1, CaptureWhere
  <2>2. CASE ~CaptureLog
    <3>1. UNCHANGED <<clean, ctrl, firing>> /\ (Drain \/ Leave \/ UNCHANGED <<rpc, armed, slot>>)
      BY <1>3, <2>2 DEF Reader, BeforeRecv, AfterRecv, RecvEnd, ForwardOther, RecvLog, RecvOther,
         inbVars
    <3>2. QED
      BY <3>1, DrainWhere, StillWhere
  <2>3. QED
    BY <2>1, <2>2
<1>4. CASE Server \/ UNCHANGED vars
  <2>1. UNCHANGED <<rpc, clean, ctrl, firing, armed, slot>>
    BY <1>4 DEF Server, ServerAnswers, ServerRenders, ServerCloses, vars, inbVars, readerVars
  <2>2. QED
    BY <2>1, StillWhere
<1>5. QED
  BY <1>1, <1>2, <1>3, <1>4 DEF Next

\* For any number of calls and in whatever order a relay is torn down, the
\* reply of a call that waits has one owner: none is taken and forgotten, and
\* none is in two places, where it would be fulfilled for another's Logs.
THEOREM NoReplyIsOrphaned == Spec => []NoOrphanedReply
<1>1. Init => WInv
  BY InitIInv, InitWhere DEF WInv
<1>2. WInv => NoOrphanedReply
  BY DEF WInv
<1>3. QED
  BY <1>1, <1>2, NextWInv, PTL DEF Spec

----------------------------------------------------------------------------
(* Queries armed on a drained connection.                                  *)

\* A query that is armed is fired before another is.
OneFiring == \A p, q \in firing : p = q

\* The requests of a query that was armed on a drained connection are those
\* that follow what had been fired by then, as far as they were sent at all.
CleanFired ==
  \A q \in DOMAIN clean :
    /\ clean[q] <= Len(script)
    /\ q \in firing => clean[q] = Len(script)
    /\ q \notin firing =>
         /\ clean[q] + 1 <= Len(script) => script[clean[q] + 1] = [q |-> q, kind |-> "tabs"]
         /\ clean[q] + 2 <= Len(script) => script[clean[q] + 2] = [q |-> q, kind |-> "panes"]
         /\ link = "up" => clean[q] + 2 <= Len(script)

\* Until such a query holds a tabs Log, the next to be matched is its own: it
\* is drained before that match.
CleanArmed ==
  \A q \in DOMAIN clean : q \in InArmed =>
    \/ hand = NoLog /\ taken = clean[q]
    \/ reader = "got" /\ hand = clean[q] + 1 /\ taken = hand

CleanHeld ==
  \A q \in DOMAIN clean : slot.q = q =>
    IF slot.tabs = NoLog
    THEN \/ hand = NoLog /\ taken = clean[q]
         \/ hand = clean[q] + 1 /\ taken = hand
    ELSE slot.tabs = clean[q] + 1

CleanAnswered ==
  \A q \in DOMAIN clean : rpc[q] = "snapshot" =>
    answer[q] = [tabs |-> clean[q] + 1, panes |-> clean[q] + 2]

CleanInOrder == OneFiring /\ CleanFired /\ CleanArmed /\ CleanHeld /\ CleanAnswered

CInv == WInv /\ CleanInOrder

\* What the queries of clean are: armed, and no longer in the control channel.
LEMMA CleanTypes ==
  ASSUME CInv
  PROVE  /\ DOMAIN clean \subseteq Query /\ clean \in [DOMAIN clean -> Nat]
         /\ Len(script) \in Nat /\ taken \in Nat /\ taken <= Len(script) /\ hand \in Nat
         /\ slot \in [q : Query \cup {None}, tabs : Nat] /\ armed \in Seq(Query)
         /\ reader \in {"top", "recv", "got", "match", "exited"}
         /\ hand # NoLog => hand = taken /\ reader \in {"got", "match"}
BY DEF CInv, WInv, IInv, TypeOK, RpcTypeOK, ReaderTypeOK, LinkTypeOK, LogOrder, HandIsLastTaken

\* Steps that fire, receive and match nothing; the reader may go on while it
\* has no Log in hand.
LEMMA CleanFrame ==
  ASSUME CInv, UNCHANGED <<answer, clean, firing, armed, slot, hand, script, taken>>,
         link' \in {link, "down"}, link \in {"up", "down"},
         reader' = reader \/ hand = NoLog,
         \A q \in Query : rpc'[q] = "snapshot" => rpc[q] = "snapshot"
  PROVE  CleanInOrder'
<1>1. DOMAIN clean \subseteq Query
  BY CleanTypes
<1>2. OneFiring' /\ CleanFired' /\ CleanHeld'
  BY DEF CInv, CleanInOrder, OneFiring, CleanFired, CleanHeld
<1>3. InArmed' = InArmed
  BY DEF InArmed
<1>4. CleanArmed'
  <2> SUFFICES ASSUME NEW q \in DOMAIN clean, q \in InArmed
               PROVE  \/ hand = NoLog /\ taken = clean[q]
                      \/ reader' = "got" /\ hand = clean[q] + 1 /\ taken = hand
    BY <1>3 DEF CleanArmed
  <2>1. \/ hand = NoLog /\ taken = clean[q]
        \/ reader = "got" /\ hand = clean[q] + 1 /\ taken = hand
    BY DEF CInv, CleanInOrder, CleanArmed
  <2>2. clean[q] \in Nat
    BY CleanTypes
  <2>3. QED
    BY <2>1, <2>2 DEF NoLog
<1>5. CleanAnswered'
  BY <1>1 DEF CInv, CleanInOrder, CleanAnswered
<1>6. QED
  BY <1>2, <1>4, <1>5 DEF CleanInOrder

LEMMA ArmClean == ASSUME CInv, ArmQuery PROVE CleanInOrder'
<1> DEFINE q == Head(ctrl)
<1>1. /\ UNCHANGED <<answer, slot, reader, hand, script, taken, link>>
      /\ firing = {} /\ ctrl \in Seq(Query) /\ ctrl # <<>> /\ q \in Query
  BY DEF ArmQuery, linkVars, CInv, WInv, IInv, TypeOK, InboundTypeOK
<1>2. q \in InControl
  <2>1. q = ctrl[1] /\ 1 \in 1 .. Len(ctrl)
    BY <1>1
  <2>2. QED
    BY <2>1 DEF InControl
<1>3. /\ q \notin DOMAIN clean \cup InSlot \cup InArmed
      /\ rpc[q] # "snapshot"
  BY <1>2 DEF CInv, WInv, Whereabouts, ControlIsApart
<1>4. DOMAIN clean \subseteq Query /\ clean \in [DOMAIN clean -> Nat]
  BY CleanTypes
<1>5. CASE Cancel({q}) /\ UNCHANGED <<armed, firing, clean>>
  <2>1. \A p \in Query : rpc'[p] = "snapshot" => rpc[p] = "snapshot"
    BY <1>5, CancelEnds DEF CInv, WInv, IInv
  <2>2. link \in {"up", "down"}
    BY DEF CInv, WInv, IInv, TypeOK, LinkTypeOK
  <2>3. QED
    BY <1>1, <1>5, <2>1, <2>2, CleanFrame
<1>6. CASE rpc' = rpc /\ armed' = Append(armed, q) /\ firing' = {q}
  <2>1. InArmed' = InArmed \cup {q}
    <3>1. /\ Len(armed') = Len(armed) + 1 /\ armed'[Len(armed) + 1] = q /\ Len(armed) \in Nat
          /\ \A i \in 1 .. Len(armed) : armed'[i] = armed[i]
      BY <1>1, <1>6, CleanTypes
    <3>2. QED
      BY <3>1 DEF InArmed
  <2>2. OneFiring'
    BY <1>6 DEF OneFiring
  <2>3. /\ DOMAIN clean' \subseteq DOMAIN clean \cup {q}
        /\ \A p \in DOMAIN clean : p # q /\ p \in DOMAIN clean' /\ clean'[p] = clean[p]
        /\ q \in DOMAIN clean' => clean'[q] = Len(script) /\ ~Outstanding
    BY <1>3, <1>6 DEF ArmQuery
  <2>4. q \in DOMAIN clean' => /\ clean'[q] = Len(script) /\ clean'[q] \in Nat
                               /\ hand = NoLog /\ taken = clean'[q]
    BY <2>3, CleanTypes DEF Outstanding
  <2>5. CleanFired'
    <3> SUFFICES ASSUME NEW p \in DOMAIN clean'
                 PROVE  /\ clean'[p] <= Len(script)
                        /\ p \in firing' => clean'[p] = Len(script)
                        /\ p \notin firing' =>
                             /\ clean'[p] + 1 <= Len(script) =>
                                  script[clean'[p] + 1] = [q |-> p, kind |-> "tabs"]
                             /\ clean'[p] + 2 <= Len(script) =>
                                  script[clean'[p] + 2] = [q |-> p, kind |-> "panes"]
                             /\ link = "up" => clean'[p] + 2 <= Len(script)
      BY <1>1 DEF CleanFired
    <3>1. CASE p = q
      BY <1>6, <2>4, <3>1, CleanTypes
    <3>2. CASE p # q
      <4>1. p \in DOMAIN clean /\ clean'[p] = clean[p] /\ p \notin firing /\ p \notin firing'
        BY <1>1, <1>6, <2>3, <3>2
      <4>2. QED
        BY <4>1 DEF CInv, CleanInOrder, CleanFired
    <3>3. QED
      BY <3>1, <3>2
  <2>6. CleanArmed'
    BY <1>1, <2>1, <2>3, <2>4 DEF CInv, CleanInOrder, CleanArmed
  <2>7. CleanHeld'
    <3>1. slot.q # q
      BY <1>1, <1>3, QueryAssumption DEF InSlot
    <3>2. QED
      BY <1>1, <2>3, <3>1 DEF CInv, CleanInOrder, CleanHeld
  <2>8. CleanAnswered'
    BY <1>1, <1>3, <1>6, <2>3 DEF CInv, CleanInOrder, CleanAnswered
  <2>9. QED
    BY <2>2, <2>5, <2>6, <2>7, <2>8 DEF CleanInOrder
<1>7. QED
  BY <1>5, <1>6 DEF ArmQuery

LEMMA FireClean == ASSUME CInv, FireQuery PROVE CleanInOrder'
<1>1. PICK q \in firing, n \in 0 .. 2 :
        /\ link = "down" => n = 0
        /\ script' = script \o SubSeq(<<[q |-> q, kind |-> "tabs"],
                                        [q |-> q, kind |-> "panes"]>>, 1, n)
        /\ link' = IF n = 2 THEN link ELSE "down"
  BY DEF FireQuery
<1>2. q \in Query
  BY DEF CInv, WInv, IInv, TypeOK, InboundTypeOK
<1>3. /\ Len(script') = Len(script) + n
      /\ \A i \in 1 .. Len(script) : script'[i] = script[i]
      /\ n >= 1 => script'[Len(script) + 1] = [q |-> q, kind |-> "tabs"]
      /\ n >= 2 => script'[Len(script) + 2] = [q |-> q, kind |-> "panes"]
  BY <1>1, <1>2, Firing DEF CInv, WInv, IInv, TypeOK, LinkTypeOK
<1>4. /\ UNCHANGED <<rpc, answer, clean, armed, slot, reader, hand, taken>>
      /\ firing' = {}
  BY DEF FireQuery, readerVars
<1>5. InArmed' = InArmed
  BY <1>4 DEF InArmed
<1>6. OneFiring' /\ CleanArmed' /\ CleanHeld' /\ CleanAnswered'
  BY <1>4, <1>5 DEF CInv, CleanInOrder, OneFiring, CleanArmed, CleanHeld, CleanAnswered
<1>7. CleanFired'
  <2> SUFFICES ASSUME NEW p \in DOMAIN clean
               PROVE  /\ clean[p] <= Len(script')
                      /\ clean[p] + 1 <= Len(script') =>
                           script'[clean[p] + 1] = [q |-> p, kind |-> "tabs"]
                      /\ clean[p] + 2 <= Len(script') =>
                           script'[clean[p] + 2] = [q |-> p, kind |-> "panes"]
                      /\ link' = "up" => clean[p] + 2 <= Len(script')
    BY <1>4 DEF CleanFired
  <2>1. /\ clean[p] \in Nat /\ clean[p] <= Len(script) /\ Len(script) \in Nat
        /\ link \in {"up", "down"}
    BY CleanTypes DEF CInv, CleanInOrder, CleanFired, WInv, IInv, TypeOK, LinkTypeOK
  <2>2. CASE p = q
    <3>1. clean[p] = Len(script)
      BY <2>2 DEF CInv, CleanInOrder, CleanFired
    <3>2. QED
      BY <1>1, <1>3, <2>1, <2>2, <3>1
  <2>3. CASE p # q
    <3>1. p \notin firing
      BY <1>1, <2>3 DEF CInv, CleanInOrder, OneFiring
    <3>2. /\ clean[p] + 1 <= Len(script) => script[clean[p] + 1] = [q |-> p, kind |-> "tabs"]
          /\ clean[p] + 2 <= Len(script) => script[clean[p] + 2] = [q |-> p, kind |-> "panes"]
          /\ link = "up" => clean[p] + 2 <= Len(script)
      BY <3>1 DEF CInv, CleanInOrder, CleanFired
    <3>3. CASE link = "up"
      <4>1. clean[p] + 1 \in 1 .. Len(script) /\ clean[p] + 2 \in 1 .. Len(script)
        BY <2>1, <3>2, <3>3
      <4>2. QED
        BY <1>3, <2>1, <3>2, <3>3, <4>1
    <3>4. CASE link = "down"
      <4>1. Len(script') = Len(script) /\ link' = "down"
        BY <1>1, <1>3, <2>1, <3>4
      <4>2. /\ clean[p] + 1 <= Len(script) => clean[p] + 1 \in 1 .. Len(script)
            /\ clean[p] + 2 <= Len(script) => clean[p] + 2 \in 1 .. Len(script)
        BY <2>1
      <4>3. QED
        BY <1>3, <2>1, <3>2, <4>1, <4>2
    <3>5. QED
      BY <2>1, <3>3, <3>4
  <2>4. QED
    BY <2>2, <2>3
<1>8. QED
  BY <1>6, <1>7 DEF CleanInOrder

\* What drain_queries brings into the slot was armed, and holds no Log yet.
LEMMA DrainClean ==
  ASSUME CInv, Drain \/ Leave,
         UNCHANGED <<answer, clean, firing, script, taken, link>>,
         hand' = hand \/ Leave
  PROVE  CleanInOrder'
<1>1. /\ DOMAIN clean \subseteq Query /\ clean \in [DOMAIN clean -> Nat] /\ armed \in Seq(Query)
      /\ None \notin DOMAIN clean
  BY CleanTypes, QueryAssumption
<1>2. OneFiring' /\ CleanFired'
  BY DEF CInv, CleanInOrder, OneFiring, CleanFired
<1>3. CleanAnswered'
  <2>1. \A q \in Query : rpc'[q] = "snapshot" => rpc[q] = "snapshot"
    <3>1. CASE \E S : Cancel(S)
      BY <3>1, CancelEnds DEF CInv, WInv, IInv
    <3>2. QED
      BY <3>1, DrainMoves DEF CInv, WInv, IInv
  <2>2. QED
    BY <1>1, <2>1 DEF CInv, CleanInOrder, CleanAnswered
<1>4. CleanArmed' /\ CleanHeld'
  <2>1. CASE Leave
    BY <1>1, <2>1 DEF Leave, CleanArmed, CleanHeld, InArmed, Empty
  <2>2. CASE Drain /\ armed = <<>> /\ hand' = hand
    <3>1. InArmed' = {} /\ slot' \in {slot, Empty}
      BY <2>2 DEF Drain, InArmed
    <3>2. QED
      BY <1>1, <2>2, <3>1 DEF CInv, CleanInOrder, CleanArmed, CleanHeld, Empty
  <2>3. CASE Drain /\ armed # <<>> /\ hand' = hand
    <3>1. InArmed' = {} /\ slot' = Held(armed[Len(armed)], NoLog)
      BY <2>3 DEF Drain, InArmed
    <3>2. armed[Len(armed)] \in InArmed
      <4>1. Len(armed) \in 1 .. Len(armed)
        BY <1>1, <2>3
      <4>2. QED
        BY <4>1 DEF InArmed
    <3>3. CleanHeld'
      BY <2>3, <3>1, <3>2 DEF CInv, CleanInOrder, CleanArmed, CleanHeld, Held
    <3>4. QED
      BY <3>1, <3>3 DEF CleanArmed
  <2>4. QED
    BY <2>1, <2>2, <2>3
<1>5. QED
  BY <1>2, <1>3, <1>4 DEF CleanInOrder

LEMMA RecvClean == ASSUME CInv, RecvLog PROVE CleanInOrder'
<1>1. /\ UNCHANGED <<rpc, answer, clean, firing, armed, slot, script, link>>
      /\ reader = "recv" /\ reader' = "got" /\ hand' = taken + 1 /\ taken' = taken + 1
  BY DEF RecvLog, inbVars
<1>2. hand = NoLog
  BY <1>1, CleanTypes
<1>3. /\ clean \in [DOMAIN clean -> Nat]
      /\ InArmed' = InArmed
  BY <1>1, CleanTypes DEF InArmed
<1>4. OneFiring' /\ CleanFired' /\ CleanAnswered'
  BY <1>1 DEF CInv, CleanInOrder, OneFiring, CleanFired, CleanAnswered
<1>5. CleanArmed'
  BY <1>1, <1>2, <1>3 DEF CInv, CleanInOrder, CleanArmed, NoLog
<1>6. CleanHeld'
  BY <1>1, <1>2, <1>3 DEF CInv, CleanInOrder, CleanHeld, NoLog
<1>7. QED
  BY <1>4, <1>5, <1>6 DEF CleanInOrder

LEMMA CaptureClean == ASSUME CInv, CaptureLog PROVE CleanInOrder'
<1>1. /\ UNCHANGED <<clean, firing, armed, script, taken, link>>
      /\ reader = "match" /\ hand # NoLog /\ hand' = NoLog
  BY DEF CaptureLog, inbVars, linkVars
<1>2. /\ DOMAIN clean \subseteq Query /\ clean \in [DOMAIN clean -> Nat] /\ None \notin DOMAIN clean
      /\ slot \in [q : Query \cup {None}, tabs : Nat] /\ hand = taken /\ taken \in Nat
  BY <1>1, CleanTypes, QueryAssumption
<1>3. /\ rpc \in [Query -> {"idle", "found", "waiting", "snapshot", "fallback"}]
      /\ answer \in [Query -> [tabs : Nat, panes : Nat]]
  BY DEF CInv, WInv, IInv, TypeOK, RpcTypeOK
<1>4. OneFiring' /\ CleanFired'
  BY <1>1 DEF CInv, CleanInOrder, OneFiring, CleanFired
<1>5. InArmed \cap DOMAIN clean = {} /\ InArmed' = InArmed
  BY <1>1 DEF CInv, CleanInOrder, CleanArmed, InArmed
<1>6. CleanArmed'
  BY <1>1, <1>5 DEF CleanArmed
<1>7. slot.q \in DOMAIN clean => IF slot.tabs = NoLog THEN hand = clean[slot.q] + 1
                                 ELSE slot.tabs = clean[slot.q] + 1 /\ hand = slot.tabs + 1
  <2>1. slot.tabs # NoLog => slot.tabs = taken - 1
    BY <1>1 DEF CInv, WInv, IInv, LogOrder, TabsAreLastMatched
  <2>2. QED
    BY <1>1, <1>2, <2>1 DEF CInv, CleanInOrder, CleanHeld
<1>8. CleanHeld'
  <2> SUFFICES ASSUME NEW q \in DOMAIN clean, slot'.q = q
               PROVE  slot'.tabs # NoLog /\ slot'.tabs = clean[q] + 1
    BY <1>1 DEF CleanHeld
  <2>1. q # None /\ slot' # Empty
    BY <1>2 DEF Empty
  <2>2. slot.q # None /\ slot.tabs = NoLog /\ slot' = Held(slot.q, hand)
    BY <1>2, <2>1 DEF CaptureLog
  <2>3. slot.q = q
    BY <2>2 DEF Held
  <2>4. QED
    BY <1>1, <1>7, <2>2, <2>3 DEF Held
<1>9. CleanAnswered'
  <2> SUFFICES ASSUME NEW q \in DOMAIN clean, rpc'[q] = "snapshot"
               PROVE  answer'[q] = [tabs |-> clean[q] + 1, panes |-> clean[q] + 2]
    BY <1>1 DEF CleanAnswered
  <2>1. q \in Query
    BY <1>2
  <2>2. CASE rpc[q] = "snapshot" /\ answer'[q] = answer[q]
    BY <2>2 DEF CInv, CleanInOrder, CleanAnswered
  <2>3. CASE q = slot.q /\ slot.tabs # NoLog
             /\ answer' = [answer EXCEPT ![slot.q] = [tabs |-> slot.tabs, panes |-> hand]]
    <3>1. slot.tabs = clean[q] + 1 /\ hand = clean[q] + 2
      BY <1>2, <1>7, <2>3
    <3>2. QED
      BY <1>3, <2>1, <2>3, <3>1
  <2>4. QED
    <3>1. CASE rpc' = rpc /\ answer' = answer
      BY <2>2, <3>1
    <3>2. CASE /\ slot.q \in Query /\ answer' = answer
               /\ rpc' = [rpc EXCEPT ![slot.q] = "fallback"]
      BY <1>3, <2>1, <2>2, <3>2
    <3>3. CASE /\ slot.q \in Query /\ slot.tabs # NoLog /\ rpc[slot.q] = "waiting"
               /\ rpc' = [rpc EXCEPT ![slot.q] = "snapshot"]
               /\ answer' = [answer EXCEPT ![slot.q] = [tabs |-> slot.tabs, panes |-> hand]]
      BY <1>3, <2>1, <2>2, <2>3, <3>3
    <3>4. QED
      BY <1>2, <3>1, <3>2, <3>3 DEF CaptureLog, Closed
<1>10. QED
  BY <1>4, <1>6, <1>8, <1>9 DEF CleanInOrder

LEMMA InitClean == Init => CleanInOrder
BY DEF Init, CleanInOrder, OneFiring, CleanFired, CleanArmed, CleanHeld, CleanAnswered

LEMMA NextCInv == CInv /\ [Next]_vars => CInv'
<1> SUFFICES ASSUME CInv, [Next]_vars PROVE CleanInOrder'
  BY NextWInv DEF CInv
<1>1. link \in {"up", "down"}
  BY DEF CInv, WInv, IInv, TypeOK, LinkTypeOK
<1>2. CASE Rpc
  <2>1. PICK q \in Query : Lookup(q) \/ SendQuery(q) \/ Timeout(q)
    BY <1>2 DEF Rpc
  <2>2. \A p \in Query : rpc'[p] = "snapshot" => rpc[p] = "snapshot"
    BY <2>1 DEF Lookup, SendQuery, Timeout, CInv, WInv, IInv, TypeOK, RpcTypeOK
  <2>3. UNCHANGED <<answer, clean, firing, armed, slot, reader, hand, script, taken, link>>
    BY <2>1 DEF Lookup, SendQuery, Timeout, inbVars, readerVars, linkVars
  <2>4. QED
    BY <1>1, <2>2, <2>3, CleanFrame
<1>3. CASE Deregister \/ Shutdown \/ Join
  <2>1. \A p \in Query : rpc'[p] = "snapshot" => rpc[p] = "snapshot"
    BY <1>3, CancelEnds DEF Deregister, Shutdown, Join, CInv, WInv, IInv
  <2>2. /\ UNCHANGED <<answer, clean, firing, armed, slot, reader, hand, script, taken>>
        /\ link' \in {link, "down"}
    BY <1>3 DEF Deregister, Shutdown, Join, readerVars, linkVars
  <2>3. QED
    BY <1>1, <2>1, <2>2, CleanFrame
<1>4. CASE Inbound
  BY <1>3, <1>4, ArmClean, FireClean DEF Inbound
<1>5. CASE BeforeRecv \/ AfterRecv \/ RecvEnd \/ ForwardOther \/ RecvOther
  <2>1. UNCHANGED <<answer, clean, firing, script, taken, link>>
    BY <1>5 DEF BeforeRecv, AfterRecv, RecvEnd, ForwardOther, RecvOther, inbVars, linkVars
  <2>2. CASE (Drain \/ Leave) /\ (hand' = hand \/ Leave)
    BY <2>1, <2>2, DrainClean
  <2>3. CASE UNCHANGED <<rpc, armed, slot, hand>> /\ hand = NoLog
    BY <1>1, <2>1, <2>3, CleanFrame
  <2>4. QED
    BY <1>5, <2>2, <2>3, CleanTypes DEF BeforeRecv, AfterRecv, RecvEnd, ForwardOther, RecvOther
<1>6. CASE Reader
  BY <1>5, <1>6, RecvClean, CaptureClean DEF Reader
<1>7. CASE Server \/ UNCHANGED vars
  <2>1. /\ UNCHANGED <<rpc, answer, clean, firing, armed, slot, reader, hand, script, taken>>
        /\ link' \in {link, "down"}
    BY <1>7 DEF Server, ServerAnswers, ServerRenders, ServerCloses, vars, inbVars, readerVars,
       linkVars
  <2>2. QED
    BY <1>1, <2>1, CleanFrame
<1>8. QED
  BY <1>2, <1>4, <1>6, <1>7 DEF Next

\* For any number of calls, a query armed when no Log was under way captures
\* its own Logs, whatever lagged before it and whatever is asked after it.
THEOREM CleanQueriesAreAnswered == Spec => []CleanQueriesOwnTheirLogs
<1>1. ASSUME CInv PROVE CleanQueriesOwnTheirLogs
  <2> SUFFICES ASSUME NEW q \in DOMAIN clean
               PROVE  /\ (slot.q = q /\ slot.tabs # NoLog) =>
                            script[slot.tabs] = [q |-> q, kind |-> "tabs"]
                      /\ rpc[q] = "snapshot" =>
                            /\ script[answer[q].tabs] = [q |-> q, kind |-> "tabs"]
                            /\ script[answer[q].panes] = [q |-> q, kind |-> "panes"]
    BY DEF CleanQueriesOwnTheirLogs
  <2>1. clean[q] \in Nat /\ Len(script) \in Nat /\ q \in Query
    BY <1>1, CleanTypes
  <2>2. /\ q \in firing => clean[q] = Len(script)
        /\ q \notin firing =>
             /\ clean[q] + 1 <= Len(script) => script[clean[q] + 1] = [q |-> q, kind |-> "tabs"]
             /\ clean[q] + 2 <= Len(script) => script[clean[q] + 2] = [q |-> q, kind |-> "panes"]
    BY <1>1 DEF CInv, CleanInOrder, CleanFired
  <2>3. ASSUME slot.q = q, slot.tabs # NoLog
        PROVE  script[slot.tabs] = [q |-> q, kind |-> "tabs"]
    <3>1. slot.tabs = clean[q] + 1
      BY <1>1, <2>3 DEF CInv, CleanInOrder, CleanHeld
    <3>2. slot.tabs <= Len(script)
      BY <1>1, <2>3, CleanTypes DEF CInv, WInv, IInv, LogOrder, TabsAreLastMatched
    <3>3. QED
      BY <2>1, <2>2, <3>1, <3>2
  <2>4. ASSUME rpc[q] = "snapshot"
        PROVE  /\ script[answer[q].tabs] = [q |-> q, kind |-> "tabs"]
               /\ script[answer[q].panes] = [q |-> q, kind |-> "panes"]
    <3>1. answer[q].tabs = clean[q] + 1 /\ answer[q].panes = clean[q] + 2
      <4>1. answer[q] = [tabs |-> clean[q] + 1, panes |-> clean[q] + 2]
        BY <1>1, <2>4 DEF CInv, CleanInOrder, CleanAnswered
      <4>2. QED
        BY <4>1
    <3>2. answer[q].panes <= Len(script)
      BY <1>1, <2>1, <2>4 DEF CInv, WInv, IInv, AnswersAdjacent
    <3>3. QED
      BY <2>1, <2>2, <3>1, <3>2
  <2>5. QED
    BY <2>3, <2>4
<1>2. Init => CInv
  BY InitIInv, InitWhere, InitClean DEF CInv, WInv
<1>3. QED
  BY <1>1, <1>2, NextCInv, PTL DEF Spec

=============================================================================
