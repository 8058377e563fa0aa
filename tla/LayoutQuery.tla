---------------------------- MODULE LayoutQuery ----------------------------
(***************************************************************************)
(* The layout query of one attached relay (muxrd/src/relay, "FX-QUERY"):   *)
(* GetLayout RPCs hand a reply channel to the relay's inbound task, the    *)
(* task hands it to the reader thread and fires ListTabs and ListPanes at  *)
(* the zellij server, and the reader thread, the only owner of recv(),     *)
(* pairs the two untagged Log answers and fulfils the reply.               *)
(*                                                                         *)
(* A query is named by the RPC that asks for it.  The zellij server and    *)
(* the connection to it are external: requests are answered in the order   *)
(* they were sent, each by one Log, or never.  Requests and Logs are       *)
(* numbered by their position in `script', an append-only history; the     *)
(* Logs waiting in the connection are those numbered taken+1 .. answered.  *)
(***************************************************************************)
EXTENDS Naturals, Sequences

CONSTANTS
  Query,     \* the GetLayout RPCs that may be in progress, each issued once
  None,      \* no query
  MaxNoise,  \* bound: messages without a query meaning the server may send
  ReadOnly   \* the relay was opened with a read-only token

ASSUME QueryAssumption ==
  /\ None \notin Query
  /\ MaxNoise \in Nat
  /\ ReadOnly \in BOOLEAN

VARIABLES
  rpc,         \* progress of each GetLayout: what its caller knows
  answer,      \* the two Logs its snapshot was parsed from (history)
  clean,       \* queries armed when no Log was outstanding, and where (history)
  ctrl,        \* control_rx: QueryLayout commands not yet taken
  inbound,     \* where the inbound task is
  firing,      \* the query it has armed and not yet fired, if any
  armed,       \* query_rx: queries handed off, not yet drained
  slot,        \* in_flight: the one query the reader holds
  reader,      \* where the reader thread is
  hand,        \* the Log recv() returned, or NoLog
  script,      \* every request fired, in order (history)
  answered,    \* how many of them the server has answered
  taken,       \* how many of the Logs recv() has returned
  noise,       \* Render and Other messages waiting in the connection
  sent,        \* how many of those the server has sent of its own accord
  link         \* the connection to the session

inbVars    == <<ctrl, inbound, firing>>
readerVars == <<armed, slot, reader, hand>>
linkVars   == <<script, answered, taken, noise, sent, link>>
vars == <<rpc, answer, clean, inbVars, readerVars, linkVars>>

----------------------------------------------------------------------------
Kind    == {"tabs", "panes"}
Request == [q : Query, kind : Kind]
NoLog   == 0
Empty   == [q |-> None, tabs |-> NoLog]
Held(q, t) == [q |-> q, tabs |-> t]
Unanswered == [tabs |-> NoLog, panes |-> NoLog]

\* The inbound task removes the relay's registry entry as it leaves its loop,
\* and raises the reader's stop-flag after that.
Registered == inbound = "select"
Stop       == inbound \in {"joining", "gone"}

\* oneshot::Sender::is_closed(): the RPC dropped its receiver.
Closed(q) == rpc[q] # "waiting"

\* Dropping a reply sender cancels its receiver; get_layout then falls back
\* to a query of its own over an ephemeral connection.
Cancel(dropped) ==
  rpc' = [q \in Query |->
            IF q \in dropped /\ rpc[q] = "waiting" THEN "fallback" ELSE rpc[q]]

InSlot    == {slot.q} \ {None}
InArmed   == {armed[i] : i \in 1 .. Len(armed)}
InControl == {ctrl[i] : i \in 1 .. Len(ctrl)}

\* A request or a Log of an earlier query has not reached the reader's match.
Outstanding == taken < Len(script) \/ hand # NoLog

\* parse_zellij_layout: a payload of the other kind does not deserialize.
Parses(t, p) == script[t].kind = "tabs" /\ script[p].kind = "panes"

----------------------------------------------------------------------------
Init ==
  /\ rpc = [q \in Query |-> "idle"]
  /\ answer = [q \in Query |-> Unanswered]
  /\ clean = [q \in {} |-> NoLog]
  /\ ctrl = <<>> /\ inbound = "select" /\ firing = {}
  /\ armed = <<>> /\ slot = Empty /\ reader = "top" /\ hand = NoLog
  /\ script = <<>> /\ answered = 0 /\ taken = 0
  /\ noise = 0 /\ sent = 0 /\ link = "up"

----------------------------------------------------------------------------
(* get_layout_impl: the registry lookup clones the sender and releases the *)
(* registry; the send happens later, when the relay may be tearing down.   *)

Lookup(q) ==
  /\ rpc[q] = "idle"
  /\ rpc' = [rpc EXCEPT ![q] = IF Registered THEN "found" ELSE "fallback"]
  /\ UNCHANGED <<answer, clean, inbVars, readerVars, linkVars>>

SendQuery(q) ==
  /\ rpc[q] = "found"
  /\ IF inbound = "gone"
     THEN rpc' = [rpc EXCEPT ![q] = "fallback"] /\ UNCHANGED ctrl
     ELSE rpc' = [rpc EXCEPT ![q] = "waiting"]  /\ ctrl' = Append(ctrl, q)
  /\ UNCHANGED <<answer, clean, inbound, firing, readerVars,
                 linkVars>>

\* RELAY_QUERY_TIMEOUT fires, or the RPC itself is cancelled: the receiver is
\* dropped while the reply sender lives on somewhere in the relay.
Timeout(q) ==
  /\ rpc[q] = "waiting"
  /\ rpc' = [rpc EXCEPT ![q] = "fallback"]
  /\ UNCHANGED <<answer, clean, inbVars, readerVars, linkVars>>

----------------------------------------------------------------------------
(* handle_query_layout, the in-band path: arm first, then fire.            *)

ArmQuery ==
  /\ inbound = "select" /\ firing = {} /\ ctrl # <<>>
  /\ ctrl' = Tail(ctrl)
  /\ LET q == Head(ctrl) IN
       IF reader = "exited"
       THEN /\ Cancel({q})               \* "render thread not available"
            /\ UNCHANGED <<armed, firing, clean>>
       ELSE /\ armed' = Append(armed, q)
            /\ firing' = {q}
            /\ clean' = IF Outstanding THEN clean
                        ELSE [p \in DOMAIN clean \cup {q} |->
                                IF p = q THEN Len(script) ELSE clean[p]]
            /\ UNCHANGED rpc
  /\ UNCHANGED <<answer, inbound, slot, reader, hand, linkVars>>

\* A plausible bug: the panes asked for before the tabs.
FirePanesFirst ==
  /\ firing' = {}
  /\ \E q \in firing, n \in 0 .. 2 :
       /\ link = "down" => n = 0
       /\ script' = script \o SubSeq(<<[q |-> q, kind |-> "panes"],
                                       [q |-> q, kind |-> "tabs"]>>, 1, n)
       /\ link' = IF n = 2 THEN link ELSE "down"
  /\ UNCHANGED <<rpc, answer, clean, ctrl, inbound, readerVars,
                 answered, taken, noise, sent>>

\* MuxSender::query_layout: two writes; the peer may have closed before the
\* first or between them.  A failed write is only logged.
FireQuery ==
  /\ firing' = {}
  /\ \E q \in firing, n \in 0 .. 2 :
       /\ link = "down" => n = 0
       /\ script' = script \o SubSeq(<<[q |-> q, kind |-> "tabs"],
                                       [q |-> q, kind |-> "panes"]>>, 1, n)
       /\ link' = IF n = 2 THEN link ELSE "down"
  /\ UNCHANGED <<rpc, answer, clean, ctrl, inbound, readerVars,
                 answered, taken, noise, sent>>

----------------------------------------------------------------------------
(* The end of inbound_loop: deregister, then ShutdownGuard::drop (raise    *)
(* the stop-flag, nudge, join), then the arguments, control_rx among them. *)

Deregister ==
  /\ inbound = "select" /\ firing = {}
  /\ inbound' = "leaving"
  /\ UNCHANGED <<rpc, answer, clean, ctrl, firing, readerVars, linkVars>>

Shutdown ==
  /\ inbound = "leaving"
  /\ inbound' = "joining"
  /\ IF ReadOnly
     THEN link' = "down" /\ UNCHANGED noise         \* send_client_exited
     ELSE noise' = noise + (IF link = "up" THEN 1 ELSE 0) /\ UNCHANGED link
  /\ UNCHANGED <<rpc, answer, clean, ctrl, firing, readerVars,
                 script, answered, taken, sent>>

Join ==
  /\ inbound = "joining" /\ reader = "exited"
  /\ inbound' = "gone"
  /\ ctrl' = <<>>
  /\ Cancel(InControl)
  /\ UNCHANGED <<answer, clean, firing, readerVars, linkVars>>

----------------------------------------------------------------------------
(* render_loop, the reader thread.                                         *)

\* A plausible bug: the query being replaced is lost without its caller being
\* told, the sender having been parked somewhere else.
ReplaceSilently ==
  IF armed = <<>>
  THEN /\ slot' = IF slot.q # None /\ Closed(slot.q) THEN Empty ELSE slot
       /\ UNCHANGED <<rpc, armed>>
  ELSE /\ slot' = Held(armed[Len(armed)], NoLog)
       /\ armed' = <<>>
       /\ UNCHANGED rpc

\* drain_queries: retire a held query whose receiver is gone, then let the
\* last query handed off replace whatever is held.
Drain ==
  IF armed = <<>>
  THEN /\ slot' = IF slot.q # None /\ Closed(slot.q) THEN Empty ELSE slot
       /\ UNCHANGED <<rpc, armed>>
  ELSE /\ slot' = Held(armed[Len(armed)], NoLog)
       /\ armed' = <<>>
       /\ Cancel(InSlot \cup {armed[i] : i \in 1 .. Len(armed) - 1})

\* Every way out drops in_flight and query_rx, and every reply in them.
Leave ==
  /\ reader' = "exited"
  /\ hand' = NoLog
  /\ slot' = Empty
  /\ armed' = <<>>
  /\ Cancel(InSlot \cup InArmed)

BeforeRecv ==
  /\ reader = "top"
  /\ IF Stop THEN Leave
     ELSE Drain /\ reader' = "recv" /\ UNCHANGED hand
  /\ UNCHANGED <<answer, clean, inbVars, linkVars>>

RecvLog ==
  /\ reader = "recv" /\ taken < answered
  /\ reader' = "got"
  /\ taken' = taken + 1
  /\ hand' = taken + 1
  /\ UNCHANGED <<rpc, answer, clean, inbVars, armed, slot, script, answered, noise,
                 sent, link>>

RecvOther ==
  /\ reader = "recv" /\ noise > 0
  /\ reader' = "got"
  /\ noise' = noise - 1
  /\ UNCHANGED <<rpc, answer, clean, inbVars, armed, slot, hand, script, answered,
                 taken, sent, link>>

\* recv() returns None, or the session's Exit event, which is always last.
RecvEnd ==
  /\ reader = "recv" /\ link = "down" /\ taken = answered /\ noise = 0
  /\ Leave
  /\ UNCHANGED <<answer, clean, inbVars, linkVars>>

\* A plausible bug: the hand-off is looked at before recv() only, so a query
\* armed while recv() blocks misses its own first Log.
MatchUndrained ==
  /\ reader = "got"
  /\ IF Stop THEN Leave
     ELSE reader' = "match" /\ UNCHANGED <<rpc, armed, slot, hand>>
  /\ UNCHANGED <<answer, clean, inbVars, linkVars>>

AfterRecv ==
  /\ reader = "got"
  /\ IF Stop THEN Leave
     ELSE Drain /\ reader' = "match" /\ UNCHANGED hand
  /\ UNCHANGED <<answer, clean, inbVars, linkVars>>

\* capture_query_log
CaptureLog ==
  /\ reader = "match" /\ hand # NoLog
  /\ reader' = "top" /\ hand' = NoLog
  /\ IF slot.q = None THEN UNCHANGED <<rpc, answer, slot>>
     ELSE IF Closed(slot.q) THEN slot' = Empty /\ UNCHANGED <<rpc, answer>>
     ELSE IF slot.tabs = NoLog
     THEN slot' = Held(slot.q, hand) /\ UNCHANGED <<rpc, answer>>
     ELSE /\ slot' = Empty
          /\ IF Parses(slot.tabs, hand)
             THEN /\ rpc' = [rpc EXCEPT ![slot.q] = "snapshot"]
                  /\ answer' = [answer EXCEPT
                                  ![slot.q] = [tabs |-> slot.tabs, panes |-> hand]]
             ELSE rpc' = [rpc EXCEPT ![slot.q] = "fallback"] /\ UNCHANGED answer
  /\ UNCHANGED <<clean, inbVars, armed, linkVars>>

\* A Render is forwarded, anything else is drained.  Forwarding fails when
\* the client's outbound stream has been dropped, which may be at any time.
ForwardOther ==
  /\ reader = "match" /\ hand = NoLog
  /\ \/ reader' = "top" /\ UNCHANGED <<rpc, armed, slot, hand>>
     \/ Leave
  /\ UNCHANGED <<answer, clean, inbVars, linkVars>>

----------------------------------------------------------------------------
(* The zellij server (external).                                           *)

ServerAnswers ==
  /\ link = "up" /\ answered < Len(script)
  /\ answered' = answered + 1
  /\ UNCHANGED <<rpc, answer, clean, inbVars, readerVars, script, taken, noise,
                 sent, link>>

ServerRenders ==
  /\ link = "up" /\ sent < MaxNoise
  /\ sent' = sent + 1
  /\ noise' = noise + 1
  /\ UNCHANGED <<rpc, answer, clean, inbVars, readerVars, script, answered, taken,
                 link>>

ServerCloses ==
  /\ link = "up"
  /\ link' = "down"
  /\ UNCHANGED <<rpc, answer, clean, inbVars, readerVars, script, answered, taken,
                 noise, sent>>

----------------------------------------------------------------------------
Rpc     == \E q \in Query : Lookup(q) \/ SendQuery(q) \/ Timeout(q)
Inbound == ArmQuery \/ FireQuery \/ Deregister \/ Shutdown \/ Join
Reader  == \/ BeforeRecv \/ RecvLog \/ RecvOther \/ RecvEnd
           \/ AfterRecv \/ CaptureLog \/ ForwardOther
Server  == ServerAnswers \/ ServerRenders \/ ServerCloses

Next == Rpc \/ Inbound \/ Reader \/ Server

Spec == Init /\ [][Next]_vars

\* Threads and tasks run, a call in progress is carried on, a connected
\* server answers what it is asked.  Nothing makes a timeout fire, a server
\* render or close, or an attach end.
Fairness ==
  /\ \A q \in Query : WF_vars(SendQuery(q))
  /\ WF_vars(ArmQuery) /\ WF_vars(FireQuery) /\ WF_vars(Shutdown) /\ WF_vars(Join)
  /\ WF_vars(Reader)
  /\ WF_vars(ServerAnswers)

FairSpec == Spec /\ Fairness

----------------------------------------------------------------------------
RpcTypeOK ==
  /\ rpc \in [Query -> {"idle", "found", "waiting", "snapshot", "fallback"}]
  /\ answer \in [Query -> [tabs : Nat, panes : Nat]]
  /\ DOMAIN clean \subseteq Query
  /\ clean \in [DOMAIN clean -> Nat]

InboundTypeOK ==
  /\ ctrl \in Seq(Query)
  /\ inbound \in {"select", "leaving", "joining", "gone"}
  /\ firing \in SUBSET Query

ReaderTypeOK ==
  /\ armed \in Seq(Query)
  /\ slot \in [q : Query \cup {None}, tabs : Nat]
  /\ reader \in {"top", "recv", "got", "match", "exited"}
  /\ hand \in Nat

LinkTypeOK ==
  /\ script \in Seq(Request)
  /\ answered \in 0 .. Len(script)
  /\ taken \in 0 .. answered
  /\ noise \in Nat
  /\ sent \in 0 .. MaxNoise
  /\ link \in {"up", "down"}

TypeOK == RpcTypeOK /\ InboundTypeOK /\ ReaderTypeOK /\ LinkTypeOK

\* A snapshot is parsed from the tabs and the panes of one and the same query,
\* whichever query that is: Logs that lag behind can make a query fail or be
\* answered by another one's pair, and never mix two (capture_query_log and
\* the order in which query_layout fires the two actions).
NeverTorn ==
  \A q \in Query :
    rpc[q] = "snapshot" => script[answer[q].tabs].q = script[answer[q].panes].q

\* A query armed when no earlier request or Log was outstanding is immune to
\* what came before it: the Logs it captures are its own, so a connection
\* that has fallen behind heals with the first query that finds it drained.
CleanQueriesOwnTheirLogs ==
  \A q \in DOMAIN clean :
    /\ (slot.q = q /\ slot.tabs # NoLog) =>
          script[slot.tabs] = [q |-> q, kind |-> "tabs"]
    /\ rpc[q] = "snapshot" =>
          /\ script[answer[q].tabs] = [q |-> q, kind |-> "tabs"]
          /\ script[answer[q].panes] = [q |-> q, kind |-> "panes"]

\* The reply of a waiting GetLayout is held by exactly one owner who will
\* fulfil it or drop it: the control channel, the hand-off channel or the
\* reader's slot.  No command is taken and then forgotten, whatever order the
\* teardown of the relay and the hand-off come in.
NoOrphanedReply ==
  \A q \in Query : rpc[q] = "waiting" =>
    \/ q \in InControl /\ q \notin InArmed \cup InSlot
    \/ q \in InArmed   /\ q \notin InControl \cup InSlot
    \/ q \in InSlot    /\ q \notin InControl \cup InArmed

\* What its callers are promised, with a query known by what was sent of it.
Promise == INSTANCE LayoutRpc WITH
  call  <- [q \in Query |-> IF rpc[q] \in {"found", "waiting"} THEN "pending" ELSE rpc[q]],
  fired <- {script[i].q : i \in {j \in 1 .. Len(script) : script[j].kind = "panes"}},
  from  <- [q \in Query |-> IF answer[q] = Unanswered THEN {}
                            ELSE {script[answer[q].tabs].q, script[answer[q].panes].q}]

\* The relay keeps the promise: whatever it is asked at once and however Logs lag
\* behind, every snapshot is made of what one query was told, and every GetLayout
\* ends without the help of its 18 s timeout, as long as the server answers or
\* closes and the relay runs.
KeepsPromise == Promise!FairSpec

=============================================================================
