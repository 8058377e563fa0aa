------------------------- MODULE RelayControlProofs -------------------------
(***************************************************************************)
(* What RelayControl promises, proved for any relays, calls and backends:  *)
(* where commands go, and that layouts are not from before them.           *)
(***************************************************************************)
EXTENDS RelayControl, TLAPS, SequenceTheorems

\* The calls that hold a relay, or held one to the end.
Afoot == {"sending", "waiting", "queried", "snapshot", "answered", "acked"}

\* What the lookup promised of the relay a call holds.
Route(k) ==
  stage[k] \in Afoot =>
    /\ target[k] \in Conn /\ req[k].conn \in {Owner[k], NoConn}
    /\ Mutating(req[k].cmd.op) => Owner[k] \notin ReadOnly
    /\ \/ req[k].cmd = Layout
       \/ target[k] = req[k].conn
       \/ ~IsCollapsed(Id(k)) /\ target[k] \notin ReadOnly

\* Commands and layout queries end differently.
KindOfStage(k) ==
  /\ stage[k] = "acked" => req[k].cmd # Layout
  /\ stage[k] \in {"waiting", "queried", "snapshot", "answered"} => req[k].cmd = Layout
  /\ shown[k] # NoTab => stage[k] = "answered" /\ target[k] = req[k].conn

\* The commands in a relay's channel before the i-th message.
Ahead(c, i) == {ctrl[c][j] : j \in {n \in 1 .. i - 1 : req[ctrl[c][n]].cmd # Layout}}
Below(c, i) == done[c] \cup asking[c] \cup Ahead(c, i)

\* A call is in the channel, or being answered, after its lookup, and of the
\* relay it found.
Placed(c) ==
  /\ \A i \in 1 .. Len(ctrl[c]) : stage[ctrl[c][i]] # "idle" /\ target[ctrl[c][i]] = c
  /\ \A k \in asking[c] : stage[k] # "idle" /\ req[k].cmd.op = "unhinted"

\* Every command a relay was sent is done, or under way, or ahead.
AllPutAreBelow(c) == phase[c] # "gone" => put[c] \subseteq Below(c, Len(ctrl[c]) + 1)

\* And what its client had put when it asked for a layout is ahead of that query.
SinceIsAhead(c) ==
  \A i \in 1 .. Len(ctrl[c]) :
    Owner[ctrl[c][i]] = c => since[ctrl[c][i]] \subseteq Below(c, i)

\* So it is done once the relay has come to it.
SinceIsDone(k) ==
  /\ stage[k] = "sending" => since[k] \subseteq put[Owner[k]]
  /\ target[k] = Owner[k] =>
       /\ stage[k] \in {"queried", "snapshot"} => since[k] \subseteq done[Owner[k]]
       /\ stage[k] = "answered" => since[k] \subseteq asof[k]

Ordered(c) == Placed(c) /\ AllPutAreBelow(c) /\ SinceIsAhead(c)

Routes  == \A k \in Call : Route(k) /\ KindOfStage(k)
InOrder == (\A c \in Conn : Ordered(c)) /\ \A k \in Call : SinceIsDone(k)

IInv == TypeOK /\ Routes /\ InOrder

----------------------------------------------------------------------------
(* The operators.                                                          *)

LEMMA CommandShape ==
  /\ \A cmd \in Command : /\ cmd # Layout /\ cmd.op \in {"tab", "focus", "toggle", "unhinted"}
                          /\ cmd.op = "tab" => cmd.arg \in Tab
                          /\ cmd.op # "tab" => cmd.arg \in Pane
  /\ Layout.op = "layout"
BY DEF Command, Layout

\* What the lookup finds is there and, for a command, its own relay or a
\* writable one of a session with a name of its own.
LEMMA TargetsAreRouted ==
  ASSUME NEW id, NEW conn
  PROVE  /\ CommandTargets(id, conn) \subseteq Entries(id)
         /\ LayoutTargets(id, conn) \subseteq Entries(id)
         /\ \A c \in CommandTargets(id, conn) : c = conn \/ (~IsCollapsed(id) /\ c \notin ReadOnly)
BY DEF CommandTargets, LayoutTargets

\* Nothing a control arm does takes a view out of its type.
LEMMA ViewsStayTyped ==
  ASSUME TypeOK, NEW c \in Conn, NEW k \in Call, req[k].cmd \in Command,
         req[k].cmd.op # "unhinted" \/ c \in ReadOnly,
         NEW v \in ViewAfter(c, req[k].cmd)
  PROVE  v \in [tab : Tab \cup {NoTab}, pane : Pane \cup {NoPane}]
<1>1. view[c] \in [tab : Tab \cup {NoTab}, pane : Pane \cup {NoPane}]
  BY DEF TypeOK
<1>2. CASE c \in ReadOnly
  BY <1>1, <1>2 DEF ViewAfter
<1>3. CASE c \notin ReadOnly /\ req[k].cmd.op = "tab"
  BY <1>1, <1>3, CommandShape DEF ViewAfter
<1>4. CASE c \notin ReadOnly /\ req[k].cmd.op = "focus"
  BY <1>1, <1>4, CommandShape DEF ViewAfter
<1>5. CASE c \notin ReadOnly /\ req[k].cmd.op = "toggle"
  BY <1>1, <1>5, CommandShape DEF ViewAfter, Toggled
<1>6. QED
  BY <1>2, <1>3, <1>4, <1>5, CommandShape

----------------------------------------------------------------------------
(* Types.                                                                  *)

LEMMA InitTypeOK == Init => TypeOK
BY ControlAssumption DEF Init, TypeOK, Unknown, Layout

ViewType == [tab : Tab \cup {NoTab}, pane : Pane \cup {NoPane}]

\* A message is taken off the channel: a query is taken up, a command done.
LEMMA TakeEffect ==
  ASSUME TypeOK, NEW c \in Conn, TakeCommand(c)
  PROVE  /\ phase[c] = "serving" /\ asking[c] = {} /\ ctrl[c] # <<>>
         /\ Head(ctrl[c]) \in Call /\ Tail(ctrl[c]) \in Seq(Call)
         /\ ctrl' = [ctrl EXCEPT ![c] = Tail(ctrl[c])]
         /\ idOf' = idOf /\ phase' = phase /\ asking' = asking /\ put' = put /\ req' = req
         /\ target' = target /\ since' = since /\ asof' = asof /\ shown' = shown
         /\ \/ /\ req[Head(ctrl[c])].cmd = Layout
               /\ stage' = [stage EXCEPT ![Head(ctrl[c])] = IF @ = "waiting" THEN "queried" ELSE @]
               /\ view' = view /\ done' = done
            \/ /\ req[Head(ctrl[c])].cmd # Layout
               /\ done' = [done EXCEPT ![c] = done[c] \cup {Head(ctrl[c])}] /\ stage' = stage
               /\ \E v \in ViewType : view' = [view EXCEPT ![c] = v]
<1> DEFINE k == Head(ctrl[c])
<1>1. ctrl[c] \in Seq(Call) /\ ctrl[c] # <<>>
  BY DEF TakeCommand, TypeOK
<1>2. k \in Call /\ Tail(ctrl[c]) \in Seq(Call)
  BY <1>1, HeadTailProperties
<1>3. /\ phase[c] = "serving" /\ asking[c] = {}
      /\ ctrl' = [ctrl EXCEPT ![c] = Tail(ctrl[c])]
      /\ idOf' = idOf /\ phase' = phase /\ asking' = asking /\ put' = put /\ req' = req
      /\ target' = target /\ since' = since /\ asof' = asof /\ shown' = shown
  BY DEF TakeCommand
<1>4. CASE req[k].cmd = Layout
  <2>1. /\ stage' = [stage EXCEPT ![k] = IF @ = "waiting" THEN "queried" ELSE @]
        /\ view' = view /\ done' = done
    BY <1>4 DEF TakeCommand
  <2>2. QED
    BY <1>1, <1>2, <1>3, <1>4, <2>1
<1>5. CASE req[k].cmd # Layout
  <2>1. req[k].cmd \in Command
    BY <1>2, <1>5 DEF TypeOK
  <2>2. req[k].cmd.op # "unhinted" \/ c \in ReadOnly
    BY DEF TakeCommand, NeedsAnswer
  <2>3. PICK v \in ViewAfter(c, req[k].cmd) : view' = [view EXCEPT ![c] = v]
    BY <1>5 DEF TakeCommand
  <2>4. v \in ViewType
    BY <1>2, <2>1, <2>2, ViewsStayTyped DEF ViewType
  <2>5. done' = [done EXCEPT ![c] = done[c] \cup {k}] /\ stage' = stage
    BY <1>5 DEF TakeCommand
  <2>6. QED
    BY <1>1, <1>2, <1>3, <1>5, <2>3, <2>4, <2>5
<1>6. QED
  BY <1>4, <1>5

\* A toggle is set aside for the answer about its pane.
LEMMA AskEffect ==
  ASSUME TypeOK, NEW c \in Conn, AskPane(c)
  PROVE  /\ phase[c] = "serving" /\ asking[c] = {} /\ ctrl[c] # <<>>
         /\ Head(ctrl[c]) \in Call /\ Tail(ctrl[c]) \in Seq(Call)
         /\ req[Head(ctrl[c])].cmd.op = "unhinted"
         /\ ctrl' = [ctrl EXCEPT ![c] = Tail(ctrl[c])]
         /\ asking' = [asking EXCEPT ![c] = {Head(ctrl[c])}]
         /\ idOf' = idOf /\ phase' = phase /\ view' = view /\ put' = put /\ done' = done
         /\ UNCHANGED callVars
<1>1. ctrl[c] \in Seq(Call) /\ ctrl[c] # <<>>
  BY DEF AskPane, TypeOK
<1>2. Head(ctrl[c]) \in Call /\ Tail(ctrl[c]) \in Seq(Call)
  BY <1>1, HeadTailProperties
<1>3. QED
  BY <1>1, <1>2 DEF AskPane, NeedsAnswer

\* And done with, whatever the answer.
LEMMA ToldEffect ==
  ASSUME TypeOK, NEW c \in Conn, PaneTold(c), \A k \in asking[c] : req[k].cmd.op = "unhinted"
  PROVE  /\ asking' = [asking EXCEPT ![c] = {}]
         /\ done' = [done EXCEPT ![c] = done[c] \cup asking[c]]
         /\ idOf' = idOf /\ phase' = phase /\ ctrl' = ctrl /\ put' = put
         /\ UNCHANGED callVars
         /\ \E v \in ViewType : view' = [view EXCEPT ![c] = v]
<1>1. PICK k \in asking[c], f \in Asked :
        \E v \in {view[c], Toggled(view[c], req[k].cmd.arg, f)} : view' = [view EXCEPT ![c] = v]
  BY DEF PaneTold
<1>2. PICK v \in {view[c], Toggled(view[c], req[k].cmd.arg, f)} : view' = [view EXCEPT ![c] = v]
  BY <1>1
<1>3. k \in Call
  BY DEF TypeOK
<1>4. req[k].cmd \in Command \cup {Layout}
  BY <1>3 DEF TypeOK
<1>5. req[k].cmd.arg \in Pane
  BY <1>4, CommandShape
<1>6. view[c] \in ViewType
  BY DEF TypeOK, ViewType
<1>7. v \in ViewType
  BY <1>2, <1>5, <1>6 DEF ViewType, Toggled
<1>8. QED
  BY <1>2, <1>7 DEF PaneTold

LEMMA RelayTypeOK ==
  ASSUME TypeOK, NEW c \in Conn, Relay(c), \A k \in asking[c] : req[k].cmd.op = "unhinted"
  PROVE  TypeOK'
<1>1. CASE AttachRelay(c)
  BY <1>1 DEF TypeOK, AttachRelay, callVars
<1>2. CASE Leave(c)
  BY <1>2 DEF TypeOK, Leave, Unknown, callVars
<1>3. CASE DropChannel(c)
  BY <1>3 DEF TypeOK, DropChannel
<1>4. CASE TakeCommand(c)
  <2> DEFINE k == Head(ctrl[c])
  <2>1. k \in Call /\ Tail(ctrl[c]) \in Seq(Call)
    BY <1>4, TakeEffect
  <2>2. /\ ctrl' = [ctrl EXCEPT ![c] = Tail(ctrl[c])]
        /\ UNCHANGED <<idOf, phase, asking, put, req, target, since, asof, shown>>
    BY <1>4, TakeEffect
  <2>3. CASE /\ stage' = [stage EXCEPT ![k] = IF @ = "waiting" THEN "queried" ELSE @]
             /\ view' = view /\ done' = done
    BY <2>1, <2>2, <2>3 DEF TypeOK
  <2>4. CASE /\ done' = [done EXCEPT ![c] = done[c] \cup {k}] /\ stage' = stage
             /\ \E v \in ViewType : view' = [view EXCEPT ![c] = v]
    BY <2>1, <2>2, <2>4 DEF TypeOK, ViewType
  <2>5. QED
    BY <1>4, <2>3, <2>4, TakeEffect
<1>5. CASE AskPane(c)
  <2> DEFINE k == Head(ctrl[c])
  <2>1. k \in Call /\ Tail(ctrl[c]) \in Seq(Call)
    BY <1>5, AskEffect
  <2>2. /\ ctrl' = [ctrl EXCEPT ![c] = Tail(ctrl[c])]
        /\ asking' = [asking EXCEPT ![c] = {k}]
        /\ idOf' = idOf /\ phase' = phase /\ view' = view /\ put' = put /\ done' = done
        /\ UNCHANGED callVars
    BY <1>5, AskEffect
  <2>3. QED
    BY <2>1, <2>2 DEF TypeOK, callVars
<1>6. CASE PaneTold(c)
  <2>1. /\ asking' = [asking EXCEPT ![c] = {}]
        /\ done' = [done EXCEPT ![c] = done[c] \cup asking[c]]
        /\ idOf' = idOf /\ phase' = phase /\ ctrl' = ctrl /\ put' = put
        /\ UNCHANGED callVars
        /\ \E v \in ViewType : view' = [view EXCEPT ![c] = v]
    BY <1>6, ToldEffect
  <2>2. QED
    BY <2>1 DEF TypeOK, callVars, ViewType
<1>7. QED
  BY <1>1, <1>2, <1>3, <1>4, <1>5, <1>6 DEF Relay

\* A call that begins is refused, goes to the backend, or holds a relay that
\* is there and that its lookup may give it.
LEMMA BeginEffect ==
  ASSUME TypeOK, NEW k \in Call, Begin(k)
  PROVE  /\ stage[k] = "idle" /\ UNCHANGED <<relayVars, asof, shown>>
         /\ \/ /\ UNCHANGED <<req, target, since>>
               /\ \E s \in {"rejected", "reattach", "ephemeral"} : stage' = [stage EXCEPT ![k] = s]
            \/ \E cmd \in Command \cup {Layout}, conn \in {Owner[k], NoConn}, c \in Conn :
                 /\ stage' = [stage EXCEPT ![k] = "sending"]
                 /\ req' = [req EXCEPT ![k] = [cmd |-> cmd, conn |-> conn]]
                 /\ target' = [target EXCEPT ![k] = c]
                 /\ since' = [since EXCEPT ![k] = IF cmd = Layout THEN put[Owner[k]] ELSE {}]
                 /\ Mutating(cmd.op) => Owner[k] \notin ReadOnly
                 /\ cmd = Layout \/ c = conn \/ (~IsCollapsed(Id(k)) /\ c \notin ReadOnly)
<1> DEFINE Found(cmd, conn) == IF cmd = Layout THEN LayoutTargets(Id(k), conn)
                               ELSE CommandTargets(Id(k), conn)
<1>1. stage[k] = "idle" /\ UNCHANGED <<relayVars, asof, shown>>
  BY DEF Begin
<1>2. PICK cmd \in Command \cup {Layout}, conn \in {Owner[k], NoConn} :
        IF Rejected(k, cmd) \/ Found(cmd, conn) = {}
        THEN /\ stage' = [stage EXCEPT ![k] =
                            IF Rejected(k, cmd) THEN "rejected" ELSE Otherwise(k, cmd)]
             /\ UNCHANGED <<req, target, since>>
        ELSE \E c \in Found(cmd, conn) :
               /\ stage' = [stage EXCEPT ![k] = "sending"]
               /\ req' = [req EXCEPT ![k] = [cmd |-> cmd, conn |-> conn]]
               /\ target' = [target EXCEPT ![k] = c]
               /\ since' = [since EXCEPT ![k] = IF cmd = Layout THEN put[Owner[k]] ELSE {}]
  BY DEF Begin
<1>3. CASE Rejected(k, cmd) \/ Found(cmd, conn) = {}
  <2>1. /\ stage' = [stage EXCEPT ![k] =
                       IF Rejected(k, cmd) THEN "rejected" ELSE Otherwise(k, cmd)]
        /\ UNCHANGED <<req, target, since>>
    BY <1>2, <1>3
  <2>2. Otherwise(k, cmd) \in {"reattach", "ephemeral"}
    BY DEF Otherwise
  <2>3. \E s \in {"rejected", "reattach", "ephemeral"} : stage' = [stage EXCEPT ![k] = s]
    BY <2>1, <2>2
  <2>4. QED
    BY <1>1, <2>1, <2>3
<1>4. CASE ~(Rejected(k, cmd) \/ Found(cmd, conn) = {})
  <2>1. PICK c \in Found(cmd, conn) :
               /\ stage' = [stage EXCEPT ![k] = "sending"]
               /\ req' = [req EXCEPT ![k] = [cmd |-> cmd, conn |-> conn]]
               /\ target' = [target EXCEPT ![k] = c]
               /\ since' = [since EXCEPT ![k] = IF cmd = Layout THEN put[Owner[k]] ELSE {}]
    BY <1>2, <1>4
  <2>2. c \in Conn
    BY <2>1, TargetsAreRouted DEF Entries
  <2>3. cmd = Layout \/ c = conn \/ (~IsCollapsed(Id(k)) /\ c \notin ReadOnly)
    BY <2>1, TargetsAreRouted
  <2>4. Mutating(cmd.op) => Owner[k] \notin ReadOnly
    BY <1>4 DEF Rejected
  <2>5. \E c1 \in Conn :
               /\ stage' = [stage EXCEPT ![k] = "sending"]
               /\ req' = [req EXCEPT ![k] = [cmd |-> cmd, conn |-> conn]]
               /\ target' = [target EXCEPT ![k] = c1]
               /\ since' = [since EXCEPT ![k] = IF cmd = Layout THEN put[Owner[k]] ELSE {}]
               /\ Mutating(cmd.op) => Owner[k] \notin ReadOnly
               /\ cmd = Layout \/ c1 = conn \/ (~IsCollapsed(Id(k)) /\ c1 \notin ReadOnly)
    BY <2>1, <2>2, <2>3, <2>4
  <2>6. cmd \in Command \cup {Layout} /\ conn \in {Owner[k], NoConn}
    BY <1>2
  <2>7. QED
    BY <1>1, <2>5, <2>6
<1>5. QED
  BY <1>3, <1>4

\* What an RPC sends goes to the end of its relay's channel, if there is one.
LEMMA SendEffect ==
  ASSUME TypeOK, NEW k \in Call, Send(k), target[k] \in Conn
  PROVE  /\ stage[k] = "sending"
         /\ idOf' = idOf /\ phase' = phase /\ asking' = asking /\ view' = view /\ done' = done
         /\ req' = req /\ target' = target /\ since' = since /\ asof' = asof /\ shown' = shown
         /\ \/ /\ \E s \in {"reattach", "ephemeral"} : stage' = [stage EXCEPT ![k] = s]
               /\ ctrl' = ctrl /\ put' = put
            \/ /\ phase[target[k]] # "gone"
               /\ ctrl' = [ctrl EXCEPT ![target[k]] = Append(ctrl[target[k]], k)]
               /\ \/ /\ req[k].cmd = Layout
                     /\ stage' = [stage EXCEPT ![k] = "waiting"] /\ put' = put
                  \/ /\ req[k].cmd # Layout
                     /\ stage' = [stage EXCEPT ![k] = "acked"]
                     /\ put' = [put EXCEPT ![target[k]] = put[target[k]] \cup {k}]
<1>1. CASE phase[target[k]] = "gone"
  <2>1. Otherwise(k, req[k].cmd) \in {"reattach", "ephemeral"}
    BY DEF Otherwise
  <2>2. QED
    BY <1>1, <2>1 DEF Send
<1>2. CASE phase[target[k]] # "gone"
  BY <1>2 DEF Send
<1>3. QED
  BY <1>1, <1>2

LEMMA RpcTypeOK ==
  ASSUME TypeOK, NEW k \in Call, Rpc(k), stage[k] \in {"sending", "snapshot"} => target[k] \in Conn
  PROVE  TypeOK'
<1>1. CASE Begin(k)
  <2>1. UNCHANGED <<relayVars, asof, shown>> /\ Owner[k] \in Conn
    BY <1>1, ControlAssumption, BeginEffect
  <2>2. CASE UNCHANGED <<req, target, since>> /\ \E s \in {"rejected", "reattach", "ephemeral"} :
                stage' = [stage EXCEPT ![k] = s]
    BY <2>1, <2>2 DEF TypeOK, relayVars
  <2>3. ASSUME NEW cmd \in Command \cup {Layout}, NEW conn \in {Owner[k], NoConn},
               NEW c \in Conn, stage' = [stage EXCEPT ![k] = "sending"],
               req' = [req EXCEPT ![k] = [cmd |-> cmd, conn |-> conn]],
               target' = [target EXCEPT ![k] = c],
               since' = [since EXCEPT ![k] = IF cmd = Layout THEN put[Owner[k]] ELSE {}]
        PROVE  TypeOK'
    BY <2>1, <2>3 DEF TypeOK, relayVars
  <2>4. QED
    BY <1>1, <2>2, <2>3, BeginEffect
<1>2. CASE Send(k)
  <2>1. target[k] \in Conn
    BY <1>2 DEF Send
  <2>2. Append(ctrl[target[k]], k) \in Seq(Call)
    BY <2>1 DEF TypeOK
  <2>3. /\ idOf' = idOf /\ phase' = phase /\ asking' = asking /\ view' = view /\ done' = done
        /\ req' = req /\ target' = target /\ since' = since /\ asof' = asof /\ shown' = shown
    BY <1>2, <2>1, SendEffect
  <2>4. CASE /\ \E s \in {"reattach", "ephemeral"} : stage' = [stage EXCEPT ![k] = s]
             /\ ctrl' = ctrl /\ put' = put
    BY <2>3, <2>4 DEF TypeOK
  <2>5. CASE /\ ctrl' = [ctrl EXCEPT ![target[k]] = Append(ctrl[target[k]], k)]
             /\ stage' = [stage EXCEPT ![k] = "waiting"] /\ put' = put
    BY <2>1, <2>2, <2>3, <2>5 DEF TypeOK
  <2>6. CASE /\ ctrl' = [ctrl EXCEPT ![target[k]] = Append(ctrl[target[k]], k)]
             /\ stage' = [stage EXCEPT ![k] = "acked"]
             /\ put' = [put EXCEPT ![target[k]] = put[target[k]] \cup {k}]
    BY <2>1, <2>2, <2>3, <2>6 DEF TypeOK
  <2>7. QED
    BY <1>2, <2>1, <2>4, <2>5, <2>6, SendEffect
<1>3. CASE Answered(k) \/ GiveUp(k)
  <2>1. /\ \E s \in {"snapshot", "ephemeral"} : stage' = [stage EXCEPT ![k] = s]
        /\ UNCHANGED <<relayVars, req, target, since, asof, shown>>
    BY <1>3 DEF Answered, GiveUp
  <2>2. QED
    BY <2>1 DEF TypeOK, relayVars
<1>4. CASE ReadView(k)
  <2>1. target[k] \in Conn
    BY <1>4 DEF ReadView
  <2>2. view[target[k]].tab \in Tab \cup {NoTab} /\ done[target[k]] \subseteq Call
    BY <2>1 DEF TypeOK
  <2>3. QED
    BY <1>4, <2>1, <2>2 DEF ReadView, TypeOK, relayVars
<1>5. QED
  BY <1>1, <1>2, <1>3, <1>4 DEF Rpc

----------------------------------------------------------------------------
(* Where the commands go.                                                  *)

\* A relay leaves every call where it was, but for a query that waited.
RelayKeeps ==
  /\ idOf' = idOf /\ req' = req /\ target' = target /\ since' = since
  /\ asof' = asof /\ shown' = shown
  /\ \A k \in Call : \/ stage'[k] = stage[k]
                     \/ stage[k] = "waiting" /\ stage'[k] \in {"queried", "ephemeral"}

LEMMA RelayKeepsCalls ==
  ASSUME TypeOK, NEW c \in Conn, Relay(c)
  PROVE  RelayKeeps
<1>1. CASE AttachRelay(c) \/ Leave(c) \/ AskPane(c) \/ PaneTold(c)
  BY <1>1 DEF AttachRelay, Leave, AskPane, PaneTold, callVars, RelayKeeps
<1>2. CASE DropChannel(c)
  BY <1>2 DEF DropChannel, TypeOK, RelayKeeps
<1>3. CASE TakeCommand(c)
  <2>1. CASE stage' = [stage EXCEPT ![Head(ctrl[c])] = IF @ = "waiting" THEN "queried" ELSE @]
    BY <1>3, <2>1, TakeEffect DEF TypeOK, RelayKeeps
  <2>2. CASE stage' = stage
    BY <1>3, <2>2, TakeEffect DEF RelayKeeps
  <2>3. QED
    BY <1>3, <2>1, <2>2, TakeEffect
<1>4. QED
  BY <1>1, <1>2, <1>3 DEF Relay

LEMMA RelayKeepsRoutes ==
  ASSUME TypeOK, Routes, NEW c \in Conn, Relay(c)
  PROVE  Routes'
<1>1. RelayKeeps
  BY RelayKeepsCalls
<1>2. SUFFICES ASSUME NEW k \in Call
               PROVE  Route(k)' /\ KindOfStage(k)'
  BY DEF Routes
<1>3. Route(k) /\ KindOfStage(k)
  BY DEF Routes
<1>4. Route(k)'
  BY <1>1, <1>3 DEF RelayKeeps, Route, Afoot, Id
<1>5. KindOfStage(k)'
  BY <1>1, <1>3 DEF RelayKeeps, KindOfStage
<1>6. QED
  BY <1>4, <1>5

LEMMA RpcKeepsRoutes ==
  ASSUME TypeOK, Routes, NEW k \in Call, Rpc(k)
  PROVE  Routes'
<1> DEFINE Kept(x) == /\ stage'[x] = stage[x] /\ req'[x] = req[x] /\ target'[x] = target[x]
                      /\ shown'[x] = shown[x]
<1>1. Route(k) /\ KindOfStage(k)
  BY DEF Routes
<1>2. SUFFICES idOf' = idOf /\ (\A x \in Call \ {k} : Kept(x)) /\ Route(k)' /\ KindOfStage(k)'
  <2>1. ASSUME NEW x \in Call \ {k}, Kept(x), idOf' = idOf
        PROVE  Route(x)' /\ KindOfStage(x)'
    BY <2>1 DEF Routes, Route, KindOfStage, Id
  <2>2. QED
    BY <2>1 DEF Routes
<1>3. CASE Begin(k)
  <2>1. stage[k] = "idle" /\ UNCHANGED <<relayVars, asof, shown>>
    BY <1>3, BeginEffect
  <2>2. shown[k] = NoTab
    BY <1>1, <2>1 DEF KindOfStage
  <2>3. CASE UNCHANGED <<req, target, since>> /\ \E s \in {"rejected", "reattach", "ephemeral"} :
                stage' = [stage EXCEPT ![k] = s]
    BY <2>1, <2>2, <2>3 DEF TypeOK, relayVars, Route, KindOfStage, Afoot
  <2>4. ASSUME NEW cmd \in Command \cup {Layout}, NEW conn \in {Owner[k], NoConn},
               NEW c \in Conn, stage' = [stage EXCEPT ![k] = "sending"],
               req' = [req EXCEPT ![k] = [cmd |-> cmd, conn |-> conn]],
               target' = [target EXCEPT ![k] = c],
               Mutating(cmd.op) => Owner[k] \notin ReadOnly,
               cmd = Layout \/ c = conn \/ (~IsCollapsed(Id(k)) /\ c \notin ReadOnly)
        PROVE  idOf' = idOf /\ (\A x \in Call \ {k} : Kept(x)) /\ Route(k)' /\ KindOfStage(k)'
    <3>1. stage'[k] = "sending" /\ target'[k] = c /\ req'[k] = [cmd |-> cmd, conn |-> conn]
      BY <2>4 DEF TypeOK
    <3>2. req'[k].cmd = cmd /\ req'[k].conn = conn
      BY <3>1
    <3>3. idOf' = idOf /\ shown' = shown
      BY <2>1 DEF relayVars
    <3>4. \A x \in Call \ {k} : Kept(x)
      BY <2>4, <3>3 DEF TypeOK
    <3>5. Route(k)'
      BY <2>4, <3>1, <3>2, <3>3 DEF Route, Id, Mutating
    <3>6. KindOfStage(k)'
      BY <2>2, <3>1, <3>3 DEF KindOfStage
    <3>7. QED
      BY <3>3, <3>4, <3>5, <3>6
  <2>5. QED
    BY <1>3, <2>3, <2>4, BeginEffect
<1>4. CASE Send(k)
  <2>1. stage[k] = "sending" /\ target[k] \in Conn
    BY <1>1, <1>4 DEF Send, Route, Afoot
  <2>2. idOf' = idOf /\ req' = req /\ target' = target /\ shown' = shown
    BY <1>4, <2>1, SendEffect
  <2>3. PICK s \in {"reattach", "ephemeral", "waiting", "acked"} :
          /\ stage' = [stage EXCEPT ![k] = s]
          /\ s = "waiting" => req[k].cmd = Layout
          /\ s = "acked" => req[k].cmd # Layout
    <3>1. CASE \E s \in {"reattach", "ephemeral"} : stage' = [stage EXCEPT ![k] = s]
      BY <3>1
    <3>2. CASE req[k].cmd = Layout /\ stage' = [stage EXCEPT ![k] = "waiting"]
      BY <3>2
    <3>3. CASE req[k].cmd # Layout /\ stage' = [stage EXCEPT ![k] = "acked"]
      BY <3>3
    <3>4. QED
      BY <1>4, <2>1, <3>1, <3>2, <3>3, SendEffect
  <2>4. stage'[k] = s /\ \A x \in Call \ {k} : stage'[x] = stage[x]
    BY <2>3 DEF TypeOK
  <2>5. Route(k)'
    BY <1>1, <2>1, <2>2, <2>4 DEF Route, Afoot, Id, Mutating
  <2>6. KindOfStage(k)'
    BY <1>1, <2>1, <2>2, <2>3, <2>4 DEF KindOfStage
  <2>7. QED
    BY <2>2, <2>4, <2>5, <2>6
<1>5. CASE Answered(k) \/ GiveUp(k)
  <2>1. /\ stage[k] \in {"waiting", "queried"} /\ idOf' = idOf
        /\ req' = req /\ target' = target /\ shown' = shown
        /\ \E s \in {"snapshot", "ephemeral"} : stage' = [stage EXCEPT ![k] = s]
    BY <1>5 DEF Answered, GiveUp, relayVars
  <2>2. stage'[k] \in {"snapshot", "ephemeral"} /\ \A x \in Call \ {k} : stage'[x] = stage[x]
    BY <2>1 DEF TypeOK
  <2>3. QED
    BY <1>1, <2>1, <2>2 DEF Route, KindOfStage, Afoot, Id
<1>6. CASE ReadView(k)
  <2>1. /\ stage[k] = "snapshot" /\ stage' = [stage EXCEPT ![k] = "answered"]
        /\ idOf' = idOf /\ req' = req /\ target' = target
        /\ shown' = [shown EXCEPT ![k] = IF Overrides(k) THEN view[target[k]].tab ELSE NoTab]
    BY <1>6 DEF ReadView, relayVars
  <2>2. /\ stage'[k] = "answered"
        /\ shown'[k] # NoTab => Overrides(k)
        /\ \A x \in Call \ {k} : stage'[x] = stage[x] /\ shown'[x] = shown[x]
    BY <2>1 DEF TypeOK
  <2>3. QED
    BY <1>1, <2>1, <2>2 DEF Route, KindOfStage, Afoot, Id, Overrides
<1>7. QED
  BY <1>3, <1>4, <1>5, <1>6 DEF Rpc

----------------------------------------------------------------------------
(* The order in a channel.                                                 *)

\* What lies ahead of a place in a channel is what was put before it.
LEMMA AheadMember ==
  ASSUME NEW c, NEW i, NEW x
  PROVE  x \in Ahead(c, i) <=> \E n \in 1 .. i - 1 : req[ctrl[c][n]].cmd # Layout /\ x = ctrl[c][n]
BY DEF Ahead

\* Nothing is ahead of the first message.
LEMMA NoneAhead == \A c : Ahead(c, 1) = {}
BY DEF Ahead

\* Calls that have begun keep what they ask for and of whom.
BegunKeep ==
  \A k \in Call : stage[k] # "idle" =>
    /\ stage'[k] # "idle" /\ req'[k] = req[k] /\ target'[k] = target[k] /\ since'[k] = since[k]

\* A channel nobody touches stays in order, whatever other calls do.
LEMMA ChannelKept ==
  ASSUME TypeOK, NEW c \in Conn, Ordered(c), BegunKeep,
         ctrl'[c] = ctrl[c], asking'[c] = asking[c], done'[c] = done[c], put'[c] = put[c],
         phase'[c] # "gone" => phase[c] # "gone"
  PROVE  Ordered(c)'
<1>1. ctrl[c] \in Seq(Call) /\ asking[c] \subseteq Call
  BY DEF TypeOK
<1>2. \A n \in 1 .. Len(ctrl[c]) :
        /\ ctrl[c][n] \in Call /\ stage[ctrl[c][n]] # "idle"
        /\ req'[ctrl[c][n]] = req[ctrl[c][n]] /\ since'[ctrl[c][n]] = since[ctrl[c][n]]
        /\ stage'[ctrl[c][n]] # "idle" /\ target'[ctrl[c][n]] = c
  BY <1>1 DEF Ordered, Placed, BegunKeep
<1>3. ASSUME NEW i \in 1 .. Len(ctrl[c]) + 1
      PROVE  Below(c, i)' = Below(c, i)
  <2>1. \A n \in 1 .. i - 1 : n \in 1 .. Len(ctrl[c])
    BY <1>1, <1>3
  <2>2. Ahead(c, i)' = Ahead(c, i)
    BY <1>2, <2>1 DEF Ahead
  <2>3. QED
    BY <2>2 DEF Below
<1>4. Placed(c)'
  BY <1>1, <1>2 DEF Ordered, Placed, BegunKeep
<1>5. AllPutAreBelow(c)'
  <2>1. Len(ctrl[c]) + 1 \in 1 .. Len(ctrl[c]) + 1
    BY <1>1
  <2>2. Below(c, Len(ctrl[c]) + 1)' = Below(c, Len(ctrl[c]) + 1)
    BY <1>3, <2>1
  <2>3. QED
    BY <2>2 DEF Ordered, AllPutAreBelow, Below, Ahead
<1>6. SinceIsAhead(c)'
  <2>1. SUFFICES ASSUME NEW i \in 1 .. Len(ctrl[c]), Owner[ctrl[c][i]] = c
                 PROVE  since'[ctrl[c][i]] \subseteq Below(c, i)'
    BY DEF SinceIsAhead
  <2>2. i \in 1 .. Len(ctrl[c]) + 1
    BY <1>1
  <2>3. since[ctrl[c][i]] \subseteq Below(c, i)
    BY <2>1 DEF Ordered, SinceIsAhead
  <2>4. QED
    BY <1>2, <1>3, <2>2, <2>3
<1>7. QED
  BY <1>4, <1>5, <1>6 DEF Ordered

\* A relay that takes the first message of its channel, and has done it, is
\* about it, or saw that it was a query, keeps the order of the rest.
LEMMA HeadTaken ==
  ASSUME TypeOK, NEW c \in Conn, Ordered(c), RelayKeeps,
         ctrl[c] # <<>>, ctrl'[c] = Tail(ctrl[c]), put'[c] = put[c], phase' = phase,
         \/ req[Head(ctrl[c])].cmd = Layout
         \/ Head(ctrl[c]) \in done'[c] \cup asking'[c],
         done[c] \cup asking[c] \subseteq done'[c] \cup asking'[c],
         \A k \in asking'[c] : stage[k] # "idle" /\ req[k].cmd.op = "unhinted" /\ k \in Call
  PROVE  Ordered(c)'
<1>1. /\ ctrl[c] \in Seq(Call) /\ Tail(ctrl[c]) \in Seq(Call)
      /\ Len(Tail(ctrl[c])) = Len(ctrl[c]) - 1 /\ Len(ctrl[c]) \in Nat /\ Len(ctrl[c]) >= 1
      /\ \A n \in 1 .. Len(Tail(ctrl[c])) : Tail(ctrl[c])[n] = ctrl[c][n + 1]
      /\ Head(ctrl[c]) = ctrl[c][1]
  BY HeadTailProperties DEF TypeOK
<1>2. req' = req /\ since' = since /\ target' = target
  BY DEF RelayKeeps
<1>3. \A k \in Call : stage[k] # "idle" => stage'[k] # "idle"
  BY DEF RelayKeeps
<1>4. ASSUME NEW i \in 1 .. Len(Tail(ctrl[c])) + 1
      PROVE  Below(c, i + 1) \subseteq Below(c, i)'
  <2>1. ASSUME NEW x \in Ahead(c, i + 1)
        PROVE  x \in Below(c, i)'
    <3>1. PICK n \in 1 .. (i + 1) - 1 : req[ctrl[c][n]].cmd # Layout /\ x = ctrl[c][n]
      BY AheadMember
    <3>2. CASE n = 1
      BY <1>1, <3>1, <3>2 DEF Below
    <3>3. CASE n # 1
      <4>1. n - 1 \in 1 .. i - 1 /\ n - 1 \in 1 .. Len(Tail(ctrl[c]))
        BY <1>1, <3>1, <3>3
      <4>2. Tail(ctrl[c])[n - 1] = ctrl[c][n]
        BY <1>1, <4>1
      <4>3. x \in Ahead(c, i)'
        BY <1>2, <3>1, <4>1, <4>2 DEF Ahead
      <4>4. QED
        BY <4>3 DEF Below
    <3>4. QED
      BY <3>2, <3>3
  <2>2. QED
    BY <2>1 DEF Below
<1>5. Placed(c)'
  <2>1. ASSUME NEW i \in 1 .. Len(Tail(ctrl[c]))
        PROVE  stage'[Tail(ctrl[c])[i]] # "idle" /\ target'[Tail(ctrl[c])[i]] = c
    <3>1. i + 1 \in 1 .. Len(ctrl[c]) /\ Tail(ctrl[c])[i] = ctrl[c][i + 1]
      BY <1>1
    <3>2. ctrl[c][i + 1] \in Call
      BY <1>1, <3>1
    <3>3. stage[ctrl[c][i + 1]] # "idle" /\ target[ctrl[c][i + 1]] = c
      BY <3>1 DEF Ordered, Placed
    <3>4. QED
      BY <1>2, <1>3, <3>1, <3>2, <3>3
  <2>2. \A k \in asking'[c] : stage'[k] # "idle" /\ req'[k].cmd.op = "unhinted"
    BY <1>2, <1>3
  <2>3. QED
    BY <2>1, <2>2 DEF Placed
<1>6. AllPutAreBelow(c)'
  <2>1. PICK m \in 1 .. Len(Tail(ctrl[c])) + 1 : m = Len(ctrl[c])
    BY <1>1
  <2>2. Below(c, m + 1) \subseteq Below(c, m)'
    BY <1>4
  <2>3. m = Len(ctrl'[c]) + 1
    BY <1>1, <2>1
  <2>4. QED
    BY <2>1, <2>2, <2>3 DEF Ordered, AllPutAreBelow
<1>7. SinceIsAhead(c)'
  <2>1. SUFFICES ASSUME NEW i \in 1 .. Len(Tail(ctrl[c])), Owner[Tail(ctrl[c])[i]] = c
                 PROVE  since'[Tail(ctrl[c])[i]] \subseteq Below(c, i)'
    BY DEF SinceIsAhead
  <2>2. i \in 1 .. Len(Tail(ctrl[c])) + 1 /\ i + 1 \in 1 .. Len(ctrl[c])
    BY <1>1
  <2>3. Tail(ctrl[c])[i] = ctrl[c][i + 1]
    BY <1>1
  <2>4. since[ctrl[c][i + 1]] \subseteq Below(c, i + 1)
    BY <2>1, <2>2, <2>3 DEF Ordered, SinceIsAhead
  <2>5. QED
    BY <1>2, <1>4, <2>2, <2>3, <2>4
<1>8. QED
  BY <1>5, <1>6, <1>7 DEF Ordered

LEMMA RelayBegunKeep ==
  ASSUME RelayKeeps
  PROVE  BegunKeep
BY DEF RelayKeeps, BegunKeep

LEMMA RelayKeepsChannels ==
  ASSUME TypeOK, \A c \in Conn : Ordered(c), NEW r \in Conn, Relay(r)
  PROVE  \A c \in Conn : Ordered(c)'
<1>1. RelayKeeps /\ BegunKeep
  BY RelayKeepsCalls, RelayBegunKeep
<1>2. Ordered(r) /\ \A k \in asking[r] : req[k].cmd.op = "unhinted" /\ stage[k] # "idle" /\ k \in Call
  BY DEF Ordered, Placed, TypeOK
<1>3. SUFFICES /\ \A c \in Conn \ {r} : ctrl'[c] = ctrl[c] /\ asking'[c] = asking[c]
                                        /\ done'[c] = done[c] /\ put'[c] = put[c]
                                        /\ phase'[c] = phase[c]
               /\ Ordered(r)'
  BY <1>1, ChannelKept
<1>4. CASE AttachRelay(r) \/ Leave(r)
  <2>1. /\ ctrl' = ctrl /\ asking' = asking /\ done' = done /\ put' = put
        /\ \A c \in Conn \ {r} : phase'[c] = phase[c]
        /\ phase[r] # "gone"
    BY <1>4 DEF AttachRelay, Leave, TypeOK
  <2>2. Ordered(r)'
    BY <1>1, <1>2, <2>1, ChannelKept
  <2>3. QED
    BY <2>1, <2>2
<1>5. CASE DropChannel(r)
  <2>1. /\ asking' = asking /\ done' = done /\ put' = put
        /\ \A c \in Conn \ {r} : phase'[c] = phase[c] /\ ctrl'[c] = ctrl[c]
        /\ phase'[r] = "gone" /\ ctrl'[r] = <<>>
    BY <1>5 DEF DropChannel, TypeOK
  <2>2. Placed(r)'
    BY <1>1, <1>2, <2>1 DEF Placed, BegunKeep
  <2>3. AllPutAreBelow(r)' /\ SinceIsAhead(r)'
    BY <2>1 DEF AllPutAreBelow, SinceIsAhead
  <2>4. QED
    BY <2>1, <2>2, <2>3 DEF Ordered
<1>6. CASE TakeCommand(r)
  <2> DEFINE k == Head(ctrl[r])
  <2>1. /\ asking[r] = {} /\ ctrl[r] # <<>> /\ k \in Call
        /\ ctrl' = [ctrl EXCEPT ![r] = Tail(ctrl[r])]
        /\ phase' = phase /\ asking' = asking /\ put' = put
    BY <1>6, TakeEffect
  <2>2. ctrl'[r] = Tail(ctrl[r]) /\ \A c \in Conn \ {r} : ctrl'[c] = ctrl[c]
    BY <2>1 DEF TypeOK
  <2>3. /\ \A c \in Conn \ {r} : done'[c] = done[c]
        /\ done[r] \subseteq done'[r]
        /\ req[k].cmd = Layout \/ k \in done'[r]
    <3>1. CASE req[k].cmd = Layout /\ done' = done
      BY <3>1
    <3>2. CASE done' = [done EXCEPT ![r] = done[r] \cup {k}]
      BY <3>2 DEF TypeOK
    <3>3. QED
      BY <1>6, <3>1, <3>2, TakeEffect
  <2>4. Ordered(r)'
    BY <1>1, <1>2, <2>1, <2>2, <2>3, HeadTaken
  <2>5. QED
    BY <2>1, <2>2, <2>3, <2>4
<1>7. CASE AskPane(r)
  <2> DEFINE k == Head(ctrl[r])
  <2>1. /\ asking[r] = {} /\ ctrl[r] # <<>> /\ k \in Call /\ req[k].cmd.op = "unhinted"
        /\ ctrl' = [ctrl EXCEPT ![r] = Tail(ctrl[r])]
        /\ asking' = [asking EXCEPT ![r] = {k}]
        /\ phase' = phase /\ done' = done /\ put' = put
    BY <1>7, AskEffect
  <2>2. /\ ctrl'[r] = Tail(ctrl[r]) /\ asking'[r] = {k}
        /\ \A c \in Conn \ {r} : ctrl'[c] = ctrl[c] /\ asking'[c] = asking[c]
    BY <2>1 DEF TypeOK
  <2>3. stage[k] # "idle"
    <3>1. ctrl[r] \in Seq(Call)
      BY DEF TypeOK
    <3>2. 1 \in 1 .. Len(ctrl[r]) /\ k = ctrl[r][1]
      BY <2>1, <3>1
    <3>3. QED
      BY <1>2, <3>2 DEF Ordered, Placed
  <2>4. Ordered(r)'
    BY <1>1, <1>2, <2>1, <2>2, <2>3, HeadTaken
  <2>5. QED
    BY <2>1, <2>2, <2>4
<1>8. CASE PaneTold(r)
  <2>1. /\ asking' = [asking EXCEPT ![r] = {}]
        /\ done' = [done EXCEPT ![r] = done[r] \cup asking[r]]
        /\ phase' = phase /\ ctrl' = ctrl /\ put' = put /\ UNCHANGED callVars
    BY <1>2, <1>8, ToldEffect
  <2>2. /\ asking'[r] = {} /\ done'[r] = done[r] \cup asking[r]
        /\ \A c \in Conn \ {r} : asking'[c] = asking[c] /\ done'[c] = done[c]
    BY <2>1 DEF TypeOK
  <2>3. stage' = stage /\ req' = req /\ target' = target /\ since' = since
    BY <2>1 DEF callVars
  <2>4. \A i : Below(r, i)' = Below(r, i)
    BY <2>1, <2>2, <2>3 DEF Below, Ahead
  <2>5. Placed(r)'
    BY <1>2, <2>1, <2>2, <2>3 DEF Ordered, Placed
  <2>6. AllPutAreBelow(r)' /\ SinceIsAhead(r)'
    BY <1>2, <2>1, <2>3, <2>4 DEF Ordered, AllPutAreBelow, SinceIsAhead
  <2>7. QED
    BY <2>1, <2>2, <2>5, <2>6 DEF Ordered
<1>9. QED
  BY <1>4, <1>5, <1>6, <1>7, <1>8 DEF Relay

\* What is appended to a channel in order leaves it in order.
LEMMA Appended ==
  ASSUME TypeOK, NEW c \in Conn, Ordered(c), NEW k \in Call, stage[k] # "idle", target[k] = c,
         ctrl'[c] = Append(ctrl[c], k), phase' = phase, phase[c] # "gone",
         asking' = asking, done' = done, req' = req, target' = target, since' = since,
         \A x \in Call : stage[x] # "idle" => stage'[x] # "idle",
         \/ req[k].cmd = Layout /\ put'[c] = put[c]
         \/ req[k].cmd # Layout /\ put'[c] = put[c] \cup {k},
         Owner[k] = c => since[k] \subseteq put[c]
  PROVE  Ordered(c)'
<1>1. /\ ctrl[c] \in Seq(Call) /\ Len(ctrl[c]) \in Nat /\ Len(ctrl'[c]) = Len(ctrl[c]) + 1
      /\ \A n \in 1 .. Len(ctrl[c]) : ctrl'[c][n] = ctrl[c][n] /\ ctrl[c][n] \in Call
      /\ ctrl'[c][Len(ctrl[c]) + 1] = k
  BY DEF TypeOK
<1>2. ASSUME NEW i \in 1 .. Len(ctrl[c]) + 1
      PROVE  Below(c, i)' = Below(c, i)
  <2>1. \A n \in 1 .. i - 1 : ctrl'[c][n] = ctrl[c][n]
    BY <1>1
  <2>2. QED
    BY <2>1 DEF Below, Ahead
<1>3. PICK m \in 1 .. Len(ctrl[c]) + 1 : m = Len(ctrl[c]) + 1
  BY <1>1
<1>4. put[c] \subseteq Below(c, m)
  BY <1>3 DEF Ordered, AllPutAreBelow
<1>5. Below(c, m)' \subseteq Below(c, m + 1)'
  BY <1>1, <1>3 DEF Below, Ahead
<1>6. Placed(c)'
  BY <1>1 DEF Ordered, Placed, TypeOK
<1>7. AllPutAreBelow(c)'
  <2>1. req[k].cmd # Layout => k \in Ahead(c, m + 1)'
    BY <1>1, <1>3 DEF Ahead
  <2>2. put'[c] \subseteq Below(c, m + 1)'
    BY <1>2, <1>4, <1>5, <2>1 DEF Below
  <2>3. m + 1 = Len(ctrl'[c]) + 1
    BY <1>1, <1>3
  <2>4. QED
    BY <2>2, <2>3 DEF AllPutAreBelow
<1>8. SinceIsAhead(c)'
  <2>1. SUFFICES ASSUME NEW i \in 1 .. Len(ctrl[c]) + 1, Owner[ctrl'[c][i]] = c
                 PROVE  since[ctrl'[c][i]] \subseteq Below(c, i)'
    BY <1>1 DEF SinceIsAhead
  <2>2. CASE i \in 1 .. Len(ctrl[c])
    BY <1>1, <1>2, <2>1, <2>2 DEF Ordered, SinceIsAhead
  <2>3. CASE i = m
    BY <1>1, <1>2, <1>3, <1>4, <2>1, <2>3
  <2>4. QED
    BY <1>1, <1>3, <2>2, <2>3
<1>9. QED
  BY <1>6, <1>7, <1>8 DEF Ordered

LEMMA RpcBegunKeep ==
  ASSUME TypeOK, Routes, NEW k \in Call, Rpc(k)
  PROVE  BegunKeep
<1>1. CASE Begin(k)
  <2>1. stage[k] = "idle"
    BY <1>1, BeginEffect
  <2>2. CASE UNCHANGED <<req, target, since>> /\ \E s \in {"rejected", "reattach", "ephemeral"} :
                stage' = [stage EXCEPT ![k] = s]
    BY <2>1, <2>2 DEF TypeOK, BegunKeep
  <2>3. ASSUME NEW r, NEW c, NEW x, stage' = [stage EXCEPT ![k] = "sending"],
               req' = [req EXCEPT ![k] = r],
               target' = [target EXCEPT ![k] = c],
               since' = [since EXCEPT ![k] = x]
        PROVE  BegunKeep
    BY <2>1, <2>3 DEF TypeOK, BegunKeep
  <2>4. QED
    BY <1>1, <2>2, <2>3, BeginEffect
<1>2. CASE Send(k)
  <2>1. target[k] \in Conn
    BY <1>2 DEF Routes, Route, Afoot, Send
  <2>2. req' = req /\ target' = target /\ since' = since
    BY <1>2, <2>1, SendEffect
  <2>3. \E s \in {"reattach", "ephemeral", "waiting", "acked"} : stage' = [stage EXCEPT ![k] = s]
    <3>1. CASE \E s \in {"reattach", "ephemeral"} : stage' = [stage EXCEPT ![k] = s]
      BY <3>1
    <3>2. CASE stage' = [stage EXCEPT ![k] = "waiting"] \/ stage' = [stage EXCEPT ![k] = "acked"]
      BY <3>2
    <3>3. QED
      BY <1>2, <2>1, <3>1, <3>2, SendEffect
  <2>4. QED
    BY <2>2, <2>3 DEF TypeOK, BegunKeep
<1>3. CASE Answered(k) \/ GiveUp(k) \/ ReadView(k)
  <2>1. /\ req' = req /\ target' = target /\ since' = since
        /\ \E s \in {"snapshot", "ephemeral", "answered"} : stage' = [stage EXCEPT ![k] = s]
    BY <1>3 DEF Answered, GiveUp, ReadView
  <2>2. QED
    BY <2>1 DEF TypeOK, BegunKeep
<1>4. QED
  BY <1>1, <1>2, <1>3 DEF Rpc

LEMMA RpcKeepsChannels ==
  ASSUME TypeOK, Routes, InOrder, NEW k \in Call, Rpc(k)
  PROVE  \A c \in Conn : Ordered(c)'
<1>1. BegunKeep
  BY RpcBegunKeep
<1>2. \A c \in Conn : Ordered(c)
  BY DEF InOrder
<1>3. CASE Begin(k) \/ Answered(k) \/ GiveUp(k) \/ ReadView(k)
  <2>1. ctrl' = ctrl /\ asking' = asking /\ done' = done /\ put' = put /\ phase' = phase
    BY <1>3 DEF Begin, Answered, GiveUp, ReadView, relayVars
  <2>2. QED
    BY <1>1, <1>2, <2>1, ChannelKept
<1>4. CASE Send(k)
  <2> DEFINE c == target[k]
  <2>1. stage[k] = "sending" /\ c \in Conn
    BY <1>4 DEF Send, Routes, Route, Afoot
  <2>2. /\ phase' = phase /\ asking' = asking /\ done' = done
        /\ req' = req /\ target' = target /\ since' = since
    BY <1>4, <2>1, SendEffect
  <2>3. CASE ctrl' = ctrl /\ put' = put
    BY <1>1, <1>2, <2>2, <2>3, ChannelKept
  <2>4. ASSUME phase[c] # "gone", ctrl' = [ctrl EXCEPT ![c] = Append(ctrl[c], k)],
               \/ req[k].cmd = Layout /\ put' = put
               \/ req[k].cmd # Layout /\ put' = [put EXCEPT ![c] = put[c] \cup {k}]
        PROVE  \A d \in Conn : Ordered(d)'
    <3>1. /\ ctrl'[c] = Append(ctrl[c], k)
          /\ \A d \in Conn \ {c} : ctrl'[d] = ctrl[d] /\ put'[d] = put[d]
          /\ \/ req[k].cmd = Layout /\ put'[c] = put[c]
             \/ req[k].cmd # Layout /\ put'[c] = put[c] \cup {k}
      BY <2>1, <2>4 DEF TypeOK
    <3>2. Owner[k] = c => since[k] \subseteq put[c]
      BY <2>1 DEF InOrder, SinceIsDone
    <3>3. \A x \in Call : stage[x] # "idle" => stage'[x] # "idle"
      BY <1>1 DEF BegunKeep
    <3>4. PICK r \in Conn : r = target[k]
      BY <2>1
    <3>5. Ordered(r)'
      <4>1. /\ Ordered(r) /\ stage[k] # "idle" /\ target[k] = r
            /\ ctrl'[r] = Append(ctrl[r], k) /\ phase[r] # "gone"
            /\ \/ req[k].cmd = Layout /\ put'[r] = put[r]
               \/ req[k].cmd # Layout /\ put'[r] = put[r] \cup {k}
            /\ Owner[k] = r => since[k] \subseteq put[r]
        BY <1>2, <2>1, <2>4, <3>1, <3>2, <3>4
      <4>2. QED
        BY <2>2, <3>3, <4>1, Appended
    <3>6. ASSUME NEW d \in Conn \ {r}
          PROVE  Ordered(d)'
      BY <1>1, <1>2, <2>2, <3>1, <3>4, <3>6, ChannelKept
    <3>7. QED
      BY <3>5, <3>6
  <2>5. QED
    BY <1>4, <2>1, <2>3, <2>4, SendEffect
<1>5. QED
  BY <1>3, <1>4 DEF Rpc

\* A relay that takes up its own client's query has done what came before it.
LEMMA RelayKeepsSince ==
  ASSUME TypeOK, Routes, InOrder, NEW c \in Conn, Relay(c), NEW k \in Call
  PROVE  SinceIsDone(k)'
<1>1. RelayKeeps /\ SinceIsDone(k) /\ Owner[k] \in Conn
  BY RelayKeepsCalls, ControlAssumption DEF InOrder
<1>2. put' = put /\ \A d \in Conn : done[d] \subseteq done'[d]
  <2>1. CASE AttachRelay(c) \/ Leave(c) \/ DropChannel(c) \/ AskPane(c)
    BY <2>1 DEF AttachRelay, Leave, DropChannel, AskPane
  <2>2. CASE TakeCommand(c)
    <3>1. put' = put /\ (done' = done \/ done' = [done EXCEPT ![c] = done[c] \cup {Head(ctrl[c])}])
      BY <2>2, TakeEffect
    <3>2. QED
      BY <3>1 DEF TypeOK
  <2>3. CASE PaneTold(c)
    <3>1. put' = put /\ done' = [done EXCEPT ![c] = done[c] \cup asking[c]]
      BY <2>3 DEF PaneTold
    <3>2. QED
      BY <3>1 DEF TypeOK
  <2>4. QED
    BY <2>1, <2>2, <2>3 DEF Relay
<1>3. /\ since'[k] = since[k] /\ target'[k] = target[k] /\ asof'[k] = asof[k]
  BY <1>1 DEF RelayKeeps
<1>4. CASE stage'[k] = stage[k]
  BY <1>1, <1>2, <1>3, <1>4 DEF SinceIsDone
<1>5. CASE stage[k] = "waiting" /\ stage'[k] = "ephemeral"
  BY <1>5 DEF SinceIsDone
<1>6. CASE stage[k] = "waiting" /\ stage'[k] = "queried"
  <2>1. SUFFICES ASSUME target[k] = Owner[k]
                 PROVE  since[k] \subseteq done[Owner[k]]
    BY <1>1, <1>2, <1>3, <1>6 DEF SinceIsDone
  <2>2. TakeCommand(c) /\ k = Head(ctrl[c])
    <3>1. CASE TakeCommand(c)
      BY <1>6, <3>1, TakeEffect DEF TypeOK
    <3>2. CASE ~TakeCommand(c)
      BY <1>6, <3>2 DEF Relay, AttachRelay, Leave, DropChannel, AskPane, PaneTold, callVars, TypeOK
    <3>3. QED
      BY <3>1, <3>2
  <2>3. ctrl[c] \in Seq(Call) /\ ctrl[c] # <<>> /\ asking[c] = {}
    BY <2>2, TakeEffect DEF TypeOK
  <2>4. 1 \in 1 .. Len(ctrl[c]) /\ ctrl[c][1] = k
    BY <2>2, <2>3
  <2>5. target[k] = c
    BY <2>4 DEF InOrder, Ordered, Placed
  <2>6. since[k] \subseteq Below(c, 1)
    BY <2>1, <2>4, <2>5 DEF InOrder, Ordered, SinceIsAhead
  <2>7. QED
    BY <2>1, <2>3, <2>5, <2>6, NoneAhead DEF Below
<1>7. QED
  BY <1>1, <1>4, <1>5, <1>6 DEF RelayKeeps

LEMMA RpcKeepsSince ==
  ASSUME TypeOK, Routes, InOrder, NEW k \in Call, Rpc(k), NEW x \in Call
  PROVE  SinceIsDone(x)'
<1>1. SinceIsDone(x) /\ SinceIsDone(k) /\ Owner[x] \in Conn /\ Owner[k] \in Conn
  BY ControlAssumption DEF InOrder
<1>2. CASE Begin(k)
  <2>1. stage[k] = "idle" /\ UNCHANGED <<relayVars, asof, shown>>
    BY <1>2, BeginEffect
  <2>2. CASE UNCHANGED <<req, target, since>> /\ \E s \in {"rejected", "reattach", "ephemeral"} :
                stage' = [stage EXCEPT ![k] = s]
    BY <1>1, <2>1, <2>2 DEF TypeOK, relayVars, SinceIsDone
  <2>3. ASSUME NEW cmd, NEW c, stage' = [stage EXCEPT ![k] = "sending"],
               target' = [target EXCEPT ![k] = c],
               since' = [since EXCEPT ![k] = IF cmd = Layout THEN put[Owner[k]] ELSE {}]
        PROVE  SinceIsDone(x)'
    BY <1>1, <2>1, <2>3 DEF TypeOK, relayVars, SinceIsDone
  <2>4. QED
    BY <1>2, <2>2, <2>3, BeginEffect
<1>3. CASE Send(k)
  <2>1. stage[k] = "sending" /\ target[k] \in Conn
    BY <1>3 DEF Send, Routes, Route, Afoot
  <2>2. done' = done /\ target' = target /\ since' = since /\ asof' = asof
    BY <1>3, <2>1, SendEffect
  <2>3. /\ stage'[k] \in {"reattach", "ephemeral", "waiting", "acked"}
        /\ \A y \in Call \ {k} : stage'[y] = stage[y]
        /\ \A d \in Conn : put[d] \subseteq put'[d]
    <3>1. CASE (\E s \in {"reattach", "ephemeral"} : stage' = [stage EXCEPT ![k] = s]) /\ put' = put
      BY <3>1 DEF TypeOK
    <3>2. CASE stage' = [stage EXCEPT ![k] = "waiting"] /\ put' = put
      BY <3>2 DEF TypeOK
    <3>3. CASE /\ stage' = [stage EXCEPT ![k] = "acked"]
               /\ put' = [put EXCEPT ![target[k]] = put[target[k]] \cup {k}]
      BY <3>3 DEF TypeOK
    <3>4. QED
      BY <1>3, <2>1, <3>1, <3>2, <3>3, SendEffect
  <2>4. QED
    BY <1>1, <2>2, <2>3 DEF SinceIsDone
<1>4. CASE Answered(k) \/ GiveUp(k)
  <2>1. /\ done' = done /\ put' = put /\ target' = target /\ since' = since /\ asof' = asof
        /\ \/ stage[k] = "queried" /\ stage' = [stage EXCEPT ![k] = "snapshot"]
           \/ stage' = [stage EXCEPT ![k] = "ephemeral"]
    BY <1>4 DEF Answered, GiveUp, relayVars
  <2>2. QED
    BY <1>1, <2>1 DEF SinceIsDone, TypeOK
<1>5. CASE ReadView(k)
  <2>1. /\ done' = done /\ put' = put /\ target' = target /\ since' = since
        /\ stage[k] = "snapshot" /\ stage' = [stage EXCEPT ![k] = "answered"]
        /\ asof' = [asof EXCEPT ![k] = done[target[k]]]
    BY <1>5 DEF ReadView, relayVars
  <2>2. QED
    BY <1>1, <2>1 DEF SinceIsDone, TypeOK
<1>6. QED
  BY <1>2, <1>3, <1>4, <1>5 DEF Rpc

----------------------------------------------------------------------------
(* The invariant, and what follows from it.                                *)

LEMMA InitIInv == Init => IInv
<1> SUFFICES ASSUME Init PROVE IInv
  OBVIOUS
<1>1. TypeOK
  BY InitTypeOK
<1>2. Routes
  BY DEF Init, Routes, Route, KindOfStage, Afoot
<1>3. ASSUME NEW c \in Conn
      PROVE  Ordered(c)
  BY DEF Init, Ordered, Placed, AllPutAreBelow, SinceIsAhead
<1>4. ASSUME NEW k \in Call
      PROVE  SinceIsDone(k)
  BY DEF Init, SinceIsDone
<1>5. QED
  BY <1>1, <1>2, <1>3, <1>4 DEF IInv, InOrder

LEMMA StepIInv == IInv /\ [Next]_vars => IInv'
<1> SUFFICES ASSUME IInv, [Next]_vars PROVE IInv'
  OBVIOUS
<1>1. TypeOK /\ Routes /\ InOrder
  BY DEF IInv
<1>2. ASSUME NEW c \in Conn, Relay(c)
      PROVE  IInv'
  <2>1. TypeOK'
    BY <1>1, <1>2, RelayTypeOK DEF InOrder, Ordered, Placed
  <2>2. Routes'
    BY <1>1, <1>2, RelayKeepsRoutes
  <2>3. InOrder'
    BY <1>1, <1>2, RelayKeepsChannels, RelayKeepsSince DEF InOrder
  <2>4. QED
    BY <2>1, <2>2, <2>3 DEF IInv
<1>3. ASSUME NEW k \in Call, Rpc(k)
      PROVE  IInv'
  <2>1. TypeOK'
    BY <1>1, <1>3, RpcTypeOK DEF Routes, Route, Afoot
  <2>2. Routes'
    BY <1>1, <1>3, RpcKeepsRoutes
  <2>3. InOrder'
    BY <1>1, <1>3, RpcKeepsChannels, RpcKeepsSince DEF InOrder
  <2>4. QED
    BY <2>1, <2>2, <2>3 DEF IInv
<1>4. CASE UNCHANGED vars
  BY <1>4 DEF IInv, TypeOK, Routes, Route, KindOfStage, Id, InOrder, Ordered, Placed,
              AllPutAreBelow, SinceIsAhead, SinceIsDone, Below, Ahead, vars, relayVars, callVars
<1>5. QED
  BY <1>2, <1>3, <1>4 DEF Next

\* The model keeps its types: a call's request, the relay it holds and the view
\* a relay keeps are what Begin and the control arms may make of them.
THEOREM TypeCorrect == Spec => []TypeOK
<1>1. IInv => TypeOK
  BY DEF IInv
<1>2. QED
  BY InitIInv, StepIInv, <1>1, PTL DEF Spec

\* Whatever relays come and go between the lookup and the send, a command that
\* is acknowledged went to a relay that would do it, or it is a read-only
\* client's focus on its own relay.
THEOREM WritableAlways == Spec => []RoutedToWritable
<1>1. IInv => RoutedToWritable
  <2> SUFFICES ASSUME IInv, NEW k \in Call, stage[k] = "acked", target[k] \in ReadOnly
               PROVE  target[k] = Owner[k] /\ req[k].cmd.op = "focus"
    BY DEF RoutedToWritable, Sent
  <2>1. Route(k) /\ KindOfStage(k)
    BY DEF IInv, Routes
  <2>2. target[k] \in Conn /\ req[k].conn \in {Owner[k], NoConn}
    BY <2>1 DEF Route, Afoot
  <2>3. target[k] = Owner[k]
    BY <2>1, <2>2, ControlAssumption DEF Route, Afoot, KindOfStage
  <2>4. ~Mutating(req[k].cmd.op)
    BY <2>1, <2>3 DEF Route, Afoot
  <2>5. req[k].cmd \in Command
    BY <2>1 DEF KindOfStage, IInv, TypeOK
  <2>6. QED
    BY <2>3, <2>4, <2>5, CommandShape DEF Mutating
<1>2. QED
  BY InitIInv, StepIInv, <1>1, PTL DEF Spec

\* A layout that shows the view its relay keeps shows that of the caller's own
\* relay, after every command that relay had been sent when the call was made,
\* however many relays, calls and commands there are.
THEOREM LayoutsAreFresh == Spec => []ReadYourWrites
<1>1. IInv => ReadYourWrites
  <2> SUFFICES ASSUME IInv, NEW k \in Call, shown[k] # NoTab
               PROVE  target[k] = Owner[k] /\ since[k] \subseteq asof[k]
    BY DEF ReadYourWrites
  <2>1. Route(k) /\ KindOfStage(k) /\ SinceIsDone(k)
    BY DEF IInv, Routes, InOrder
  <2>2. stage[k] = "answered" /\ target[k] = req[k].conn
    BY <2>1 DEF KindOfStage
  <2>3. target[k] \in Conn /\ req[k].conn \in {Owner[k], NoConn}
    BY <2>1, <2>2 DEF Route, Afoot
  <2>4. target[k] = Owner[k]
    BY <2>2, <2>3, ControlAssumption
  <2>5. QED
    BY <2>1, <2>2, <2>4 DEF SinceIsDone
<1>2. QED
  BY InitIInv, StepIInv, <1>1, PTL DEF Spec

=============================================================================
