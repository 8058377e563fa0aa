---------------------------- MODULE RelayControl ----------------------------
(***************************************************************************)
(* Control commands and layout queries on their way from the unary RPCs to *)
(* the relays (muxrd/src/grpc/helpers.rs, tab_ops.rs, pane_ops.rs,         *)
(* layout.rs), the control arms of the relay's inbound task, and the view  *)
(* state those arms keep and GetLayout shows (relay/inbound.rs, "B-FOCUS").*)
(*                                                                         *)
(* An RPC clones a sender out of the control registry and sends to it      *)
(* after the registry is released, so that the relay may have left by      *)
(* then.  How a relay answers a layout query is the matter of LayoutQuery, *)
(* how it comes and goes that of RelayLifecycle.                           *)
(***************************************************************************)
EXTENDS Naturals, Sequences, FiniteSets

CONSTANTS
  Conn,      \* relays, by connection_id
  NoConn,    \* the empty connection_id
  Call,      \* unary RPCs, each made once
  Owner,     \* the relay of the client that makes each call
  Does,      \* bound: what each call may be
  ReadOnly,  \* the relays, hence clients, with a read-only token
  Running,   \* the backends of this server
  Ids,       \* the session ids there are to attach with
  Tab, NoTab, Pane, NoPane,
  TabOf      \* the tab each pane is in

Backend == {"zellij", "herdr"}
NoPrefix == "none"
SessionId == [prefix : Backend \cup {NoPrefix}]

ASSUME ControlAssumption ==
  /\ NoConn \notin Conn
  /\ Owner \in [Call -> Conn]
  /\ Does \in [Call -> SUBSET {"tab", "focus", "toggle", "unhinted", "layout"}]
  /\ ReadOnly \subseteq Conn
  /\ Running \subseteq Backend
  /\ Ids \subseteq SessionId
  /\ NoTab \notin Tab /\ NoPane \notin Pane
  /\ TabOf \in [Pane -> Tab]

VARIABLES
  idOf,    \* the session id each client attaches with and echoes
  phase,   \* of each relay: "none", "serving" (registered), "left", "gone"
  ctrl,    \* its control channel
  asking,  \* the toggle its loop waits for an answer about, if any
  view,    \* its entry in the view-state registry
  put,     \* commands it was ever sent (history)
  done,    \* commands it has taken (history)
  stage,   \* how far each call is
  req,     \* what it asks for
  target,  \* the relay whose sender it holds or used
  since,   \* commands its own relay had been sent when a layout's began (history)
  asof,    \* commands that relay had taken when the view was read (history)
  shown    \* the active tab its layout shows, NoTab when it is the queried one

relayVars == <<idOf, phase, ctrl, asking, view, put, done>>
callVars  == <<stage, req, target, since, asof, shown>>
vars == <<relayVars, callVars>>

----------------------------------------------------------------------------
(* multiplexer/routing.rs.                                                 *)

\* resolve_session_kind: a bare name belongs to the sole backend there is.
ResolveKind(id) ==
  IF id.prefix # NoPrefix THEN {id.prefix} \cap Running
  ELSE IF Cardinality(Running) = 1 THEN Running
  ELSE {}

\* is_collapsed_backend_session: by the prefix of the id.
IsCollapsed(id) == id.prefix = "herdr"

----------------------------------------------------------------------------
Unknown == [tab |-> NoTab, pane |-> NoPane]
Command == [op : {"tab"}, arg : Tab]
           \cup [op : {"focus", "toggle", "unhinted"}, arg : Pane]
Layout  == [op |-> "layout", arg |-> NoTab]

Mutating(op) == op \in {"tab", "toggle", "unhinted"}
Id(k) == idOf[Owner[k]]

\* All clients are on one session, where their calls meet.
Init ==
  /\ \E id \in Ids : idOf = [c \in Conn |-> id]
  /\ phase = [c \in Conn |-> "none"]
  /\ ctrl = [c \in Conn |-> <<>>] /\ asking = [c \in Conn |-> {}]
  /\ view = [c \in Conn |-> Unknown]
  /\ put = [c \in Conn |-> {}] /\ done = [c \in Conn |-> {}]
  /\ stage = [k \in Call |-> "idle"]
  /\ req = [k \in Call |-> [cmd |-> Layout, conn |-> NoConn]]
  /\ target = [k \in Call |-> NoConn]
  /\ since = [k \in Call |-> {}] /\ asof = [k \in Call |-> {}]
  /\ shown = [k \in Call |-> NoTab]

----------------------------------------------------------------------------
(* The relay.                                                              *)

\* init_relay_view_state: the active tab and the focused pane in it, where
\* the layout could be read.
AttachRelay(c) ==
  /\ phase[c] = "none" /\ ResolveKind(idOf[c]) # {}
  /\ phase' = [phase EXCEPT ![c] = "serving"]
  /\ \E v \in [tab : Tab \cup {NoTab}, pane : Pane \cup {NoPane}] :
       /\ v.pane # NoPane => v.tab = TabOf[v.pane]
       /\ view' = [view EXCEPT ![c] = v]
  /\ UNCHANGED <<idOf, ctrl, asking, put, done, callVars>>

\* The loop ends and the registry entries are removed.
Leave(c) ==
  /\ phase[c] = "serving" /\ asking[c] = {}
  /\ phase' = [phase EXCEPT ![c] = "left"]
  /\ view' = [view EXCEPT ![c] = Unknown]
  /\ UNCHANGED <<idOf, ctrl, asking, put, done, callVars>>

\* control_rx is dropped, and the reply channels of the queries in it.
DropChannel(c) ==
  /\ phase[c] = "left"
  /\ phase' = [phase EXCEPT ![c] = "gone"]
  /\ ctrl' = [ctrl EXCEPT ![c] = <<>>]
  /\ stage' = [k \in Call |->
                 IF stage[k] = "waiting" /\ target[k] = c THEN "ephemeral"
                 ELSE stage[k]]
  /\ UNCHANGED <<idOf, asking, view, put, done, req, target, since, asof, shown>>

\* What a toggle is told of its pane, by a hint or by the multiplexer.
Floating == [floats : BOOLEAN, visible : BOOLEAN, focused : BOOLEAN]

\* pane_is_floating_with_visibility: of a pane that does not float nothing more is asked,
\* and one that could not be asked about counts as such.
Asked == {f \in Floating : ~f.floats => ~f.visible /\ ~f.focused}

\* It hides the floating panes it is of, or else fills the screen with its pane.
Toggled(v, p, f) ==
  [v EXCEPT !.pane = IF f.floats /\ f.visible /\ f.focused THEN NoPane ELSE p]

\* What the control arm does to the view of a relay: nothing on a read-only
\* one, nothing when the multiplexer could not be told.
ViewAfter(c, cmd) ==
  LET v == view[c] IN
  IF c \in ReadOnly THEN {v}
  ELSE {v} \cup
       CASE cmd.op = "tab"    -> {[tab |-> cmd.arg, pane |-> NoPane]}
         [] cmd.op = "focus"  -> {[v EXCEPT !.pane = cmd.arg]}
         [] cmd.op = "toggle" -> {Toggled(v, cmd.arg, f) : f \in Floating}

\* A toggle without a hint, on a relay that would not drop it.
NeedsAnswer(c, k) == req[k].cmd.op = "unhinted" /\ c \notin ReadOnly

\* A plausible bug: queries do not wait behind the commands before them.
TakeQueryFirst(c) ==
  /\ phase[c] = "serving" /\ asking[c] = {} /\ ctrl[c] # <<>>
  /\ \E i \in 1 .. Len(ctrl[c]) :
     LET k == ctrl[c][i] IN
     /\ i = 1 \/ req[k].cmd = Layout
     /\ ~NeedsAnswer(c, k)
     /\ ctrl' = [ctrl EXCEPT ![c] = SubSeq(@, 1, i - 1) \o SubSeq(@, i + 1, Len(@))]
     /\ IF req[k].cmd = Layout
        THEN /\ stage' = [stage EXCEPT ![k] = IF @ = "waiting" THEN "queried" ELSE @]
             /\ UNCHANGED <<view, done>>
        ELSE /\ done' = [done EXCEPT ![c] = @ \cup {k}]
             /\ \E v \in ViewAfter(c, req[k].cmd) : view' = [view EXCEPT ![c] = v]
             /\ UNCHANGED stage
  /\ UNCHANGED <<idOf, phase, asking, put, req, target, since, asof, shown>>

TakeCommand(c) ==
  /\ phase[c] = "serving" /\ asking[c] = {} /\ ctrl[c] # <<>>
  /\ LET k == Head(ctrl[c]) IN
     /\ ~NeedsAnswer(c, k)
     /\ ctrl' = [ctrl EXCEPT ![c] = Tail(@)]
     /\ IF req[k].cmd = Layout
        THEN /\ stage' = [stage EXCEPT ![k] = IF @ = "waiting" THEN "queried" ELSE @]
             /\ UNCHANGED <<view, done>>
        ELSE /\ done' = [done EXCEPT ![c] = @ \cup {k}]
             /\ \E v \in ViewAfter(c, req[k].cmd) : view' = [view EXCEPT ![c] = v]
             /\ UNCHANGED stage
  /\ UNCHANGED <<idOf, phase, asking, put, req, target, since, asof, shown>>

\* The loop goes on when the multiplexer has answered about the pane, or after
\* FLOAT_QUERY_TIMEOUT without the toggle.
AskPane(c) ==
  /\ phase[c] = "serving" /\ asking[c] = {} /\ ctrl[c] # <<>>
  /\ NeedsAnswer(c, Head(ctrl[c]))
  /\ asking' = [asking EXCEPT ![c] = {Head(ctrl[c])}]
  /\ ctrl' = [ctrl EXCEPT ![c] = Tail(@)]
  /\ UNCHANGED <<idOf, phase, view, put, done, callVars>>

PaneTold(c) ==
  /\ \E k \in asking[c], f \in Asked :
       \E v \in {view[c], Toggled(view[c], req[k].cmd.arg, f)} : view' = [view EXCEPT ![c] = v]
  /\ asking' = [asking EXCEPT ![c] = {}]
  /\ done' = [done EXCEPT ![c] = @ \cup asking[c]]
  /\ UNCHANGED <<idOf, phase, ctrl, put, callVars>>

----------------------------------------------------------------------------
(* The RPCs.                                                               *)

Entries(id) == {c \in Conn : phase[c] = "serving" /\ idOf[c] = id}

\* A plausible bug: the fallback takes any relay of the session.
FallBackOnAny(id, conn) ==
  IF conn \in Entries(id) THEN {conn}
  ELSE IF IsCollapsed(id) THEN {}
  ELSE Entries(id)

\* The lookup of try_route_control: the relay named if it is there, else, for
\* sessions with names of their own, any writable relay of the session.
CommandTargets(id, conn) ==
  IF conn \in Entries(id) THEN {conn}
  ELSE IF IsCollapsed(id) THEN {}
  ELSE Entries(id) \ ReadOnly

\* The lookup of get_layout_impl: any relay of the session can be read from.
LayoutTargets(id, conn) ==
  IF conn \in Entries(id) THEN {conn} ELSE Entries(id)

\* Without a relay the call goes to the backend itself over a connection of
\* its own, unless every relay of the session shares the backend's one view.
Otherwise(k, cmd) ==
  IF cmd # Layout /\ IsCollapsed(Id(k)) THEN "reattach" ELSE "ephemeral"

\* reject_if_read_only, for the mutating calls, and resolve_session.
Rejected(k, cmd) ==
  \/ Mutating(cmd.op) /\ Owner[k] \in ReadOnly
  \/ ResolveKind(Id(k)) = {}

Begin(k) ==
  /\ stage[k] = "idle"
  /\ \E cmd \in Command \cup {Layout}, conn \in {Owner[k], NoConn} :
       /\ cmd.op \in Does[k]
       /\ LET found == IF cmd = Layout THEN LayoutTargets(Id(k), conn)
                       ELSE CommandTargets(Id(k), conn)
          IN IF Rejected(k, cmd) \/ found = {}
             THEN /\ stage' = [stage EXCEPT ![k] =
                                 IF Rejected(k, cmd) THEN "rejected"
                                 ELSE Otherwise(k, cmd)]
                  /\ UNCHANGED <<req, target, since>>
             ELSE \E c \in found :
                    /\ stage' = [stage EXCEPT ![k] = "sending"]
                    /\ req' = [req EXCEPT ![k] = [cmd |-> cmd, conn |-> conn]]
                    /\ target' = [target EXCEPT ![k] = c]
                    /\ since' = [since EXCEPT ![k] = IF cmd = Layout THEN put[Owner[k]] ELSE {}]
  /\ UNCHANGED <<relayVars, asof, shown>>

Send(k) ==
  /\ stage[k] = "sending"
  /\ LET c == target[k] IN
     IF phase[c] = "gone"
     THEN /\ stage' = [stage EXCEPT ![k] = Otherwise(k, req[k].cmd)]
          /\ UNCHANGED <<ctrl, put>>
     ELSE /\ ctrl' = [ctrl EXCEPT ![c] = Append(@, k)]
          /\ IF req[k].cmd = Layout
             THEN stage' = [stage EXCEPT ![k] = "waiting"] /\ UNCHANGED put
             ELSE /\ stage' = [stage EXCEPT ![k] = "acked"]
                  /\ put' = [put EXCEPT ![c] = @ \cup {k}]
  /\ UNCHANGED <<idOf, phase, asking, view, done, req, target, since, asof, shown>>

\* The relay's answer, or its absence, or RELAY_QUERY_TIMEOUT.
Answered(k) ==
  /\ stage[k] = "queried"
  /\ stage' = [stage EXCEPT ![k] = "snapshot"]
  /\ UNCHANGED <<relayVars, req, target, since, asof, shown>>

GiveUp(k) ==
  /\ stage[k] \in {"waiting", "queried"}
  /\ stage' = [stage EXCEPT ![k] = "ephemeral"]
  /\ UNCHANGED <<relayVars, req, target, since, asof, shown>>

\* should_apply_view_state_override: only the caller's own relay's view.
Overrides(k) == target[k] = req[k].conn

ReadView(k) ==
  /\ stage[k] = "snapshot"
  /\ stage' = [stage EXCEPT ![k] = "answered"]
  /\ shown' = [shown EXCEPT ![k] = IF Overrides(k) THEN view[target[k]].tab ELSE NoTab]
  /\ asof' = [asof EXCEPT ![k] = done[target[k]]]
  /\ UNCHANGED <<relayVars, req, target, since>>

----------------------------------------------------------------------------
Relay(c) == \/ AttachRelay(c) \/ Leave(c) \/ DropChannel(c)
            \/ TakeCommand(c) \/ AskPane(c) \/ PaneTold(c)
Rpc(k)   == Begin(k) \/ Send(k) \/ Answered(k) \/ GiveUp(k) \/ ReadView(k)

Next == (\E c \in Conn : Relay(c)) \/ (\E k \in Call : Rpc(k))

Spec == Init /\ [][Next]_vars

----------------------------------------------------------------------------
TypeOK ==
  /\ idOf \in [Conn -> Ids]
  /\ phase \in [Conn -> {"none", "serving", "left", "gone"}]
  /\ ctrl \in [Conn -> Seq(Call)] /\ asking \in [Conn -> SUBSET Call]
  /\ view \in [Conn -> [tab : Tab \cup {NoTab}, pane : Pane \cup {NoPane}]]
  /\ put \in [Conn -> SUBSET Call] /\ done \in [Conn -> SUBSET Call]
  /\ stage \in [Call -> {"idle", "sending", "waiting", "queried", "snapshot",
                         "answered", "acked", "ephemeral", "reattach", "rejected"}]
  /\ req \in [Call -> [cmd : Command \cup {Layout}, conn : Conn \cup {NoConn}]]
  /\ target \in [Call -> Conn \cup {NoConn}]
  /\ since \in [Call -> SUBSET Call] /\ asof \in [Call -> SUBSET Call]
  /\ shown \in [Call -> Tab \cup {NoTab}]

Sent(k) == stage[k] = "acked"

\* On a backend whose sessions collapse into one, where all clients share the one
\* session, a command moves nobody's view but the caller's: "we never steer to an
\* arbitrary relay" (try_route_control, helpers.rs:31).  The code does not keep to
\* it under the bare id herdr, which a server of herdr alone accepts: it is not
\* taken for a collapsed session, and a command that names no relay falls back on
\* another client's (is_collapsed_backend_session).
OnlyOwnView ==
  \A k \in Call :
    Sent(k) /\ ResolveKind(Id(k)) = {"herdr"} => target[k] = Owner[k]

\* A command acknowledged as routed is not one the relay is bound to drop,
\* except where a read-only client moves the focus of its own relay ("Issue
\* B": a writer falling back on another relay never lands on a read-only one).
RoutedToWritable ==
  \A k \in Call :
    Sent(k) /\ target[k] \in ReadOnly =>
      target[k] = Owner[k] /\ req[k].cmd.op = "focus"

\* A layout shows the view of the caller's own relay or the queried one, never
\* a sibling's, and the view it shows is after every command the relay had
\* been sent when the call was made: a GoToTab that was acknowledged is not
\* followed by a layout from before it, whatever else the relay is doing.
ReadYourWrites ==
  \A k \in Call : shown[k] # NoTab => target[k] = Owner[k] /\ since[k] \subseteq asof[k]

=============================================================================
