---------------------------- MODULE HerdrSpaces ----------------------------
(***************************************************************************)
(* Spaces (muxrd/src/grpc/space_ops.rs, the SwitchSpace arm of             *)
(* relay/inbound.rs, relay/helpers.rs, multiplexer/herdr/backend.rs): the  *)
(* workspaces of one herdr daemon, of which every relay shows one at a     *)
(* time.  All relays are of the one session the daemon collapses into.     *)
(*                                                                         *)
(* The daemon belongs to desktop clients as well; each call to it is a     *)
(* step, and it changes between any two.  A tab is told apart only by the  *)
(* space it is in.  Labels are the matter of UnaryCalls.                   *)
(*                                                                         *)
(* The session has two ids: herdr:herdr, and on a server without another   *)
(* backend the bare herdr.  A client keeps to the one it attached with.    *)
(***************************************************************************)
EXTENDS Naturals, Sequences, SequencesExt

CONSTANTS
  Space, NoSpace,
  AtStart,     \* bound: the workspaces there are at first, in order
  Client,      \* clients, by the connection_id they have or would have
  Conn,        \* those that attach, hence the relays
  NoConn,      \* the empty connection_id
  ReadOnly,    \* those whose token is read-only
  Call,        \* unary RPCs, each made once
  Owner,       \* the client that makes each call
  Does,        \* bound: what each call may be
  Spellings,   \* which id each client may use
  Moves        \* bound: what desktop clients do to the daemon

Kind == {"get", "switch", "close", "create", "tab"}

ASSUME SpacesAssumption ==
  /\ NoSpace \notin Space /\ NoConn \notin Client
  /\ Conn \subseteq Client
  /\ AtStart \in Seq(Space) /\ IsInjective(AtStart)
  /\ ReadOnly \subseteq Client
  /\ Owner \in [Call -> Client] /\ Does \in [Call -> SUBSET Kind]
  /\ Spellings \subseteq [Client -> {"qualified", "bare"}]
  /\ Moves \in Nat

VARIABLES
  open,     \* the daemon's workspaces, in the order of workspace.list (external)
  made,     \* those there ever were: ids are not used again (external)
  focus,    \* the focused one (external)
  moved,    \* what desktop clients have done
  closes,   \* workspaces closed so far (history)
  phase,    \* of each relay: "none", "opened", "serving", "gone"
  on,       \* workspace_id of its sender
  known,    \* current_space of its view
  tab,      \* active_tab of its view, by the space that tab is in
  sent,     \* its control channel: every command it was ever sent,
  taken,    \*   of which it has taken so many
  busy,     \* whether it is at one of them
  drifted,  \* whether the daemon moved while it attached (history)
  idOf,     \* the id each client attaches with and echoes
  stage,    \* how far each call is
  req,      \* what it asks for, and of which relay
  saw,      \* what was active in the list it got, and stood then (history)
  result    \* what it answers or what has come of it

daemonVars == <<open, made, focus, moved, closes>>
relayVars  == <<phase, on, known, tab, sent, taken, busy, drifted>>
callVars   == <<stage, req, saw, result>>
vars == <<daemonVars, relayVars, callVars, idOf>>

----------------------------------------------------------------------------
IsOpen(s) == s \in Range(open)

\* pick_active_or_first, on a list of workspaces and the focused one.
ActiveOrFirst(list, f) == IF f \in Range(list) THEN f
                          ELSE IF list # <<>> THEN Head(list) ELSE NoSpace

Unseen == [active |-> NoSpace, closes |-> 0, on |-> NoSpace]
Where(c) == IF c \in Conn THEN on[c] ELSE NoSpace
Snapshot(c) == [active |-> focus, closes |-> closes, on |-> Where(c)]

Init ==
  /\ open = AtStart /\ made = Range(AtStart) /\ moved = 0 /\ closes = 0
  /\ focus \in Range(AtStart)
  /\ phase = [c \in Conn |-> "none"] /\ on = [c \in Conn |-> NoSpace]
  /\ known = [c \in Conn |-> NoSpace] /\ tab = [c \in Conn |-> NoSpace]
  /\ sent = [c \in Conn |-> <<>>] /\ taken = [c \in Conn |-> 0]
  /\ busy = [c \in Conn |-> FALSE] /\ drifted = [c \in Conn |-> FALSE]
  /\ idOf \in Spellings
  /\ stage = [k \in Call |-> "idle"]
  /\ req = [k \in Call |-> [kind |-> "get", conn |-> NoConn, space |-> NoSpace]]
  /\ saw = [k \in Call |-> Unseen]
  /\ result = [k \in Call |-> NoSpace]

----------------------------------------------------------------------------
(* The daemon, which refocuses when the focused workspace closes, and its  *)
(* desktop clients.                                                        *)

\* Relays that have attached and not yet read their initial view.
Drift == drifted' = [c \in Conn |-> drifted[c] \/ phase[c] = "opened"]

Opens(s) ==
  /\ s \notin made
  /\ open' = Append(open, s) /\ made' = made \cup {s} /\ focus' = s
  /\ UNCHANGED closes
  /\ Drift

Closes(s) ==
  /\ \E i \in DOMAIN open : open[i] = s /\ open' = RemoveAt(open, i)
  /\ focus' = IF focus = s THEN ActiveOrFirst(open', NoSpace) ELSE focus
  /\ closes' = closes + 1
  /\ UNCHANGED made
  /\ Drift

\* A desktop client focuses, opens, or closes a workspace that is not the last.
Desktop ==
  /\ moved < Moves /\ moved' = moved + 1
  /\ \E s \in Space :
       \/ /\ IsOpen(s) /\ s # focus
          /\ focus' = s
          /\ Drift
          /\ UNCHANGED <<open, made, closes>>
       \/ Opens(s)
       \/ Len(open) > 1 /\ Closes(s)
  /\ UNCHANGED <<phase, on, known, tab, sent, taken, busy, callVars>>

----------------------------------------------------------------------------
(* The relay.                                                              *)

\* open_attach, on the session there is: its active or first workspace.
Attach(c) ==
  /\ phase[c] = "none" /\ open # <<>>
  /\ phase' = [phase EXCEPT ![c] = "opened"]
  /\ on' = [on EXCEPT ![c] = ActiveOrFirst(open, focus)]
  /\ UNCHANGED <<daemonVars, known, tab, sent, taken, busy, drifted, callVars>>

\* init_relay_view_state resolves the session once more; without an answer the
\* view is unknown.  Then the relay is registered.
InitView(c) ==
  /\ phase[c] = "opened"
  /\ phase' = [phase EXCEPT ![c] = "serving"]
  /\ \E t \in {ActiveOrFirst(open, focus), NoSpace} : tab' = [tab EXCEPT ![c] = t]
  /\ UNCHANGED <<daemonVars, on, known, sent, taken, busy, drifted, callVars>>

\* The re-point of a CloseSpace may fail, and that is all: its answer is ok.
Failed(k) == IF req[k].kind = "close" THEN "unmoved" ELSE "failed"

\* The loop ends; calls waiting for an answer of it see the channel dropped.
Leave(c) ==
  /\ phase[c] = "serving" /\ ~busy[c]
  /\ phase' = [phase EXCEPT ![c] = "gone"]
  /\ known' = [known EXCEPT ![c] = NoSpace] /\ tab' = [tab EXCEPT ![c] = NoSpace]
  /\ stage' = [k \in Call |->
                 IF stage[k] = "waiting" /\ req[k].conn = c THEN Failed(k) ELSE stage[k]]
  /\ UNCHANGED <<daemonVars, on, sent, taken, busy, drifted, req, saw, result>>

Serving(c) == phase[c] = "serving" /\ ~busy[c] /\ taken[c] < Len(sent[c])
Command(c) == sent[c][taken[c] + 1]
Target(k)  == IF req[k].kind = "close" THEN result[k] ELSE req[k].space

\* The oneshot's receiver may have given up.
Answer(k, s) == stage' = [stage EXCEPT ![k] = IF @ = "waiting" THEN s ELSE @]

\* SwitchSpace: dropped on a read-only relay; switch_space fails unless the
\* workspace has a pane and the stream takes the new attach.
RefuseSwitch(c) ==
  /\ Serving(c) /\ req[Command(c)].kind \in {"switch", "close"}
  /\ taken' = [taken EXCEPT ![c] = @ + 1]
  /\ Answer(Command(c), Failed(Command(c)))
  /\ UNCHANGED <<daemonVars, phase, on, known, tab, sent, busy, drifted,
                 req, saw, result>>

\* A plausible bug: the answer goes out before the view is written.
AnswerAtOnce(c) ==
  /\ Serving(c) /\ req[Command(c)].kind \in {"switch", "close"}
  /\ c \notin ReadOnly /\ IsOpen(Target(Command(c)))
  /\ taken' = [taken EXCEPT ![c] = @ + 1]
  /\ busy' = [busy EXCEPT ![c] = TRUE]
  /\ on' = [on EXCEPT ![c] = Target(Command(c))]
  /\ Answer(Command(c), "ok")
  /\ UNCHANGED <<daemonVars, phase, known, tab, sent, drifted, req, saw, result>>

TakeSwitch(c) ==
  /\ Serving(c) /\ req[Command(c)].kind \in {"switch", "close"}
  /\ c \notin ReadOnly /\ IsOpen(Target(Command(c)))
  /\ taken' = [taken EXCEPT ![c] = @ + 1]
  /\ busy' = [busy EXCEPT ![c] = TRUE]
  /\ on' = [on EXCEPT ![c] = Target(Command(c))]
  /\ UNCHANGED <<daemonVars, phase, known, tab, sent, drifted, callVars>>

\* A plausible bug: what the old space was seen at is kept.
KeepTab(c) ==
  /\ busy[c]
  /\ LET k == sent[c][taken[c]] IN
     /\ known' = [known EXCEPT ![c] = Target(k)]
     /\ Answer(k, "ok")
  /\ busy' = [busy EXCEPT ![c] = FALSE]
  /\ drifted' = [drifted EXCEPT ![c] = FALSE]
  /\ UNCHANGED <<daemonVars, phase, on, tab, sent, taken, req, saw, result>>

\* Then the view is reset and the answer sent.
RecordSwitch(c) ==
  /\ busy[c]
  /\ LET k == sent[c][taken[c]] IN
     /\ known' = [known EXCEPT ![c] = Target(k)]
     /\ Answer(k, "ok")
  /\ tab' = [tab EXCEPT ![c] = NoSpace]
  /\ busy' = [busy EXCEPT ![c] = FALSE]
  /\ drifted' = [drifted EXCEPT ![c] = FALSE]
  /\ UNCHANGED <<daemonVars, phase, on, sent, taken, req, saw, result>>

\* SwitchTab: go_to_tab finds only tabs of the relay's own workspace.
TakeTab(c) ==
  /\ Serving(c) /\ req[Command(c)].kind = "tab"
  /\ taken' = [taken EXCEPT ![c] = @ + 1]
  /\ \/ /\ c \notin ReadOnly /\ IsOpen(on[c]) /\ req[Command(c)].space = on[c]
        /\ tab' = [tab EXCEPT ![c] = on[c]]
        /\ drifted' = [drifted EXCEPT ![c] = FALSE]
     \/ UNCHANGED <<tab, drifted>>
  /\ UNCHANGED <<daemonVars, phase, on, known, sent, busy, callVars>>

----------------------------------------------------------------------------
(* The RPCs.                                                               *)

Goto(k, s) == stage' = [stage EXCEPT ![k] = s]

\* connection_current_space, resolve_space_relay: exactly this connection.
Registered(conn) == conn \in Conn /\ phase[conn] = "serving"
CurrentSpace(conn) == IF Registered(conn) THEN known[conn] ELSE NoSpace

\* A plausible bug: without a connection_id, any relay of the session will do.
RelayOfSession(conn) ==
  IF Registered(conn) THEN {conn} ELSE {c \in Conn : phase[c] = "serving"}

SpaceRelay(conn) == IF Registered(conn) THEN {conn} ELSE {}

\* The entries of the registry under the id a call echoes.
Entries(k) == {c \in Conn : phase[c] = "serving" /\ idOf[c] = idOf[Owner[k]]}

\* is_collapsed_backend_session: only the prefix tells.
IsCollapsed(k) == idOf[Owner[k]] = "qualified"

\* The lookup of try_route_control: exactly this connection, or under a bare
\* id any writable relay of the session.
TabRelays(k, conn) ==
  IF Registered(conn) THEN {conn}
  ELSE IF IsCollapsed(k) THEN {}
  ELSE Entries(k) \ ReadOnly

Mutating(kind) == kind \in {"switch", "close", "create", "tab"}

Routed(k, kind, conn) ==
  CASE kind = "switch" -> SpaceRelay(conn)
    [] kind = "tab"    -> TabRelays(k, conn)

Ask(k, kind, conn) ==
  \E s \in IF kind \in {"get", "create"} THEN {NoSpace} ELSE made :
    req' = [req EXCEPT ![k] = [kind |-> kind, conn |-> conn, space |-> s]]

\* Without a relay a switch has nowhere to go; a tab command under a bare id
\* goes to the daemon, and to all who look at it.
Unrouted(k, kind) ==
  IF kind = "tab" /\ ~IsCollapsed(k)
  THEN Goto(k, "focusing") /\ Ask(k, kind, NoConn)
  ELSE Goto(k, "failed") /\ UNCHANGED req

\* reject_if_read_only, then what each RPC looks up first.
Begin(k) ==
  /\ stage[k] = "idle"
  /\ \E kind \in Does[k] :
       IF Mutating(kind) /\ Owner[k] \in ReadOnly
       THEN Goto(k, "rejected") /\ UNCHANGED req
       ELSE \E conn \in {Owner[k], NoConn} :
              IF kind \in {"switch", "tab"}
              THEN \/ \E c \in Routed(k, kind, conn) :
                        Goto(k, "sending") /\ Ask(k, kind, c)
                   \/ Routed(k, kind, conn) = {} /\ Unrouted(k, kind)
              ELSE Goto(k, "calling") /\ Ask(k, kind, conn)
  /\ UNCHANGED <<daemonVars, relayVars, saw, result>>

\* The sender was cloned; the relay may have gone since.  A tab command is
\* acknowledged as soon as it is sent.
Send(k) ==
  /\ stage[k] = "sending"
  /\ IF Registered(req[k].conn)
     THEN /\ sent' = [sent EXCEPT ![req[k].conn] = Append(@, k)]
          /\ Goto(k, IF req[k].kind = "tab" THEN "ok" ELSE "waiting")
     ELSE /\ Goto(k, IF req[k].kind = "tab" /\ ~IsCollapsed(k) THEN "focusing" ELSE Failed(k))
          /\ UNCHANGED sent
  /\ UNCHANGED <<daemonVars, phase, on, known, tab, taken, busy, drifted,
                 req, saw, result>>

\* focus_tab: the daemon goes to the tab, and to the space it is in.
FocusTab(k) ==
  /\ stage[k] = "focusing"
  /\ \/ /\ IsOpen(req[k].space) /\ focus' = req[k].space
        /\ Drift
        /\ Goto(k, "ok")
     \/ Goto(k, "failed") /\ UNCHANGED <<focus, drifted>>
  /\ UNCHANGED <<open, made, moved, closes, phase, on, known, tab, sent, taken, busy,
                 req, saw, result>>

\* SWITCH_SPACE_TIMEOUT, RELAY_QUERY_TIMEOUT: the command stays in the channel.
TimeOut(k) ==
  /\ stage[k] = "waiting"
  /\ Goto(k, Failed(k))
  /\ UNCHANGED <<daemonVars, relayVars, req, saw, result>>

\* Any call to the daemon may fail, and the RPC with it.
BackendFails(k) ==
  /\ stage[k] \in {"calling", "counted"}
  /\ Goto(k, "failed")
  /\ UNCHANGED <<daemonVars, relayVars, req, saw, result>>

\* get_spaces_impl: list the spaces, then read where the relay is.
ListSpaces(k) ==
  /\ stage[k] = "calling" /\ req[k].kind = "get"
  /\ saw' = [saw EXCEPT ![k] = Snapshot(Owner[k])]
  /\ Goto(k, "listed")
  /\ UNCHANGED <<daemonVars, relayVars, req, result>>

MarkActive(k) ==
  /\ stage[k] = "listed" /\ req[k].kind = "get"
  /\ LET current == CurrentSpace(req[k].conn) IN
     result' = [result EXCEPT ![k] = IF current # NoSpace THEN current
                                     ELSE saw[k].active]
  /\ Goto(k, "ok")
  /\ UNCHANGED <<daemonVars, relayVars, req, saw>>

\* create_space_impl: workspace.create with focus.
CreateSpace(k) ==
  /\ stage[k] = "calling" /\ req[k].kind = "create"
  /\ \E s \in Space : Opens(s)
  /\ Goto(k, "ok")
  /\ UNCHANGED <<moved, phase, on, known, tab, sent, taken, busy, req, saw, result>>

\* A plausible bug: the last space is counted out only when it is gone.
WouldLeaveNone(n) == n <= 0

\* would_close_last_space.
WouldCloseLast(n) == n <= 1

\* close_space_impl, in three calls to the daemon: count, close, list again.
CountSpaces(k) ==
  /\ stage[k] = "calling" /\ req[k].kind = "close"
  /\ saw' = [saw EXCEPT ![k] = Snapshot(Owner[k])]
  /\ Goto(k, IF WouldCloseLast(Len(open)) THEN "refused" ELSE "counted")
  /\ UNCHANGED <<daemonVars, relayVars, req, result>>

CloseSpace(k) ==
  /\ stage[k] = "counted"
  /\ IF IsOpen(req[k].space)
     THEN /\ Closes(req[k].space)
          /\ saw' = [saw EXCEPT ![k].on = Where(Owner[k])]
          /\ Goto(k, "closed")
     ELSE Goto(k, "failed") /\ UNCHANGED <<open, made, focus, closes, drifted, saw>>
  /\ UNCHANGED <<moved, phase, on, known, tab, sent, taken, busy, req, result>>

\* The caller's relay follows when it is known to have been there.
CheckCaller(k) ==
  /\ stage[k] = "closed"
  /\ Goto(k, IF CurrentSpace(req[k].conn) = req[k].space THEN "repoint" ELSE "unmoved")
  /\ UNCHANGED <<daemonVars, relayVars, req, saw, result>>

\* A plausible bug: the new space is the one that was active at first.
PickWhatWasActive(k) ==
  /\ stage[k] = "repoint"
  /\ result' = [result EXCEPT ![k] = saw[k].active]
  /\ Goto(k, "sending")
  /\ UNCHANGED <<daemonVars, relayVars, req, saw>>

\* repoint_caller_after_close: to the workspace that is active or first by now.
PickTarget(k) ==
  /\ stage[k] = "repoint"
  /\ result' = [result EXCEPT ![k] = ActiveOrFirst(open, focus)]
  /\ Goto(k, IF result'[k] = NoSpace THEN "unmoved" ELSE "sending")
  /\ UNCHANGED <<daemonVars, relayVars, req, saw>>

----------------------------------------------------------------------------
Relay(c) == \/ Attach(c) \/ InitView(c) \/ Leave(c) \/ RefuseSwitch(c)
            \/ TakeSwitch(c) \/ RecordSwitch(c) \/ TakeTab(c)
Rpc(k) == \/ Begin(k) \/ Send(k) \/ FocusTab(k) \/ TimeOut(k) \/ BackendFails(k)
          \/ ListSpaces(k) \/ MarkActive(k) \/ CreateSpace(k)
          \/ CountSpaces(k) \/ CloseSpace(k) \/ CheckCaller(k) \/ PickTarget(k)

Next == /\ Desktop \/ (\E c \in Conn : Relay(c)) \/ (\E k \in Call : Rpc(k))
        /\ UNCHANGED idOf

Spec == Init /\ [][Next]_vars

----------------------------------------------------------------------------
MaybeSpace == Space \cup {NoSpace}

TypeOK ==
  /\ open \in Seq(Space) /\ made \subseteq Space /\ focus \in MaybeSpace
  /\ moved \in 0 .. Moves /\ closes \in Nat
  /\ phase \in [Conn -> {"none", "opened", "serving", "gone"}]
  /\ on \in [Conn -> MaybeSpace] /\ known \in [Conn -> MaybeSpace]
  /\ tab \in [Conn -> MaybeSpace]
  /\ sent \in [Conn -> Seq(Call)]
  /\ taken \in [Conn -> Nat] /\ \A c \in Conn : taken[c] <= Len(sent[c])
  /\ busy \in [Conn -> BOOLEAN] /\ drifted \in [Conn -> BOOLEAN]
  /\ idOf \in Spellings
  /\ stage \in [Call -> {"idle", "rejected", "refused", "calling", "counted", "closed",
                         "repoint", "sending", "focusing", "waiting", "listed", "ok",
                         "unmoved", "failed"}]
  /\ req \in [Call -> [kind : Kind, conn : Client \cup {NoConn}, space : MaybeSpace]]
  /\ saw \in [Call -> [active : MaybeSpace, closes : Nat, on : MaybeSpace]]
  /\ result \in [Call -> MaybeSpace]

\* On the one session that all clients share, no command of one moves the stream
\* of another (S-M2, S-M4: resolve_space_relay, connection_current_space): what
\* others get into a relay's channel is only ever a tab command, under a bare id,
\* which the daemon's tests do not take for a collapsed session (routing.rs:214),
\* and on a relay that may write.  OnlyOwnView of RelayControl says it without
\* the exception, and fails.
NobodyElseIsMoved ==
  \A c \in Conn : \A i \in DOMAIN sent[c] :
    LET k == sent[c][i] IN
    Owner[k] # c =>
      /\ req[k].kind = "tab" /\ c \notin ReadOnly
      /\ idOf[Owner[k]] = "bare" /\ idOf[c] = "bare"

\* The tab a relay's view has as active is a tab of the space the relay is on,
\* or a layout would show none of its tabs as active, except when the daemon's focus
\* moved between the attach and the read of the initial view (helpers.rs:29).
ViewMatchesSpace ==
  \A c \in Conn :
    phase[c] = "serving" /\ ~busy[c] /\ ~drifted[c] => tab[c] \in {NoSpace, on[c]}

\* A switch that was acknowledged stands, for the stream and for GetSpaces,
\* until the relay takes a command that was sent after it: one that timed out
\* before is not applied over it later (space_ops.rs:194).
AcknowledgedSwitchStands ==
  \A c \in Conn : \A i \in DOMAIN sent[c] :
    LET k == sent[c][i] IN
    /\ req[k].kind = "switch" /\ stage[k] = "ok"
    /\ phase[c] = "serving"
    /\ \A j \in DOMAIN sent[c] : j > i => j > taken[c]
    => on[c] = req[k].space /\ known[c] = req[k].space

\* CloseSpace never re-points its caller to the space it closed, though the
\* daemon moved the focus, and a relay it did re-point stays off that space
\* (repoint_caller_after_close).
RepointedOff ==
  \A k \in Call :
    req[k].kind = "close" =>
      /\ result[k] # req[k].space
      /\ stage[k] = "ok" => Where(Owner[k]) # req[k].space

\* CloseSpace closes the last space only when another was closed, by a desktop
\* client or a second call, after it counted them (space_ops.rs:342).
ClosesLeaveOne ==
  [][open # <<>> /\ open' = <<>> =>
       \E k \in Call : stage[k] = "counted" /\ stage'[k] = "closed"
                       /\ saw[k].closes < closes]_vars
=============================================================================
