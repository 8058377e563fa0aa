--------------------------- MODULE RelayLifecycle ---------------------------
(***************************************************************************)
(* The life of the relays of AttachTerminal (muxrd/src/relay): the RPC     *)
(* attach_relay that opens the backend and starts the reader thread, the   *)
(* inbound task it leaves behind, the reader thread with its bounded       *)
(* outbound channel, the registries a relay enters and leaves, and the     *)
(* per-session count of attached clients.                                  *)
(*                                                                         *)
(* The client and the multiplexer at the other end of the attach are       *)
(* external.  What a relay does with layout queries and control commands   *)
(* is the matter of LayoutQuery and RelayControl.                          *)
(***************************************************************************)
EXTENDS Naturals, FiniteSets

CONSTANTS
  Conn,      \* the attaches that may be made, by their connection_id
  Session,   \* canonical session ids (make_id), the keys of the count
  KeyOf,     \* the session each of them asks for
  Bound,     \* RENDER_CHANNEL_BOUND
  MaxMessages \* bound: messages a multiplexer sends an attach of its own accord

ASSUME LifecycleAssumption ==
  /\ KeyOf \in [Conn -> Session]
  /\ Bound \in Nat \ {0}
  /\ MaxMessages \in Nat

VARIABLES
  task,     \* where the RPC, then the inbound task, of each attach is
  control,  \* ControlRegistry: the relays unary RPCs can route to
  views,    \* ViewStateRegistry: the relays with a view entry
  count,    \* SessionClients: attached clients, by session
  reader,   \* where each reader thread is
  frames,   \* frames waiting in each outbound channel
  outlet,   \* who holds the receiving end of that channel
  wire,     \* messages waiting in each backend connection
  sent,     \* how many the multiplexer sent of its own accord
  link,     \* each backend connection
  client,   \* the mobile client of each attach
  token     \* the bearer token of each attach, in the token database

registries == <<control, views>>
readerVars == <<reader, frames>>
backendVars == <<wire, sent, link>>
clientVars == <<client, token>>
vars == <<task, registries, count, readerVars, outlet, backendVars, clientVars>>

----------------------------------------------------------------------------
\* The ClientGuard lives in the RPC and moves into the inbound task with it.
Guarded == {"viewing", "viewed", "serving", "unlisted", "unviewed",
            "joining", "unwinding"}

\* ShutdownGuard::drop has raised the stop-flag of the reader thread.
Stop(c) == task[c] \in {"joining", "unwinding"}

Init ==
  /\ task = [c \in Conn |-> "idle"]
  /\ control = {} /\ views = {}
  /\ count = [s \in Session |-> 0]
  /\ reader = [c \in Conn |-> "none"]
  /\ frames = [c \in Conn |-> 0]
  /\ outlet = [c \in Conn |-> "none"]
  /\ wire = [c \in Conn |-> 0]
  /\ sent = [c \in Conn |-> 0]
  /\ link = [c \in Conn |-> "none"]
  /\ client = [c \in Conn |-> "open"]
  /\ token = [c \in Conn |-> "valid"]

Attach(s) == count' = [count EXCEPT ![s] = @ + 1]
Detach(s) == count' = [count EXCEPT ![s] = @ - 1]

----------------------------------------------------------------------------
(* attach_relay.                                                           *)

\* The first frame is read and the session resolved; a stream that ends, a
\* frame that is no AttachReq, or an unknown session, ends the RPC.
FirstFrame(c) ==
  /\ task[c] = "idle"
  /\ \E next \in {"opening", "closed"} : task' = [task EXCEPT ![c] = next]
  /\ UNCHANGED <<registries, count, readerVars, outlet, backendVars, clientVars>>

\* The size query and open_attach, both awaited with nothing held yet.
OpenFails(c) ==
  /\ task[c] = "opening"
  /\ task' = [task EXCEPT ![c] = "closed"]
  /\ UNCHANGED <<registries, count, readerVars, outlet, backendVars, clientVars>>

\* The client is counted, the connection_id frame is put into the channel,
\* the reader thread is started, and the initial view state is asked for.
Opened(c) ==
  /\ task[c] = "opening"
  /\ task' = [task EXCEPT ![c] = "viewing"]
  /\ Attach(KeyOf[c])
  /\ frames' = [frames EXCEPT ![c] = 1]
  /\ outlet' = [outlet EXCEPT ![c] = "rpc"]
  /\ reader' = [reader EXCEPT ![c] = "top"]
  /\ link' = [link EXCEPT ![c] = "up"]
  /\ UNCHANGED <<registries, wire, sent, clientVars>>

\* view_state.insert, after init_relay_view_state succeeded or not.
InsertView(c) ==
  /\ task[c] = "viewing"
  /\ task' = [task EXCEPT ![c] = "viewed"]
  /\ views' = views \cup {c}
  /\ UNCHANGED <<control, count, readerVars, outlet, backendVars, clientVars>>

\* control.insert; the inbound task is spawned and the stream returned.
Register(c) ==
  /\ task[c] = "viewed"
  /\ task' = [task EXCEPT ![c] = "serving"]
  /\ control' = control \cup {c}
  /\ outlet' = [outlet EXCEPT ![c] = "client"]
  /\ UNCHANGED <<views, count, readerVars, backendVars, clientVars>>

\* Waking the reader: a resize makes the multiplexer redraw, a ClientExited
\* makes it close; either may be the nudge, and neither passes a closed link.
Nudge(c) ==
  IF link[c] # "up" THEN UNCHANGED <<wire, link>>
  ELSE \/ wire' = [wire EXCEPT ![c] = @ + 1] /\ UNCHANGED link
       \/ link' = [link EXCEPT ![c] = "down"] /\ UNCHANGED wire

\* The client is gone while the RPC is at an await: its future is dropped.
\* Locals go in reverse order, the ShutdownGuard before rx and the count.
Cancel(c) ==
  /\ client[c] = "gone"
  /\ \/ /\ task[c] = "opening"
        /\ task' = [task EXCEPT ![c] = "closed"]
        /\ UNCHANGED <<wire, link>>
     \/ /\ task[c] = "viewing"
        /\ task' = [task EXCEPT ![c] = "unwinding"]
        /\ Nudge(c)
  /\ UNCHANGED <<registries, count, readerVars, outlet, sent, clientVars>>

\* A plausible bug: the guard that counts the client is not in the scope
\* whose unwinding drops it.
UnwoundCounted(c) ==
  /\ task[c] = "unwinding" /\ reader[c] = "exited"
  /\ task' = [task EXCEPT ![c] = "closed"]
  /\ outlet' = [outlet EXCEPT ![c] = "dropped"]
  /\ frames' = [frames EXCEPT ![c] = 0]
  /\ UNCHANGED <<registries, count, reader, backendVars, clientVars>>

\* The join of a dropped RPC returns; rx and the ClientGuard are dropped.
Unwound(c) ==
  /\ task[c] = "unwinding" /\ reader[c] = "exited"
  /\ task' = [task EXCEPT ![c] = "closed"]
  /\ outlet' = [outlet EXCEPT ![c] = "dropped"]
  /\ frames' = [frames EXCEPT ![c] = 0]
  /\ Detach(KeyOf[c])
  /\ UNCHANGED <<registries, reader, backendVars, clientVars>>

----------------------------------------------------------------------------
(* The end of inbound_loop.                                                *)

\* A plausible bug: the token is looked at when the attach is made only.
DeregisterOnDetach(c) ==
  /\ task[c] = "serving"
  /\ client[c] # "open"
  /\ task' = [task EXCEPT ![c] = "unlisted"]
  /\ control' = control \ {c}
  /\ UNCHANGED <<views, count, readerVars, outlet, backendVars, clientVars>>

\* The request stream ended or failed, or revalidate_token said no.
Deregister(c) ==
  /\ task[c] = "serving"
  /\ client[c] # "open" \/ token[c] = "revoked"
  /\ task' = [task EXCEPT ![c] = "unlisted"]
  /\ control' = control \ {c}
  /\ UNCHANGED <<views, count, readerVars, outlet, backendVars, clientVars>>

\* A plausible bug: the view entry is left for a later attach to overwrite.
KeepView(c) ==
  /\ task[c] = "unlisted"
  /\ task' = [task EXCEPT ![c] = "unviewed"]
  /\ UNCHANGED <<registries, count, readerVars, outlet, backendVars, clientVars>>

RemoveView(c) ==
  /\ task[c] = "unlisted"
  /\ task' = [task EXCEPT ![c] = "unviewed"]
  /\ views' = views \ {c}
  /\ UNCHANGED <<control, count, readerVars, outlet, backendVars, clientVars>>

\* ShutdownGuard::drop up to the join.
Shutdown(c) ==
  /\ task[c] = "unviewed"
  /\ task' = [task EXCEPT ![c] = "joining"]
  /\ Nudge(c)
  /\ UNCHANGED <<registries, count, readerVars, outlet, sent, clientVars>>

\* A plausible bug: the task ends without waiting for its thread.
LeaveUnjoined(c) ==
  /\ task[c] = "joining"
  /\ task' = [task EXCEPT ![c] = "closed"]
  /\ Detach(KeyOf[c])
  /\ UNCHANGED <<registries, readerVars, outlet, backendVars, clientVars>>

\* The join returns and the arguments are dropped, the ClientGuard with them.
Join(c) ==
  /\ task[c] = "joining" /\ reader[c] = "exited"
  /\ task' = [task EXCEPT ![c] = "closed"]
  /\ Detach(KeyOf[c])
  /\ UNCHANGED <<registries, readerVars, outlet, backendVars, clientVars>>

----------------------------------------------------------------------------
(* render_loop, the reader thread.                                         *)

Move(c, next) ==
  /\ reader' = [reader EXCEPT ![c] = next]
  /\ UNCHANGED <<task, registries, count, outlet, sent, link, clientVars>>

BeforeRecv(c) ==
  /\ reader[c] = "top"
  /\ Move(c, IF Stop(c) THEN "exited" ELSE "recv")
  /\ UNCHANGED <<frames, wire>>

Recv(c) ==
  /\ reader[c] = "recv" /\ wire[c] > 0
  /\ Move(c, "got")
  /\ wire' = [wire EXCEPT ![c] = @ - 1]
  /\ UNCHANGED frames

\* A plausible bug: a recv() that returns nothing is tried again.
RecvAgain(c) ==
  /\ reader[c] = "recv" /\ wire[c] = 0 /\ link[c] = "down"
  /\ Move(c, "top")
  /\ UNCHANGED <<frames, wire>>

\* recv() returns None, or the session's Exit.
RecvEnd(c) ==
  /\ reader[c] = "recv" /\ wire[c] = 0 /\ link[c] = "down"
  /\ Move(c, "exited")
  /\ UNCHANGED <<frames, wire>>

\* A Render is to be forwarded, anything else is drained.
AfterRecv(c) ==
  /\ reader[c] = "got"
  /\ IF Stop(c) THEN Move(c, "exited")
     ELSE \/ Move(c, "send")
          \/ Move(c, "top")
  /\ UNCHANGED <<frames, wire>>

\* tx.blocking_send: waits for room, and fails once rx is dropped.
BlockingSend(c) ==
  /\ reader[c] = "send"
  /\ \/ outlet[c] = "dropped" /\ Move(c, "exited") /\ UNCHANGED frames
     \/ /\ outlet[c] # "dropped" /\ frames[c] < Bound
        /\ Move(c, "top")
        /\ frames' = [frames EXCEPT ![c] = @ + 1]
  /\ UNCHANGED wire

----------------------------------------------------------------------------
(* The multiplexer, the client and the token database (external).          *)

ServerSends(c) ==
  /\ link[c] = "up" /\ sent[c] < MaxMessages
  /\ sent' = [sent EXCEPT ![c] = @ + 1]
  /\ wire' = [wire EXCEPT ![c] = @ + 1]
  /\ UNCHANGED <<task, registries, count, readerVars, outlet, link, clientVars>>

ServerCloses(c) ==
  /\ link[c] = "up"
  /\ link' = [link EXCEPT ![c] = "down"]
  /\ UNCHANGED <<task, registries, count, readerVars, outlet, wire, sent, clientVars>>

ClientReads(c) ==
  /\ client[c] # "gone" /\ outlet[c] = "client" /\ frames[c] > 0
  /\ frames' = [frames EXCEPT ![c] = @ - 1]
  /\ UNCHANGED <<task, registries, count, reader, outlet, backendVars, clientVars>>

\* The client closes its half of the stream and goes on reading the other.
ClientDetaches(c) ==
  /\ client[c] = "open"
  /\ client' = [client EXCEPT ![c] = "detached"]
  /\ UNCHANGED <<task, registries, count, readerVars, outlet, backendVars, token>>

\* The call ends at the client's side: it hangs up, or it has seen the end of
\* the response stream.
HangsUp(c) ==
  /\ client[c] # "gone"
  /\ client' = [client EXCEPT ![c] = "gone"]
  /\ UNCHANGED <<task, registries, count, readerVars, outlet, backendVars, token>>

SeesEnd(c) ==
  /\ outlet[c] = "client" /\ reader[c] = "exited" /\ frames[c] = 0
  /\ HangsUp(c)

\* The transport drops the response stream of a client that is gone.
DropStream(c) ==
  /\ client[c] = "gone" /\ outlet[c] = "client"
  /\ outlet' = [outlet EXCEPT ![c] = "dropped"]
  /\ frames' = [frames EXCEPT ![c] = 0]
  /\ UNCHANGED <<task, registries, count, reader, backendVars, clientVars>>

Revoke(c) ==
  /\ token[c] = "valid"
  /\ token' = [token EXCEPT ![c] = "revoked"]
  /\ UNCHANGED <<task, registries, count, readerVars, outlet, backendVars, client>>

----------------------------------------------------------------------------
Rpc(c) == \/ FirstFrame(c) \/ OpenFails(c) \/ Opened(c) \/ InsertView(c)
          \/ Register(c) \/ Cancel(c) \/ Unwound(c)
Inbound(c) == Deregister(c) \/ RemoveView(c) \/ Shutdown(c) \/ Join(c)
Reader(c) == \/ BeforeRecv(c) \/ Recv(c) \/ RecvEnd(c) \/ AfterRecv(c)
             \/ BlockingSend(c)
Environment(c) == \/ ServerSends(c) \/ ServerCloses(c) \/ ClientReads(c)
                  \/ ClientDetaches(c) \/ HangsUp(c) \/ DropStream(c)
                  \/ Revoke(c)

Next == \E c \in Conn : Rpc(c) \/ Inbound(c) \/ Reader(c) \/ Environment(c)

Spec == Init /\ [][Next]_vars

\* Tasks and threads run, and the client either reads what it is sent or
\* hangs up, the latter at the end of the stream.  Nothing makes a client
\* leave early, a session end or a token be revoked.
Fairness ==
  \A c \in Conn :
    /\ WF_vars(Rpc(c)) /\ WF_vars(Inbound(c)) /\ WF_vars(Reader(c))
    /\ WF_vars(ClientReads(c)) /\ WF_vars(SeesEnd(c)) /\ WF_vars(DropStream(c))

FairSpec == Spec /\ Fairness

----------------------------------------------------------------------------
TypeOK ==
  /\ task \in [Conn -> {"idle", "opening", "closed"} \cup Guarded]
  /\ control \subseteq Conn /\ views \subseteq Conn
  /\ count \in [Session -> Nat]
  /\ reader \in [Conn -> {"none", "top", "recv", "got", "send", "exited"}]
  /\ frames \in [Conn -> 0 .. Bound]
  /\ outlet \in [Conn -> {"none", "rpc", "client", "dropped"}]
  /\ wire \in [Conn -> Nat]
  /\ sent \in [Conn -> 0 .. MaxMessages]
  /\ link \in [Conn -> {"none", "up", "down"}]
  /\ client \in [Conn -> {"open", "detached", "gone"}]
  /\ token \in [Conn -> {"valid", "revoked"}]

Running(c) == reader[c] \notin {"none", "exited"}

\* The count ListSessions reports is that of the attaches holding a guard, on
\* every path an attach can take: refused, failed, cancelled at an await,
\* torn down (SessionClients::attach and ClientGuard::drop).
CountIsExact ==
  \A s \in Session :
    count[s] = Cardinality({c \in Conn : KeyOf[c] = s /\ task[c] \in Guarded})

\* A session is never reported without clients while a reader thread still
\* runs for one: the join comes before the count goes down.
RunningIsCounted ==
  \A c \in Conn : Running(c) => count[KeyOf[c]] > 0

\* An attach that is over has left nothing behind: no thread, no route to it,
\* no view state.
NothingLeftBehind ==
  \A c \in Conn : task[c] = "closed" => ~Running(c) /\ c \notin control \cup views

\* A GetLayout or a command that finds a relay in the control registry finds
\* its view state too: entered before it and left after it.
RoutableHasView == control \subseteq views

\* A revoked token ends the attach it opened at the next re-validation, as long
\* as the client takes what it was already sent or hangs up: a thread held up
\* by a full channel is joined only then.
RevocationEnds ==
  \A c \in Conn : token[c] = "revoked" /\ task[c] = "serving" ~> task[c] = "closed"

\* A session that ends does not leave its clients counted.
SessionEndEnds ==
  \A c \in Conn : link[c] = "down" /\ task[c] = "serving" ~> task[c] = "closed"

\* What attach_relay says of its ShutdownGuard: dropping it tears the reader
\* thread down, wherever it is dropped.
DroppedGuardTearsDown ==
  \A c \in Conn : Stop(c) ~> ~Running(c)

=============================================================================
