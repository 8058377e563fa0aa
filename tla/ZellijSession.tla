--------------------------- MODULE ZellijSession ---------------------------
(***************************************************************************)
(* One zellij session as muxrd reaches it (muxrd/src/actions.rs, query.rs, *)
(* ipc.rs, multiplexer/zellij.rs): the short-lived connections of          *)
(* send_action and query_session, which must attach before they are        *)
(* answered, and the lasting attaches, the read-only ones at a size they   *)
(* ask for first (attach_relay).  All of them share one geometry.          *)
(*                                                                         *)
(* The server is external: it serves a connection's messages in order,     *)
(* ends each with UnblockInputThread, answers an action in between, sizes  *)
(* the session to the smallest client attached, and may hang or end.  A    *)
(* size is one number.  What the render stream of an attach carries is the *)
(* matter of LayoutQuery and RelayLifecycle.                               *)
(***************************************************************************)
EXTENDS Naturals, Sequences, FiniteSetsExt

CONSTANTS
  Call,      \* short-lived connections, each used once
  Query,     \* those of query_session; the others are of send_action
  Writer,    \* clients that attach at their own size: relays, desktops
  Observer,  \* read-only relays
  SizeQuery, \* the connection on which each of them asks for the size
  Sizes,     \* sizes writers may have
  Neutral,   \* NEUTRAL_ATTACH_ROWS x NEUTRAL_ATTACH_COLS
  Fallback,  \* RO_FALLBACK_ROWS x RO_FALLBACK_COLS
  Limit,     \* DRAIN_LIMIT and LOG_DRAIN_LIMIT
  Noisy,     \* bound: connections the server sends a message of no interest,
  MaxNoise,  \*   and how many of them
  MaxResize  \* bound: times a writer attaches, resizes or leaves

ASSUME SessionAssumption ==
  /\ Query \subseteq Call
  /\ Call \cap Writer = {} /\ Call \cap Observer = {} /\ Writer \cap Observer = {}
  /\ SizeQuery \in [Observer -> Query]
  /\ Sizes \subseteq 1 .. Neutral   \* no real client is larger than Neutral
  /\ Fallback \in 1 .. Neutral /\ Noisy \subseteq Call
  /\ {Neutral, Limit, MaxNoise, MaxResize} \subseteq Nat

VARIABLES
  session,  \* "up", "hung", or "gone" with its socket (external)
  at,       \* the size each client is attached at, 0 if it is not (external)
  size,     \* the size of the session (external)
  resized,  \* what writers have done
  stage,    \* how far each call is
  outbox,   \* what it sent and the server did not finish with
  serving,  \* whether the server is past the work of the first of them
  inbox,    \* what the server sent it
  noise,    \* how much of that was of no interest
  late,     \* whether the call's deadline has passed
  turns,    \* turns of its drain loop
  armed,    \* skipped_attach_unblock
  failed,   \* whether a LogError came
  effect,   \* what became of its action at the server (history)
  told,     \* the size a query was told
  answer    \* what the call returns

geometry == <<at, size, resized>>
socket == <<outbox, serving, inbox, noise>>
loop == <<late, turns, armed, failed>>
outcome == <<effect, told, answer>>
sessionVars == <<session, geometry, stage, socket, loop, outcome>>

Client == Call \cup Writer \cup Observer
Action == Call \ Query

SessionInit ==
  /\ session = "up"
  /\ at = [x \in Client |-> 0] /\ size = Neutral /\ resized = 0
  /\ stage = [c \in Call |-> "idle"]
  /\ outbox = [c \in Call |-> <<>>] /\ serving = [c \in Call |-> FALSE]
  /\ inbox = [c \in Call |-> <<>>] /\ noise = [c \in Call |-> 0]
  /\ late = [c \in Call |-> FALSE] /\ turns = [c \in Call |-> 0]
  /\ armed = [c \in Call |-> FALSE] /\ failed = [c \in Call |-> FALSE]
  /\ effect = [c \in Call |-> "none"] /\ told = [c \in Call |-> 0]
  /\ answer = [c \in Call |-> "none"]

----------------------------------------------------------------------------
(* Geometry: min_client_terminal_size over the clients attached.           *)

SizesOf(clients) == {at[x] : x \in {y \in clients : at[y] > 0}}

SetSize(x, n) ==
  /\ at' = [at EXCEPT ![x] = n]
  /\ LET others == SizesOf(Client \ {x})
         all == IF n > 0 THEN others \cup {n} ELSE others
     IN size' = IF all = {} THEN size ELSE Min(all)

----------------------------------------------------------------------------
(* send_action and query_session.                                          *)

Goto(c, next) == stage' = [stage EXCEPT ![c] = next]
Quiet == UNCHANGED <<session, geometry, outbox, serving, noise>>

\* The function returns: its locals are gone and its connection is dropped.
Return(c, a) ==
  /\ Goto(c, "done")
  /\ answer' = [answer EXCEPT ![c] = a]
  /\ inbox' = [inbox EXCEPT ![c] = <<>>]
  /\ late' = [late EXCEPT ![c] = FALSE] /\ turns' = [turns EXCEPT ![c] = 0]
  /\ armed' = [armed EXCEPT ![c] = FALSE] /\ failed' = [failed EXCEPT ![c] = FALSE]
  /\ UNCHANGED <<effect, told>>

\* The socket is there and takes the connection, or is not.
Connect(c) ==
  /\ stage[c] = "idle"
  /\ IF session = "gone" THEN Return(c, "error")
     ELSE Goto(c, "attach") /\ UNCHANGED <<inbox, loop, outcome>>
  /\ Quiet

Send(c, m, next) ==
  /\ IF session = "gone" THEN Return(c, "error") /\ UNCHANGED outbox
     ELSE /\ outbox' = [outbox EXCEPT ![c] = Append(@, m)]
          /\ Goto(c, next)
          /\ UNCHANGED <<inbox, loop, outcome>>
  /\ UNCHANGED <<session, geometry, serving, noise>>

SendAttach(c) == stage[c] = "attach" /\ Send(c, "attach", "act")
SendAction(c) == stage[c] = "act" /\ Send(c, "action", "top")

\* The head of the loop: the deadline and the limit are looked at here only.
Top(c) ==
  /\ stage[c] = "top"
  /\ IF late[c] \/ turns[c] >= Limit THEN Return(c, "error")
     ELSE Goto(c, "recv") /\ UNCHANGED <<inbox, loop, outcome>>
  /\ Quiet

Got(c, ms) == stage[c] = "recv" /\ inbox[c] # <<>> /\ Head(inbox[c]) \in ms
GoOn(c) ==
  /\ inbox' = [inbox EXCEPT ![c] = Tail(@)]
  /\ turns' = [turns EXCEPT ![c] = @ + 1]
  /\ Goto(c, "top")
  /\ UNCHANGED <<late, outcome>>

\* A plausible bug: the first UnblockInputThread is taken for the action's.
AckAtOnce(c) ==
  /\ c \in Action /\ Got(c, {"unblock"})
  /\ Return(c, IF failed[c] THEN "refused" ELSE "ok")
  /\ Quiet

\* The first UnblockInputThread is the attach's, the second the action's.
TakeUnblock(c) ==
  /\ c \in Action /\ Got(c, {"unblock"})
  /\ IF armed[c] THEN Return(c, IF failed[c] THEN "refused" ELSE "ok")
     ELSE armed' = [armed EXCEPT ![c] = TRUE] /\ GoOn(c) /\ UNCHANGED failed
  /\ Quiet

TakeLogError(c) ==
  /\ c \in Action /\ Got(c, {"logerror"})
  /\ failed' = [failed EXCEPT ![c] = TRUE]
  /\ GoOn(c)
  /\ UNCHANGED armed
  /\ Quiet

\* What an action's Log says is handed on; everything else is drained.
Drain(c) ==
  /\ Got(c, IF c \in Action THEN {"log", "other"} ELSE {"unblock", "other"})
  /\ GoOn(c)
  /\ UNCHANGED <<armed, failed>>
  /\ Quiet

\* A query is over at its first Log or LogError.
TakeReply(c) ==
  /\ c \in Query
  /\ \/ Got(c, {"log"}) /\ Return(c, "ok")
     \/ Got(c, {"logerror"}) /\ Return(c, "error")
  /\ Quiet

TakeExit(c) ==
  /\ Got(c, {"exit"})
  /\ Return(c, "error")
  /\ Quiet

Closed(c) ==
  /\ stage[c] = "recv" /\ inbox[c] = <<>> /\ session = "gone"
  /\ Return(c, "error")
  /\ Quiet

\* A plausible bug: the timeout is not on the connection that is read.
RecvNeverTimesOut(c) == FALSE /\ UNCHANGED sessionVars

\* RECV_TIMEOUT, which query_session alone puts on its connection.
RecvTimesOut(c) ==
  /\ c \in Query /\ stage[c] = "recv" /\ inbox[c] = <<>>
  /\ Return(c, "error")
  /\ Quiet

\* ACK_TIMEOUT or LOG_TIMEOUT passes.
DeadlinePasses(c) ==
  /\ stage[c] \in {"top", "recv"} /\ ~late[c]
  /\ late' = [late EXCEPT ![c] = TRUE]
  /\ UNCHANGED <<session, geometry, stage, socket, turns, armed, failed, outcome>>

----------------------------------------------------------------------------
(* The lasting attaches.                                                   *)

Elsewhere == UNCHANGED <<session, stage, socket, loop, outcome>>

\* A writer attaches (AttachHandle::open), resizes or leaves.
WriterSizes(w) ==
  /\ session = "up" /\ resized < MaxResize
  /\ resized' = resized + 1
  /\ \E n \in Sizes \cup {0} : n # at[w] /\ SetSize(w, n)
  /\ Elsewhere

\* attach_relay for a read-only client: the size it was told, or a neutral one.
SizeFor(o) == IF answer[SizeQuery[o]] = "ok" THEN told[SizeQuery[o]] ELSE Fallback

ObserverOpens(o) ==
  /\ session = "up" /\ at[o] = 0 /\ answer[SizeQuery[o]] # "none"
  /\ SetSize(o, SizeFor(o))
  /\ UNCHANGED resized
  /\ Elsewhere

\* ClientExited.
ObserverLeaves(o) ==
  /\ session = "up" /\ at[o] > 0 /\ resized < MaxResize
  /\ resized' = resized + 1
  /\ SetSize(o, 0)
  /\ Elsewhere

----------------------------------------------------------------------------
(* The server (external).                                                  *)

Serves(c) == session = "up" /\ outbox[c] # <<>>
Tell(c, ms) == inbox' = [inbox EXCEPT ![c] = IF stage[c] = "done" THEN @ ELSE @ \o ms]

\* A plausible bug: the call attaches at the size of a small terminal.
AttachSmall(c) ==
  /\ Serves(c) /\ Head(outbox[c]) = "attach" /\ ~serving[c]
  /\ serving' = [serving EXCEPT ![c] = TRUE]
  /\ SetSize(c, 1)
  /\ UNCHANGED <<session, resized, stage, outbox, inbox, noise, loop, outcome>>

\* The AttachClient of a call, at the size query.rs chose for all of them.
AttachCall(c) ==
  /\ Serves(c) /\ Head(outbox[c]) = "attach" /\ ~serving[c]
  /\ serving' = [serving EXCEPT ![c] = TRUE]
  /\ SetSize(c, Neutral)
  /\ UNCHANGED <<session, resized, stage, outbox, inbox, noise, loop, outcome>>

\* The call's action is applied, or refused with a LogError; a query is told.
Act(c) ==
  /\ Serves(c) /\ Head(outbox[c]) = "action" /\ ~serving[c]
  /\ serving' = [serving EXCEPT ![c] = TRUE]
  /\ \/ /\ effect' = [effect EXCEPT ![c] = "refused"]
        /\ Tell(c, <<"logerror">>)
        /\ UNCHANGED told
     \/ /\ effect' = [effect EXCEPT ![c] = "applied"]
        /\ told' = [told EXCEPT ![c] = IF c \in Query THEN size ELSE 0]
        /\ \E ms \in {<<>>, <<"log">>} : (c \in Query => ms # <<>>) /\ Tell(c, ms)
  /\ UNCHANGED <<session, geometry, stage, outbox, noise, loop, answer>>

Unblock(c) ==
  /\ Serves(c) /\ serving[c]
  /\ outbox' = [outbox EXCEPT ![c] = Tail(@)]
  /\ serving' = [serving EXCEPT ![c] = FALSE]
  /\ Tell(c, <<"unblock">>)
  /\ UNCHANGED <<session, geometry, stage, noise, loop, outcome>>

\* Renders and other messages of no interest reach whoever is attached.
Noise(c) ==
  /\ session = "up" /\ at[c] > 0 /\ stage[c] # "done"
  /\ c \in Noisy /\ noise[c] < MaxNoise
  /\ noise' = [noise EXCEPT ![c] = @ + 1]
  /\ Tell(c, <<"other">>)
  /\ UNCHANGED <<session, geometry, stage, outbox, serving, loop, outcome>>

\* It comes to the end of a connection that was dropped.
Forget(c) ==
  /\ session = "up" /\ stage[c] = "done" /\ outbox[c] = <<>> /\ at[c] > 0
  /\ SetSize(c, 0)
  /\ UNCHANGED <<resized>>
  /\ Elsewhere

Hang ==
  /\ session = "up"
  /\ session' = "hung"
  /\ UNCHANGED <<geometry, stage, socket, loop, outcome>>

Resume ==
  /\ session = "hung"
  /\ session' = "up"
  /\ UNCHANGED <<geometry, stage, socket, loop, outcome>>

\* It is killed, or its last pane closes: some connections are told.
End ==
  /\ session = "up"
  /\ session' = "gone"
  /\ \E who \in SUBSET {c \in Call : at[c] > 0 /\ stage[c] # "done"} :
       inbox' = [c \in Call |-> IF c \in who THEN Append(inbox[c], "exit") ELSE inbox[c]]
  /\ at' = [x \in Client |-> 0]
  /\ outbox' = [c \in Call |-> <<>>] /\ serving' = [c \in Call |-> FALSE]
  /\ UNCHANGED <<size, resized, stage, noise, loop, outcome>>

----------------------------------------------------------------------------
CallStep(c) == \/ Connect(c) \/ SendAttach(c) \/ SendAction(c)
               \/ Top(c) \/ TakeUnblock(c) \/ TakeLogError(c) \/ Drain(c)
               \/ TakeReply(c) \/ TakeExit(c) \/ Closed(c) \/ RecvTimesOut(c)
ServerStep(c) == AttachCall(c) \/ Act(c) \/ Unblock(c) \/ Noise(c) \/ Forget(c)

SessionNext == \/ \E c \in Call : CallStep(c) \/ DeadlinePasses(c) \/ ServerStep(c)
               \/ \E w \in Writer : WriterSizes(w)
               \/ \E o \in Observer : ObserverOpens(o) \/ ObserverLeaves(o)
               \/ Hang \/ Resume \/ End

SessionSpec == SessionInit /\ [][SessionNext]_sessionVars

\* The blocking pool runs what it was given, and time passes.  Nothing makes
\* the server answer, or do anything at all.
FairSessionSpec ==
  /\ SessionSpec
  /\ \A c \in Call : WF_sessionVars(CallStep(c)) /\ WF_sessionVars(DeadlinePasses(c))

----------------------------------------------------------------------------
SessionTypeOK ==
  /\ session \in {"up", "hung", "gone"}
  /\ at \in [Client -> 0 .. Neutral] /\ size \in 1 .. Neutral
  /\ resized \in 0 .. MaxResize
  /\ stage \in [Call -> {"idle", "attach", "act", "top", "recv", "done"}]
  /\ outbox \in [Call -> {<<>>, <<"attach">>, <<"attach", "action">>, <<"action">>}]
  /\ serving \in [Call -> BOOLEAN]
  /\ inbox \in [Call -> Seq({"unblock", "log", "logerror", "exit", "other"})]
  /\ noise \in [Call -> 0 .. MaxNoise]
  /\ late \in [Call -> BOOLEAN] /\ turns \in [Call -> 0 .. Limit]
  /\ armed \in [Call -> BOOLEAN] /\ failed \in [Call -> BOOLEAN]
  /\ effect \in [Call -> {"none", "applied", "refused"}]
  /\ told \in [Call -> 0 .. Neutral]
  /\ answer \in [Call -> {"none", "ok", "refused", "error"}]

\* An acknowledgement is of the action itself: it was applied if ok is set and
\* refused if it is not, whatever else the connection carried before
\* (send_action and the terminators it counts).
AckIsOfTheAction ==
  \A c \in Action : /\ answer[c] = "ok" => effect[c] = "applied"
                    /\ answer[c] = "refused" => effect[c] = "refused"

\* The connections muxrd opens for a moment never weigh on the geometry of
\* those who look at the session, not even those it has let go of and the
\* server has not (the neutral size of query.rs).
CallsShrinkNothing ==
  LET seen == SizesOf(Writer \cup Observer)
  IN seen # {} /\ session # "gone" => size = Min(seen)

\* A query is answered whatever the server does, a hang included: RECV_TIMEOUT.
QueriesEnd == \A c \in Query : stage[c] = "attach" ~> stage[c] = "done"
=============================================================================
