------------------------------ MODULE HerdrWire ------------------------------
(***************************************************************************)
(* One attach at herdr's binary relay socket (muxrd/src/multiplexer/herdr/ *)
(* relay.rs, wire.rs): the handshake of open_attach, the frames the        *)
(* inbound task writes, each under a timeout, and those the reader thread  *)
(* reads without one.  A frame goes through the socket in two pieces, its  *)
(* length and its payload, and the socket holds only so many.              *)
(*                                                                         *)
(* herdr is external: it may stop reading, close, shut down or refuse.     *)
(* Which terminal a tab or a space leads to is the matter of               *)
(* HerdrRegistry, the registries that of RelayLifecycle.                   *)
(***************************************************************************)
EXTENDS Naturals, Sequences

CONSTANTS
  Term,     \* terminals of herdr's panes
  Size,     \* sizes of a client's screen
  None,
  Cap,      \* pieces the socket holds, either way
  MaxWrites, MaxTrouble \* bounds: frames written after the handshake, what herdr does

\* ClientMessage, those that are sent.
Hello(s)  == [op |-> "hello",  arg |-> s]
Attach(t) == [op |-> "attach", arg |-> t]
Input     == [op |-> "input",  arg |-> None]
Resize(s) == [op |-> "resize", arg |-> s]
Detach    == [op |-> "detach", arg |-> None]

Message == {Hello(z) : z \in Size} \cup {Attach(t) : t \in Term}
             \cup {Input, Detach} \cup {Resize(z) : z \in Size}

ASSUME WireAssumption ==
  /\ Cap \in Nat \ {0} /\ None \notin Term \cup Size \cup Message
  /\ MaxWrites \in Nat /\ MaxTrouble \in Nat

VARIABLES
  readOnly, \* the attach is for a read-only token
  stage,   \* how far open_attach is, then the relay
  frame,   \* the frame being written, None if there is none
  pieces,  \* how many of its two pieces are in the socket
  pipe,    \* pieces on their way to herdr
  back,    \* messages on their way from herdr
  current, \* current_terminal_id
  screen,  \* the size the client asked for last
  first,   \* the size it attached with, which is the guard's
  reader,  \* where the reader thread is
  herdr,   \* the other end: how far it is with this connection
  half,    \* the length it has read and not yet the payload of
  showing, \* the terminal it shows this connection
  given,   \* the size it was given last
  focus,   \* the terminal its focused pane has
  stuck,   \* it neither reads nor writes
  trouble, written,
  failed   \* writes that timed out: "whole" frames only, "torn" ones too, or None (history)

ours     == <<readOnly, stage, frame, pieces, current, screen, first, reader, written, failed>>
theirs   == <<herdr, half, showing, given, focus, stuck, trouble>>
wireVars == <<ours, theirs, pipe, back>>

\* ServerMessage, as map_server_message tells them apart, and what cannot be decoded.
Welcomes  == {"welcome", "rejected", "mismatch"}

WireInit ==
  /\ readOnly \in BOOLEAN
  /\ stage = "idle" /\ frame = None /\ pieces = 0 /\ pipe = << >> /\ back = << >>
  /\ current = None /\ first \in Size /\ screen = first /\ reader = "none"
  /\ herdr = "new" /\ half = None /\ showing = None /\ given = None
  /\ focus \in Term /\ stuck = FALSE /\ trouble = 0 /\ written = 0 /\ failed = None

----------------------------------------------------------------------------
(* write_message, under the write timeout.                                 *)

Begin(m) == frame = None /\ frame' = m /\ pieces' = 0

Push ==
  /\ frame # None /\ pieces < 2 /\ Len(pipe) < Cap /\ herdr # "closed"
  /\ pipe' = Append(pipe, [of |-> frame, part |-> pieces])
  /\ pieces' = pieces + 1
  /\ UNCHANGED <<readOnly, stage, frame, current, screen, first, reader, written, failed, theirs, back>>

\* A plausible bug: what one write call took is taken for all of it.
WroteSome == frame # None /\ (pieces = 2 \/ (pieces = 1 /\ Len(pipe) = Cap))

\* write_all has returned.
Wrote == frame # None /\ pieces = 2

\* WIRE_TIMEOUT passes, or herdr has closed.
Stalled == frame # None /\ pieces < 2 /\ (Len(pipe) = Cap \/ herdr = "closed")
Worse == IF pieces = 1 \/ failed = "torn" THEN "torn" ELSE "whole"

----------------------------------------------------------------------------
(* open_attach.                                                            *)

Rest == UNCHANGED <<readOnly, screen, first, written>>

\* resolve_focused_terminal, over the other socket.
Resolve ==
  /\ stage = "idle" /\ stage' = "resolved" /\ current' = focus
  /\ UNCHANGED <<frame, pieces, pipe, reader, failed, back, theirs>> /\ Rest

SendHello ==
  /\ stage = "resolved" /\ stage' = "hello" /\ Begin(Hello(first))
  /\ UNCHANGED <<pipe, current, reader, failed, back, theirs>> /\ Rest

SentHello ==
  /\ stage = "hello" /\ Wrote /\ stage' = "welcome" /\ frame' = None /\ pieces' = 0
  /\ UNCHANGED <<pipe, current, reader, failed, back, theirs>> /\ Rest

\* assert_welcome.
Accepted(w) == w = "welcome"

ReadWelcome ==
  /\ stage = "welcome" /\ back # << >> /\ back' = Tail(back)
  /\ IF Accepted(Head(back)) THEN stage' = "attach" /\ Begin(Attach(current))
     ELSE stage' = "failed" /\ UNCHANGED <<frame, pieces>>
  /\ UNCHANGED <<pipe, current, reader, failed, theirs>> /\ Rest

\* The read timeout of the handshake.
WelcomeIsLate == stage = "welcome" /\ back = << >>

NoWelcome ==
  /\ WelcomeIsLate
  /\ stage' = "failed"
  /\ UNCHANGED <<frame, pieces, pipe, current, reader, failed, back, theirs>> /\ Rest

\* The two halves are split, and the reader starts.
Opened ==
  /\ stage = "attach" /\ Wrote
  /\ stage' = "open" /\ reader' = "parked" /\ frame' = None /\ pieces' = 0
  /\ UNCHANGED <<pipe, current, failed, back, theirs>> /\ Rest

OpenFails ==
  /\ stage \in {"hello", "attach"} /\ Stalled
  /\ stage' = "failed" /\ frame' = None /\ pieces' = 0
  /\ UNCHANGED <<pipe, current, reader, failed, back, theirs>> /\ Rest

----------------------------------------------------------------------------
(* The sender, in the hands of the inbound task.                           *)

Sends(m) ==
  /\ stage = "open" /\ ~readOnly /\ written < MaxWrites /\ written' = written + 1
  /\ Begin(m)
  /\ UNCHANGED <<readOnly, stage, first, reader, failed, pipe, back, theirs>>

SendInput == Sends(Input) /\ UNCHANGED <<current, screen>>
SendResize(s) == /\ s # screen /\ Sends(Resize(s))
                 /\ screen' = s /\ UNCHANGED current

\* A plausible bug: the terminal is recorded when the frame is made.
RecordFirst(t) == Sends(Attach(t)) /\ current' = t /\ UNCHANGED screen

\* reattach: go_to_tab, focus_pane and switch_space come down to it.
SendAttach(t) == Sends(Attach(t)) /\ UNCHANGED <<current, screen>>

Sent ==
  /\ stage = "open" /\ Wrote /\ frame' = None /\ pieces' = 0
  /\ current' = IF frame.op = "attach" THEN frame.arg ELSE current
  /\ UNCHANGED <<stage, reader, failed, pipe, back, theirs>> /\ Rest

\* It is logged, and the relay goes on.
SendFails ==
  /\ stage = "open" /\ Stalled
  /\ frame' = None /\ pieces' = 0 /\ failed' = Worse
  /\ UNCHANGED <<stage, current, reader, pipe, back, theirs>> /\ Rest

\* ShutdownGuard::drop: the stop flag and the nudge, with the sizes it was made with.
Shutdown ==
  /\ stage = "open" /\ stage' = "nudging"
  /\ Begin(IF readOnly THEN Detach ELSE Resize(first))
  /\ UNCHANGED <<current, reader, failed, pipe, back, theirs>> /\ Rest

Nudged ==
  /\ stage = "nudging" /\ (Wrote \/ Stalled)
  /\ stage' = "joining" /\ frame' = None /\ pieces' = 0
  /\ failed' = IF Wrote THEN failed ELSE Worse
  /\ UNCHANGED <<current, reader, pipe, back, theirs>> /\ Rest

Join ==
  /\ stage = "joining" /\ reader = "exited" /\ stage' = "gone"
  /\ UNCHANGED <<frame, pieces, current, reader, failed, pipe, back, theirs>> /\ Rest

----------------------------------------------------------------------------
(* The receiver, on the reader thread.                                     *)

Stop == stage \in {"nudging", "joining"}

\* recv_from: a frame is rendered; what is no render and no exit is drained; a message
\* that cannot be decoded ends the relay like an exit.
Recv ==
  /\ reader = "parked" /\ back # << >> /\ back' = Tail(back)
  /\ reader' = CASE Stop \/ Head(back) \in {"exit", "garbage"} -> "exited"
                 [] ~Stop /\ Head(back) = "terminal"           -> "sending"
                 [] OTHER                                      -> "parked"
  /\ UNCHANGED <<stage, frame, pieces, current, failed, pipe, theirs>> /\ Rest

RecvEof ==
  /\ reader = "parked" /\ back = << >> /\ herdr = "closed"
  /\ reader' = "exited"
  /\ UNCHANGED <<stage, frame, pieces, current, failed, pipe, back, theirs>> /\ Rest

\* The phone reads, or has gone.
Delivered ==
  /\ reader = "sending" /\ reader' = IF Stop THEN "exited" ELSE "parked"
  /\ UNCHANGED <<stage, frame, pieces, current, failed, pipe, back, theirs>> /\ Rest

----------------------------------------------------------------------------
(* herdr.                                                                  *)

Answers(m) == back' = Append(back, m)
Reads == herdr \notin {"closed", "deaf"} /\ ~stuck /\ pipe # << >> /\ pipe' = Tail(pipe)

TakeLength ==
  /\ Reads /\ half = None /\ Head(pipe).part = 0
  /\ half' = Head(pipe).of
  /\ UNCHANGED <<ours, back, herdr, showing, given, focus, stuck, trouble>>

\* It reads a payload where it ends, or what it takes for one.
Misread ==
  /\ Reads /\ half # None /\ Head(pipe).part = 0
  /\ herdr' \in {"closed", "deaf"} /\ half' = None
  /\ UNCHANGED <<ours, back, showing, given, focus, stuck, trouble>>

Handle ==
  /\ Reads /\ half # None /\ Head(pipe).part = 1 /\ Len(back) < Cap
  /\ half' = None
  /\ CASE half.op = "hello"  -> /\ \E w \in Welcomes : /\ Answers(w)
                                   /\ herdr' = IF w = "welcome" THEN "greeted" ELSE "refused"
                                /\ given' = half.arg /\ UNCHANGED showing
       [] half.op = "attach" -> /\ herdr' = IF herdr = "greeted" THEN "attached" ELSE herdr
                                /\ showing' = half.arg /\ Answers("terminal") /\ UNCHANGED given
       [] half.op = "resize" -> given' = half.arg /\ Answers("terminal") /\ UNCHANGED <<herdr, showing>>
       [] half.op = "input"  -> Answers("terminal") /\ UNCHANGED <<herdr, showing, given>>
       [] half.op = "detach" -> herdr' = "closed" /\ UNCHANGED <<back, showing, given>>
  /\ UNCHANGED <<ours, focus, stuck, trouble>>

Trouble ==
  /\ trouble < MaxTrouble /\ trouble' = trouble + 1
  /\ \/ herdr # "closed" /\ stuck' = TRUE /\ UNCHANGED <<herdr, focus, back>>
     \/ \E t \in Term \ {focus} : focus' = t /\ UNCHANGED <<herdr, stuck, back>>
     \/ /\ herdr = "attached" /\ ~stuck /\ Len(back) < Cap
        /\ \E m \in {"other", "garbage", "exit"} : Answers(m)
        /\ UNCHANGED <<herdr, stuck, focus>>
     \/ herdr # "closed" /\ ~stuck /\ herdr' = "closed" /\ UNCHANGED <<stuck, focus, back>>
  /\ UNCHANGED <<ours, pipe, half, showing, given>>

Resumes ==
  /\ stuck /\ stuck' = FALSE
  /\ UNCHANGED <<ours, pipe, back, herdr, half, showing, given, focus, trouble>>

----------------------------------------------------------------------------
Opening == \/ Resolve \/ SendHello \/ SentHello \/ ReadWelcome \/ NoWelcome
           \/ Opened \/ OpenFails
Inbound == \/ SendInput \/ (\E s \in Size : SendResize(s)) \/ (\E t \in Term : SendAttach(t))
           \/ Sent \/ SendFails \/ Shutdown \/ Nudged \/ Join
Reading == Recv \/ RecvEof \/ Delivered
Herdr   == TakeLength \/ Misread \/ Handle \/ Trouble \/ Resumes

WireNext == Opening \/ Push \/ Inbound \/ Reading \/ Herdr

WireSpec == WireInit /\ [][WireNext]_wireVars

----------------------------------------------------------------------------
(* Properties.                                                             *)

\* Every variable has the shape its comment says.
WireTypeOK ==
  /\ readOnly \in BOOLEAN
  /\ stage \in {"idle", "resolved", "hello", "welcome", "attach", "failed", "open",
                "nudging", "joining", "gone"}
  /\ frame \in Message \cup {None} /\ pieces \in 0 .. 2
  /\ pipe \in Seq([of : Message, part : {0, 1}])
  /\ back \in Seq(Welcomes \cup {"terminal", "other", "garbage", "exit"})
  /\ current \in (IF stage = "idle" THEN {None} ELSE Term)
  /\ screen \in Size /\ first \in Size
  /\ reader \in {"none", "parked", "sending", "exited"}
  /\ herdr \in {"new", "greeted", "refused", "attached", "deaf", "closed"}
  /\ half \in Message \cup {None} /\ showing \in Term \cup {None}
  /\ given \in Size \cup {None} /\ focus \in Term /\ stuck \in BOOLEAN
  /\ trouble \in 0 .. MaxTrouble /\ written \in 0 .. MaxWrites
  /\ failed \in {None, "whole", "torn"}

\* Nothing is on its way to herdr.
AtRest == frame = None /\ pipe = << >> /\ half = None

\* The terminal a relay has on record, which a clone of its sender takes along, is the one
\* herdr shows its client, though writes may have timed out before their first byte
\* (reattach).
ShowsWhatIsRecorded ==
  stage = "open" /\ AtRest /\ failed # "torn" /\ herdr = "attached" => showing = current

\* herdr never takes one frame for another, unless a write timed out in the middle of one;
\* what the socket takes in pieces is still written whole (write_message).
FramesStayWhole == half # None /\ pipe # << >> /\ Head(pipe).part = 0 => failed = "torn"
=============================================================================
