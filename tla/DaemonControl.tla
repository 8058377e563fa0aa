--------------------------- MODULE DaemonControl ---------------------------
(***************************************************************************)
(* The muxrd daemon and the commands that manage it (muxrd/src/bin/        *)
(* muxrd.rs, control.rs, multiplexer/detect.rs): start looks for backends  *)
(* to serve, and start, status and stop agree on what is running through   *)
(* two files only, the pidfile and the control socket, which any of them   *)
(* may remove.                                                             *)
(*                                                                         *)
(* Every process of the model is one run of `muxrd start`; its own name    *)
(* stands for its pid.  All of them use the same data directory and bind   *)
(* the same address.                                                       *)
(***************************************************************************)
EXTENDS Naturals, FiniteSets

CONSTANTS
  Server,     \* runs of `muxrd start'
  Foreground, \* those without --daemonize
  Command,    \* runs of `muxrd status' and `muxrd stop'
  Nobody      \* no such file, no such process

ASSUME DaemonAssumption ==
  /\ Foreground \subseteq Server
  /\ Nobody \notin Server

VARIABLES
  proc,     \* how far each server is
  asked,    \* servers that were asked to shut down over their socket
  cmd,      \* how far each command is
  told,     \* the server a stop has asked or signalled, if any
  pidfile,  \* whose pid is in the pidfile
  sock,     \* whose listener the control socket's path leads to
  hasty     \* the operator did not wait for what went before (history)

vars == <<proc, asked, cmd, told, pidfile, sock, hasty>>

----------------------------------------------------------------------------
Starting == {"probed", "checked", "unpidded", "cleared"}
Alive(s) == proc[s] \in {"booting", "listening", "serving", "draining",
                         "exiting", "leaving"}

PidfileInUse == pidfile # Nobody /\ Alive(pidfile)

\* The accept loop, which ends at the first Shutdown it is sent.
Listening(s) == Alive(s) /\ proc[s] # "booting" /\ s \notin asked

\* control::query: the file may be absent, or nobody may listen behind it.
Responds(s) == sock = s /\ Listening(s)
SomeoneResponds == \E s \in Server : Responds(s)

\* The address is released as soon as the shutdown begins.
AddressTaken == \E s \in Server : proc[s] = "serving"

UnderWay(c) == cmd[c] \notin {"idle", "done"}
Quiet == /\ \A c \in Command : ~UnderWay(c)
         /\ \A s \in Server : proc[s] \notin Starting

\* What a patient operator waits for: commands returned, and before a start or
\* a stop, daemons up or gone too.
Settled == Quiet /\ \A s \in Server : Alive(s) => proc[s] = "serving" /\ s \notin asked

\* An operator who goes on nevertheless.
Hurry(waited) == hasty' = (hasty \/ ~waited)

Init ==
  /\ proc = [s \in Server |-> "off"] /\ asked = {}
  /\ cmd = [c \in Command |-> "idle"] /\ told = [c \in Command |-> Nobody]
  /\ pidfile = Nobody /\ sock = Nobody /\ hasty = FALSE

----------------------------------------------------------------------------
(* cmd_start.                                                              *)

Move(s, next) == proc' = [proc EXCEPT ![s] = next]

\* What a start finds on the machine: a zellij, perhaps of the version muxrd is built for,
\* and herdr's socket, behind which nobody may answer.
Machine == [zellij : {"none", "other", "right"}, herdr : {"none", "silent", "up"}]

\* probe_zellij: a binary that does not end, or says nothing, is of another version.
ProbeZellij(m, skip) == m.zellij = "right" \/ (skip /\ m.zellij = "other")

ProbeHerdr(m) == m.herdr = "up"

\* Every backend that is there, or the one that is asked for.
DetectBackends(only, m, skip) ==
  {b \in {"zellij", "herdr"} :
     /\ only \in {Nobody, b}
     /\ IF b = "zellij" THEN ProbeZellij(m, skip) ELSE ProbeHerdr(m)}

\* Whether there is anything to serve, and zellij, if it is to be served, is there when it
\* is looked for once more.
Serves(only, skip, m, later) ==
  LET kinds == DetectBackends(only, m, skip)
  IN kinds # {} /\ ("zellij" \in kinds => ProbeZellij(later, skip))

Verdicts == {Serves(only, skip, m, later) : only \in {Nobody, "zellij", "herdr"},
                                            skip \in BOOLEAN, m \in Machine, later \in Machine}

\* cmd_start up to its files: the backends, then the settings, either of which may refuse
\* the start.  The probes take seconds.
Detect(s) ==
  /\ proc[s] = "off" /\ Hurry(Settled)
  /\ \E serves \in Verdicts :
       Move(s, IF serves THEN "probed" ELSE "refused") \/ Move(s, "refused")
  /\ UNCHANGED <<asked, cmd, told, pidfile, sock>>

\* A plausible bug: the files are cleared without asking the socket.
StartUnasked(s) ==
  /\ proc[s] = "probed" /\ s \notin Foreground
  /\ Move(s, "checked")
  /\ UNCHANGED <<asked, cmd, told, pidfile, sock, hasty>>

\* --daemonize: refused over a control socket that answers.
CheckRunning(s) ==
  /\ proc[s] = "probed" /\ s \notin Foreground
  /\ Move(s, IF SomeoneResponds THEN "refused" ELSE "checked")
  /\ UNCHANGED <<asked, cmd, told, pidfile, sock, hasty>>

RemovePidfile(s) ==
  /\ proc[s] = "checked"
  /\ Move(s, "unpidded")
  /\ pidfile' = Nobody
  /\ UNCHANGED <<asked, cmd, told, sock, hasty>>

RemoveSocket(s) ==
  /\ proc[s] = "unpidded"
  /\ Move(s, "cleared")
  /\ sock' = Nobody
  /\ UNCHANGED <<asked, cmd, told, pidfile, hasty>>

\* daemonize locks and writes the pidfile; the lock of another daemon on the
\* same file makes it fail, and so may the log before it.
Daemonize(s) ==
  /\ proc[s] = "cleared"
  /\ \/ Move(s, "refused") /\ UNCHANGED pidfile
     \/ /\ ~(PidfileInUse /\ pidfile \notin Foreground)
        /\ Move(s, "booting") /\ pidfile' = s
  /\ UNCHANGED <<asked, cmd, told, sock, hasty>>

\* Without --daemonize nothing is checked: it is for the operator to know of a daemon.
RunForeground(s) ==
  /\ proc[s] = "probed" /\ s \in Foreground /\ Hurry(\A d \in Server : ~Alive(d))
  /\ Move(s, "booting")
  /\ pidfile' = s
  /\ UNCHANGED <<asked, cmd, told, sock, hasty>>

\* serve: the identity may fail to load; spawn_listener takes the path over.
BindControl(s) ==
  /\ proc[s] = "booting"
  /\ \/ Move(s, "listening") /\ sock' = s
     \/ Move(s, "exiting") /\ UNCHANGED sock
  /\ UNCHANGED <<asked, cmd, told, pidfile, hasty>>

BindAddress(s) ==
  /\ proc[s] = "listening"
  /\ Move(s, IF AddressTaken THEN "exiting" ELSE "serving")
  /\ UNCHANGED <<asked, cmd, told, pidfile, sock, hasty>>

\* serve_with_shutdown: no new connections, those there are come to an end.
BeginShutdown(s) ==
  /\ proc[s] = "serving" /\ s \in asked
  /\ Move(s, "draining")
  /\ UNCHANGED <<asked, cmd, told, pidfile, sock, hasty>>

Drained(s) ==
  /\ proc[s] = "draining"
  /\ Move(s, "exiting")
  /\ UNCHANGED <<asked, cmd, told, pidfile, sock, hasty>>

\* serve returned: the pidfile, in the foreground, then the socket.
ExitPidfile(s) ==
  /\ proc[s] = "exiting"
  /\ Move(s, "leaving")
  /\ pidfile' = IF s \in Foreground THEN Nobody ELSE pidfile
  /\ UNCHANGED <<asked, cmd, told, sock, hasty>>

ExitSocket(s) ==
  /\ proc[s] = "leaving"
  /\ Move(s, "dead")
  /\ sock' = Nobody
  /\ UNCHANGED <<asked, cmd, told, pidfile, hasty>>

\* A crash, or a signal from elsewhere: nothing is cleaned up.
Crash(s) ==
  /\ Alive(s)
  /\ Move(s, "dead")
  /\ UNCHANGED <<asked, cmd, told, pidfile, sock, hasty>>

----------------------------------------------------------------------------
(* cmd_status and cmd_stop.                                                *)

Step(c, next) == cmd' = [cmd EXCEPT ![c] = next]

\* Status: the socket is asked, and when it does not answer the pidfile.
StatusQuery(c) ==
  /\ cmd[c] = "idle" /\ Hurry(Quiet)
  /\ Step(c, IF SomeoneResponds THEN "done" ELSE "status:unanswered")
  /\ UNCHANGED <<proc, asked, told, pidfile, sock>>

\* A plausible bug: a socket that does not answer means a dead daemon.
StatusTrustsSocket(c) ==
  /\ cmd[c] = "status:unanswered"
  /\ Step(c, "status:stale")
  /\ UNCHANGED <<proc, asked, told, pidfile, sock, hasty>>

StatusReadPid(c) ==
  /\ cmd[c] = "status:unanswered"
  /\ Step(c, IF PidfileInUse THEN "done" ELSE "status:stale")
  /\ UNCHANGED <<proc, asked, told, pidfile, sock, hasty>>

\* A plausible bug: a trigger that only wakes a server already waiting on it.
StopWakes(c) ==
  /\ cmd[c] = "idle" /\ Hurry(Settled)
  /\ IF SomeoneResponds
     THEN /\ asked' = IF proc[sock] = "serving" THEN asked \cup {sock} ELSE asked
          /\ told' = [told EXCEPT ![c] = sock]
          /\ Step(c, "stop:told")
     ELSE /\ Step(c, "stop:unanswered")
          /\ UNCHANGED <<asked, told>>
  /\ UNCHANGED <<proc, pidfile, sock>>

\* Stop: a Shutdown over the socket, or else SIGTERM to the pidfile's pid.
StopRequest(c) ==
  /\ cmd[c] = "idle" /\ Hurry(Settled)
  /\ IF SomeoneResponds
     THEN /\ asked' = asked \cup {sock}
          /\ told' = [told EXCEPT ![c] = sock]
          /\ Step(c, "stop:told")
     ELSE /\ Step(c, "stop:unanswered")
          /\ UNCHANGED <<asked, told>>
  /\ UNCHANGED <<proc, pidfile, sock>>

StopSignal(c) ==
  /\ cmd[c] = "stop:unanswered"
  /\ Step(c, "stop:told")
  /\ IF PidfileInUse
     THEN Move(pidfile, "dead") /\ told' = [told EXCEPT ![c] = pidfile]
     ELSE UNCHANGED <<proc, told>>
  /\ UNCHANGED <<asked, pidfile, sock, hasty>>

\* 300 ms later: long enough for a server without open streams, and no more.
StopWaited(c) ==
  /\ cmd[c] = "stop:told"
  /\ Hurry(told[c] # Nobody => ~Alive(told[c]))
  /\ Step(c, "stop:stale")
  /\ UNCHANGED <<proc, asked, told, pidfile, sock>>

\* cleanup_stale: the socket, then the pidfile.
CleanSocket(c) ==
  /\ \/ cmd[c] = "status:stale" /\ Step(c, "status:pidfile")
     \/ cmd[c] = "stop:stale" /\ Step(c, "stop:pidfile")
  /\ sock' = Nobody
  /\ UNCHANGED <<proc, asked, told, pidfile, hasty>>

CleanPidfile(c) ==
  /\ cmd[c] \in {"status:pidfile", "stop:pidfile"}
  /\ Step(c, "done")
  /\ pidfile' = Nobody
  /\ UNCHANGED <<proc, asked, told, sock, hasty>>

----------------------------------------------------------------------------
Start(s) == \/ Detect(s) \/ CheckRunning(s) \/ RemovePidfile(s) \/ RemoveSocket(s)
            \/ Daemonize(s) \/ RunForeground(s)
Serve(s) == \/ BindControl(s) \/ BindAddress(s) \/ BeginShutdown(s)
            \/ Drained(s) \/ ExitPidfile(s) \/ ExitSocket(s)
Status(c) == StatusQuery(c) \/ StatusReadPid(c)
Stop(c)   == StopRequest(c) \/ StopSignal(c) \/ StopWaited(c)
Clean(c)  == CleanSocket(c) \/ CleanPidfile(c)

Next == \/ \E s \in Server : Start(s) \/ Serve(s) \/ Crash(s)
        \/ \E c \in Command : Status(c) \/ Stop(c) \/ Clean(c)

Spec == Init /\ [][Next]_vars

\* Processes run to their end; nobody has to start one, and none has to crash.
Fairness ==
  /\ \A s \in Server : /\ WF_vars(Serve(s))
                       /\ WF_vars(\/ CheckRunning(s) \/ RemovePidfile(s)
                                  \/ RemoveSocket(s) \/ Daemonize(s) \/ RunForeground(s))
  /\ \A c \in Command : WF_vars(StatusReadPid(c) \/ StopSignal(c) \/ StopWaited(c)
                                \/ Clean(c))

FairSpec == Spec /\ Fairness

----------------------------------------------------------------------------
\* Every variable has the shape its comment says.
TypeOK ==
  /\ proc \in [Server -> Starting \cup
                {"off", "refused", "booting", "listening", "serving", "draining",
                 "exiting", "leaving", "dead"}]
  /\ asked \subseteq Server
  /\ cmd \in [Command -> {"idle", "done", "status:unanswered", "status:stale",
                          "status:pidfile", "stop:unanswered", "stop:told",
                          "stop:stale", "stop:pidfile"}]
  /\ told \in [Command -> Server \cup {Nobody}]
  /\ pidfile \in Server \cup {Nobody} /\ sock \in Server \cup {Nobody}
  /\ hasty \in BOOLEAN

\* Of an operator who waits for what went before: a daemon that serves can be found by
\* both files, and answers status and stop, whatever crashed before it and whichever
\* command is under way.
ServingIsReachable ==
  \A s \in Server :
    ~hasty /\ proc[s] = "serving" /\ s \notin asked => Responds(s) /\ pidfile = s

\* Nor are there ever two daemons then, one of them unknown to every command.
OneDaemon == ~hasty => Cardinality({s \in Server : Alive(s)}) <= 1

\* Whatever else goes on, a server that a stop has reached ends, even one that
\* was asked before it began to serve.
StopsEnd ==
  \A c \in Command : told[c] # Nobody ~> told[c] # Nobody /\ ~Alive(told[c])

=============================================================================
