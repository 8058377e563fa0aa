--------------------------- MODULE OperatorProofs ---------------------------
(***************************************************************************)
(* Proofs about what an operator uses.  DaemonControl: the type invariant,  *)
(* and that an operator who waits for what went before has one daemon at    *)
(* most, and can reach it.  MuxrctlApp: the panel's type invariant, that an  *)
(* overlay shows what is its own, and that a flag has a task that clears it. *)
(***************************************************************************)
EXTENDS DaemonControl, MuxrctlApp, FiniteSetTheorems, SequenceTheorems,
        WellFoundedInduction, TLAPS

(***************************************************************************)
(* The daemon and the commands.                                            *)
(***************************************************************************)

----------------------------------------------------------------------------
(* The inductive invariant.                                                *)

IsStarting(s) == proc[s] \in Starting

\* There is one daemon at most.
OneAlive == \A s, t \in Server : Alive(s) /\ Alive(t) => s = t

\* One start or one command is under way, not both.
OneAtATime ==
  /\ \A s, t \in Server : IsStarting(s) /\ IsStarting(t) => s = t
  /\ \A c, d \in Command : UnderWay(c) /\ UnderWay(d) => c = d
  /\ \A s \in Server, c \in Command : ~(IsStarting(s) /\ UnderWay(c))

NoneAlive == \A d \in Server : ~Alive(d)

\* A start found a daemon that serves, or none; and goes on only without.
StartFinds(s) ==
  /\ proc[s] = "probed" => \A d \in Server : Alive(d) => proc[d] = "serving" /\ d \notin asked
  /\ proc[s] \in {"checked", "unpidded", "cleared"} => NoneAlive

\* A command cleans up after daemons that are gone, or have their own cleanup behind them
\* but for the socket; a stop waits for the one it told.
CommandFinds(c) ==
  /\ cmd[c] \in {"stop:unanswered", "stop:stale", "stop:pidfile"} => NoneAlive
  /\ cmd[c] = "stop:told" => \A d \in Server : Alive(d) => d = told[c]
  /\ cmd[c] \in {"status:stale", "status:pidfile"} =>
       \A d \in Server : Alive(d) => proc[d] = "leaving"

\* The files lead to a daemon that is alive, until it removes them.
FilesLead(s) ==
  /\ Alive(s) /\ proc[s] # "leaving" => pidfile = s
  /\ proc[s] \in {"listening", "serving"} => sock = s

Orderly ==
  ~hasty =>
    /\ OneAlive /\ OneAtATime
    /\ \A s \in Server : StartFinds(s) /\ FilesLead(s)
    /\ \A c \in Command : CommandFinds(c)

IInv == TypeOK /\ Orderly

----------------------------------------------------------------------------
(* What a step of the model does to a server and to a command.             *)

\* Moving one server leaves the others where they are.
LEMMA MoveEffect ==
  ASSUME TypeOK, NEW s \in Server, NEW next, Move(s, next)
  PROVE  /\ proc'[s] = next
         /\ \A d \in Server : d # s => proc'[d] = proc[d]
BY DEF TypeOK, Move

\* Nor does a step of one command touch another.
LEMMA CommandEffect ==
  ASSUME TypeOK, NEW c \in Command, NEW next, Step(c, next)
  PROVE  /\ cmd'[c] = next
         /\ \A d \in Command : d # c => cmd'[d] = cmd[d]
BY DEF TypeOK, Step

\* A socket that answers is that of a server.
LEMMA AnswersAreOfServers ==
  ASSUME SomeoneResponds
  PROVE  sock \in Server /\ Responds(sock)
BY DEF SomeoneResponds, Responds

\* A pidfile in use names a server.
LEMMA PidsAreOfServers ==
  ASSUME TypeOK, PidfileInUse
  PROVE  pidfile \in Server /\ Alive(pidfile)
BY DEF TypeOK, PidfileInUse

----------------------------------------------------------------------------
(* The type invariant.                                                     *)

LEMMA TypeInit == ASSUME Init PROVE TypeOK
BY DEF Init, TypeOK, Starting

LEMMA TypeStep == ASSUME TypeOK, [Next]_vars PROVE TypeOK'
<1>0. CASE UNCHANGED vars BY <1>0 DEF TypeOK, vars
<1>1. ASSUME NEW s \in Server, Start(s) PROVE TypeOK'
  <2>1. CASE Detect(s) BY <2>1 DEF TypeOK, Starting, Detect, Hurry, Move
  <2>2. CASE CheckRunning(s) BY <2>2 DEF TypeOK, Starting, CheckRunning, Move
  <2>3. CASE RemovePidfile(s) BY <2>3 DEF TypeOK, Starting, RemovePidfile, Move
  <2>4. CASE RemoveSocket(s) BY <2>4 DEF TypeOK, Starting, RemoveSocket, Move
  <2>5. CASE Daemonize(s) BY <2>5 DEF TypeOK, Starting, Daemonize, Move
  <2>6. CASE RunForeground(s) BY <2>6 DEF TypeOK, Starting, RunForeground, Hurry, Move
  <2> QED BY <1>1, <2>1, <2>2, <2>3, <2>4, <2>5, <2>6 DEF Start
<1>2. ASSUME NEW s \in Server, Serve(s) \/ Crash(s) PROVE TypeOK'
  <2>1. CASE BindControl(s) BY <2>1 DEF TypeOK, Starting, BindControl, Move
  <2>2. CASE BindAddress(s) BY <2>2 DEF TypeOK, Starting, BindAddress, Move
  <2>3. CASE BeginShutdown(s) BY <2>3 DEF TypeOK, Starting, BeginShutdown, Move
  <2>4. CASE Drained(s) BY <2>4 DEF TypeOK, Starting, Drained, Move
  <2>5. CASE ExitPidfile(s) BY <2>5 DEF TypeOK, Starting, ExitPidfile, Move
  <2>6. CASE ExitSocket(s) BY <2>6 DEF TypeOK, Starting, ExitSocket, Move
  <2>7. CASE Crash(s) BY <2>7 DEF TypeOK, Starting, Crash, Move
  <2> QED BY <1>2, <2>1, <2>2, <2>3, <2>4, <2>5, <2>6, <2>7 DEF Serve
<1>3. ASSUME NEW c \in Command, Status(c) \/ Stop(c) \/ Clean(c) PROVE TypeOK'
  <2>1. CASE StatusQuery(c) BY <2>1 DEF TypeOK, StatusQuery, Hurry, Step
  <2>2. CASE StatusReadPid(c) BY <2>2 DEF TypeOK, StatusReadPid, Step
  <2>3. CASE StopRequest(c)
    BY <2>3, AnswersAreOfServers DEF TypeOK, StopRequest, Hurry, Step
  <2>4. CASE StopSignal(c)
    BY <2>4, PidsAreOfServers DEF TypeOK, StopSignal, Move, Step
  <2>5. CASE StopWaited(c) BY <2>5 DEF TypeOK, StopWaited, Hurry, Step
  <2>6. CASE CleanSocket(c) BY <2>6 DEF TypeOK, CleanSocket, Step
  <2>7. CASE CleanPidfile(c) BY <2>7 DEF TypeOK, CleanPidfile, Step
  <2> QED BY <1>3, <2>1, <2>2, <2>3, <2>4, <2>5, <2>6, <2>7 DEF Status, Stop, Clean
<1> QED BY <1>0, <1>1, <1>2, <1>3 DEF Next

----------------------------------------------------------------------------
(* The order that a patient operator keeps.                                *)

\* Once the operator has gone on too early, that stays on record.
LEMMA HasteLasts ==
  ASSUME TypeOK, [Next]_vars, ~hasty'
  PROVE  ~hasty
BY Zenon DEF Next, Start, Serve, Status, Stop, Clean, vars, Hurry,
       Detect, CheckRunning, RemovePidfile, RemoveSocket, Daemonize, RunForeground,
       BindControl, BindAddress, BeginShutdown, Drained, ExitPidfile, ExitSocket, Crash,
       StatusQuery, StatusReadPid, StopRequest, StopSignal, StopWaited,
       CleanSocket, CleanPidfile

\* A step of a daemon that is alive: it is the only one, and it stays what the others think
\* it is, or is gone.
LEMMA AliveStep ==
  ASSUME TypeOK, Orderly, ~hasty, UNCHANGED cmd, UNCHANGED told, UNCHANGED asked,
         NEW s \in Server, Alive(s), NEW next, Move(s, next),
         next \in {"listening", "serving", "draining", "exiting", "leaving", "dead"},
         proc[s] = "leaving" => next = "dead",
         proc[s] = "serving" /\ s \notin asked => next = "dead",
         FilesLead(s)'
  PROVE  Orderly'
<1>1. /\ proc'[s] = next
      /\ \A d \in Server : d # s => proc'[d] = proc[d]
  BY MoveEffect
<1>2. \A d \in Server : d # s => ~Alive(d)
  BY DEF Orderly, OneAlive
<1>3. \A d \in Server : d # s => ~Alive(d)'
  BY <1>1, <1>2 DEF Alive
<1>4. OneAlive' BY <1>3 DEF OneAlive
<1>5. \A d \in Server : IsStarting(d)' => IsStarting(d)
  BY <1>1 DEF IsStarting, Starting
<1>6. OneAtATime'
  BY <1>5 DEF OneAtATime, Orderly, UnderWay, IsStarting
<1>7. ASSUME NEW d \in Server PROVE StartFinds(d)'
  <2>1. CASE d = s BY <2>1, <1>1 DEF StartFinds
  <2>2. CASE d # s
    <3>1. proc'[d] = proc[d] /\ StartFinds(d) BY <2>2, <1>1 DEF Orderly
    <3>2. proc[d] \notin {"checked", "unpidded", "cleared"}
      BY <3>1 DEF StartFinds, NoneAlive
    <3>3. ASSUME proc[d] = "probed" PROVE next = "dead"
      BY <3>1, <3>3 DEF StartFinds
    <3>4. ASSUME proc[d] = "probed" PROVE \A e \in Server : ~Alive(e)'
      BY <3>3, <3>4, <1>1, <1>3 DEF Alive
    <3> QED BY <3>1, <3>2, <3>4 DEF StartFinds
  <2> QED BY <2>1, <2>2
<1>8. ASSUME NEW d \in Server PROVE FilesLead(d)'
  <2>1. CASE d = s BY <2>1
  <2>2. CASE d # s
    <3>1. ~Alive(d)' BY <2>2, <1>3
    <3> QED BY <3>1 DEF FilesLead, Alive
  <2> QED BY <2>1, <2>2
<1>9. ASSUME NEW c \in Command PROVE CommandFinds(c)'
  <2>1. CommandFinds(c) BY DEF Orderly
  <2>2. cmd[c] \notin {"stop:unanswered", "stop:stale", "stop:pidfile"}
    BY <2>1 DEF CommandFinds, NoneAlive
  <2>3. cmd[c] = "stop:told" => s = told[c] BY <2>1 DEF CommandFinds
  <2>4. cmd[c] = "stop:told" => \A d \in Server : Alive(d)' => d = told[c]
    BY <2>3, <1>3
  <2>5. ASSUME cmd[c] \in {"status:stale", "status:pidfile"} PROVE next = "dead"
    BY <2>1, <2>5 DEF CommandFinds
  <2>6. cmd[c] \in {"status:stale", "status:pidfile"} => \A d \in Server : ~Alive(d)'
    BY <2>5, <1>1, <1>3 DEF Alive
  <2> QED BY <2>2, <2>4, <2>6 DEF CommandFinds
<1> QED BY <1>4, <1>6, <1>7, <1>8, <1>9 DEF Orderly

\* A start that goes on, or gives up, before it is a daemon.
LEMMA StarterStep ==
  ASSUME TypeOK, Orderly, ~hasty, UNCHANGED cmd, UNCHANGED told, UNCHANGED asked,
         NEW s \in Server, IsStarting(s), NEW next, Move(s, next),
         next \in {"refused", "checked", "unpidded", "cleared"},
         next # "refused" => NoneAlive,
         \A d \in Server : Alive(d) => UNCHANGED <<pidfile, sock>>
  PROVE  Orderly'
<1>1. /\ proc'[s] = next
      /\ \A d \in Server : d # s => proc'[d] = proc[d]
  BY MoveEffect
<1>2. \A d \in Server : Alive(d)' => Alive(d) /\ proc'[d] = proc[d]
  BY <1>1 DEF Alive
<1>3. OneAlive' BY <1>2 DEF OneAlive, Orderly
<1>4. \A d \in Server : IsStarting(d)' => IsStarting(d)
  BY <1>1 DEF IsStarting
<1>5. OneAtATime'
  BY <1>4 DEF OneAtATime, Orderly, UnderWay
<1>6. ASSUME NEW d \in Server PROVE StartFinds(d)'
  <2>1. CASE d = s BY <2>1, <1>1, <1>2 DEF StartFinds, NoneAlive
  <2>2. CASE d # s
    <3>1. ~IsStarting(d) BY <2>2 DEF Orderly, OneAtATime
    <3>2. ~IsStarting(d)' BY <3>1, <2>2, <1>1 DEF IsStarting
    <3> QED BY <3>2 DEF StartFinds, IsStarting, Starting
  <2> QED BY <2>1, <2>2
<1>7. ASSUME NEW d \in Server PROVE FilesLead(d)'
  <2>1. CASE Alive(d)'
    <3>1. Alive(d) /\ proc'[d] = proc[d] BY <2>1, <1>2
    <3>2. FilesLead(d) BY DEF Orderly
    <3> QED BY <3>1, <3>2 DEF FilesLead, Alive
  <2>2. CASE ~Alive(d)'
    BY <2>2 DEF FilesLead, Alive
  <2> QED BY <2>1, <2>2
<1>8. ASSUME NEW c \in Command PROVE CommandFinds(c)'
  <2>1. ~UnderWay(c) BY DEF Orderly, OneAtATime
  <2> QED BY <2>1 DEF CommandFinds, UnderWay
<1> QED BY <1>3, <1>5, <1>6, <1>7, <1>8 DEF Orderly

\* A start that becomes a daemon, where there was none: its pidfile is its own.
LEMMA BootStep ==
  ASSUME TypeOK, Orderly, ~hasty, UNCHANGED cmd, UNCHANGED told, UNCHANGED asked,
         NEW s \in Server, IsStarting(s), Move(s, "booting"), pidfile' = s,
         NoneAlive
  PROVE  Orderly'
<1>1. /\ proc'[s] = "booting"
      /\ \A d \in Server : d # s => proc'[d] = proc[d]
  BY MoveEffect
<1>2. \A d \in Server : Alive(d)' => d = s
  BY <1>1 DEF Alive, NoneAlive
<1>3. OneAlive' BY <1>2 DEF OneAlive
<1>4. \A d \in Server : ~IsStarting(d)'
  BY <1>1 DEF IsStarting, Starting, Orderly, OneAtATime
<1>5. OneAtATime'
  BY <1>4 DEF OneAtATime, Orderly, UnderWay
<1>6. \A d \in Server : StartFinds(d)'
  BY <1>4 DEF StartFinds, IsStarting, Starting
<1>7. ASSUME NEW d \in Server PROVE FilesLead(d)'
  <2>1. CASE d = s BY <2>1, <1>1 DEF FilesLead
  <2>2. CASE d # s
    <3>1. ~Alive(d)' BY <2>2, <1>2
    <3> QED BY <3>1 DEF FilesLead, Alive
  <2> QED BY <2>1, <2>2
<1>8. ASSUME NEW c \in Command PROVE CommandFinds(c)'
  <2>1. ~UnderWay(c) BY DEF Orderly, OneAtATime
  <2> QED BY <2>1 DEF CommandFinds, UnderWay
<1> QED BY <1>3, <1>5, <1>6, <1>7, <1>8 DEF Orderly

\* A step of a command, when nobody else is under way: it may go on, and clean up, as long
\* as it knows what is alive.
LEMMA CommandStep ==
  ASSUME TypeOK, Orderly, UNCHANGED proc, ~hasty,
         NEW c \in Command, NEW next, Step(c, next),
         \A s \in Server : ~IsStarting(s),
         \A d \in Command : UnderWay(d) => d = c,
         CommandFinds(c)',
         \A d \in Server : FilesLead(d)'
  PROVE  Orderly'
<1>1. /\ cmd'[c] = next
      /\ \A d \in Command : d # c => cmd'[d] = cmd[d]
  BY CommandEffect
<1>2. OneAlive' BY DEF OneAlive, Orderly, Alive
<1>3. \A d \in Command : UnderWay(d)' => d = c
  BY <1>1 DEF UnderWay
<1>4. \A d \in Server : ~IsStarting(d)' BY DEF IsStarting
<1>5. OneAtATime'
  BY <1>3, <1>4 DEF OneAtATime
<1>6. \A d \in Server : StartFinds(d)'
  BY <1>4 DEF StartFinds, IsStarting, Starting
<1>7. ASSUME NEW d \in Command PROVE CommandFinds(d)'
  <2>1. CASE d = c BY <2>1
  <2>2. CASE d # c
    <3>1. ~UnderWay(d)' BY <2>2, <1>3
    <3> QED BY <3>1 DEF CommandFinds, UnderWay
  <2> QED BY <2>1, <2>2
<1> QED BY <1>2, <1>5, <1>6, <1>7 DEF Orderly

\* A command that is under way is the only one, and no start is.
LEMMA CommandAlone ==
  ASSUME Orderly, ~hasty, NEW c \in Command, UnderWay(c)
  PROVE  /\ \A s \in Server : ~IsStarting(s)
         /\ \A d \in Command : UnderWay(d) => d = c
BY DEF Orderly, OneAtATime

\* Nothing is under way when things are quiet.
LEMMA QuietIsQuiet ==
  ASSUME Quiet
  PROVE  /\ \A s \in Server : ~IsStarting(s)
         /\ \A d \in Command : ~UnderWay(d)
BY DEF Quiet, IsStarting

\* Files that stay where they are lead where they led.
LEMMA FilesStay ==
  ASSUME Orderly, ~hasty, UNCHANGED <<proc, pidfile, sock>>
  PROVE  \A d \in Server : FilesLead(d)'
BY DEF Orderly, FilesLead, Alive

\* No file has to lead to daemons that are gone.
LEMMA NobodyToFind ==
  ASSUME NoneAlive, UNCHANGED proc
  PROVE  \A d \in Server : FilesLead(d)'
BY DEF NoneAlive, FilesLead, Alive

\* Before a start goes on, it knows that no daemon is there: the one there might be
\* would have answered.
LEMMA UnansweredStart ==
  ASSUME Orderly, ~hasty, NEW s \in Server, proc[s] = "probed", ~SomeoneResponds
  PROVE  NoneAlive
<1>1. SUFFICES ASSUME NEW d \in Server, Alive(d) PROVE FALSE BY DEF NoneAlive
<1>2. proc[d] = "serving" /\ d \notin asked BY <1>1 DEF Orderly, StartFinds
<1>3. sock = d BY <1>2 DEF Orderly, FilesLead
<1>4. Responds(d) BY <1>1, <1>2, <1>3 DEF Responds, Listening
<1> QED BY <1>4 DEF SomeoneResponds

\* The same of a stop that no socket answers.
LEMMA UnansweredStop ==
  ASSUME Orderly, ~hasty, Settled, ~SomeoneResponds
  PROVE  NoneAlive
<1>1. SUFFICES ASSUME NEW d \in Server, Alive(d) PROVE FALSE BY DEF NoneAlive
<1>2. proc[d] = "serving" /\ d \notin asked BY <1>1 DEF Settled
<1>3. sock = d BY <1>2 DEF Orderly, FilesLead
<1>4. Responds(d) BY <1>1, <1>2, <1>3 DEF Responds, Listening
<1> QED BY <1>4 DEF SomeoneResponds

\* A start finds things settled.
LEMMA DetectStep ==
  ASSUME TypeOK, Orderly, ~hasty, NEW s \in Server, Detect(s), ~hasty'
  PROVE  Orderly'
<1>1. Settled BY DEF Detect, Hurry
<1>2. PICK next \in {"probed", "refused"} : Move(s, next) BY DEF Detect
<1>3. UNCHANGED <<asked, cmd, told, pidfile, sock>> /\ proc[s] = "off" BY DEF Detect
<1>4. /\ proc'[s] = next
      /\ \A d \in Server : d # s => proc'[d] = proc[d]
  BY <1>2, MoveEffect
<1>5. \A d \in Server : Alive(d)' => Alive(d) /\ proc'[d] = proc[d]
  BY <1>4 DEF Alive
<1>6. OneAlive' BY <1>5 DEF OneAlive, Orderly
<1>7. Quiet BY <1>1 DEF Settled
<1>8. \A d \in Server : IsStarting(d)' => d = s /\ proc'[d] = "probed"
  BY <1>2, <1>4, <1>7, QuietIsQuiet DEF IsStarting, Starting
<1>9. \A c \in Command : ~UnderWay(c)'
  BY <1>3, <1>7, QuietIsQuiet DEF UnderWay
<1>10. OneAtATime' BY <1>8, <1>9 DEF OneAtATime
<1>11. \A d \in Server : Alive(d)' => proc'[d] = "serving" /\ d \notin asked'
  BY <1>1, <1>3, <1>5 DEF Settled
<1>12. \A d \in Server : StartFinds(d)'
  BY <1>8, <1>11 DEF StartFinds, IsStarting, Starting
<1>13. ASSUME NEW d \in Server PROVE FilesLead(d)'
  <2>1. CASE Alive(d)'
    <3>1. Alive(d) /\ proc'[d] = proc[d] BY <2>1, <1>5
    <3>2. FilesLead(d) BY DEF Orderly
    <3> QED BY <3>1, <3>2, <1>3 DEF FilesLead, Alive
  <2>2. CASE ~Alive(d)'
    BY <2>2 DEF FilesLead, Alive
  <2> QED BY <2>1, <2>2
<1>14. \A c \in Command : CommandFinds(c)'
  BY <1>9 DEF CommandFinds, UnderWay
<1> QED BY <1>6, <1>10, <1>12, <1>13, <1>14 DEF Orderly

\* The rest of cmd_start.
LEMMA StartStep ==
  ASSUME TypeOK, Orderly, ~hasty, ~hasty', NEW s \in Server, Start(s)
  PROVE  Orderly'
<1>0. CASE Detect(s) BY <1>0, DetectStep
<1>1. CASE CheckRunning(s)
  <2>1. CASE SomeoneResponds
    <3>1. Move(s, "refused") BY <1>1, <2>1 DEF CheckRunning
    <3> QED BY <1>1, <3>1, StarterStep DEF CheckRunning, IsStarting, Starting
  <2>2. CASE ~SomeoneResponds
    <3>1. Move(s, "checked") BY <1>1, <2>2 DEF CheckRunning
    <3>2. NoneAlive BY <1>1, <2>2, UnansweredStart DEF CheckRunning
    <3> QED BY <1>1, <3>1, <3>2, StarterStep DEF CheckRunning, IsStarting, Starting
  <2> QED BY <2>1, <2>2
<1>2. CASE RemovePidfile(s)
  <2>1. NoneAlive BY <1>2 DEF RemovePidfile, Orderly, StartFinds
  <2> QED BY <1>2, <2>1, StarterStep DEF RemovePidfile, IsStarting, Starting, NoneAlive
<1>3. CASE RemoveSocket(s)
  <2>1. NoneAlive BY <1>3 DEF RemoveSocket, Orderly, StartFinds
  <2> QED BY <1>3, <2>1, StarterStep DEF RemoveSocket, IsStarting, Starting, NoneAlive
<1>4. CASE Daemonize(s)
  <2>1. NoneAlive BY <1>4 DEF Daemonize, Orderly, StartFinds
  <2>2. CASE Move(s, "refused") /\ UNCHANGED pidfile
    BY <1>4, <2>1, <2>2, StarterStep DEF Daemonize, IsStarting, Starting
  <2>3. CASE Move(s, "booting") /\ pidfile' = s
    BY <1>4, <2>1, <2>3, BootStep DEF Daemonize, IsStarting, Starting
  <2> QED BY <1>4, <2>2, <2>3 DEF Daemonize
<1>5. CASE RunForeground(s)
  <2>1. NoneAlive BY <1>5 DEF RunForeground, Hurry, NoneAlive
  <2> QED BY <1>5, <2>1, BootStep DEF RunForeground, IsStarting, Starting
<1> QED BY <1>0, <1>1, <1>2, <1>3, <1>4, <1>5 DEF Start

\* serve, and what ends it.
LEMMA ServeStep ==
  ASSUME TypeOK, Orderly, ~hasty, NEW s \in Server, Serve(s) \/ Crash(s)
  PROVE  Orderly'
<1>0. FilesLead(s) BY DEF Orderly
<1>1. CASE BindControl(s)
  <2>1. PICK next \in {"listening", "exiting"} :
          /\ Move(s, next) /\ proc'[s] = next
          /\ next = "listening" => sock' = s
    BY <1>1, MoveEffect DEF BindControl
  <2>2. Alive(s) /\ pidfile' = s BY <1>0, <1>1 DEF BindControl, Alive, FilesLead
  <2>3. FilesLead(s)' BY <2>1, <2>2 DEF FilesLead
  <2> QED BY <1>1, <2>1, <2>2, <2>3, AliveStep DEF BindControl
<1>2. CASE BindAddress(s)
  <2>1. PICK next \in {"serving", "exiting"} : Move(s, next) /\ proc'[s] = next
    BY <1>2, MoveEffect DEF BindAddress
  <2>2. Alive(s) /\ pidfile' = s /\ sock' = s
    BY <1>0, <1>2 DEF BindAddress, Alive, FilesLead
  <2>3. FilesLead(s)' BY <2>2 DEF FilesLead
  <2> QED BY <1>2, <2>1, <2>2, <2>3, AliveStep DEF BindAddress
<1>3. CASE BeginShutdown(s)
  <2>1. Move(s, "draining") /\ proc'[s] = "draining" BY <1>3, MoveEffect DEF BeginShutdown
  <2>2. Alive(s) /\ pidfile' = s BY <1>0, <1>3 DEF BeginShutdown, Alive, FilesLead
  <2>3. FilesLead(s)' BY <2>1, <2>2 DEF FilesLead
  <2> QED BY <1>3, <2>1, <2>2, <2>3, AliveStep DEF BeginShutdown
<1>4. CASE Drained(s)
  <2>1. Move(s, "exiting") /\ proc'[s] = "exiting" BY <1>4, MoveEffect DEF Drained
  <2>2. Alive(s) /\ pidfile' = s BY <1>0, <1>4 DEF Drained, Alive, FilesLead
  <2>3. FilesLead(s)' BY <2>1, <2>2 DEF FilesLead
  <2> QED BY <1>4, <2>1, <2>2, <2>3, AliveStep DEF Drained
<1>5. CASE ExitPidfile(s)
  <2>1. Move(s, "leaving") /\ proc'[s] = "leaving" BY <1>5, MoveEffect DEF ExitPidfile
  <2>2. Alive(s) BY <1>5 DEF ExitPidfile, Alive
  <2>3. FilesLead(s)' BY <2>1 DEF FilesLead
  <2> QED BY <1>5, <2>1, <2>2, <2>3, AliveStep DEF ExitPidfile
<1>6. CASE ExitSocket(s) \/ Crash(s)
  <2>1. Move(s, "dead") /\ proc'[s] = "dead"
    BY <1>6, MoveEffect DEF ExitSocket, Crash
  <2>2. Alive(s) BY <1>6 DEF ExitSocket, Crash, Alive
  <2>3. FilesLead(s)' BY <2>1 DEF FilesLead, Alive
  <2> QED BY <1>6, <2>1, <2>2, <2>3, AliveStep DEF ExitSocket, Crash
<1> QED BY <1>1, <1>2, <1>3, <1>4, <1>5, <1>6 DEF Serve

\* cmd_status: it cleans up only when the pidfile names nobody, and then no daemon is
\* left that either file has to lead to.
LEMMA StatusStep ==
  ASSUME TypeOK, Orderly, ~hasty, ~hasty', NEW c \in Command, Status(c)
  PROVE  Orderly'
<1>1. CASE StatusQuery(c)
  <2>1. PICK next \in {"done", "status:unanswered"} : Step(c, next) /\ cmd'[c] = next
    BY <1>1, CommandEffect DEF StatusQuery
  <2>2. Quiet BY <1>1 DEF StatusQuery, Hurry
  <2>3. CommandFinds(c)' BY <2>1 DEF CommandFinds
  <2>4. \A d \in Server : FilesLead(d)' BY <1>1, FilesStay DEF StatusQuery
  <2> QED BY <1>1, <2>1, <2>2, <2>3, <2>4, QuietIsQuiet, CommandStep DEF StatusQuery
<1>2. CASE StatusReadPid(c)
  <2>1. UnderWay(c) BY <1>2 DEF StatusReadPid, UnderWay
  <2>2. \A d \in Server : FilesLead(d)' BY <1>2, FilesStay DEF StatusReadPid
  <2>3. CASE PidfileInUse
    <3>1. Step(c, "done") /\ cmd'[c] = "done"
      BY <1>2, <2>3, CommandEffect DEF StatusReadPid
    <3>2. CommandFinds(c)' BY <3>1 DEF CommandFinds
    <3> QED BY <1>2, <2>1, <2>2, <3>1, <3>2, CommandAlone, CommandStep DEF StatusReadPid
  <2>4. CASE ~PidfileInUse
    <3>1. Step(c, "status:stale") /\ cmd'[c] = "status:stale"
      BY <1>2, <2>4, CommandEffect DEF StatusReadPid
    <3>2. ASSUME NEW d \in Server, Alive(d) PROVE proc[d] = "leaving"
      <4>1. SUFFICES ASSUME proc[d] # "leaving" PROVE FALSE OBVIOUS
      <4>2. pidfile = d BY <3>2, <4>1 DEF Orderly, FilesLead
      <4> QED BY <2>4, <3>2, <4>2, DaemonAssumption DEF PidfileInUse
    <3>3. CommandFinds(c)' BY <1>2, <3>1, <3>2 DEF CommandFinds, StatusReadPid, Alive
    <3> QED BY <1>2, <2>1, <2>2, <3>1, <3>3, CommandAlone, CommandStep DEF StatusReadPid
  <2> QED BY <2>3, <2>4
<1> QED BY <1>1, <1>2 DEF Status

\* cmd_stop up to its cleanup: after the wait there is no daemon any more.
LEMMA StopStep ==
  ASSUME TypeOK, Orderly, ~hasty, ~hasty', NEW c \in Command, Stop(c)
  PROVE  Orderly'
<1>1. CASE StopRequest(c)
  <2>1. Settled /\ Quiet BY <1>1 DEF StopRequest, Hurry, Settled
  <2>2. \A d \in Server : FilesLead(d)' BY <1>1, FilesStay DEF StopRequest
  <2>3. CASE SomeoneResponds
    <3>1. Step(c, "stop:told") /\ cmd'[c] = "stop:told"
      BY <1>1, <2>3, CommandEffect DEF StopRequest
    <3>2. told'[c] = sock BY <1>1, <2>3 DEF StopRequest, TypeOK
    <3>3. sock \in Server /\ Alive(sock) BY <2>3, AnswersAreOfServers DEF Responds, Listening
    <3>4. \A d \in Server : Alive(d) => d = sock
      BY <3>3 DEF Orderly, OneAlive
    <3>5. CommandFinds(c)'
      BY <1>1, <3>1, <3>2, <3>4 DEF CommandFinds, StopRequest, Alive
    <3> QED BY <1>1, <2>1, <2>2, <3>1, <3>5, QuietIsQuiet, CommandStep DEF StopRequest
  <2>4. CASE ~SomeoneResponds
    <3>1. Step(c, "stop:unanswered") /\ cmd'[c] = "stop:unanswered"
      BY <1>1, <2>4, CommandEffect DEF StopRequest
    <3>2. NoneAlive BY <2>1, <2>4, UnansweredStop
    <3>3. CommandFinds(c)'
      BY <1>1, <3>1, <3>2 DEF CommandFinds, StopRequest, Alive, NoneAlive
    <3> QED BY <1>1, <2>1, <2>2, <3>1, <3>3, QuietIsQuiet, CommandStep DEF StopRequest
  <2> QED BY <2>3, <2>4
<1>2. CASE StopSignal(c)
  <2>1. UnderWay(c) /\ NoneAlive
    BY <1>2 DEF StopSignal, UnderWay, Orderly, CommandFinds
  <2>2. ~PidfileInUse BY <2>1, PidsAreOfServers DEF NoneAlive
  <2>3. Step(c, "stop:told") /\ cmd'[c] = "stop:told" /\ UNCHANGED proc
    BY <1>2, <2>2, CommandEffect DEF StopSignal
  <2>4. CommandFinds(c)' BY <2>1, <2>3 DEF CommandFinds, NoneAlive, Alive
  <2>5. \A d \in Server : FilesLead(d)' BY <2>1, <2>3, NobodyToFind
  <2> QED BY <2>1, <2>3, <2>4, <2>5, CommandAlone, CommandStep
<1>3. CASE StopWaited(c)
  <2>1. UnderWay(c) /\ \A d \in Server : Alive(d) => d = told[c]
    BY <1>3 DEF StopWaited, UnderWay, Orderly, CommandFinds
  <2>2. told[c] # Nobody => ~Alive(told[c]) BY <1>3 DEF StopWaited, Hurry
  <2>3. NoneAlive BY <2>1, <2>2, DaemonAssumption DEF NoneAlive
  <2>4. Step(c, "stop:stale") /\ cmd'[c] = "stop:stale" /\ UNCHANGED proc
    BY <1>3, CommandEffect DEF StopWaited
  <2>5. CommandFinds(c)' BY <2>3, <2>4 DEF CommandFinds, NoneAlive, Alive
  <2>6. \A d \in Server : FilesLead(d)' BY <2>3, <2>4, NobodyToFind
  <2> QED BY <2>1, <2>4, <2>5, <2>6, CommandAlone, CommandStep
<1> QED BY <1>1, <1>2, <1>3 DEF Stop

\* cleanup_stale, of either command.
LEMMA CleanStep ==
  ASSUME TypeOK, Orderly, ~hasty, NEW c \in Command, Clean(c)
  PROVE  Orderly'
<1>1. /\ UnderWay(c) /\ UNCHANGED proc
      /\ \A d \in Server : Alive(d) => proc[d] = "leaving"
  BY DEF Clean, CleanSocket, CleanPidfile, UnderWay, Orderly, CommandFinds, NoneAlive
<1>2. \A d \in Server : FilesLead(d)'
  BY <1>1 DEF FilesLead, Alive
<1>3. PICK next \in {"status:pidfile", "stop:pidfile", "done"} :
        /\ Step(c, next) /\ cmd'[c] = next
        /\ next = "stop:pidfile" => cmd[c] = "stop:stale"
  BY CommandEffect DEF Clean, CleanSocket, CleanPidfile
<1>4. CASE next = "stop:pidfile"
  <2>1. NoneAlive BY <1>3, <1>4 DEF Orderly, CommandFinds
  <2>2. CommandFinds(c)' BY <1>1, <1>3, <1>4, <2>1 DEF CommandFinds, NoneAlive, Alive
  <2> QED BY <1>1, <1>2, <1>3, <2>2, CommandAlone, CommandStep
<1>5. CASE next # "stop:pidfile"
  <2>1. CommandFinds(c)' BY <1>1, <1>3, <1>5 DEF CommandFinds, Alive
  <2> QED BY <1>1, <1>2, <1>3, <2>1, CommandAlone, CommandStep
<1> QED BY <1>4, <1>5

LEMMA OrderlyStep == ASSUME TypeOK, Orderly, [Next]_vars PROVE Orderly'
<1>0. SUFFICES ASSUME ~hasty' PROVE Orderly' BY DEF Orderly
<1>1. ~hasty BY <1>0, HasteLasts
<1>2. CASE UNCHANGED vars
  BY <1>2 DEF vars, Orderly, OneAlive, OneAtATime, StartFinds, FilesLead, CommandFinds,
              IsStarting, UnderWay, NoneAlive, Alive
<1>3. CASE \E s \in Server : Start(s) \/ Serve(s) \/ Crash(s)
  BY <1>0, <1>1, <1>3, StartStep, ServeStep
<1>4. CASE \E c \in Command : Status(c) \/ Stop(c) \/ Clean(c)
  BY <1>0, <1>1, <1>4, StatusStep, StopStep, CleanStep
<1> QED BY <1>2, <1>3, <1>4 DEF Next

LEMMA OrderlyInit == ASSUME Init PROVE Orderly
BY DEF Init, Orderly, OneAlive, OneAtATime, StartFinds, FilesLead, CommandFinds,
       IsStarting, Starting, UnderWay, NoneAlive, Alive

----------------------------------------------------------------------------
(* What the runs check, for any servers and commands.                      *)

\* Every variable has its type.
THEOREM TypeCorrect == Spec => []TypeOK
<1>1. Init => TypeOK BY TypeInit
<1>2. TypeOK /\ [Next]_vars => TypeOK' BY TypeStep
<1> QED BY <1>1, <1>2, PTL DEF Spec

\* The order a patient operator keeps is kept by every step.
THEOREM KeepsOrder == Spec => []IInv
<1>1. Init => IInv BY TypeInit, OrderlyInit DEF IInv
<1>2. IInv /\ [Next]_vars => IInv' BY TypeStep, OrderlyStep DEF IInv
<1> QED BY <1>1, <1>2, PTL DEF Spec

\* A patient operator's daemon that serves is found by both files, and answers, whatever
\* crashed before it and whichever command is under way (control.rs, muxrd.rs).
THEOREM Reachable == Spec => []ServingIsReachable
<1>1. IInv => ServingIsReachable
  <2>1. SUFFICES ASSUME IInv, NEW s \in Server, ~hasty, proc[s] = "serving", s \notin asked
                 PROVE  Responds(s) /\ pidfile = s
    BY DEF ServingIsReachable
  <2>2. FilesLead(s) BY <2>1 DEF IInv, Orderly
  <2> QED BY <2>1, <2>2 DEF FilesLead, Responds, Listening, Alive
<1> QED BY <1>1, KeepsOrder, PTL

\* A patient operator never has two daemons, one of them unknown to every command: the
\* checks of `muxrd start' over two files suffice (muxrd.rs, cmd_start).
THEOREM OneOnly == Spec => []OneDaemon
<1>1. IInv => OneDaemon
  <2>1. SUFFICES ASSUME IInv, ~hasty
                 PROVE  Cardinality({s \in Server : Alive(s)}) <= 1
    BY DEF OneDaemon
  <2>2. OneAlive BY <2>1 DEF IInv, Orderly
  <2>3. CASE {s \in Server : Alive(s)} = {} BY <2>3, FS_EmptySet
  <2>4. CASE {s \in Server : Alive(s)} # {}
    <3>1. PICK t \in Server : Alive(t) BY <2>4
    <3>2. {s \in Server : Alive(s)} = {t} BY <2>2, <3>1 DEF OneAlive
    <3> QED BY <3>2, FS_Singleton
  <2> QED BY <2>3, <2>4
<1> QED BY <1>1, KeepsOrder, PTL

(***************************************************************************)
(* The panel: its tasks, its overlay and its flags.                        *)
(***************************************************************************)

QrTask == {"qr", "qrBuild", "qrReady", "qrFailed"}

\* What a task was given and what a message brings: counts there were, tokens there were,
\* and the overlay and the token a code is for.
Brings(t) ==
  /\ t.kind = "status" /\ t.done /\ t.arg # << >> => t.arg[1] \in 0 .. peak
  /\ t.kind = "list" /\ t.done => t.arg \in Seq(1 .. minted)
  /\ t.kind = "created" => t.arg[1] \in 1 .. minted
  /\ t.kind \in QrTask => /\ t.arg[1] \in 1 .. qrSeq /\ t.arg[2] \in 1 .. minted
                          /\ t.arg[1] = overlay.seq => t.arg[2] = overlay.token
  /\ t.kind \in {"qr", "qrBuild"} => Len(t.arg) = 2
  /\ t.kind = "qrReady" => t.arg[3] \in 0 .. peak

\* The code on the screen is compared with the clients there were when it was built.
Watched ==
  /\ overlay.phase \in {"showing", "connected"} => overlay.baseline = overlay.built
  /\ overlay.phase = "connected" => overlay.built < peak

\* The parts of the type invariant, with what else each of them keeps: the world outside,
\* the loop, the tokens' panel, the overlay, and what is under way.
WorldOK ==
  /\ daemon \in {"down", "up", "draining"} /\ clients \in 0 .. MaxClients
  /\ peak \in 0 .. MaxClients /\ launches \in Nat
  /\ db \in Seq(1 .. minted) /\ minted \in Nat

LoopOK ==
  /\ script \in Seq(KeyName) /\ running \in BOOLEAN /\ screen \in ToSet(Screen)
  /\ loading \subseteq Panel /\ status \in {Unknown, Stopped} \cup 0 .. MaxClients
  /\ ticks \in 0 .. Every - 1

TokensOK ==
  /\ list \in Seq(1 .. minted) /\ form \in {"browsing", "creating"}
  /\ secret \in 0 .. minted
  /\ cursor \in IF list = << >> THEN {0} ELSE 0 .. Len(list) - 1

\* The overlays there can be after n were opened, for k tokens.
Overlays(n, k) ==
  [phase : {"closed", "generating", "showing", "connected", "failed"}, seq : 0 .. n,
   token : 0 .. k, baseline : 0 .. MaxClients, ticks : 0 .. Every - 1, shows : 0 .. n,
   shownToken : 0 .. k, built : 0 .. MaxClients]

QrOK ==
  /\ qrSeq \in Nat /\ overlay \in Overlays(qrSeq, minted)
  /\ OverlayShowsItsOwn /\ Watched

TaskSet == [kind : Kinds, done : BOOLEAN, arg : Seq(Nat)]
AtWork == BagToSet(tasks)

TasksOK ==
  /\ IsABag(tasks) /\ AtWork \subseteq TaskSet
  /\ \A t \in AtWork : Brings(t)

\* The inductive invariant.
AppInv == /\ WorldOK /\ clients <= peak
          /\ LoopOK /\ TokensOK /\ QrOK /\ TasksOK /\ FlagMeansTask

\* The inductive invariant has the types.
LEMMA AppInvType == ASSUME AppInv PROVE AppTypeOK
BY DEF AppInv, AppTypeOK, WorldOK, LoopOK, TokensOK, QrOK, TasksOK, Overlays, AtWork, TaskSet

\* There is a smallest number in a set of numbers.
LEMMA MinFacts ==
  ASSUME NEW S \in SUBSET Nat, S # {}
  PROVE  Min(S) \in S /\ \A y \in S : Min(S) <= y
<1>1. \E x \in S : \A y \in S : ~(<<y, x>> \in OpToRel(<, Nat))
  BY NatLessThanWellFounded, WFMin
<1>2. PICK x \in S : \A y \in S : ~(<<y, x>> \in OpToRel(<, Nat)) BY <1>1
<1>3. ASSUME NEW y \in S PROVE x <= y
  <2>1. x \in Nat /\ y \in Nat BY <1>2, <1>3
  <2>2. y < x => <<y, x>> \in OpToRel(<, Nat) BY <2>1 DEF OpToRel
  <2>3. ~(y < x) BY <1>2, <1>3, <2>2
  <2> QED BY <2>1, <2>3
<1>4. \E z \in S : \A y \in S : z <= y BY <1>2, <1>3
<1>5. Min(S) = CHOOSE z \in S : \A y \in S : z <= y BY DEF Min
<1> QED BY <1>4, <1>5

----------------------------------------------------------------------------
(* Bags of tasks, and sequences of names.                                  *)

\* What is under way when a task is replaced: nothing new but what replaces it, and of the
\* others all.
LEMMA ReplacedHolds ==
  ASSUME IsABag(tasks), NEW t \in AtWork, NEW ts, tasks' = Replaced(t, ts)
  PROVE  /\ IsABag(tasks') /\ AtWork' \subseteq AtWork \cup ts
         /\ (AtWork \ {t}) \cup ts \subseteq AtWork'
BY DEF IsABag, BagToSet, Replaced, SetToBag, (+), (-), AtWork

LEMMA SpawnedHolds ==
  ASSUME IsABag(tasks), NEW ts, tasks' = Spawned(ts)
  PROVE  IsABag(tasks') /\ AtWork' = AtWork \cup ts
BY DEF IsABag, BagToSet, Spawned, SetToBag, (+), AtWork

LEMMA NothingHolds ==
  ASSUME tasks' = EmptyBag
  PROVE  IsABag(tasks') /\ AtWork' = {}
BY DEF IsABag, BagToSet, EmptyBag, SetToBag, AtWork

\* Names stay names when there are more of them.
LEMMA MoreNames ==
  ASSUME NEW m \in Nat, NEW n \in Nat, m <= n, NEW s \in Seq(1 .. m)
  PROVE  s \in Seq(1 .. n)
<1>1. /\ Len(s) \in Nat /\ s \in [1 .. Len(s) -> 1 .. m]
  BY LenProperties
<1>2. \A i \in 1 .. Len(s) : s[i] \in 1 .. n BY <1>1
<1>3. s \in [1 .. Len(s) -> 1 .. n] BY <1>1, <1>2
<1> QED BY <1>1, <1>3, SeqDef

LEMMA NamesAreNumbers ==
  ASSUME NEW m \in Nat, NEW s \in Seq(1 .. m)
  PROVE  s \in Seq(Nat)
<1>1. /\ Len(s) \in Nat /\ s \in [1 .. Len(s) -> 1 .. m]
  BY LenProperties
<1>2. \A i \in 1 .. Len(s) : s[i] \in Nat BY <1>1
<1>3. s \in [1 .. Len(s) -> Nat] BY <1>1, <1>2
<1> QED BY <1>1, <1>3, SeqDef

\* A name that is taken out leaves the others.
LEMMA RemovedType ==
  ASSUME NEW S, NEW s \in Seq(S), NEW e
  PROVE  RemoveFirst(s, e) \in Seq(S)
<1> DEFINE I == {i \in 1 .. Len(s) : s[i] = e}
           k == IF I # {} THEN Min(I) ELSE 0
<1>1. RemoveFirst(s, e) = IF \E i \in 1 .. Len(s) : s[i] = e
                          THEN SubSeq(s, 1, k - 1) \o SubSeq(s, k + 1, Len(s)) ELSE s
  BY DEF RemoveFirst, RemoveAt, SelectInSeq
<1>2. CASE \E i \in 1 .. Len(s) : s[i] = e
  <2>1. I # {} /\ I \subseteq 1 .. Len(s) /\ Len(s) \in Nat BY <1>2
  <2>2. I \in SUBSET Nat BY <2>1
  <2> HIDE DEF I
  <2>3. k \in I BY <2>1, <2>2, MinFacts
  <2>4. k \in 1 .. Len(s) BY <2>1, <2>3
  <2> HIDE DEF k
  <2>5. SubSeq(s, 1, k - 1) \in Seq(S) /\ SubSeq(s, k + 1, Len(s)) \in Seq(S)
    BY <2>1, <2>4, SubSeqProperties
  <2> QED BY <1>1, <1>2, <2>5, ConcatProperties
<1>3. CASE ~ \E i \in 1 .. Len(s) : s[i] = e BY <1>1, <1>3
<1> QED BY <1>2, <1>3

\* What a task is made of.
LEMMA MessageFields ==
  ASSUME NEW kind \in Kinds, NEW arg \in Seq(Nat)
  PROVE  /\ Message(kind, arg) \in TaskSet /\ Message(kind, arg).kind = kind
         /\ Message(kind, arg).arg = arg /\ Message(kind, arg).done
BY DEF Message, TaskSet

LEMMA TaskFields ==
  ASSUME NEW kind \in Kinds, NEW arg \in Seq(Nat)
  PROVE  /\ Task(kind, arg) \in TaskSet /\ Task(kind, arg).kind = kind
         /\ Task(kind, arg).arg = arg /\ ~Task(kind, arg).done
BY DEF Task, TaskSet

LEMMA LoadFields ==
  ASSUME NEW kind \in Kinds
  PROVE  /\ Load(kind) \in TaskSet /\ Load(kind).kind = kind /\ Load(kind).arg = << >>
         /\ kind \notin Aside => ~Load(kind).done
<1>0. PICK e : e = << >> OBVIOUS
<1>1. e \in Seq(Nat) BY <1>0
<1>2. CASE kind \in Aside
  <2>1. Load(kind) = Message(kind, e) BY <1>0, <1>2 DEF Load
  <2>2. /\ Message(kind, e) \in TaskSet /\ Message(kind, e).kind = kind
        /\ Message(kind, e).arg = e
    BY <1>1, MessageFields
  <2> QED BY <1>0, <1>2, <2>1, <2>2
<1>3. CASE kind \notin Aside
  <2>1. Load(kind) = Task(kind, e) BY <1>0, <1>3 DEF Load
  <2>2. /\ Task(kind, e) \in TaskSet /\ Task(kind, e).kind = kind
        /\ Task(kind, e).arg = e /\ ~Task(kind, e).done
    BY <1>1, TaskFields
  <2> QED BY <1>0, <1>3, <2>1, <2>2
<1> QED BY <1>2, <1>3

\* What is appended to a pair comes third.
LEMMA ThirdOf ==
  ASSUME NEW q \in Seq(Nat), Len(q) = 2, NEW n \in Nat
  PROVE  /\ Append(q, n) \in Seq(Nat) /\ Append(q, n)[1] = q[1]
         /\ Append(q, n)[2] = q[2] /\ Append(q, n)[3] = n
<1>1. Append(q, n) \in Seq(Nat) OBVIOUS
<1>2. ASSUME NEW i \in 1 .. Len(q) PROVE Append(q, n)[i] = q[i] BY AppendProperties, SMTT(30)
<1>3. 1 \in 1 .. Len(q) /\ 2 \in 1 .. Len(q) /\ Len(q) + 1 = 3 OBVIOUS
<1>4. Append(q, n)[Len(q) + 1] = n BY AppendProperties, Zenon
<1>5. Append(q, n)[3] = n BY <1>3, <1>4, Zenon
<1>6. Append(q, n)[1] = q[1] /\ Append(q, n)[2] = q[2] BY <1>2, <1>3, Zenon
<1> QED BY <1>1, <1>5, <1>6

----------------------------------------------------------------------------
(* What is under way stays true of a world and of an overlay that move on.  *)

Later == /\ peak' \in Nat /\ peak <= peak' /\ minted' \in Nat /\ minted <= minted'
         /\ \/ qrSeq' = qrSeq /\ overlay'.seq = overlay.seq /\ overlay'.token = overlay.token
            \/ qrSeq' = qrSeq /\ overlay'.seq = 0
            \/ qrSeq' = qrSeq + 1 /\ overlay'.seq = qrSeq'

LEMMA BringsLater ==
  ASSUME AppTypeOK, NEW t \in TaskSet, Brings(t), Later
  PROVE  Brings(t)'
<1>0. peak \in Nat /\ minted \in Nat /\ qrSeq \in Nat BY AppAssumption DEF AppTypeOK
<1>1. t.kind = "status" /\ t.done /\ t.arg # << >> => t.arg[1] \in 0 .. peak'
  <2>1. SUFFICES ASSUME t.kind = "status", t.done, t.arg # << >> PROVE t.arg[1] \in 0 .. peak'
    OBVIOUS
  <2>2. t.arg[1] \in 0 .. peak BY <2>1 DEF Brings
  <2> QED BY <1>0, <2>2 DEF Later
<1>2. t.kind = "list" /\ t.done => t.arg \in Seq(1 .. minted')
  <2>1. SUFFICES ASSUME t.kind = "list", t.done PROVE t.arg \in Seq(1 .. minted')
    OBVIOUS
  <2>2. t.arg \in Seq(1 .. minted) BY <2>1 DEF Brings
  <2> QED BY <1>0, <2>2, MoreNames DEF Later
<1>3. t.kind = "created" => t.arg[1] \in 1 .. minted'
  <2>1. SUFFICES ASSUME t.kind = "created" PROVE t.arg[1] \in 1 .. minted' OBVIOUS
  <2>2. t.arg[1] \in 1 .. minted BY <2>1 DEF Brings
  <2> QED BY <1>0, <2>2 DEF Later
<1>4. t.kind \in QrTask => /\ t.arg[1] \in 1 .. qrSeq' /\ t.arg[2] \in 1 .. minted'
                           /\ t.arg[1] = overlay'.seq => t.arg[2] = overlay'.token
  <2>1. SUFFICES ASSUME t.kind \in QrTask
                 PROVE  /\ t.arg[1] \in 1 .. qrSeq' /\ t.arg[2] \in 1 .. minted'
                        /\ t.arg[1] = overlay'.seq => t.arg[2] = overlay'.token
    OBVIOUS
  <2>2. /\ t.arg[1] \in 1 .. qrSeq /\ t.arg[2] \in 1 .. minted
        /\ t.arg[1] = overlay.seq => t.arg[2] = overlay.token
    BY <2>1 DEF Brings
  <2> QED BY <1>0, <2>2 DEF Later
<1>5. t.kind \in {"qr", "qrBuild"} => Len(t.arg) = 2 BY DEF Brings
<1>6. t.kind = "qrReady" => t.arg[3] \in 0 .. peak'
  <2>1. SUFFICES ASSUME t.kind = "qrReady" PROVE t.arg[3] \in 0 .. peak' OBVIOUS
  <2>2. t.arg[3] \in 0 .. peak BY <2>1 DEF Brings
  <2> QED BY <1>0, <2>2 DEF Later
<1> QED BY <1>1, <1>2, <1>3, <1>4, <1>5, <1>6 DEF Brings

LEMMA AllBring ==
  ASSUME AppTypeOK, \A t \in AtWork : Brings(t), Later, NEW ts,
         AtWork' \subseteq AtWork \cup ts, \A t \in ts : Brings(t)'
  PROVE  \A t \in AtWork' : Brings(t)'
<1>1. \A t \in AtWork : t \in TaskSet BY DEF AppTypeOK, AtWork, TaskSet
<1> QED BY <1>1, BringsLater

\* What brings nothing.
LEMMA BringsNothing ==
  ASSUME NEW t \in TaskSet,
         \/ t.kind \in {"start", "stop", "config", "save", "ensure", "certinfo",
                        "create", "revoke", "failed", "changed"}
         \/ t.kind \in {"status", "list"} /\ ~t.done
         \/ t.kind = "status" /\ t.arg = << >>
  PROVE  Brings(t)'
BY DEF Brings, QrTask

----------------------------------------------------------------------------
(* The tasks.                                                              *)

\* The flags a task or message may stand for.
Clears(t, p) == t.kind \in ClearedBy(p) \cup {"save", "failed"}

\* A task that works becomes one task or message, which stands for the same flags and
\* brings what there is.
WorkDone(t, m) ==
  /\ m \in TaskSet /\ tasks' = Replaced(t, {m}) /\ Brings(m)'
  /\ \A p \in Panel : Clears(t, p) => Clears(m, p)
  /\ UNCHANGED LoopVars /\ peak' = peak /\ clients' <= peak
  /\ minted <= minted' /\ WorldOK'

LEMMA WorkPosts ==
  ASSUME AppTypeOK, clients <= peak, NEW t \in AtWork, Brings(t), Work(t)
  PROVE  \E m : WorkDone(t, m)
<1> USE DEF LoopVars, tokensVars, qrVars, worldVars
<1>0. /\ WorldOK /\ t \in TaskSet /\ peak \in Nat /\ clients \in Nat /\ minted \in Nat
      /\ qrSeq \in Nat /\ MaxClients \in Nat
  BY AppAssumption DEF AppTypeOK, WorldOK, AtWork, TaskSet
<1>1. CASE ReadStatus(t)
  <2>0. PICK m : m = Message("status", StatusNow) OBVIOUS
  <2>1. t.kind = "status" /\ tasks' = Replaced(t, {m}) /\ UNCHANGED worldVars /\ UNCHANGED LoopVars
    BY <1>1, <2>0 DEF ReadStatus, Posts
  <2>2. StatusNow \in Seq(Nat) BY <1>0 DEF StatusNow
  <2>3. m.kind = "status" /\ m.arg = StatusNow /\ m \in TaskSet
    BY <2>2, <2>0, MessageFields DEF Kinds
  <2>4. StatusNow # << >> => StatusNow[1] = clients BY DEF StatusNow
  <2>5. Brings(m)'
    <3>1. m.arg # << >> => m.arg[1] \in 0 .. peak' BY <1>0, <2>1, <2>3, <2>4
    <3> QED BY <2>3, <3>1 DEF Brings, QrTask
  <2>6. \A p \in Panel : Clears(t, p) => Clears(m, p) BY <2>1, <2>3 DEF Clears
  <2>7. WorldOK' /\ peak' = peak /\ clients' <= peak /\ minted <= minted'
    BY <1>0, <2>1, <2>3, <2>5, <2>6 DEF WorldOK
  <2>8. WorkDone(t, m) BY <1>0, <2>1, <2>3, <2>5, <2>6, <2>7 DEF WorkDone
  <2> QED BY <2>8
<1>2. CASE StartServer(t)
  <2>0. PICK m : m = Load("status") OBVIOUS
  <2>1. /\ t.kind = "start" /\ tasks' = Replaced(t, {m}) /\ launches' = launches + 1
        /\ UNCHANGED <<daemon, clients, peak, db, minted, LoopVars>>
    BY <1>2, <2>0 DEF StartServer
  <2>2. m.kind = "status" /\ m.arg = << >> /\ m \in TaskSet BY <2>0, LoadFields DEF Kinds
  <2>3. Brings(m)' BY <2>2, BringsNothing
  <2>4. \A p \in Panel : Clears(t, p) => Clears(m, p)
    BY <2>1, <2>2 DEF Clears, ClearedBy, Panel
  <2>5. WorldOK' /\ peak' = peak /\ clients' <= peak /\ minted <= minted'
    BY <1>0, <2>1, <2>2, <2>3, <2>4 DEF WorldOK
  <2>6. WorkDone(t, m) BY <1>0, <2>1, <2>2, <2>3, <2>4, <2>5 DEF WorkDone
  <2> QED BY <2>6
<1>3. CASE StopServer(t)
  <2>0. PICK m : m = Message("status", << >>) OBVIOUS
  <2>1. /\ t.kind = "stop" /\ tasks' = Replaced(t, {m}) /\ daemon' = "draining" /\ clients' = 0
        /\ UNCHANGED <<peak, launches, db, minted, LoopVars>>
    BY <1>3, <2>0 DEF StopServer, Posts
  <2>2. m.kind = "status" /\ m.arg = << >> /\ m \in TaskSet
    <3>1. << >> \in Seq(Nat) /\ "status" \in Kinds BY DEF Kinds
    <3> QED BY <3>1, <2>0, MessageFields
  <2>3. Brings(m)' BY <2>2, BringsNothing
  <2>4. \A p \in Panel : Clears(t, p) => Clears(m, p)
    BY <2>1, <2>2 DEF Clears, ClearedBy, Panel
  <2>5. WorldOK' /\ peak' = peak /\ clients' <= peak /\ minted <= minted'
    BY <1>0, <2>1, <2>2, <2>3, <2>4 DEF WorldOK
  <2>6. WorkDone(t, m) BY <1>0, <2>1, <2>2, <2>3, <2>4, <2>5 DEF WorkDone
  <2> QED BY <2>6
<1>4. CASE ListTokens(t)
  <2>0. PICK m : m = Message("list", db) OBVIOUS
  <2>1. t.kind = "list" /\ tasks' = Replaced(t, {m}) /\ UNCHANGED worldVars /\ UNCHANGED LoopVars
    BY <1>4, <2>0 DEF ListTokens, Posts
  <2>2. db \in Seq(1 .. minted) /\ db \in Seq(Nat) BY <1>0, NamesAreNumbers DEF WorldOK
  <2>3. m.kind = "list" /\ m.arg = db /\ m \in TaskSet BY <2>2, <2>0, MessageFields DEF Kinds
  <2>4. Brings(m)' BY <2>1, <2>2, <2>3 DEF Brings, QrTask
  <2>5. \A p \in Panel : Clears(t, p) => Clears(m, p) BY <2>1, <2>3 DEF Clears
  <2>6. WorldOK' /\ peak' = peak /\ clients' <= peak /\ minted <= minted'
    BY <1>0, <2>1, <2>3, <2>4, <2>5 DEF WorldOK
  <2>7. WorkDone(t, m) BY <1>0, <2>1, <2>3, <2>4, <2>5, <2>6 DEF WorkDone
  <2> QED BY <2>7
<1>5. CASE CreateToken(t)
  <2> PICK n : n = minted' OBVIOUS
  <2>0. PICK m : m = Message("created", <<n>>) OBVIOUS
  <2>1. /\ t.kind = "create" /\ tasks' = Replaced(t, {m})
        /\ minted' = minted + 1 /\ db' = Append(db, minted')
        /\ UNCHANGED <<daemon, clients, peak, launches, LoopVars>>
    BY <1>5, <2>0 DEF CreateToken, Posts
  <2>2. minted' \in Nat /\ minted' \in 1 .. minted' /\ minted <= minted' BY <1>0, <2>1
  <2>3. m.kind = "created" /\ m.arg = <<minted'>> /\ m \in TaskSet
    <3>1. <<n>> \in Seq(Nat) BY <2>2
    <3> QED BY <3>1, <2>0, MessageFields DEF Kinds
  <2>4. Brings(m)' BY <2>2, <2>3 DEF Brings, QrTask
  <2>5. \A p \in Panel : Clears(t, p) => Clears(m, p)
    BY <2>1, <2>3 DEF Clears, ClearedBy, Panel
  <2>6. db' \in Seq(1 .. minted')
    <3>1. db \in Seq(1 .. minted') BY <1>0, <2>2, MoreNames DEF WorldOK
    <3> QED BY <2>1, <2>2, <3>1, AppendProperties
  <2>7. WorldOK' /\ peak' = peak /\ clients' <= peak /\ minted <= minted'
    BY <1>0, <2>1, <2>2, <2>3, <2>4, <2>5, <2>6 DEF WorldOK
  <2>8. WorkDone(t, m) BY <1>0, <2>1, <2>2, <2>3, <2>4, <2>5, <2>6, <2>7 DEF WorkDone
  <2> QED BY <2>8
<1>6. CASE RevokeToken(t)
  <2>0. PICK m : m = Message("changed", << >>) OBVIOUS
  <2>1. /\ t.kind = "revoke" /\ tasks' = Replaced(t, {m}) /\ db' = RemoveFirst(db, t.arg[1])
        /\ UNCHANGED <<daemon, clients, peak, launches, minted, LoopVars>>
    BY <1>6, <2>0 DEF RevokeToken, Posts
  <2>2. m.kind = "changed" /\ m.arg = << >> /\ m \in TaskSet
    <3>1. << >> \in Seq(Nat) OBVIOUS
    <3> QED BY <3>1, <2>0, MessageFields DEF Kinds
  <2>3. Brings(m)' BY <2>2, BringsNothing
  <2>4. \A p \in Panel : Clears(t, p) => Clears(m, p)
    BY <2>1, <2>2 DEF Clears, ClearedBy, Panel
  <2>5. db' \in Seq(1 .. minted') BY <1>0, <2>1, RemovedType DEF WorldOK
  <2>6. WorldOK' /\ peak' = peak /\ clients' <= peak /\ minted <= minted'
    BY <1>0, <2>1, <2>2, <2>3, <2>4, <2>5 DEF WorldOK
  <2>7. WorkDone(t, m) BY <1>0, <2>1, <2>2, <2>3, <2>4, <2>5, <2>6 DEF WorkDone
  <2> QED BY <2>7
<1>7. CASE TaskFails(t)
  <2>0. PICK m : m = Message("failed", << >>) OBVIOUS
  <2>1. tasks' = Replaced(t, {m}) /\ UNCHANGED worldVars /\ UNCHANGED LoopVars
    BY <1>7, <2>0 DEF TaskFails, Posts
  <2>2. m.kind = "failed" /\ m \in TaskSet
    <3>1. << >> \in Seq(Nat) OBVIOUS
    <3> QED BY <3>1, <2>0, MessageFields DEF Kinds
  <2>3. Brings(m)' BY <2>2, BringsNothing
  <2>4. \A p \in Panel : Clears(m, p) BY <2>2 DEF Clears
  <2>5. WorldOK' /\ peak' = peak /\ clients' <= peak /\ minted <= minted'
    BY <1>0, <2>1, <2>2, <2>3, <2>4 DEF WorldOK
  <2>6. WorkDone(t, m) BY <1>0, <2>1, <2>2, <2>3, <2>4, <2>5 DEF WorkDone
  <2> QED BY <2>6
<1>8. CASE BeginQr(t) \/ BuildQr(t)
  <2> PICK n : n = IF daemon = "up" THEN clients ELSE 0 OBVIOUS
  <2>1. /\ t.kind \in {"qr", "qrBuild"} /\ UNCHANGED worldVars /\ UNCHANGED LoopVars
        /\ \/ tasks' = Replaced(t, {Message("qrFailed", t.arg)})
           \/ tasks' = Replaced(t, {Task("qrBuild", t.arg)})
           \/ tasks' = Replaced(t, {Message("qrReady", Append(t.arg, n))})
    BY <1>8 DEF BeginQr, BuildQr, Posts
  <2>2. t.arg \in Seq(Nat) /\ Len(t.arg) = 2 BY <1>0, <2>1 DEF TaskSet, Brings
  <2>3. /\ Append(t.arg, n) \in Seq(Nat) /\ Append(t.arg, n)[1] = t.arg[1]
        /\ Append(t.arg, n)[2] = t.arg[2] /\ Append(t.arg, n)[3] = n
    <3>1. n \in Nat BY <1>0
    <3>2. PICK q : q = t.arg OBVIOUS
    <3>3. q \in Seq(Nat) /\ Len(q) = 2 BY <2>2, <3>2
    <3>4. /\ Append(q, n) \in Seq(Nat) /\ Append(q, n)[1] = q[1]
          /\ Append(q, n)[2] = q[2] /\ Append(q, n)[3] = n
      BY <3>1, <3>3, ThirdOf
    <3> QED BY <3>2, <3>4
  <2>4. /\ t.arg[1] \in 1 .. qrSeq' /\ t.arg[2] \in 1 .. minted'
        /\ t.arg[1] = overlay'.seq => t.arg[2] = overlay'.token
    BY <2>1 DEF Brings, QrTask
  <2>5. n \in 0 .. peak' BY <1>0, <2>1
  <2>6. \A p \in Panel : ~Clears(t, p) BY <2>1 DEF Clears, ClearedBy, Panel
  <2>7. WorldOK' /\ peak' = peak /\ clients' <= peak /\ minted <= minted' BY <1>0, <2>1 DEF WorldOK
  <2>8. CASE tasks' = Replaced(t, {Message("qrFailed", t.arg)})
    <3>0. PICK m : m = Message("qrFailed", t.arg) OBVIOUS
    <3>1. m.kind = "qrFailed" /\ m.arg = t.arg /\ m \in TaskSet BY <2>2, <3>0, MessageFields DEF Kinds
    <3>2. Brings(m)' BY <2>4, <3>1 DEF Brings, QrTask
    <3>3. WorkDone(t, m) BY <2>1, <2>6, <2>7, <2>8, <3>0, <3>1, <3>2 DEF WorkDone
    <3> QED BY <3>3
  <2>9. CASE tasks' = Replaced(t, {Task("qrBuild", t.arg)})
    <3>0. PICK m : m = Task("qrBuild", t.arg) OBVIOUS
    <3>1. m.kind = "qrBuild" /\ m.arg = t.arg /\ m \in TaskSet BY <2>2, <3>0, TaskFields DEF Kinds
    <3>2. Brings(m)' BY <2>2, <2>4, <3>1 DEF Brings, QrTask
    <3>3. WorkDone(t, m) BY <2>1, <2>6, <2>7, <2>9, <3>0, <3>1, <3>2 DEF WorkDone
    <3> QED BY <3>3
  <2>10. CASE tasks' = Replaced(t, {Message("qrReady", Append(t.arg, n))})
    <3> PICK r : r = Append(t.arg, n) OBVIOUS
    <3>0. PICK m : m = Message("qrReady", r) OBVIOUS
    <3>4. r \in Seq(Nat) BY <2>3
    <3>1. m.kind = "qrReady" /\ m.arg = Append(t.arg, n) /\ m \in TaskSet
      BY <3>4, <3>0, MessageFields DEF Kinds
    <3>2. Brings(m)' BY <2>3, <2>4, <2>5, <3>1 DEF Brings, QrTask
    <3>3. WorkDone(t, m) BY <2>1, <2>6, <2>7, <2>10, <3>0, <3>1, <3>2 DEF WorkDone
    <3> QED BY <3>3
  <2> QED BY <2>1, <2>8, <2>9, <2>10
<1> QED BY <1>1, <1>2, <1>3, <1>4, <1>5, <1>6, <1>7, <1>8 DEF Work

----------------------------------------------------------------------------
(* What every step has to show.                                            *)

\* What is under way after a task was replaced, and which flags it stands for.
LEMMA ReplacedKeeps ==
  ASSUME AppInv, Later, NEW t \in AtWork, NEW ts \in SUBSET TaskSet,
         tasks' = Replaced(t, ts), \A x \in ts : Brings(x)',
         \A p \in loading' : \/ p \in loading /\ ~Clears(t, p)
                             \/ \E x \in ts : Clears(x, p)
  PROVE  TasksOK' /\ FlagMeansTask'
<1>1. /\ AppTypeOK /\ IsABag(tasks) /\ AtWork \subseteq TaskSet /\ FlagMeansTask
      /\ \A x \in AtWork : Brings(x)
  BY AppInvType DEF AppInv, TasksOK, AtWork, TaskSet
<1>2. /\ IsABag(tasks') /\ AtWork' \subseteq AtWork \cup ts
      /\ (AtWork \ {t}) \cup ts \subseteq AtWork'
  BY <1>1, ReplacedHolds
<1>3. \A x \in AtWork' : Brings(x)' BY <1>1, <1>2, AllBring
<1>4. AtWork' \subseteq TaskSet BY <1>1, <1>2
<1>5. TasksOK' BY <1>2, <1>3, <1>4 DEF TasksOK, AtWork, TaskSet
<1>6. \A p \in loading : \E x \in AtWork : Clears(x, p)
  BY <1>1 DEF FlagMeansTask, Clears, AtWork
<1>7. ASSUME NEW p \in loading' PROVE \E x \in AtWork' : Clears(x, p)
  <2>1. CASE \E x \in ts : Clears(x, p) BY <1>2, <2>1
  <2>2. CASE p \in loading /\ ~Clears(t, p)
    <3>1. PICK x \in AtWork : Clears(x, p) BY <1>6, <2>2
    <3>2. x # t BY <2>2, <3>1
    <3> QED BY <1>2, <3>1, <3>2
  <2> QED BY <1>7, <2>1, <2>2
<1>8. FlagMeansTask' BY <1>7 DEF FlagMeansTask, Clears, AtWork
<1> QED BY <1>5, <1>8

LEMMA SpawnedKeeps ==
  ASSUME AppInv, Later, NEW ts \in SUBSET TaskSet,
         tasks' = Spawned(ts), \A x \in ts : Brings(x)',
         \A p \in loading' : p \in loading \/ \E x \in ts : Clears(x, p)
  PROVE  TasksOK' /\ FlagMeansTask'
<1>1. /\ AppTypeOK /\ IsABag(tasks) /\ AtWork \subseteq TaskSet /\ FlagMeansTask
      /\ \A x \in AtWork : Brings(x)
  BY AppInvType DEF AppInv, TasksOK, AtWork, TaskSet
<1>2. IsABag(tasks') /\ AtWork' = AtWork \cup ts BY <1>1, SpawnedHolds
<1>3. \A x \in AtWork' : Brings(x)' BY <1>1, <1>2, AllBring
<1>4. AtWork' \subseteq TaskSet BY <1>1, <1>2
<1>5. TasksOK' BY <1>2, <1>3, <1>4 DEF TasksOK, AtWork, TaskSet
<1>6. \A p \in loading : \E x \in AtWork : Clears(x, p)
  BY <1>1 DEF FlagMeansTask, Clears, AtWork
<1>7. \A p \in loading' : \E x \in AtWork' : Clears(x, p) BY <1>2, <1>6
<1>8. FlagMeansTask' BY <1>7 DEF FlagMeansTask, Clears, AtWork
<1> QED BY <1>5, <1>8

LEMMA SameKeeps ==
  ASSUME AppInv, Later, tasks' = tasks, loading' \subseteq loading
  PROVE  TasksOK' /\ FlagMeansTask'
<1>1. /\ AppTypeOK /\ IsABag(tasks) /\ AtWork \subseteq TaskSet /\ FlagMeansTask
      /\ \A x \in AtWork : Brings(x)
  BY AppInvType DEF AppInv, TasksOK, AtWork, TaskSet
<1>2. IsABag(tasks') /\ AtWork' = AtWork BY <1>1 DEF AtWork
<1>3. \A x \in AtWork' : Brings(x)'
  <2> PICK e : e = {} OBVIOUS
  <2>1. AtWork' \subseteq AtWork \cup e /\ \A x \in e : Brings(x)' BY <1>2
  <2> QED BY <1>1, <2>1, AllBring
<1>5. TasksOK' BY <1>1, <1>2, <1>3 DEF TasksOK, AtWork, TaskSet
<1>6. \A p \in loading : \E x \in AtWork : Clears(x, p)
  BY <1>1 DEF FlagMeansTask, Clears, AtWork
<1>7. \A p \in loading' : \E x \in AtWork' : Clears(x, p) BY <1>2, <1>6
<1>8. FlagMeansTask' BY <1>7 DEF FlagMeansTask, Clears, AtWork
<1> QED BY <1>5, <1>8

\* A world that only gains clients and tokens leaves what the panel shows as it was.
LEMMA WorldMoves ==
  ASSUME AppInv, WorldOK', clients' <= peak', peak <= peak', minted <= minted',
         UNCHANGED <<running, screen, loading, status, ticks, tokensVars, qrVars>>,
         script' \in Seq(KeyName)
  PROVE  /\ Later /\ LoopOK' /\ TokensOK' /\ QrOK'
         /\ TasksOK' /\ FlagMeansTask' => AppInv'
<1>1. /\ LoopOK /\ TokensOK /\ QrOK /\ WorldOK /\ peak' \in Nat /\ minted' \in Nat /\ minted \in Nat
  BY AppAssumption DEF AppInv, WorldOK
<1>2. Later BY <1>1 DEF Later, qrVars
<1>3. LoopOK' BY <1>1 DEF LoopOK
<1>4. list \in Seq(1 .. minted') BY <1>1, MoreNames DEF TokensOK
<1>5. secret \in 0 .. minted' BY <1>1 DEF TokensOK
<1>6. TokensOK' BY <1>1, <1>4, <1>5 DEF TokensOK, tokensVars
<1>7. 0 .. minted \subseteq 0 .. minted' BY <1>1
<1>8. overlay' = overlay /\ qrSeq' = qrSeq BY DEF qrVars
<1>9. overlay' \in Overlays(qrSeq', minted')
  BY <1>1, <1>7, <1>8 DEF QrOK, Overlays
<1>10. OverlayShowsItsOwn' BY <1>1, <1>8 DEF QrOK, OverlayShowsItsOwn
<1>11. Watched'
  <2>1. overlay.phase = "connected" => overlay.built \in Nat /\ overlay.built < peak
    BY <1>1 DEF QrOK, Watched, Overlays
  <2>2. overlay.phase = "connected" => overlay.built < peak'
    BY <2>1, <1>1, AppAssumption DEF WorldOK
  <2> QED BY <1>1, <1>8, <2>2 DEF QrOK, Watched
<1>12. QrOK' BY <1>1, <1>8, <1>9, <1>10, <1>11 DEF QrOK
<1> QED BY <1>2, <1>3, <1>6, <1>12 DEF AppInv

LEMMA WorkKeeps ==
  ASSUME AppInv, NEW t \in AtWork, Work(t)
  PROVE  AppInv'
<1>1. AppTypeOK /\ clients <= peak /\ Brings(t) /\ loading \subseteq Panel /\ script \in Seq(KeyName)
      /\ peak \in Nat
  BY AppInvType, AppAssumption DEF AppInv, TasksOK, AtWork, LoopOK, WorldOK
<1>2. PICK m : WorkDone(t, m) BY <1>1, WorkPosts
<1>3. /\ m \in TaskSet /\ tasks' = Replaced(t, {m}) /\ Brings(m)'
      /\ \A p \in Panel : Clears(t, p) => Clears(m, p)
      /\ UNCHANGED LoopVars /\ peak' = peak /\ clients' <= peak
      /\ minted <= minted' /\ WorldOK'
  BY <1>2 DEF WorkDone
<1>4. Later /\ (TasksOK' /\ FlagMeansTask' => AppInv')
  <2>1. /\ UNCHANGED <<running, screen, loading, status, ticks, tokensVars, qrVars>>
        /\ script' \in Seq(KeyName) /\ clients' <= peak' /\ peak <= peak'
    BY <1>1, <1>3 DEF LoopVars
  <2> QED BY <1>3, <2>1, WorldMoves
<1>5. loading' = loading BY <1>3 DEF LoopVars
<1>6. \A p \in loading' : (p \in loading /\ ~Clears(t, p)) \/ \E x \in {m} : Clears(x, p)
  BY <1>1, <1>3, <1>5
<1>7. TasksOK' /\ FlagMeansTask' BY <1>3, <1>4, <1>6, ReplacedKeeps
<1> QED BY <1>4, <1>7

LEMMA WorldKeeps ==
  ASSUME AppInv, Others \/ DrainEnds \/ Launched \/ Rest
  PROVE  AppInv'
<1>0. /\ WorldOK /\ clients <= peak /\ peak \in Nat /\ clients \in Nat /\ minted \in Nat
      /\ MaxClients \in Nat /\ script \in Seq(KeyName)
  BY AppAssumption DEF AppInv, WorldOK, LoopOK
<1>1. /\ UNCHANGED <<running, screen, loading, status, ticks, tokensVars, qrVars, tasks>>
      /\ UNCHANGED <<db, minted>>
  BY DEF Others, DrainEnds, Launched, Rest, worldVars
<1>2. script' \in Seq(KeyName)
  <2>1. \/ script' = script
        \/ (script # << >> /\ script' = Tail(script))
    BY DEF Others, DrainEnds, Launched, Rest, Press
  <2> QED BY <1>0, <2>1
<1>3. WorldOK' /\ clients' <= peak' /\ peak <= peak'
  <2>1. CASE Others
    <3>1. /\ clients' \in 0 .. MaxClients /\ daemon' \in {"down", "up", "draining"}
          /\ peak' = IF clients' > peak THEN clients' ELSE peak
          /\ launches' = launches
      BY <1>0, <2>1 DEF Others, WorldOK
    <3> QED BY <1>0, <1>1, <3>1 DEF WorldOK
  <2>2. CASE DrainEnds BY <1>0, <1>1, <2>2 DEF DrainEnds, WorldOK
  <2>3. CASE Launched BY <1>0, <1>1, <2>3 DEF Launched, WorldOK
  <2>4. CASE Rest BY <1>0, <1>1, <2>4 DEF Rest, WorldOK, worldVars
  <2> QED BY <2>1, <2>2, <2>3, <2>4
<1>4. Later /\ (LoopOK' /\ TokensOK' /\ QrOK' /\ TasksOK' /\ FlagMeansTask' => AppInv')
      /\ LoopOK' /\ TokensOK' /\ QrOK'
  BY <1>0, <1>1, <1>2, <1>3, WorldMoves
<1>5. TasksOK' /\ FlagMeansTask' BY <1>1, <1>4, SameKeeps
<1> QED BY <1>4, <1>5

----------------------------------------------------------------------------
(* The messages.                                                           *)

\* What a message leaves alone, and that it spawns ts.
Leaves(m, ts) ==
  /\ UNCHANGED <<worldVars, script, running, screen, ticks>> /\ qrSeq' = qrSeq
  /\ overlay'.seq = overlay.seq /\ overlay'.token = overlay.token
  /\ ts \subseteq TaskSet /\ tasks' = Replaced(m, ts)

LEMMA ApplyKeeps ==
  ASSUME AppInv, NEW m \in AtWork, NEW ts, Leaves(m, ts), \A x \in ts : Brings(x)',
         loading' \subseteq loading, \A p \in loading' : ~Clears(m, p),
         status' \in {Unknown, Stopped} \cup 0 .. MaxClients, TokensOK', QrOK'
  PROVE  AppInv'
<1>1. /\ WorldOK /\ clients <= peak /\ LoopOK /\ QrOK /\ peak \in Nat /\ minted \in Nat
  BY AppAssumption DEF AppInv, WorldOK
<1>2. /\ UNCHANGED worldVars /\ UNCHANGED <<script, running, screen, ticks>> /\ qrSeq' = qrSeq
      /\ overlay'.seq = overlay.seq /\ overlay'.token = overlay.token
      /\ ts \in SUBSET TaskSet /\ tasks' = Replaced(m, ts)
  BY DEF Leaves
<1>3. WorldOK' /\ clients' <= peak' /\ Later BY <1>1, <1>2 DEF WorldOK, worldVars, Later
<1>4. LoopOK' BY <1>1, <1>2 DEF LoopOK
<1>5. \A p \in loading' : \/ p \in loading /\ ~Clears(m, p)
                          \/ \E x \in ts : Clears(x, p)
  OBVIOUS
<1>6. TasksOK' /\ FlagMeansTask' BY <1>2, <1>3, <1>5, ReplacedKeeps
<1> QED BY <1>3, <1>4, <1>6 DEF AppInv

\* The panels a message says nothing of.
LEMMA FlagsTold ==
  ASSUME NEW m, NEW p \in Panel
  PROVE  /\ m.kind = "status" /\ p # "server" => ~Clears(m, p)
         /\ m.kind = "config" /\ p # "config" => ~Clears(m, p)
         /\ m.kind \in {"ensure", "certinfo"} /\ p # "cert" => ~Clears(m, p)
         /\ m.kind \in {"list", "created", "changed"} /\ p # "tokens" => ~Clears(m, p)
         /\ m.kind \in {"qrReady", "qrFailed"} => ~Clears(m, p)
BY DEF Clears, ClearedBy, Panel

LEMMA StatusLoadedKeeps ==
  ASSUME AppInv, NEW m \in AtWork, m.done, StatusLoaded(m),
         UNCHANGED <<worldVars, script, running, screen>>
  PROVE  AppInv'
<1>1. /\ m.kind = "status" /\ tasks' = Replaced(m, {}) /\ loading' = loading \ {"server"}
      /\ status' = IF m.arg = << >> THEN Stopped ELSE m.arg[1]
      /\ overlay' = IF m.arg = << >> THEN overlay ELSE Promoted(m.arg[1])
      /\ UNCHANGED <<ticks, tokensVars, qrSeq>>
  BY DEF StatusLoaded, Taken
<1>2. /\ WorldOK /\ LoopOK /\ TokensOK /\ QrOK /\ Brings(m)
      /\ peak \in Nat /\ MaxClients \in Nat /\ peak <= MaxClients
  BY AppAssumption DEF AppInv, WorldOK, TasksOK, AtWork
<1>3. m.arg # << >> => m.arg[1] \in 0 .. peak BY <1>1, <1>2 DEF Brings
<1>4. status' \in {Unknown, Stopped} \cup 0 .. MaxClients
  <2>1. CASE m.arg = << >> BY <1>1, <2>1
  <2>2. CASE m.arg # << >> BY <1>1, <1>2, <1>3, <2>2
  <2> QED BY <2>1, <2>2
<1>5. overlay' = overlay
      \/ \E n \in 0 .. peak : /\ overlay.phase = "showing" /\ n > overlay.baseline
                              /\ overlay' = [overlay EXCEPT !.phase = "connected"]
  BY <1>1, <1>3 DEF Promoted
<1>6. QrOK' /\ overlay'.seq = overlay.seq /\ overlay'.token = overlay.token
  <2>0. minted' = minted /\ peak' = peak BY DEF worldVars
  <2>1. CASE overlay' = overlay
    BY <1>1, <1>2, <2>0, <2>1 DEF QrOK, OverlayShowsItsOwn, Watched
  <2>2. ASSUME NEW n \in 0 .. peak, overlay.phase = "showing", n > overlay.baseline,
               overlay' = [overlay EXCEPT !.phase = "connected"]
        PROVE  QrOK' /\ overlay'.seq = overlay.seq /\ overlay'.token = overlay.token
    <3>1. /\ overlay' \in Overlays(qrSeq, minted)
          /\ overlay'.phase = "connected" /\ overlay'.seq = overlay.seq
          /\ overlay'.token = overlay.token /\ overlay'.baseline = overlay.baseline
          /\ overlay'.shows = overlay.shows /\ overlay'.shownToken = overlay.shownToken
          /\ overlay'.built = overlay.built /\ overlay.baseline \in Nat
      BY <1>2, <2>2 DEF QrOK, Overlays
    <3>2. OverlayShowsItsOwn' BY <1>2, <2>2, <3>1 DEF QrOK, OverlayShowsItsOwn
    <3>3. Watched'
      <4>1. overlay.baseline = overlay.built /\ overlay.baseline < peak
        BY <1>2, <2>2, <3>1 DEF QrOK, Watched
      <4> QED BY <2>0, <3>1, <4>1 DEF Watched
    <3> QED BY <1>1, <1>2, <2>0, <3>1, <3>2, <3>3 DEF QrOK
  <2> QED BY <1>5, <2>1, <2>2
<1>7. TokensOK' BY <1>1, <1>2 DEF TokensOK, tokensVars, worldVars
<1>8. loading' \subseteq loading /\ \A p \in loading' : ~Clears(m, p)
  BY <1>1, <1>2, FlagsTold DEF LoopOK
<1>9. PICK ts : ts = {} OBVIOUS
<1>10. Leaves(m, ts) /\ \A x \in ts : Brings(x)' BY <1>1, <1>6, <1>9 DEF Leaves
<1> QED BY <1>4, <1>6, <1>7, <1>8, <1>10, ApplyKeeps

\* What changes flags only.
LEMMA FlagsKeep ==
  ASSUME AppInv, NEW m \in AtWork, tasks' = Replaced(m, {}),
         UNCHANGED <<worldVars, script, running, screen, status, ticks, tokensVars, qrVars>>,
         loading' \subseteq loading, \A p \in loading' : ~Clears(m, p)
  PROVE  AppInv'
<1>1. /\ LoopOK /\ TokensOK /\ QrOK BY DEF AppInv
<1>2. TokensOK' BY <1>1 DEF TokensOK, tokensVars, worldVars
<1>3. QrOK' BY <1>1 DEF QrOK, OverlayShowsItsOwn, Watched, qrVars, worldVars
<1>4. status' \in {Unknown, Stopped} \cup 0 .. MaxClients BY <1>1 DEF LoopOK
<1>5. PICK ts : ts = {} OBVIOUS
<1>6. Leaves(m, ts) /\ \A x \in ts : Brings(x)' BY <1>5 DEF Leaves, qrVars
<1> QED BY <1>2, <1>3, <1>4, <1>6, ApplyKeeps

LEMMA PanelLoadedKeeps ==
  ASSUME AppInv, NEW m \in AtWork, ConfigLoaded(m) \/ CertLoaded(m) \/ ActionEnded(m),
         UNCHANGED <<worldVars, script, running, screen>>
  PROVE  AppInv'
<1>1. tasks' = Replaced(m, {}) /\ UNCHANGED <<status, ticks, tokensVars, qrVars>>
  BY DEF ConfigLoaded, CertLoaded, ActionEnded, Taken
<1>2. loading \subseteq Panel BY DEF AppInv, LoopOK
<1>3. loading' \subseteq loading /\ \A p \in loading' : ~Clears(m, p)
  <2>1. CASE ConfigLoaded(m) BY <1>2, <2>1, FlagsTold DEF ConfigLoaded
  <2>2. CASE CertLoaded(m) BY <1>2, <2>2, FlagsTold DEF CertLoaded
  <2>3. CASE ActionEnded(m) BY <2>3 DEF ActionEnded
  <2> QED BY <2>1, <2>2, <2>3
<1> QED BY <1>1, <1>3, FlagsKeep

LEMMA TokensMessageKeeps ==
  ASSUME AppInv, NEW m \in AtWork, m.done,
         TokensLoaded(m) \/ TokenCreated(m) \/ TokensChanged(m),
         UNCHANGED <<worldVars, script, running, screen>>
  PROVE  AppInv'
<1>1. /\ LoopOK /\ TokensOK /\ QrOK /\ Brings(m) /\ minted \in Nat /\ minted' = minted
  BY DEF AppInv, WorldOK, TasksOK, AtWork, worldVars
<1>2. /\ m.kind \in {"list", "created", "changed"} /\ loading' = loading \ {"tokens"}
      /\ UNCHANGED <<status, ticks, qrVars>>
  BY DEF TokensLoaded, TokenCreated, TokensChanged
<1>3. loading' \subseteq loading /\ \A p \in loading' : ~Clears(m, p)
  BY <1>1, <1>2, FlagsTold DEF LoopOK
<1>4. QrOK' BY <1>1, <1>2 DEF QrOK, OverlayShowsItsOwn, Watched, qrVars, worldVars
<1>5. status' \in {Unknown, Stopped} \cup 0 .. MaxClients BY <1>1, <1>2 DEF LoopOK
<1>6. TokensOK'
  <2>1. CASE TokensLoaded(m)
    <3>1. /\ list' = m.arg /\ form' = form /\ secret' = secret
          /\ cursor' = IF cursor < Len(list') THEN cursor
                       ELSE IF list' = << >> THEN 0 ELSE Len(list') - 1
      BY <2>1 DEF TokensLoaded
    <3>2. m.kind = "list" BY <2>1 DEF TokensLoaded
    <3>3. list' \in Seq(1 .. minted) BY <1>1, <3>1, <3>2 DEF Brings
    <3>4. cursor \in Nat BY <1>1 DEF TokensOK
    <3>5. PICK s : s = list' OBVIOUS
    <3>6. s \in Seq(1 .. minted) /\ Len(s) \in Nat /\ (s # << >> => Len(s) > 0)
      BY <3>3, <3>5, LenProperties, EmptySeq
    <3>7. cursor' \in IF s = << >> THEN {0} ELSE 0 .. Len(s) - 1
      <4>1. CASE s = << >>
        <5>1. Len(s) = 0 BY <4>1
        <5> QED BY <3>1, <3>4, <3>5, <4>1, <5>1
      <4>2. CASE s # << >> BY <3>1, <3>4, <3>5, <3>6, <4>2
      <4> QED BY <4>1, <4>2
    <3> QED BY <1>1, <3>1, <3>3, <3>5, <3>7 DEF TokensOK
  <2>2. CASE TokenCreated(m)
    <3>1. /\ m.kind = "created" /\ secret' = m.arg[1] /\ form' = "browsing"
          /\ list' = list /\ cursor' = cursor
      BY <2>2 DEF TokenCreated
    <3>2. secret' \in 1 .. minted BY <1>1, <3>1 DEF Brings
    <3> QED BY <1>1, <3>1, <3>2 DEF TokensOK
  <2>3. CASE TokensChanged(m)
    <3>1. /\ secret' = 0 /\ form' = form /\ list' = list /\ cursor' = cursor
      BY <2>3 DEF TokensChanged
    <3> QED BY <1>1, <3>1 DEF TokensOK
  <2> QED BY <2>1, <2>2, <2>3
<1>7. \E ts : Leaves(m, ts) /\ \A x \in ts : Brings(x)'
  <2>1. CASE TokensLoaded(m)
    <3>1. PICK ts : ts = {} OBVIOUS
    <3>2. tasks' = Replaced(m, ts) BY <2>1, <3>1 DEF TokensLoaded, Taken
    <3>3. Leaves(m, ts) /\ \A x \in ts : Brings(x)' BY <1>2, <3>1, <3>2 DEF Leaves, qrVars
    <3> QED BY <3>3
  <2>2. CASE TokenCreated(m) \/ TokensChanged(m)
    <3>1. PICK x : x = Load("list") OBVIOUS
    <3>2. tasks' = Replaced(m, {x}) BY <2>2, <3>1 DEF TokenCreated, TokensChanged
    <3>3. x \in TaskSet /\ x.kind = "list" /\ ~x.done BY <3>1, LoadFields DEF Kinds, Aside
    <3>4. Brings(x)' BY <3>3, BringsNothing
    <3>5. Leaves(m, {x}) BY <1>2, <3>2, <3>3 DEF Leaves, qrVars
    <3>6. \A y \in {x} : Brings(y)' BY <3>4
    <3> QED BY <3>5, <3>6
  <2> QED BY <2>1, <2>2 DEF TokensLoaded, TokenCreated, TokensChanged
<1>8. PICK ts : Leaves(m, ts) /\ \A x \in ts : Brings(x)' BY <1>7
<1> QED BY <1>3, <1>4, <1>5, <1>6, <1>8, ApplyKeeps

LEMMA TokenQrEndedKeeps ==
  ASSUME AppInv, NEW m \in AtWork, TokenQrEnded(m),
         UNCHANGED <<worldVars, script, running, screen>>
  PROVE  AppInv'
<1>1. /\ LoopOK /\ TokensOK /\ QrOK /\ Brings(m) /\ WorldOK /\ minted' = minted /\ peak' = peak
      /\ peak \in Nat /\ MaxClients \in Nat /\ peak <= MaxClients /\ minted \in Nat /\ qrSeq \in Nat
  BY AppAssumption DEF AppInv, WorldOK, TasksOK, AtWork, worldVars, QrOK
<1>2. /\ m.kind \in {"qrReady", "qrFailed"} /\ tasks' = Replaced(m, {})
      /\ overlay' = IF ~ForThisOverlay(m) THEN overlay
                    ELSE IF m.kind = "qrReady" THEN Shown(m)
                    ELSE [overlay EXCEPT !.phase = "failed", !.shows = m.arg[1]]
      /\ UNCHANGED <<loading, status, ticks, tokensVars, qrSeq>>
  BY DEF TokenQrEnded, Taken
<1>3. /\ m.arg[1] \in 1 .. qrSeq /\ m.arg[2] \in 1 .. minted
      /\ m.arg[1] = overlay.seq => m.arg[2] = overlay.token
  BY <1>1, <1>2 DEF Brings, QrTask
<1>4. m.kind = "qrReady" => m.arg[3] \in 0 .. peak BY <1>1, <1>2 DEF Brings
<1>5. m.arg[1] \in 0 .. qrSeq /\ m.arg[2] \in 0 .. minted BY <1>1, <1>3
<1>6. QrOK' /\ overlay'.seq = overlay.seq /\ overlay'.token = overlay.token
  <2>1. CASE overlay' = overlay
    BY <1>1, <1>2, <2>1 DEF QrOK, OverlayShowsItsOwn, Watched
  <2>2. CASE ForThisOverlay(m) /\ m.kind = "qrReady"
    <3>1. overlay.seq = m.arg[1] /\ m.arg[2] = overlay.token BY <1>3, <2>2 DEF ForThisOverlay
    <3>2. overlay' = [overlay EXCEPT !.phase = "showing", !.baseline = m.arg[3],
                        !.shows = m.arg[1], !.shownToken = m.arg[2], !.built = m.arg[3]]
      BY <1>2, <2>2 DEF Shown
    <3>3. m.arg[3] \in 0 .. MaxClients BY <1>1, <1>4, <2>2
    <3>4. /\ overlay' \in Overlays(qrSeq, minted)
          /\ overlay'.phase = "showing" /\ overlay'.seq = overlay.seq
          /\ overlay'.token = overlay.token /\ overlay'.baseline = m.arg[3]
          /\ overlay'.shows = m.arg[1] /\ overlay'.shownToken = m.arg[2]
          /\ overlay'.built = m.arg[3]
      BY <1>1, <1>5, <3>2, <3>3 DEF QrOK, Overlays
    <3> QED BY <1>1, <1>2, <3>1, <3>4 DEF QrOK, OverlayShowsItsOwn, Watched
  <2>3. CASE ForThisOverlay(m) /\ m.kind # "qrReady"
    <3>1. overlay.seq = m.arg[1] BY <2>3 DEF ForThisOverlay
    <3>2. overlay' = [overlay EXCEPT !.phase = "failed", !.shows = m.arg[1]] BY <1>2, <2>3
    <3>3. /\ overlay' \in Overlays(qrSeq, minted)
          /\ overlay'.phase = "failed" /\ overlay'.seq = overlay.seq
          /\ overlay'.token = overlay.token /\ overlay'.shows = m.arg[1]
      BY <1>1, <1>5, <3>2 DEF QrOK, Overlays
    <3> QED BY <1>1, <1>2, <3>1, <3>3 DEF QrOK, OverlayShowsItsOwn, Watched
  <2> QED BY <1>2, <2>1, <2>2, <2>3
<1>7. TokensOK' BY <1>1, <1>2 DEF TokensOK, tokensVars
<1>8. loading' \subseteq loading /\ \A p \in loading' : ~Clears(m, p)
  BY <1>1, <1>2, FlagsTold DEF LoopOK
<1>9. status' \in {Unknown, Stopped} \cup 0 .. MaxClients BY <1>1, <1>2 DEF LoopOK
<1>10. PICK ts : ts = {} OBVIOUS
<1>11. Leaves(m, ts) /\ \A x \in ts : Brings(x)' BY <1>2, <1>6, <1>10 DEF Leaves
<1> QED BY <1>6, <1>7, <1>8, <1>9, <1>11, ApplyKeeps

LEMMA MessagesKeep ==
  ASSUME AppInv, NEW m \in AtWork, Apply(m)
  PROVE  AppInv'
<1>1. m.done /\ UNCHANGED <<worldVars, script, running, screen>> BY DEF Apply
<1>2. CASE StatusLoaded(m) BY <1>1, <1>2, StatusLoadedKeeps
<1>3. CASE ConfigLoaded(m) \/ CertLoaded(m) \/ ActionEnded(m) BY <1>1, <1>3, PanelLoadedKeeps
<1>4. CASE TokensLoaded(m) \/ TokenCreated(m) \/ TokensChanged(m)
  BY <1>1, <1>4, TokensMessageKeeps
<1>5. CASE TokenQrEnded(m) BY <1>1, <1>5, TokenQrEndedKeeps
<1> QED BY <1>2, <1>3, <1>4, <1>5 DEF Apply

----------------------------------------------------------------------------
(* Ticks and keys.                                                         *)

LEMMA Pressed ==
  ASSUME AppInv, NEW key, Press(key)
  PROVE  script' \in Seq(KeyName)
<1>1. script \in Seq(KeyName) /\ script # << >> /\ script' = Tail(script)
  BY DEF AppInv, LoopOK, Press
<1> QED BY <1>1

\* A step of the loop alone: the world does not move.
LEMMA LoopKeeps ==
  ASSUME AppInv, UNCHANGED worldVars, script' \in Seq(KeyName), running' = running,
         screen' \in ToSet(Screen), loading' \subseteq Panel,
         status' \in {Unknown, Stopped} \cup 0 .. MaxClients, ticks' \in 0 .. Every - 1,
         TokensOK', QrOK',
         \/ qrSeq' = qrSeq /\ overlay'.seq = overlay.seq /\ overlay'.token = overlay.token
         \/ qrSeq' = qrSeq /\ overlay'.seq = 0
         \/ qrSeq' = qrSeq + 1 /\ overlay'.seq = qrSeq'
  PROVE  Later /\ (TasksOK' /\ FlagMeansTask' => AppInv')
<1>1. WorldOK /\ clients <= peak /\ LoopOK /\ peak \in Nat /\ minted \in Nat
  BY AppAssumption DEF AppInv, WorldOK
<1>2. WorldOK' /\ clients' <= peak' BY <1>1 DEF WorldOK, worldVars
<1>3. Later BY <1>1 DEF Later, worldVars
<1>4. LoopOK' BY <1>1 DEF LoopOK
<1> QED BY <1>2, <1>3, <1>4 DEF AppInv

\* What stays as it is: the tokens' panel, the overlay.
LEMMA Stays ==
  ASSUME AppInv, UNCHANGED worldVars
  PROVE  /\ UNCHANGED tokensVars => TokensOK'
         /\ UNCHANGED qrVars =>
              QrOK' /\ qrSeq' = qrSeq /\ overlay'.seq = overlay.seq /\ overlay'.token = overlay.token
<1>1. TokensOK /\ QrOK BY DEF AppInv
<1> QED BY <1>1 DEF TokensOK, QrOK, OverlayShowsItsOwn, Watched, tokensVars, qrVars, worldVars

LEMMA ClosedOK ==
  ASSUME NEW n \in Nat, NEW k \in Nat
  PROVE  Closed \in Overlays(n, k) /\ Closed.seq = 0 /\ Closed.phase = "closed"
BY AppAssumption DEF Closed, Overlays

LEMMA Counted ==
  ASSUME NEW n \in 0 .. Every - 1
  PROVE  (n + 1) % Every \in 0 .. Every - 1
BY AppAssumption

LEMMA TickKeeps ==
  ASSUME AppInv, Tick
  PROVE  AppInv'
<1>1. /\ UNCHANGED worldVars /\ UNCHANGED tokensVars
      /\ UNCHANGED <<script, running, screen, status, qrSeq>>
      /\ ticks' = ticks \/ ticks' = (ticks + 1) % Every
      /\ \/ overlay' = overlay
         \/ overlay.phase = "showing" /\ overlay' = [overlay EXCEPT !.ticks = (@ + 1) % Every]
      /\ \/ loading' = loading \cup {"server"} /\ tasks' = Spawned({Load("status")})
         \/ loading' = loading /\ tasks' = tasks
  BY DEF Tick
<1>2. LoopOK /\ QrOK BY DEF AppInv
<1>3. ticks' \in 0 .. Every - 1 BY <1>1, <1>2, Counted DEF LoopOK
<1>4. TokensOK' BY <1>1, Stays
<1>5. QrOK' /\ overlay'.seq = overlay.seq /\ overlay'.token = overlay.token
  <2>1. CASE overlay' = overlay
    BY <1>1, <1>2, <2>1 DEF QrOK, OverlayShowsItsOwn, Watched, worldVars
  <2>2. CASE overlay.phase = "showing" /\ overlay' = [overlay EXCEPT !.ticks = (@ + 1) % Every]
    <3>1. overlay.ticks \in 0 .. Every - 1 BY <1>2 DEF QrOK, Overlays
    <3>2. PICK k : k = (overlay.ticks + 1) % Every OBVIOUS
    <3>3. k \in 0 .. Every - 1 BY <3>1, <3>2, Counted
    <3>4. overlay' = [overlay EXCEPT !.ticks = k] BY <2>2, <3>2
    <3>5. /\ overlay' \in Overlays(qrSeq, minted) /\ overlay'.phase = "showing"
          /\ overlay'.seq = overlay.seq /\ overlay'.token = overlay.token
          /\ overlay'.shows = overlay.shows /\ overlay'.shownToken = overlay.shownToken
          /\ overlay'.baseline = overlay.baseline /\ overlay'.built = overlay.built
      BY <1>2, <2>2, <3>3, <3>4 DEF QrOK, Overlays
    <3> QED BY <1>1, <1>2, <2>2, <3>5 DEF QrOK, OverlayShowsItsOwn, Watched, worldVars
  <2> QED BY <1>1, <2>1, <2>2
<1>6. loading' \subseteq Panel BY <1>1, <1>2 DEF LoopOK, Panel
<1>7. Later /\ (TasksOK' /\ FlagMeansTask' => AppInv')
  <2>1. /\ script' \in Seq(KeyName) /\ screen' \in ToSet(Screen)
        /\ status' \in {Unknown, Stopped} \cup 0 .. MaxClients
    BY <1>1, <1>2 DEF LoopOK
  <2> QED BY <1>1, <1>3, <1>4, <1>5, <1>6, <2>1, LoopKeeps
<1>8. CASE loading' = loading /\ tasks' = tasks BY <1>7, <1>8, SameKeeps
<1>9. CASE loading' = loading \cup {"server"} /\ tasks' = Spawned({Load("status")})
  <2>1. PICK x : x = Load("status") OBVIOUS
  <2>2. x \in TaskSet /\ x.kind = "status" /\ x.arg = << >> BY <2>1, LoadFields DEF Kinds
  <2>3. Brings(x)' BY <2>2, BringsNothing
  <2>4. Clears(x, "server") BY <2>2 DEF Clears, ClearedBy
  <2>5. tasks' = Spawned({x}) /\ {x} \in SUBSET TaskSet /\ \A y \in {x} : Brings(y)'
    BY <1>9, <2>1, <2>2, <2>3
  <2>6. \A p \in loading' : p \in loading \/ \E y \in {x} : Clears(y, p) BY <1>9, <2>4
  <2> QED BY <1>7, <2>5, <2>6, SpawnedKeeps
<1> QED BY <1>1, <1>8, <1>9

LEMMA QuitKeeps ==
  ASSUME AppInv, Quit
  PROVE  AppInv'
<1>1. WorldOK /\ clients <= peak /\ minted \in Nat BY DEF AppInv, WorldOK
<1>2. UNCHANGED worldVars BY DEF Quit
<1>3. WorldOK' /\ clients' <= peak' /\ minted' \in Nat BY <1>1, <1>2 DEF WorldOK, worldVars
<1>4. script' \in Seq(KeyName) BY Pressed DEF Quit
<1>5. LoopOK'
  <2>1. "dashboard" \in ToSet(Screen) BY DEF ToSet, Screen
  <2>2. 0 \in 0 .. Every - 1 BY AppAssumption
  <2>3. /\ running' = FALSE /\ screen' = "dashboard" /\ loading' = {} /\ status' = Unknown
        /\ ticks' = 0
    BY DEF Quit
  <2> QED BY <1>4, <2>1, <2>2, <2>3 DEF LoopOK
<1>6. TokensOK' BY <1>3 DEF Quit, TokensOK
<1>7. QrOK'
  <2>1. qrSeq' = 0 /\ overlay' = Closed BY DEF Quit
  <2>2. overlay' \in Overlays(qrSeq', minted') /\ overlay'.phase = "closed"
    BY <1>3, <2>1, ClosedOK
  <2> QED BY <2>1, <2>2 DEF QrOK, OverlayShowsItsOwn, Watched
<1>8. IsABag(tasks') /\ AtWork' = {} BY NothingHolds DEF Quit
<1>9. TasksOK' BY <1>8 DEF TasksOK, AtWork
<1>10. FlagMeansTask' BY DEF Quit, FlagMeansTask
<1> QED BY <1>3, <1>5, <1>6, <1>7, <1>9, <1>10 DEF AppInv

LEMMA CloseOverlayKeeps ==
  ASSUME AppInv, CloseOverlay
  PROVE  AppInv'
<1>1. /\ UNCHANGED worldVars /\ UNCHANGED tokensVars /\ overlay' = Closed
      /\ UNCHANGED <<running, screen, loading, status, ticks, qrSeq, tasks>>
  BY DEF CloseOverlay
<1>2. LoopOK /\ QrOK /\ minted \in Nat BY DEF AppInv, WorldOK
<1>3. QrOK' /\ overlay'.seq = 0
  <2>1. qrSeq' \in Nat /\ minted' \in Nat BY <1>1, <1>2 DEF QrOK, worldVars
  <2>2. overlay' \in Overlays(qrSeq', minted') /\ overlay'.phase = "closed" /\ overlay'.seq = 0
    BY <1>1, <2>1, ClosedOK
  <2> QED BY <2>1, <2>2 DEF QrOK, OverlayShowsItsOwn, Watched
<1>4. TokensOK' BY <1>1, Stays
<1>5. script' \in Seq(KeyName) BY Pressed DEF CloseOverlay
<1>6. Later /\ (TasksOK' /\ FlagMeansTask' => AppInv')
  BY <1>1, <1>2, <1>3, <1>4, <1>5, LoopKeeps DEF LoopOK
<1> QED BY <1>1, <1>6, SameKeeps

\* A key that starts a load, or another task that brings nothing.
LEMMA StartsKeeps ==
  ASSUME AppInv, NEW panel \in Panel, NEW x \in TaskSet, Starts(panel, x),
         Brings(x)', Clears(x, panel),
         UNCHANGED worldVars, script' \in Seq(KeyName), UNCHANGED <<running, screen, ticks>>,
         status' \in {Unknown, Stopped} \cup 0 .. MaxClients, TokensOK', UNCHANGED qrVars
  PROVE  AppInv'
<1>1. loading' = loading \cup {panel} /\ tasks' = Spawned({x}) BY DEF Starts
<1>2. LoopOK BY DEF AppInv
<1>3. QrOK' /\ qrSeq' = qrSeq /\ overlay'.seq = overlay.seq /\ overlay'.token = overlay.token
  BY Stays
<1>4. loading' \subseteq Panel BY <1>1, <1>2 DEF LoopOK
<1>5. Later /\ (TasksOK' /\ FlagMeansTask' => AppInv')
  BY <1>2, <1>3, <1>4, LoopKeeps DEF LoopOK
<1>6. {x} \in SUBSET TaskSet /\ \A y \in {x} : Brings(y)' OBVIOUS
<1>7. \A p \in loading' : p \in loading \/ \E y \in {x} : Clears(y, p) BY <1>1
<1> QED BY <1>1, <1>5, <1>6, <1>7, SpawnedKeeps

\* Loads that start with a flag of their panel clear it.
LEMMA LoadClears ==
  ASSUME NEW k \in {"status", "start", "stop", "config", "save", "ensure", "certinfo", "list",
                    "create"}
  PROVE  /\ Load(k) \in TaskSet /\ Brings(Load(k))'
         /\ k \in {"status", "start", "stop"} => Clears(Load(k), "server")
         /\ k \in {"config", "save"} => Clears(Load(k), "config")
         /\ k \in {"ensure", "certinfo"} => Clears(Load(k), "cert")
         /\ k \in {"list", "create"} => Clears(Load(k), "tokens")
<1>1. PICK x : x = Load(k) OBVIOUS
<1>2. k \in Kinds BY DEF Kinds
<1>3. x \in TaskSet /\ x.kind = k /\ x.arg = << >> /\ (k \notin Aside => ~x.done)
  BY <1>1, <1>2, LoadFields
<1>4. Brings(x)' BY <1>3, BringsNothing DEF Aside
<1> QED BY <1>1, <1>3, <1>4 DEF Clears, ClearedBy

LEMMA ConfigKeyKeeps ==
  ASSUME AppInv, ConfigKey
  PROVE  AppInv'
<1>1. /\ UNCHANGED worldVars /\ UNCHANGED tokensVars /\ UNCHANGED qrVars
      /\ UNCHANGED <<running, screen, status, ticks>>
  BY DEF ConfigKey
<1>2. TokensOK' /\ status' \in {Unknown, Stopped} \cup 0 .. MaxClients
  BY <1>1, Stays DEF AppInv, LoopOK
<1>3. \/ \E k \in {"save", "config"} : Press(k) /\ Starts("config", Load(k))
      \/ Press("ensure") /\ Starts("cert", Load("ensure"))
  BY DEF ConfigKey
<1>4. CASE \E k \in {"save", "config"} : Press(k) /\ Starts("config", Load(k))
  <2>1. PICK k \in {"save", "config"} : Press(k) /\ Starts("config", Load(k)) BY <1>4
  <2>2. PICK x : x = Load(k) OBVIOUS
  <2>3. x \in TaskSet /\ Brings(x)' /\ Clears(x, "config") BY <2>2, LoadClears
  <2>4. script' \in Seq(KeyName) BY <2>1, Pressed
  <2>5. Starts("config", x) /\ "config" \in Panel BY <2>1, <2>2 DEF Panel
  <2> QED BY <1>1, <1>2, <2>3, <2>4, <2>5, StartsKeeps
<1>5. CASE Press("ensure") /\ Starts("cert", Load("ensure"))
  <2>2. PICK x : x = Load("ensure") OBVIOUS
  <2>3. x \in TaskSet /\ Brings(x)' /\ Clears(x, "cert") BY <2>2, LoadClears
  <2>4. script' \in Seq(KeyName) BY <1>5, Pressed
  <2>5. Starts("cert", x) /\ "cert" \in Panel BY <1>5, <2>2 DEF Panel
  <2> QED BY <1>1, <1>2, <2>3, <2>4, <2>5, StartsKeeps
<1> QED BY <1>3, <1>4, <1>5

LEMMA ServerKeyKeeps ==
  ASSUME AppInv, ServerKey
  PROVE  AppInv'
<1>1. PICK k \in {"start", "stop", "status"} :
        /\ Press(k) /\ Starts("server", Load(k))
        /\ status' = IF k = "start" /\ status = Stopped THEN Unknown ELSE status
  BY DEF ServerKey
<1>2. /\ UNCHANGED worldVars /\ UNCHANGED tokensVars /\ UNCHANGED qrVars
      /\ UNCHANGED <<running, screen, ticks>>
  BY DEF ServerKey
<1>3. TokensOK' /\ status' \in {Unknown, Stopped} \cup 0 .. MaxClients
  BY <1>1, <1>2, Stays DEF AppInv, LoopOK
<1>4. PICK x : x = Load(k) OBVIOUS
<1>5. x \in TaskSet /\ Brings(x)' /\ Clears(x, "server") BY <1>4, LoadClears
<1>6. script' \in Seq(KeyName) BY <1>1, Pressed
<1>7. Starts("server", x) /\ "server" \in Panel BY <1>1, <1>4 DEF Panel
<1> QED BY <1>2, <1>3, <1>5, <1>6, <1>7, StartsKeeps

\* The screens are a ring.
LEMMA Neighbours ==
  ASSUME NEW s \in ToSet(Screen), NEW key
  PROVE  Neighbour(s, key) \in ToSet(Screen)
<1> DEFINE i == CHOOSE j \in DOMAIN Screen : Screen[j] = s
<1>1. /\ DOMAIN Screen = 1 .. 5 /\ Len(Screen) = 5
      /\ \A j \in 1 .. 5 : Screen[j] \in ToSet(Screen)
  BY DEF Screen, ToSet
<1>2. \E j \in DOMAIN Screen : Screen[j] = s BY DEF ToSet
<1>3. i \in 1 .. 5 BY <1>1, <1>2
<1>4. Neighbour(s, key) = IF key = "tab" THEN Screen[(i % 5) + 1] ELSE Screen[((i + 3) % 5) + 1]
  <2>1. Neighbour(s, key) = IF key = "tab" THEN Screen[(i % Len(Screen)) + 1]
                            ELSE Screen[((i + Len(Screen) - 2) % Len(Screen)) + 1]
    BY DEF Neighbour
  <2>2. i + 5 - 2 = i + 3 BY <1>3
  <2> QED BY <1>1, <2>1, <2>2
<1> HIDE DEF i
<1>5. (i % 5) + 1 \in 1 .. 5 /\ ((i + 3) % 5) + 1 \in 1 .. 5 BY <1>3
<1> QED BY <1>1, <1>4, <1>5

LEMMA Loads ==
  ASSUME NEW s \in ToSet(Screen)
  PROVE  /\ Entered(s) \subseteq Panel
         /\ \A p \in Panel : /\ LoadOf(p) \in TaskSet /\ Brings(LoadOf(p))'
                             /\ Clears(LoadOf(p), p)
<1>1. s \in {"dashboard", "config", "cert", "tokens", "server"} BY DEF ToSet, Screen
<1>2. Entered(s) \subseteq Panel BY <1>1 DEF Entered, Panel
<1>3. ASSUME NEW p \in Panel
      PROVE  LoadOf(p) \in TaskSet /\ Brings(LoadOf(p))' /\ Clears(LoadOf(p), p)
  <2>1. CASE p = "server"
    <3>1. LoadOf(p) = Load("status") BY <2>1 DEF LoadOf
    <3> QED BY <2>1, <3>1, LoadClears
  <2>2. CASE p = "tokens"
    <3>1. LoadOf(p) = Load("list") BY <2>2 DEF LoadOf
    <3> QED BY <2>2, <3>1, LoadClears
  <2>3. CASE p = "config"
    <3>1. LoadOf(p) = Load("config") BY <2>3 DEF LoadOf
    <3> QED BY <2>3, <3>1, LoadClears
  <2>4. CASE p = "cert"
    <3>1. LoadOf(p) = Load("certinfo") BY <2>4 DEF LoadOf
    <3> QED BY <2>4, <3>1, LoadClears
  <2> QED BY <1>3, <2>1, <2>2, <2>3, <2>4 DEF Panel
<1> QED BY <1>2, <1>3

LEMMA TransitionKeeps ==
  ASSUME AppInv, TransitionTo
  PROVE  AppInv'
<1>1. PICK key \in {"tab", "backtab"} : Press(key) /\ screen' = Neighbour(screen, key)
  BY DEF TransitionTo
<1>2. /\ UNCHANGED worldVars /\ UNCHANGED qrVars
      /\ UNCHANGED <<running, status, list, cursor>>
      /\ loading' = loading \cup Entered(screen')
      /\ tasks' = Spawned({LoadOf(p) : p \in Entered(screen')})
      /\ ticks' = IF screen' = "server" THEN 0 ELSE ticks
      /\ \/ form' = "browsing" /\ secret' = 0
         \/ form' = form /\ secret' = secret
  BY DEF TransitionTo
<1>3. LoopOK /\ TokensOK /\ minted \in Nat BY DEF AppInv, WorldOK
<1>4. PICK s : s = screen' OBVIOUS
<1>5. s \in ToSet(Screen) BY <1>1, <1>3, <1>4, Neighbours DEF LoopOK
<1>6. script' \in Seq(KeyName) BY <1>1, Pressed
<1>7. ticks' \in 0 .. Every - 1 BY <1>2, <1>3, AppAssumption DEF LoopOK
<1>8. TokensOK' BY <1>2, <1>3 DEF TokensOK, worldVars
<1>9. QrOK' /\ qrSeq' = qrSeq /\ overlay'.seq = overlay.seq /\ overlay'.token = overlay.token
  BY <1>2, Stays
<1>10. loading' = loading \cup Entered(s) /\ loading' \subseteq Panel
  BY <1>2, <1>3, <1>4, <1>5, Loads DEF LoopOK
<1>11. Later /\ (TasksOK' /\ FlagMeansTask' => AppInv')
  <2>1. status' \in {Unknown, Stopped} \cup 0 .. MaxClients BY <1>2, <1>3 DEF LoopOK
  <2>2. screen' \in ToSet(Screen) BY <1>4, <1>5
  <2> QED BY <1>2, <1>6, <1>7, <1>8, <1>9, <1>10, <2>1, <2>2, LoopKeeps
<1>12. PICK ts : ts = {LoadOf(p) : p \in Entered(s)} OBVIOUS
<1>13. tasks' = Spawned(ts) BY <1>2, <1>4, <1>12
<1>14. ts \in SUBSET TaskSet BY <1>5, <1>12, Loads
<1>15. ASSUME NEW x \in ts PROVE Brings(x)'
  <2>1. PICK p \in Entered(s) : x = LoadOf(p) BY <1>12
  <2>2. p \in Panel BY <1>5, Loads
  <2> QED BY <1>5, <2>1, <2>2, Loads
<1>16. ASSUME NEW p \in loading' PROVE p \in loading \/ \E x \in ts : Clears(x, p)
  <2>1. CASE p \in Entered(s)
    <3>1. LoadOf(p) \in ts /\ Clears(LoadOf(p), p) BY <1>5, <1>12, <2>1, Loads
    <3> QED BY <3>1
  <2> QED BY <1>10, <2>1
<1> QED BY <1>11, <1>13, <1>14, <1>15, <1>16, SpawnedKeeps

\* A key of the tokens' panel that starts nothing.
LEMMA TokensQuiet ==
  ASSUME AppInv, NEW key, Press(key), TokensOK', UNCHANGED worldVars, UNCHANGED qrVars,
         UNCHANGED <<running, screen, status, ticks, loading, tasks>>
  PROVE  AppInv'
<1>1. LoopOK BY DEF AppInv
<1>2. QrOK' /\ qrSeq' = qrSeq /\ overlay'.seq = overlay.seq /\ overlay'.token = overlay.token
  BY Stays
<1>3. script' \in Seq(KeyName) BY Pressed
<1>4. Later /\ (TasksOK' /\ FlagMeansTask' => AppInv')
  BY <1>1, <1>2, <1>3, LoopKeeps DEF LoopOK
<1> QED BY <1>4, SameKeeps

LEMMA TokensKeyKeeps ==
  ASSUME AppInv, TokensKey
  PROVE  AppInv'
<1>1. /\ UNCHANGED worldVars /\ UNCHANGED qrVars /\ UNCHANGED <<running, screen, status, ticks>>
  BY DEF TokensKey
<1>2. \/ Press("cursor") /\ MoveCursor
      \/ Press("form") /\ OpenForm
      \/ Press("revoke") /\ Revoke
      \/ Press("reload") /\ Reload
      \/ Press("forget") /\ ForgetSecret
      \/ Press("submit") /\ Submit
      \/ Press("cancel") /\ CancelForm
  BY DEF TokensKey
<1>3. TokensOK /\ LoopOK /\ minted \in Nat /\ minted' = minted
  BY <1>1 DEF AppInv, WorldOK, worldVars
<1>4. CASE Press("cursor") /\ MoveCursor
  <2>1. /\ UNCHANGED <<loading, list, form, secret, tasks>> /\ list # << >>
        /\ cursor' \in {(cursor + 1) % Len(list), (cursor + Len(list) - 1) % Len(list)}
    BY <1>4 DEF MoveCursor
  <2>2. PICK n : n = Len(list) OBVIOUS
  <2>3. n \in Nat /\ n > 0 BY <1>3, <2>1, <2>2 DEF TokensOK
  <2>4. cursor \in 0 .. n - 1 BY <1>3, <2>1, <2>2 DEF TokensOK
  <2>5. (cursor + 1) % n \in 0 .. n - 1 /\ (cursor + n - 1) % n \in 0 .. n - 1 BY <2>3, <2>4
  <2>6. cursor' \in 0 .. Len(list) - 1 BY <2>1, <2>2, <2>5
  <2>7. TokensOK' BY <1>3, <2>1, <2>6 DEF TokensOK
  <2> QED BY <1>1, <1>4, <2>1, <2>7, TokensQuiet
<1>5. CASE Press("form") /\ OpenForm
  <2>1. UNCHANGED <<loading, tasks>> /\ TokensOK' BY <1>3, <1>5 DEF OpenForm, TokensOK
  <2> QED BY <1>1, <1>5, <2>1, TokensQuiet
<1>6. CASE Press("revoke") /\ Revoke
  <2>1. PICK n : n = list[cursor + 1] OBVIOUS
  <2>2. /\ Starts("tokens", Task("revoke", <<n>>)) /\ secret' = 0 /\ cursor < Len(list)
        /\ UNCHANGED <<list, cursor, form>>
    BY <1>6, <2>1 DEF Revoke
  <2>3. n \in Nat
    <3>1. list \in Seq(1 .. minted) /\ cursor \in Nat /\ Len(list) \in Nat
      BY <1>3 DEF TokensOK
    <3>2. cursor + 1 \in 1 .. Len(list) BY <2>2, <3>1
    <3>3. list[cursor + 1] \in 1 .. minted BY <3>1, <3>2, ElementOfSeq
    <3> QED BY <2>1, <3>3
  <2>4. PICK x : x = Task("revoke", <<n>>) OBVIOUS
  <2>5. x \in TaskSet /\ x.kind = "revoke"
    <3>1. PICK a : a = <<n>> OBVIOUS
    <3>2. a \in Seq(Nat) /\ "revoke" \in Kinds BY <2>3, <3>1 DEF Kinds
    <3>3. x = Task("revoke", a) BY <2>4, <3>1
    <3> QED BY <3>2, <3>3, TaskFields
  <2>6. Brings(x)' BY <2>5, BringsNothing
  <2>7. Clears(x, "tokens") /\ "tokens" \in Panel BY <2>5 DEF Clears, ClearedBy, Panel
  <2>8. TokensOK' BY <1>3, <2>2 DEF TokensOK
  <2>9. script' \in Seq(KeyName) BY <1>6, Pressed
  <2>10. status' \in {Unknown, Stopped} \cup 0 .. MaxClients BY <1>1, <1>3 DEF LoopOK
  <2>11. Starts("tokens", x) BY <2>2, <2>4
  <2> QED BY <1>1, <2>5, <2>6, <2>7, <2>8, <2>9, <2>10, <2>11, StartsKeeps
<1>7. CASE (Press("reload") /\ Reload) \/ (Press("submit") /\ Submit)
  <2>1. PICK k \in {"list", "create"} : Starts("tokens", Load(k)) BY <1>7 DEF Reload, Submit
  <2>2. UNCHANGED tokensVars BY <1>7 DEF Reload, Submit
  <2>3. PICK x : x = Load(k) OBVIOUS
  <2>4. x \in TaskSet /\ Brings(x)' /\ Clears(x, "tokens") BY <2>3, LoadClears
  <2>5. Starts("tokens", x) /\ "tokens" \in Panel BY <2>1, <2>3 DEF Panel
  <2>6. TokensOK' BY <1>1, <2>2, Stays
  <2>7. script' \in Seq(KeyName) BY <1>7, Pressed
  <2>8. status' \in {Unknown, Stopped} \cup 0 .. MaxClients BY <1>1, <1>3 DEF LoopOK
  <2> QED BY <1>1, <2>4, <2>5, <2>6, <2>7, <2>8, StartsKeeps
<1>8. CASE Press("forget") /\ ForgetSecret
  <2>1. UNCHANGED <<loading, tasks>> /\ TokensOK' BY <1>3, <1>8 DEF ForgetSecret, TokensOK
  <2> QED BY <1>1, <1>8, <2>1, TokensQuiet
<1>9. CASE Press("cancel") /\ CancelForm
  <2>1. UNCHANGED <<loading, tasks>> /\ TokensOK' BY <1>3, <1>9 DEF CancelForm, TokensOK
  <2> QED BY <1>1, <1>9, <2>1, TokensQuiet
<1> QED BY <1>2, <1>4, <1>5, <1>6, <1>7, <1>8, <1>9

LEMMA ShowQrKeeps ==
  ASSUME AppInv, ShowQr
  PROVE  AppInv'
<1>1. /\ secret # 0 /\ qrSeq' = qrSeq + 1
      /\ overlay' = [Closed EXCEPT !.phase = "generating", !.seq = qrSeq', !.token = secret]
      /\ tasks' = Spawned({Task("qr", <<qrSeq', secret>>)})
      /\ UNCHANGED worldVars /\ UNCHANGED tokensVars
      /\ UNCHANGED <<running, screen, loading, status, ticks>>
  BY DEF ShowQr
<1>2. /\ LoopOK /\ TokensOK /\ QrOK /\ minted \in Nat /\ minted' = minted /\ qrSeq \in Nat
  BY <1>1 DEF AppInv, WorldOK, worldVars, QrOK
<1>3. secret \in 1 .. minted BY <1>1, <1>2 DEF TokensOK
<1>4. PICK n : n = qrSeq' OBVIOUS
<1>5. n \in Nat /\ n \in 1 .. n BY <1>1, <1>2, <1>4
<1>6. PICK k : k = secret OBVIOUS
<1>7. k \in 1 .. minted /\ k \in 0 .. minted /\ k \in Nat BY <1>2, <1>3, <1>6
<1>8. overlay' \in Overlays(n, minted) /\ overlay'.phase = "generating"
      /\ overlay'.seq = n /\ overlay'.token = k
  <2>0. PICK c : c = Closed OBVIOUS
  <2>1. c \in Overlays(n, minted) BY <1>2, <1>5, <2>0, ClosedOK
  <2>2. overlay' = [c EXCEPT !.phase = "generating", !.seq = n, !.token = k]
    BY <1>1, <1>4, <1>6, <2>0
  <2>3. n \in 0 .. n BY <1>5
  <2> QED BY <1>7, <2>1, <2>2, <2>3 DEF Overlays
<1>9. QrOK' BY <1>2, <1>4, <1>5, <1>8 DEF QrOK, OverlayShowsItsOwn, Watched
<1>10. TokensOK' BY <1>1, Stays
<1>11. script' \in Seq(KeyName) BY Pressed DEF ShowQr
<1>12. Later /\ (TasksOK' /\ FlagMeansTask' => AppInv')
  <2>1. overlay'.seq = qrSeq' BY <1>4, <1>8
  <2> QED BY <1>1, <1>2, <1>9, <1>10, <1>11, <2>1, LoopKeeps DEF LoopOK
<1>13. PICK x : x = Task("qr", <<n, k>>) OBVIOUS
<1>14. x \in TaskSet /\ x.kind = "qr" /\ x.arg = <<n, k>>
  <2>1. PICK a : a = <<n, k>> OBVIOUS
  <2>2. a \in Seq(Nat) /\ "qr" \in Kinds BY <1>5, <1>7, <2>1 DEF Kinds
  <2>3. x = Task("qr", a) BY <1>13, <2>1
  <2>4. x \in TaskSet /\ x.kind = "qr" /\ x.arg = a BY <2>2, <2>3, TaskFields
  <2> QED BY <2>1, <2>4
<1>15. x.arg[1] = n /\ x.arg[2] = k /\ Len(x.arg) = 2 BY <1>14
<1>16. Brings(x)'
  <2>1. /\ x.arg[1] \in 1 .. qrSeq' /\ x.arg[2] \in 1 .. minted'
        /\ x.arg[1] = overlay'.seq => x.arg[2] = overlay'.token
    BY <1>2, <1>4, <1>5, <1>7, <1>8, <1>15
  <2> QED BY <1>14, <1>15, <2>1 DEF Brings
<1>17. tasks' = Spawned({x}) /\ {x} \in SUBSET TaskSet /\ \A y \in {x} : Brings(y)'
  BY <1>1, <1>4, <1>6, <1>13, <1>14, <1>16
<1>18. \A p \in loading' : p \in loading \/ \E y \in {x} : Clears(y, p) BY <1>1
<1> QED BY <1>12, <1>17, <1>18, SpawnedKeeps

----------------------------------------------------------------------------
LEMMA AppStarts ==
  ASSUME AppInit
  PROVE  AppInv
<1>0. MaxClients \in Nat /\ Every \in Nat \ {0} /\ Scripts \subseteq Seq(KeyName)
  BY AppAssumption
<1>1. WorldOK /\ clients <= peak
  <2>1. << >> \in Seq(1 .. 0) OBVIOUS
  <2> QED BY <1>0, <2>1 DEF AppInit, WorldOK
<1>2. LoopOK
  <2>1. "dashboard" \in ToSet(Screen) BY DEF ToSet, Screen
  <2>2. 0 \in 0 .. Every - 1 BY <1>0
  <2>3. /\ running = TRUE /\ screen = "dashboard" /\ loading = Panel /\ status = Unknown
        /\ ticks = 0 /\ script \in Scripts
    BY DEF AppInit
  <2> QED BY <1>0, <2>1, <2>2, <2>3 DEF LoopOK
<1>3. TokensOK
  <2>1. << >> \in Seq(1 .. 0) OBVIOUS
  <2> QED BY <2>1 DEF AppInit, TokensOK
<1>4. QrOK
  <2>1. qrSeq = 0 /\ overlay = Closed /\ minted = 0 BY DEF AppInit
  <2>2. overlay \in Overlays(qrSeq, minted) /\ overlay.phase = "closed" BY <2>1, ClosedOK
  <2> QED BY <2>1, <2>2 DEF QrOK, OverlayShowsItsOwn, Watched
<1>5. PICK ts : ts = {Load("status"), Load("config"), Load("list"), Load("certinfo")} OBVIOUS
<1>6. tasks = SetToBag(ts) BY <1>5 DEF AppInit
<1>7. IsABag(tasks) /\ AtWork = ts BY <1>6 DEF IsABag, BagToSet, SetToBag, AtWork
<1>8. \A k \in {"status", "config", "list", "certinfo"} :
        /\ Load(k) \in TaskSet /\ Load(k).kind = k /\ Load(k).arg = << >>
        /\ k \notin Aside => ~Load(k).done
  BY LoadFields DEF Kinds
<1>9. ts \subseteq TaskSet BY <1>5, <1>8
<1>10. ASSUME NEW k \in {"status", "config", "list", "certinfo"}
       PROVE  Brings(Load(k))
  <2>1. PICK x : x = Load(k) OBVIOUS
  <2>2. x.kind = k /\ x.arg = << >> /\ (k = "list" => ~x.done) BY <1>8, <2>1 DEF Aside
  <2> QED BY <2>1, <2>2 DEF Brings, QrTask
<1>11. TasksOK BY <1>5, <1>7, <1>9, <1>10 DEF TasksOK, AtWork, TaskSet
<1>12. \A p \in Panel : \E x \in ts : Clears(x, p)
  <2>1. Clears(Load("status"), "server") /\ Clears(Load("config"), "config")
    BY <1>8 DEF Clears, ClearedBy
  <2>2. Clears(Load("list"), "tokens") /\ Clears(Load("certinfo"), "cert")
    BY <1>8 DEF Clears, ClearedBy
  <2> QED BY <1>5, <2>1, <2>2 DEF Panel
<1>13. FlagMeansTask
  <2>1. loading = Panel BY DEF AppInit
  <2> QED BY <1>7, <1>12, <2>1 DEF FlagMeansTask, Clears, AtWork
<1> QED BY <1>1, <1>2, <1>3, <1>4, <1>11, <1>13 DEF AppInv

LEMMA AppSteps ==
  ASSUME AppInv, [AppNext]_appVars
  PROVE  AppInv'
<1>1. CASE Others \/ DrainEnds \/ Launched \/ Rest BY <1>1, WorldKeeps
<1>2. CASE Tick BY <1>2, TickKeeps
<1>3. CASE Quit BY <1>3, QuitKeeps
<1>4. CASE CloseOverlay BY <1>4, CloseOverlayKeeps
<1>5. CASE TransitionTo BY <1>5, TransitionKeeps
<1>6. CASE ConfigKey BY <1>6, ConfigKeyKeeps
<1>7. CASE ServerKey BY <1>7, ServerKeyKeeps
<1>8. CASE TokensKey BY <1>8, TokensKeyKeeps
<1>9. CASE ShowQr BY <1>9, ShowQrKeeps
<1>10. CASE \E t \in AtWork : Work(t) \/ Apply(t) BY <1>10, WorkKeeps, MessagesKeep
<1>11. CASE UNCHANGED appVars
  <2>1. UNCHANGED worldVars /\ UNCHANGED tokensVars /\ UNCHANGED qrVars
        /\ UNCHANGED <<script, running, screen, loading, status, ticks, tasks>>
    BY <1>11 DEF appVars
  <2>2. LoopOK /\ WorldOK /\ clients <= peak BY DEF AppInv
  <2>3. TokensOK' /\ QrOK' /\ qrSeq' = qrSeq /\ overlay'.seq = overlay.seq
        /\ overlay'.token = overlay.token
    BY <2>1, Stays
  <2>4. Later /\ (TasksOK' /\ FlagMeansTask' => AppInv') BY <2>1, <2>2, <2>3, LoopKeeps DEF LoopOK
  <2> QED BY <2>1, <2>4, SameKeeps
<1> QED BY <1>1, <1>2, <1>3, <1>4, <1>5, <1>6, <1>7, <1>8, <1>9, <1>10, <1>11
    DEF AppNext, Key, AtWork

\* The panel's state has its type: above all the overlay's number and token are ones there
\* were, the cursor is on a token of the list, and what a task brings is of its kind.
THEOREM PanelTypeCorrect == AppSpec => []AppTypeOK
<1>1. AppInit => AppInv BY AppStarts
<1>2. AppInv /\ [AppNext]_appVars => AppInv' BY AppSteps
<1>3. AppInv => AppTypeOK BY AppInvType
<1> QED BY <1>1, <1>2, <1>3, PTL DEF AppSpec

\* An overlay shows a code or a failure only of the task it spawned and the token it was
\* opened for (the seq guard of update.rs).
THEOREM OverlayIsItsOwn == AppSpec => []OverlayShowsItsOwn
<1>1. AppInit => AppInv BY AppStarts
<1>2. AppInv /\ [AppNext]_appVars => AppInv' BY AppSteps
<1>3. AppInv => OverlayShowsItsOwn BY DEF AppInv, QrOK
<1> QED BY <1>1, <1>2, <1>3, PTL DEF AppSpec

\* An overlay says Connected only of a daemon that at some time had more clients than when
\* its code was built (check_overlay_connection).
THEOREM ConnectedIsMore == AppSpec => []ConnectedMeansMore
<1>1. AppInit => AppInv BY AppStarts
<1>2. AppInv /\ [AppNext]_appVars => AppInv' BY AppSteps
<1>3. AppInv => ConnectedMeansMore
  <2>1. SUFFICES ASSUME AppInv, overlay.phase = "connected" PROVE peak > overlay.built
    BY DEF ConnectedMeansMore
  <2>2. overlay.built < peak BY <2>1 DEF AppInv, QrOK, Watched
  <2> QED BY <2>2
<1> QED BY <1>1, <1>2, <1>3, PTL DEF AppSpec

\* Whatever flags a message of another panel clears, one that is set has a task or message
\* under way that will clear it (the loading flags of update.rs).
THEOREM FlagsHaveTasks == AppSpec => []FlagMeansTask
<1>1. AppInit => AppInv BY AppStarts
<1>2. AppInv /\ [AppNext]_appVars => AppInv' BY AppSteps
<1>3. AppInv => FlagMeansTask BY DEF AppInv
<1> QED BY <1>1, <1>2, <1>3, PTL DEF AppSpec

=============================================================================
