---------------------------- MODULE MuxrctlApp ----------------------------
(***************************************************************************)
(* The control panel (muxrctl/src/app/update.rs, tui/runner.rs): one loop  *)
(* that applies messages to its state and spawns tasks, each of which asks *)
(* or changes the world outside and posts one message back.  Tasks run at  *)
(* the same time and post when they end, in any order.                     *)
(*                                                                         *)
(* Left out: the text typed into the forms, what the config and cert       *)
(* panels show, the trust mode (see Pairing).                              *)
(***************************************************************************)
EXTENDS Naturals, Sequences, Bags, FiniteSets, SequencesExt

CONSTANTS
  Unknown,   \* status: nothing fetched
  Stopped,   \* status: known not to run
  Every,     \* ticks between two polls: 20 in the code
  Scripts,   \* bound: what the user does, key by key, and when others act
  MaxClients \* bound: the clients attached to the daemon

KeyName == {"tab", "backtab", "save", "config", "ensure", "start", "stop", "status",
            "cursor", "form", "submit", "cancel", "revoke", "reload", "forget", "qr",
            "close", "quit",
            "rest",     \* no key, until every task is over
            "clients",  \* no key: a client attaches to the daemon or leaves it,
            "daemon"}   \* no key: others start or stop the daemon, or it crashes

ASSUME AppAssumption ==
  /\ Every \in Nat \ {0} /\ MaxClients \in Nat
  /\ Scripts \subseteq Seq(KeyName)
  /\ Unknown # Stopped /\ {Unknown, Stopped} \cap Nat = {}

Panel  == {"server", "config", "tokens", "cert"}
Screen == <<"dashboard", "config", "cert", "tokens", "server">>   \* Screen::ALL

VARIABLES
  daemon,    \* the daemon: "down", "up", or "draining" after stop's Shutdown
  clients,   \* those attached to it
  peak,      \* the most there ever were (history)
  launches,  \* `muxrd start` children that have yet to act
  db,        \* the token database: names, oldest first
  minted,    \* tokens ever created, whose numbers are their names
  script,    \* the keys still to be pressed
  running,   \* the loop has not quit
  screen,
  loading,   \* the panels whose loading flag is set
  status,    \* server.status and server.stopped: a client count, or one of the above
  ticks,     \* server.tick_counter
  list,      \* tokens.tokens
  cursor,    \* tokens.cursor, from 0
  form,      \* tokens.form_phase
  secret,    \* last_minted_secret: the token's name, or 0
  qrSeq,     \* qr_seq
  overlay,   \* qr_overlay
  tasks      \* tasks at work, and the messages posted and not yet applied

worldVars  == <<daemon, clients, peak, launches, db, minted>>
tokensVars == <<list, cursor, form, secret>>
qrVars     == <<qrSeq, overlay>>
appVars == <<worldVars, script, running, screen, loading, status, ticks,
          tokensVars, qrVars, tasks>>

----------------------------------------------------------------------------
\* A task, or with `done` the message it has posted.
Task(kind, arg)    == [kind |-> kind, done |-> FALSE, arg |-> arg]
Message(kind, arg) == [kind |-> kind, done |-> TRUE, arg |-> arg]

Spawned(ts) == tasks (+) SetToBag(ts)
Replaced(t, ts) == (tasks (-) SetToBag({t})) (+) SetToBag(ts)

Aside == {"config", "save", "ensure", "certinfo"}

Load(kind) == IF kind \in Aside THEN Message(kind, <<>>) ELSE Task(kind, <<>>)

Closed == [phase |-> "closed", seq |-> 0, token |-> 0, baseline |-> 0, ticks |-> 0,
           shows |-> 0, shownToken |-> 0, built |-> 0]

IsOpen == overlay.phase # "closed"

AppInit ==
  /\ daemon = "up" /\ clients = 0 /\ peak = 0
  /\ launches = 0 /\ db = <<>> /\ minted = 0 
  /\ script \in Scripts
  /\ running = TRUE /\ screen = "dashboard"
  /\ loading = Panel /\ status = Unknown /\ ticks = 0
  /\ list = <<>> /\ cursor = 0 /\ form = "browsing" /\ secret = 0
  /\ qrSeq = 0 /\ overlay = Closed
  /\ tasks = SetToBag({Load("status"), Load("config"), Load("list"), Load("certinfo")})

\* What comes next in the script.
Press(key) ==
  /\ running /\ script # <<>> /\ key = Head(script)
  /\ script' = Tail(script)

----------------------------------------------------------------------------
(* The world outside.                                                      *)

Others ==
  /\ \/ /\ Press("clients") /\ daemon = "up"
        /\ clients' \in {clients - 1, clients + 1} \cap 0 .. MaxClients
        /\ UNCHANGED daemon
     \/ /\ Press("daemon") /\ daemon = "up"
        /\ daemon' \in {"draining", "down"} /\ clients' = 0
     \/ /\ Press("daemon") /\ daemon = "down"
        /\ daemon' = "up"
        /\ UNCHANGED clients
  /\ peak' = IF clients' > peak THEN clients' ELSE peak
  /\ UNCHANGED <<launches, db, minted, running, screen, loading, status, ticks,
                 tokensVars, qrVars, tasks>>

DrainEnds ==
  /\ daemon = "draining" /\ daemon' = "down"
  /\ UNCHANGED <<clients, peak, launches, db, minted, script, running, screen,
                 loading, status, ticks, tokensVars, qrVars, tasks>>

\* The child of start_daemon: while a daemon answers it refuses, and while one drains it
\* may find the port taken.
Launched ==
  /\ launches > 0 /\ launches' = launches - 1
  /\ daemon' \in IF daemon = "draining" THEN {"draining", "up"} ELSE {"up"}
  /\ UNCHANGED <<clients, peak, db, minted, script, running, screen,
                 loading, status, ticks, tokensVars, qrVars, tasks>>

----------------------------------------------------------------------------
(* The tasks of apply_actions.  Those of the config and cert panels touch   *)
(* nothing that is modelled: that they have posted is told from their      *)
(* being at work by nothing, and they are spawned as good as posted.       *)

\* status(): without an answer, None; a daemon that drains answers no more.
StatusNow == IF daemon = "up" THEN <<clients>> ELSE <<>>

Posts(t, kind, arg) == tasks' = Replaced(t, {Message(kind, arg)})

LoopVars == <<script, running, screen, loading, status, ticks, tokensVars, qrVars>>

ReadStatus(t) ==
  /\ t.kind = "status"
  /\ Posts(t, "status", StatusNow)
  /\ UNCHANGED <<worldVars, LoopVars>>

\* start_daemon spawns and does not wait; a status follows half a second later.
StartServer(t) ==
  /\ t.kind = "start"
  /\ launches' = launches + 1
  /\ tasks' = Replaced(t, {Load("status")})
  /\ UNCHANGED <<daemon, clients, peak, db, minted, LoopVars>>

\* stop: the daemon answers the shutdown before it has drained.
StopServer(t) ==
  /\ t.kind = "stop" /\ daemon = "up"
  /\ daemon' = "draining" /\ clients' = 0
  /\ Posts(t, "status", <<>>)
  /\ UNCHANGED <<peak, launches, db, minted, LoopVars>>

ListTokens(t) ==
  /\ t.kind = "list"
  /\ Posts(t, "list", db)
  /\ UNCHANGED <<worldVars, LoopVars>>

CreateToken(t) ==
  /\ t.kind = "create"
  /\ minted' = minted + 1 /\ db' = Append(db, minted')
  /\ Posts(t, "created", <<minted'>>)
  /\ UNCHANGED <<daemon, clients, peak, launches, LoopVars>>

\* A token that is not there is no error.
RevokeToken(t) ==
  /\ t.kind = "revoke"
  /\ db' = RemoveFirst(db, t.arg[1])
  /\ Posts(t, "changed", <<>>)
  /\ UNCHANGED <<daemon, clients, peak, launches, minted, LoopVars>>

\* Any of these may fail; a stop does without an answer.
TaskFails(t) ==
  /\ t.kind \in {"start", "stop", "list", "create", "revoke"}
  /\ Posts(t, "failed", <<>>)
  /\ UNCHANGED <<worldVars, LoopVars>>

\* build_token_qr_task: is_running; then trust, or no certificate; the clients last.
BeginQr(t) ==
  /\ t.kind = "qr"
  /\ IF daemon = "up" THEN tasks' = Replaced(t, {Task("qrBuild", t.arg)})
     ELSE Posts(t, "qrFailed", t.arg)
  /\ UNCHANGED <<worldVars, LoopVars>>

BuildQr(t) ==
  /\ t.kind = "qrBuild"
  /\ \/ Posts(t, "qrReady", Append(t.arg, IF daemon = "up" THEN clients ELSE 0))
     \/ Posts(t, "qrFailed", t.arg)
  /\ UNCHANGED <<worldVars, LoopVars>>

Work(t) ==
  /\ ~t.done
  /\ \/ ReadStatus(t) \/ StartServer(t) \/ StopServer(t) \/ ListTokens(t) \/ CreateToken(t) \/ RevokeToken(t) \/ TaskFails(t)
     \/ BeginQr(t) \/ BuildQr(t)

----------------------------------------------------------------------------
(* update: the messages of tasks.                                          *)

Taken(m) == tasks' = Replaced(m, {})

\* check_overlay_connection.
Promoted(n) ==
  IF overlay.phase = "showing" /\ n > overlay.baseline
  THEN [overlay EXCEPT !.phase = "connected"] ELSE overlay

StatusLoaded(m) ==
  /\ m.kind = "status"
  /\ status' = IF m.arg = <<>> THEN Stopped ELSE m.arg[1]
  /\ loading' = loading \ {"server"}
  /\ overlay' = IF m.arg = <<>> THEN overlay ELSE Promoted(m.arg[1])
  /\ Taken(m)
  /\ UNCHANGED <<ticks, tokensVars, qrSeq>>

ConfigLoaded(m) ==
  /\ m.kind = "config"
  /\ loading' = loading \ {"config"}
  /\ Taken(m)
  /\ UNCHANGED <<status, ticks, tokensVars, qrVars>>

\* A plausible bug: the passive load leaves the flag to CertEnsured.
CertShown(m) ==
  /\ m.kind \in {"ensure", "certinfo"}
  /\ loading' = IF m.kind = "ensure" THEN loading \ {"cert"} ELSE loading
  /\ Taken(m)
  /\ UNCHANGED <<status, ticks, tokensVars, qrVars>>

CertLoaded(m) ==
  /\ m.kind \in {"ensure", "certinfo"}
  /\ loading' = loading \ {"cert"}
  /\ Taken(m)
  /\ UNCHANGED <<status, ticks, tokensVars, qrVars>>

\* ActionFailed and ActionOk, of whichever panel, clear every flag: of a save,
\* either way, and of any task that failed.
ActionEnded(m) ==
  /\ m.kind \in {"failed"} \cup Aside
  /\ loading' = {}
  /\ Taken(m)
  /\ UNCHANGED <<status, ticks, tokensVars, qrVars>>

TokensLoaded(m) ==
  /\ m.kind = "list"
  /\ list' = m.arg
  /\ cursor' = IF cursor < Len(list') THEN cursor
               ELSE IF list' = <<>> THEN 0 ELSE Len(list') - 1
  /\ loading' = loading \ {"tokens"}
  /\ Taken(m)
  /\ UNCHANGED <<status, ticks, form, secret, qrVars>>

TokenCreated(m) ==
  /\ m.kind = "created"
  /\ secret' = m.arg[1] /\ form' = "browsing"
  /\ loading' = loading \ {"tokens"}
  /\ tasks' = Replaced(m, {Load("list")})
  /\ UNCHANGED <<status, ticks, list, cursor, qrVars>>

TokensChanged(m) ==
  /\ m.kind = "changed"
  /\ secret' = 0
  /\ loading' = loading \ {"tokens"}
  /\ tasks' = Replaced(m, {Load("list")})
  /\ UNCHANGED <<status, ticks, list, cursor, form, qrVars>>

\* A plausible bug: whatever overlay is up takes the result.
ForOpenOverlay(m) == IsOpen

\* The result is of this overlay, not of one closed since.
ForThisOverlay(m) == IsOpen /\ overlay.seq = m.arg[1]

\* A plausible bug: the clients already there are not the baseline.
ShownAtOnce(m) ==
  [overlay EXCEPT !.phase = "showing", !.shows = m.arg[1],
                  !.shownToken = m.arg[2], !.built = m.arg[3]]

Shown(m) ==
  [overlay EXCEPT !.phase = "showing", !.baseline = m.arg[3], !.shows = m.arg[1],
                  !.shownToken = m.arg[2], !.built = m.arg[3]]

TokenQrEnded(m) ==
  /\ m.kind \in {"qrReady", "qrFailed"}
  /\ overlay' = IF ~ForThisOverlay(m) THEN overlay
                ELSE IF m.kind = "qrReady" THEN Shown(m)
                ELSE [overlay EXCEPT !.phase = "failed", !.shows = m.arg[1]]
  /\ Taken(m)
  /\ UNCHANGED <<loading, status, ticks, tokensVars, qrSeq>>

Apply(m) ==
  /\ running /\ m.done
  /\ \/ StatusLoaded(m) \/ ConfigLoaded(m) \/ CertLoaded(m) \/ ActionEnded(m)
     \/ TokensLoaded(m) \/ TokenCreated(m) \/ TokensChanged(m) \/ TokenQrEnded(m)
  /\ UNCHANGED <<worldVars, script, running, screen>>

----------------------------------------------------------------------------
(* update: ticks.                                                          *)

\* A plausible bug: the dashboard only shows what it read on entry.
ServerOnly(s) == s = "server"

Polled(s) == s \in {"server", "dashboard"}

\* handle_tick: the poll of the screen, else that of the overlay.
Tick ==
  /\ running
  /\ LET counting == Polled(screen) /\ "server" \notin loading
         polls    == counting /\ (ticks + 1) % Every = 0
         watching == overlay.phase = "showing" /\ "server" \notin loading /\ ~polls
         watches  == watching /\ (overlay.ticks + 1) % Every = 0 IN
     /\ ticks' = IF counting THEN (ticks + 1) % Every ELSE ticks
     /\ overlay' = IF watching THEN [overlay EXCEPT !.ticks = (@ + 1) % Every]
                   ELSE overlay
     /\ IF polls \/ watches
        THEN loading' = loading \cup {"server"} /\ tasks' = Spawned({Load("status")})
        ELSE UNCHANGED <<loading, tasks>>
  /\ UNCHANGED <<worldVars, script, running, screen, status, tokensVars, qrSeq>>

----------------------------------------------------------------------------
(* update: keys.                                                           *)

\* Ctrl-C, or q: the state is dropped, and tasks that post find no receiver; what
\* they still do to the world, others may do as well.
Quit ==
  /\ Press("quit")
  /\ running' = FALSE /\ screen' = "dashboard" /\ loading' = {} /\ status' = Unknown
  /\ ticks' = 0 /\ list' = <<>> /\ cursor' = 0 /\ form' = "browsing" /\ secret' = 0
  /\ qrSeq' = 0 /\ overlay' = Closed /\ tasks' = EmptyBag
  /\ UNCHANGED worldVars

\* The overlay takes every other key; Esc and q close it.
CloseOverlay ==
  /\ Press("close") /\ IsOpen
  /\ overlay' = Closed
  /\ UNCHANGED <<worldVars, running, screen, loading, status, ticks, tokensVars,
                 qrSeq, tasks>>

\* on_enter_screen: what is loaded, and the flags that say so.
Entered(s) ==
  CASE s = "dashboard"        -> Panel
    [] s \in {"config", "cert"} -> {"config"}
    [] OTHER                  -> {s}

LoadOf(p) == CASE p = "server" -> Load("status") [] p = "tokens" -> Load("list")
               [] p = "config" -> Load("config") [] p = "cert"   -> Load("certinfo")

\* Tab and BackTab: Screen::next, Screen::prev.
Neighbour(s, key) ==
  LET i == CHOOSE j \in DOMAIN Screen : Screen[j] = s
      n == Len(Screen) IN
  IF key = "tab" THEN Screen[(i % n) + 1] ELSE Screen[((i + n - 2) % n) + 1]

TransitionTo ==
  /\ ~IsOpen
  /\ \E key \in {"tab", "backtab"} : Press(key) /\ screen' = Neighbour(screen, key)
  /\ loading' = loading \cup Entered(screen')
  /\ tasks' = Spawned({LoadOf(p) : p \in Entered(screen')})
  /\ ticks' = IF screen' = "server" THEN 0 ELSE ticks
  /\ IF screen' = "tokens" THEN form' = "browsing" /\ secret' = 0
     ELSE UNCHANGED <<form, secret>>
  /\ UNCHANGED <<worldVars, running, status, list, cursor, qrVars>>

\* A key that starts a task of a panel which is not loading.
Starts(panel, t) ==
  /\ panel \notin loading
  /\ loading' = loading \cup {panel}
  /\ tasks' = Spawned({t})

\* config_save of a valid address and config_reload, the Cert keys g and r.
ConfigKey ==
  /\ ~IsOpen
  /\ \/ screen = "config" /\ \E k \in {"save", "config"} : Press(k) /\ Starts("config", Load(k))
     \/ screen = "cert" /\ Press("ensure") /\ Starts("cert", Load("ensure"))
  /\ UNCHANGED <<worldVars, running, screen, status, ticks, tokensVars, qrVars>>

ServerKey ==
  /\ ~IsOpen /\ screen = "server"
  /\ \E k \in {"start", "stop", "status"} :
       /\ Press(k) /\ Starts("server", Load(k))
       /\ status' = IF k = "start" /\ status = Stopped THEN Unknown ELSE status
  /\ UNCHANGED <<worldVars, running, screen, ticks, tokensVars, qrVars>>

\* Browsing: the cursor, c, d, r, Esc.
MoveCursor ==
  /\ list # <<>>
  /\ cursor' \in {(cursor + 1) % Len(list), (cursor + Len(list) - 1) % Len(list)}
  /\ UNCHANGED <<loading, list, form, secret, tasks>>

OpenForm ==
  /\ form' = "creating"
  /\ UNCHANGED <<loading, list, cursor, secret, tasks>>

Revoke ==
  /\ cursor < Len(list)
  /\ Starts("tokens", Task("revoke", <<list[cursor + 1]>>))
  /\ secret' = 0
  /\ UNCHANGED <<list, cursor, form>>

Reload == Starts("tokens", Load("list")) /\ UNCHANGED tokensVars

ForgetSecret == secret' = 0 /\ UNCHANGED <<loading, list, cursor, form, tasks>>

\* Creating: Enter, Esc.
Submit == Starts("tokens", Load("create")) /\ UNCHANGED tokensVars

CancelForm == form' = "browsing" /\ UNCHANGED <<loading, list, cursor, secret, tasks>>

TokensKey ==
  /\ ~IsOpen /\ screen = "tokens"
  /\ \/ /\ form = "browsing"
        /\ \/ Press("cursor") /\ MoveCursor
           \/ Press("form") /\ OpenForm
           \/ Press("revoke") /\ Revoke
           \/ Press("reload") /\ Reload
           \/ Press("forget") /\ ForgetSecret
     \/ /\ form = "creating"
        /\ \/ Press("submit") /\ Submit
           \/ Press("cancel") /\ CancelForm
  /\ UNCHANGED <<worldVars, running, screen, status, ticks, qrVars>>

\* Browsing, Enter: the overlay for the token just minted.
ShowQr ==
  /\ Press("qr") /\ ~IsOpen /\ screen = "tokens" /\ form = "browsing" /\ secret # 0
  /\ qrSeq' = qrSeq + 1
  /\ overlay' = [Closed EXCEPT !.phase = "generating", !.seq = qrSeq', !.token = secret]
  /\ tasks' = Spawned({Task("qr", <<qrSeq', secret>>)})
  /\ UNCHANGED <<worldVars, running, screen, loading, status, ticks, tokensVars>>

Rest ==
  /\ Press("rest") /\ tasks = EmptyBag
  /\ UNCHANGED <<worldVars, running, screen, loading, status, ticks, tokensVars,
                 qrVars, tasks>>

Key == \/ Rest \/ Quit \/ CloseOverlay \/ TransitionTo \/ ConfigKey \/ ServerKey \/ TokensKey \/ ShowQr

----------------------------------------------------------------------------
AppNext == \/ Others \/ DrainEnds \/ Launched \/ Tick \/ Key
           \/ \E t \in BagToSet(tasks) : Work(t) \/ Apply(t)

AppSpec == AppInit /\ [][AppNext]_appVars

\* Tasks of the blocking pool run and post, and the loop ticks and drains what is
\* posted; the polls, which never end, do not keep it from the rest.
IsPoll(t) == t.kind = "status"

AppFairness ==
  /\ WF_appVars(Tick)
  /\ \A poll \in BOOLEAN :
       WF_appVars(\E t \in BagToSet(tasks) : IsPoll(t) = poll /\ (Work(t) \/ Apply(t)))

FairAppSpec == AppSpec /\ AppFairness

----------------------------------------------------------------------------
Kinds == {"status", "start", "stop", "config", "save", "ensure", "certinfo", "list",
          "create", "revoke", "qr", "qrBuild", "failed", "created", "changed",
          "qrReady", "qrFailed"}

AppTypeOK ==
  /\ daemon \in {"down", "up", "draining"} /\ clients \in 0 .. MaxClients
  /\ peak \in 0 .. MaxClients /\ launches \in Nat
  /\ db \in Seq(1 .. minted) /\ minted \in Nat
  /\ script \in Seq(KeyName) /\ running \in BOOLEAN
  /\ screen \in ToSet(Screen) /\ loading \subseteq Panel
  /\ status \in {Unknown, Stopped} \cup 0 .. MaxClients
  /\ ticks \in 0 .. Every - 1
  /\ list \in Seq(1 .. minted) /\ form \in {"browsing", "creating"}
  /\ secret \in 0 .. minted
  /\ cursor \in IF list = <<>> THEN {0} ELSE 0 .. Len(list) - 1
  /\ qrSeq \in Nat
  /\ overlay \in [phase : {"closed", "generating", "showing", "connected", "failed"},
                  seq : 0 .. qrSeq, token : 0 .. minted, baseline : 0 .. MaxClients,
                  ticks : 0 .. Every - 1, shows : 0 .. qrSeq, shownToken : 0 .. minted,
                  built : 0 .. MaxClients]
  /\ IsABag(tasks) /\ BagToSet(tasks) \subseteq [kind : Kinds, done : BOOLEAN, arg : Seq(Nat)]

\* What the overlay shows, a code or a failure, was built for the token it was
\* opened for and by the task it spawned, however late the task of an overlay
\* closed before it posts (update.rs:150, the seq guard).
OverlayShowsItsOwn ==
  /\ overlay.phase \in {"showing", "connected", "failed"} => overlay.shows = overlay.seq
  /\ overlay.phase \in {"showing", "connected"} => overlay.shownToken = overlay.token

\* The overlay turns to Connected only if the daemon at some time had more
\* clients than when the code was built (check_overlay_connection).
ConnectedMeansMore == overlay.phase = "connected" => peak > overlay.built

\* The tasks and messages each flag waits for.
ClearedBy(p) == CASE p = "server" -> {"status", "start", "stop"}
                  [] p = "config" -> {"config", "save"}
                  [] p = "cert"   -> {"ensure", "certinfo"}
                  [] p = "tokens" -> {"list", "create", "created", "revoke", "changed"}

\* A flag is set only while a task or message that will clear it is under way,
\* though any message may clear flags of panels it knows nothing about: no
\* panel refuses keys for good.
FlagMeansTask ==
  \A p \in loading : \E t \in BagToSet(tasks) :
    t.kind \in ClearedBy(p) \cup {"save", "failed"}

\* A panel that is polled ends up showing the daemon as it is, once that no
\* longer changes, whatever stale statuses were under way meanwhile.
StatusHeals ==
  <>[](running /\ screen \in {"server", "dashboard"}) =>
    <>[](status = IF daemon = "up" THEN clients ELSE Stopped)

=============================================================================
