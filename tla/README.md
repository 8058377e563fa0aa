# Verification of muxrd and muxrctl

TLA+ models of `muxrd`, the gRPC server that relays terminal sessions of zellij
and herdr to mobile clients, of the commands that manage it, and of its control
panel `muxrctl`; TLC configurations that check them on small instances, and
TLAPS proofs of what matters most for every instance. Paths below are relative
to `src/muxrd/src/` unless they begin with `muxrctl/`. `PROJECT.json` maps each
definition to the lines it stands for, and lists hazards, mutants and findings.

    tlc -workers 2 -config LayoutQuery.cfg MCLayoutQuery.tla
    tlapm LayoutQueryProofs.tla

## 1. The system

| Component | State | Operations | Modelled in |
|---|---|---|---|
| relay: RPC `attach_relay` (`relay/mod.rs`) | task, guards, entries it inserts | open, count, start reader, insert view and route, unwind | RelayLifecycle |
| relay: inbound loop (`relay/inbound.rs`) | control channel, its own view state | input, commands, layout queries, token check, teardown | LayoutQuery, RelayLifecycle, RelayControl, HerdrSpaces, HerdrWire |
| relay: reader thread (`relay/reader.rs`) | in-flight slot, stop flag, bounded channel | receive, capture Logs, forward frames, exit | LayoutQuery, RelayLifecycle |
| client count (`client_count.rs`) | attached clients by session | attach, drop of the guard | RelayLifecycle |
| control routing (`grpc/helpers.rs`, `multiplexer/routing.rs`) | none; reads the registries | match exactly, fall back, reject | RelayControl, HerdrSpaces |
| layout RPC (`grpc/layout.rs`) | none; reads registries and view | query a relay, time out, fall back, override | LayoutRpc, LayoutQuery, RelayControl |
| tab and pane RPCs (`grpc/tab_ops.rs`, `pane_ops.rs`) | none | through the relay, or one backend call | RelayControl, UnaryCalls, HerdrRegistry |
| space RPCs (`grpc/space_ops.rs`) | none; reads and moves views | list, switch, create, rename, close | HerdrSpaces, UnaryCalls (rename) |
| session RPCs (`grpc/session_ops.rs`) | none | fan out over both backends, create, kill, rename | UnaryCalls |
| tokens (`auth.rs`, `grpc/token_ops.rs`) | token database | log in, check, create, list, revoke | UnaryCalls, RelayLifecycle (the relay's own check) |
| zellij backend (`multiplexer/zellij.rs`, `actions.rs`, `query.rs`, `ipc.rs`) | one connection each | attach stream, one-shot actions and queries | LayoutQuery, ZellijSession, UnaryCalls |
| herdr registries (`multiplexer/herdr/registry.rs`) | two maps of ids | assign, look up | HerdrRegistry |
| herdr control client (`multiplexer/herdr/control.rs`) | none | layout query, calls on panes, tabs, workspaces | HerdrRegistry, HerdrSpaces, UnaryCalls |
| herdr relay (`multiplexer/herdr/relay.rs`, `wire.rs`) | current terminal and workspace, stream | handshake, input, switch, focus, re-attach | HerdrRegistry (which terminal), HerdrWire (the frames) |
| herdr backend (`multiplexer/herdr/backend.rs`) | none | resolve names and focus, sessions, spaces | HerdrSpaces, UnaryCalls |
| daemon, control socket, detection (`bin/muxrd.rs`, `control.rs`, `multiplexer/detect.rs`) | pidfile, socket, process | probe, start, serve, status, stop, clean up | DaemonControl |
| certificates (`tls.rs`, parts of `config.rs`) | three files | load or make, regenerate | Pairing |
| panel (`muxrctl/src/app`, `tui/runner.rs`, `server`) | screen state, tasks under way | keys, ticks, results, daemon, tokens, QR | MuxrctlApp, Pairing |
| screens, protocol definition, example clients, packaging | none | drawing, encoding | not modelled |

How they interact. A mobile client opens `AttachTerminal`; the RPC opens the
backend, starts a **reader thread** that pumps the multiplexer's messages into a
bounded channel, puts the relay into two registries, `ControlRegistry` and
`ViewStateRegistry`, and leaves an **inbound task** behind. Unary RPCs (GoToTab,
FocusPane, GetLayout, SwitchSpace...) look a relay up by session and
`connection_id`, clone its sender, and send; all others work on a thread of the
blocking pool, over a connection of their own to the multiplexer. The inbound
task hands a layout query to the reader, which recognises the answer among all
that comes in, without any tag. Herdr queries are made of calls to its own
daemon, and share the id registries. `muxrd start`, `status` and `stop` know of
one another by a pidfile and a socket only. `muxrctl` runs those commands, reads
the token database and the certificate files, and posts what it finds to its one
loop.

What is hard in it: three threads of control per relay with one another's
channels; teardown that joins a thread which may be blocked; cancellation of an
RPC at each of its awaits; registry look-ups whose result is used after the lock
is released; answers without tags; queries of several calls over a daemon that
changes meanwhile, and that desktop clients share; frames written in pieces
under a timeout; calls that give up on work which goes on; files that any of
several processes may remove or rewrite; results that return in any order.

What makes each part correct:

- *Layout query*: a snapshot is made of tabs and panes of one query; nobody who
  waits is forgotten; a query armed on a drained connection gets its own answer.
- *Relay life*: counts, registries and threads agree on every path out; every
  attach that should end does.
- *Control*: a command moves nobody else's view on a shared session (which fails
  in one case, section 4), does not go where it will be dropped, and is seen by the
  next layout.
- *Spaces*: only the caller's relay moves; what was acknowledged stands; the last
  space is not closed by one who saw it was the last.
- *Herdr ids and frames*: an id keeps its meaning for ever; a relay shows the
  space and the terminal it records.
- *Short calls*: only writers change anything; a listing shows what runs as running
  and what is saved as that, in bounded time; an acknowledgement is of the action it
  was asked for.
- *Daemon and certificate*: one daemon, reachable by both files; a stop ends what
  it reached; what a phone pinned is served, also after a restart, and is valid for
  the address it dials, as far as the panel could know.
- *Panel*: a result shown is of what it was asked for; nothing loads for ever.

## 2. The modules

Each module begins with what it models; each action names the function or the
branch it stands for. `MC...` modules give the constants of the runs, `...Proofs`
modules hold the theorems.

**LayoutRpc** is what the `GetLayout` calls of a relay are promised: a call asks,
a query is fired, and the call ends, once, with tabs and panes of one query or
without. **LayoutQuery** (one relay, many calls, zellij) implements it: its
`Promise == INSTANCE LayoutRpc WITH ...` maps the many places a query may be in to
"asked". `ctrl`, `armed` and `slot` are the control channel, the hand-off channel
and the reader's in-flight slot; `script` is every request ever fired at the
multiplexer, of which `answered` are answered and `taken` received. `ArmQuery` and
`FireQuery` are the two halves of `handle_query_layout`, in that order; `Drain`,
`BeforeRecv`, `RecvLog`, `AfterRecv`, `CaptureLog` follow `render_loop` from one
`drain_queries` to the next; `Deregister`, `Shutdown` and `Join` are the end of the
inbound loop. `clean` remembers which queries were armed with nothing outstanding
(history).

**RelayLifecycle** (several attaches). `task` is where the RPC, then the inbound
task, is; `outlet` says who holds the receiving end of the frame channel.
Every await is a state of its own, where `Cancel` may drop the future; locals
are dropped in the reverse order of their declaration, as in Rust.

**RelayControl** (relays and the calls that route to them). A call goes
`Begin` (lookup), `Send` (after the registry is released), and for a layout
`Answered` or `GiveUp`, then `ReadView`. `ViewAfter` is what the control arms do
to the view; a relay may be `asking` its own layout query, for a toggle without a
hint, and then takes nothing else. `put`, `done`, `since`, `asof` are sets of commands
(history).

**HerdrRegistry** (threads that query layouts, calls that name panes by id, relays
that re-attach, and the herdr daemon). `AssignPane` and `AssignTab` are the two
`assign_or_get`. A layout query takes `ListTabs`, `ListPanes`, `PaneLayout` for
each tab, then one registry call a step (`Register`, `DrawTab`, `DrawPane`).
`SwitchSpace`/`GoToTab` list panes likewise and end in `Reattach`, which records
nothing if anything failed. The numeric limits `u32::MAX` and `u64::MAX` are the
constants `MaxPaneId`, `MaxTabId`.

**HerdrSpaces** (calls, relays and a desktop over the workspaces of one herdr).
`open` and `focus` are herdr's. An attach resolves its workspace
(`Attach`), and reads the initial view from another resolution; each step of
GetSpaces, SwitchSpace (with its 18 s timeout), CreateSpace and CloseSpace is one
call to herdr or one message to a relay, and `Desktop` may move the focus or close
between any two. A tab command goes through `try_route_control` (`TabRelays`): under
the bare id, which only a server of herdr alone accepts and which is not taken for
that of a collapsed session, it falls back on any writable relay of the session, and
without one on herdr itself, whose focus it moves (`FocusTab`). `idOf` is the id of
each client. `drifted`, `saw`, `closes` remember what the exceptions of the properties
are about (history).

**HerdrWire** (one attach at herdr's binary socket). `frame` is being written,
`pieces` of its two are in the socket; a write may time out before its first byte
or in the middle (`failed`). The handshake of `open_attach`, the frames of the
inbound task, the reader's end and the guard's clone of the sender are actions.

**ZellijSession** (one zellij session and the short connections to it).
`send_action` and `query_session` must attach before they are answered, so each
connection carries the terminator of the attach before that of the action, which
`armed` tells apart. The external server serves them in order, sizes the session to its
smallest client, and may hang or end.

**UnaryCalls** (`ListSessions` and the calls without a relay). `Auth` checks the
bearer and its scope as two reads of the database; then the work is done on a
thread of the blocking pool, which goes on when the caller has given up. A listing
asks zellij in two steps, for the sessions that run (`ReadLive`) and then for those it
could resurrect (`ReadSaved`), and keeps of the latter those that were not among the
former; herdr answers with its one session, or with an error. `did`, `granted`, `seen`,
`steady`, `starved` are history. Sessions and labels are reduced to one name and another.

**DaemonControl** (runs of `muxrd start`, and of `status` and `stop`). A start
probes for backends, then every file operation is a step of its own. `hasty`
remembers that the operator did not wait for what went before (history).

**Pairing** (certificate files and the QR). A certificate is the number of its
making. `disk` has the three files; daemons, `muxrd init` and the Cert screen look
at them (`LookAndLoad`, `LookAndMake`) and write them (`Write`), one after another, in
`Order`, and each write may fail. The Cert screen asks for the host typed on the Config
screen and for what the panel's snapshot holds (`ScreenNames`), which is filled only when
a load that read the config and the machine's address some time before is told
(`ReadConfig`, `ConfigLoaded`): its keys wait for no load. `qr` takes its address from the
config and the machine as they are by then, and its pin from the file. `cert` is what the
Cert screen shows and what it was asked with. `torn` remembers what makers that failed were asked for, until one writes the
files to the end; `overlap`, that two makers were at it at once (history).

**MuxrctlApp** (the panel). `tasks` is the bag of tasks and messages under way;
`Work` is what a task does outside, `Apply` what the loop does with its message.
What the user does is a script of keys; a script "rests" until tasks are over and
otherwise runs on without waiting, so that results come in any order. A daemon that was
stopped drains for a while, and answers nobody while it does.

*Composition.* Modules meet where the code's parts do. LayoutQuery is one relay of
RelayLifecycle in its `serving` state, and `Leave`/`DropChannel` are the latter's
`Deregister`...`Join`. What RelayControl calls `Answered` is a call of LayoutRpc
that ends. A space's terminal is HerdrRegistry's, its way to the screen
HerdrWire's, and the relay that switches HerdrSpaces'. The token check of
RelayLifecycle is the one of UnaryCalls, whose revocations end attaches. The
daemon that MuxrctlApp starts is one of DaemonControl's, and its certificate one
of Pairing's. A composition in one state space would multiply what the parts share
only as values, and the refinement is the one place where a module relies on
another's promise.

## 3. Runs

| Run | Instance | Properties |
|---|---|---|
| `layout_query` | 2 calls, 2 stray messages | NeverTorn, CleanQueriesOwnTheirLogs, NoOrphanedReply, KeepsPromise (refinement, with its liveness) |
| `relay_lifecycle` | 1 attach, channel of 2, 4 messages | CountIsExact, RunningIsCounted, NothingLeftBehind, RevocationEnds, SessionEndEnds |
| `relay_lifecycle_cancel` | the same, 2 messages | violates DroppedGuardTearsDown |
| `relay_control` | a writer, an observer, 3 calls, both backends | RoutedToWritable, ReadYourWrites |
| `relay_control_bare` | the same on a server of herdr alone, with its bare id | violates OnlyOwnView |
| `herdr_relay` | 2 spaces, 3 panes, 2 ids, a query, a relay; or 2 terminals, 2 sizes, a socket of 3 pieces | RefsResolve, ResolvedInItsSpace, ShowsWhatIsRecorded, FramesStayWhole |
| `herdr_spaces` | 3 spaces, 4 calls, a relay, a desktop, two ids | NobodyElseIsMoved, ViewMatchesSpace, AcknowledgedSwitchStands, RepointedOff, ClosesLeaveOne |
| `zellij_session` | an action, a query, a writer, an observer | AckIsOfTheAction, CallsShrinkNothing, QueriesEnd |
| `unary_calls` | a listing, 2 calls, 3 tokens, 2 threads | OnlyWritersDo, NoPhantoms, HealthyIsShown, ListsEnd |
| `daemon_control` | a daemon, a foreground server, 2 commands | ServingIsReachable, OneDaemon, StopsEnd |
| `pairing` | 2 daemons, 1 other maker, 1 QR, 1 change, 2 failures | ScansConnect, PinsOutliveRestarts, PanelKeepsNames, DialedIsCovered, TornPairsAreRedone |
| `muxrctl_app` | 156 scripts of keys, 1 client | OverlayShowsItsOwn, ConnectedMeansMore, FlagMeansTask, StatusHeals |

Every module states a `TypeOK` (`WireTypeOK`, `SessionTypeOK`, `AppTypeOK`), which the
runs leave to the proofs of section 5. Deadlock is not checked: calls, attaches,
processes and tries are used up, or a backend hangs, and the system rightly stops.

*Bounds and why they are enough.*

- `layout_query`: two calls meet in every way the code tells apart (queued
  behind, replacing, following one that timed out); the first may be asked and
  lag, which leaves two Logs for the second. `MaxNoise` bounds messages that are
  not Logs. What holds of three is covered by the proofs.
- `relay_lifecycle`: with a channel of two and four messages it fills, drains and
  fills again, so that every send may block. `MaxMessages` bounds what the
  multiplexer sends unasked. Attaches share nothing but the count, and the proofs
  are for any number.
- `relay_control`: one writer and one read-only observer are the two kinds of
  relay a fallback can confuse; two calls of the writer are the command and the
  layout after it, the observer's third is in their way (`Does`). Ids are those
  with a prefix, on either backend; `relay_control_bare` has the other, and the proofs
  have all.
- `herdr_relay` is two instances in one, of HerdrRegistry and of HerdrWire: they share no
  state, and a behaviour is one of either (`part`). Of the first: two panes of a tab, one of another space, and one id too few.
  `AtStart` are the panes open from the start and `Closing` those that may close,
  each once: a space may be empty, a listed pane gone and a drawn one unlisted.
  Of the second: with three pieces the socket fills in the middle of a frame.
  `MaxWrites` bounds the frames after the handshake, `MaxTrouble` what herdr does
  wrong.
- `herdr_spaces`: a client's first call switches or closes, its second does
  anything; a writer without a relay and a reader are the two others that must
  not be moved or move. `Moves` bounds the desktop. All clients use the one id or all the
  other (`Spellings`). Under the bare one the other writer's tab command moves herdr's
  focus in place of the desktop, and the reader makes no call (`Bounded`, the constraint
  of the run): with both, it would not end within minutes. The proofs have neither bound,
  and any mixture of ids.
- `zellij_session`: one action, and one query, which is the observer's; `Noisy`
  and `MaxNoise` give the action's connection one message of no interest, `Limit`
  is what is read at most; `MaxResize` bounds the writer's coming and resizing.
- `unary_calls`: two threads for three callers, so that one may starve; one
  token for each scope and one to be created; `MaxTrouble` bounds what happens outside:
  that a session ends or is saved, a backend fails, a client gives up.
- `daemon_control`: one start of each kind, which a crash of the other's server may
  precede, and two commands that meet over their files; any server may crash at any
  moment.
- `pairing`: `Tries` bounds how often each maker begins; two daemons make a
  restart, one other maker and a failure are one exception each; a second failure adds
  to what the first left. One change is of what is typed, of the panel's snapshot or of
  the machine's address (two addresses, each as good as the other: `Either`), besides the
  panel's first load, which may come at any time. No `--san` is given, the environment
  names none, the wildcard is the only host nobody can dial, and no QR is told to trust a
  CA (`Trusts`); the proofs are for any of these.
- `muxrctl_app`: `Scripts` are all keys of a length in the two panels that spawn
  tasks, after what brings the panel there, and visits to the overlay and the
  others; `Every` is the ticks between two polls.

*Fairness.* LayoutQuery: the RPC's send, the inbound loop, the reader and the
server's answers each weakly fair; there is none on the 18 s timeout, or
the end of calls that KeepsPromise asserts would hold for that reason alone, and
none on a client leaving. RelayLifecycle: tokio runs tasks that can run and the OS
threads (RPC, inbound, reader); the client goes on reading or hangs up, sees the
end of a stream, and the transport then drops it. No fairness on a client leaving
early, a revocation or the end of a session. That a client which stops reading
without hanging up can hold up a teardown follows from `blocking_send`, and is why
the client's reading is assumed. ZellijSession: a call goes on, and its deadline
passes; none on the server, which may hang. UnaryCalls: one weak fairness for each
listing, of its own steps, the timers it waits on and the threads that take its tasks
together; none on a backend's answer.
DaemonControl: processes that were started run to their end, a drain included
(open streams come to an end); nobody has to start or crash. MuxrctlApp: the loop
ticks, and tasks end, polls and others each as a group; the user need not press
anything.

*External behaviour assumed.* zellij answers ListTabs and ListPanes in order,
one Log each, and closes or goes on (an error message in place of a Log is one
of the other messages); it serves a connection in order, ends each message with
UnblockInputThread, and sizes a session to its smallest client. In herdr a pane has
one terminal for its life, does not move between tabs, and its id is not used
again; a tab in a list has a pane; closing the focused workspace moves the focus.
Tokens may be revoked at any time, clients may leave at any time.

*Mutants.* Each property of a passing run has, before the definition it changes,
an alternative "A plausible bug: ..." under which the run violates it.

## 4. Findings

**A cancelled attach can leave its thread for ever** (`relay/mod.rs:363`; run
`relay_lifecycle_cancel`). The comment on the guard says its drop "tears the reader
thread down deterministically". If the client leaves while the initial view is read
(`mod.rs:398`), the guard is dropped before the frame channel's receiver, of the
same future; a reader in `blocking_send` on a full channel is never woken, and the
join, in a drop on a runtime thread, never returns.

**Under its bare id herdr's shared session is not taken for one**
(`multiplexer/routing.rs:69`; run `relay_control_bare`). Clients of one herdr share its one
session, so "any mutating per-connection control routing on a collapsed session MUST
therefore require an exact `connection_id` match and drop the session-scoped fallback"
(`routing.rs:64-66`). The test asks for the prefix `herdr:`; a server of herdr alone also
takes the bare `herdr`, for which the fallback is kept. A client whose command comes
without a connection id, or after its relay has gone, moves the view of another's relay.
HerdrSpaces has the same case, where NobodyElseIsMoved excepts it; the proofs say that it
is the only one, and that it never reaches a read-only relay.

Disagreements met while modelling for which no run is kept. Where a property
is about one, it is named, and says what holds otherwise:

*Relays and routing*
- `relay/mod.rs:107-109` says a timed-out query can never have a later one's Logs
  misattributed; `reader.rs:263-271` names the window where it can, and the model
  agrees with the latter (NeverTorn and CleanQueriesOwnTheirLogs remain).
- FocusPane of a pane of another tab leaves `active_tab` as it was, while the
  layout takes the focused pane to be in it.
- `relay/reader.rs:360-362` calls the resize at the end a no-op; it has the
  dimensions of the attach, which may have changed since. The doc of `open_attach`
  speaks of a Detach "for both modes", a writer's is a Resize.
- `relay/mod.rs:219-225`: read-only attaches "must NOT drive geometry", but attach
  at a size asked for before, which may be the smaller one by then.
- RenameSession leaves the registries and the client count under the old id.
- `space_ops.rs:303`: "when the **caller's own** connection was
  viewing the just-closed space we re-point its relay"; a caller that never
  switched has no `current_space` (`relay/helpers.rs:46`) and is not (RepointedOff).

*Short calls*
- `actions.rs:46` documents ACK_TIMEOUT as a bound; `send_action` sets no timeout on
  its connection and may wait for ever (QueriesEnd is of queries alone).
- A create that finds a stale socket is acknowledged though no session came up
  (`actions.rs:466`, 571); a herdr call whose read times out is an error though it
  was applied; an RPC that is cancelled still performs its action.
- `session_ops.rs:40`: "one unreachable backend must not blind the client to the
  other"; with every thread of the blocking pool taken, it does (`starved`).
- `backend.rs:173`: an ambiguous label "only arises from out-of-band herdr usage";
  two concurrent creates, or RenameSpace, make one too.
- A layout query of herdr can erase a pane's terminal: a pane that opened after
  `pane.list` is registered with an empty one, over the one a relay registered in
  between (`multiplexer/herdr/control.rs:590`, RefsResolve allows none).

*Daemon and certificate*
- `status` can remove a starting daemon's pidfile: it reads none, the daemon writes
  it, and `cleanup_stale` removes it (`bin/muxrd.rs:770-789`; `hasty`). `stop` removes
  it 300 ms after its request even from a daemon that still drains.
- zellij is probed twice (`bin/muxrd.rs:115`, and in `start`); one that goes in between
  ends a start for which herdr would do ("serve ALL detected backends").
- The accept loop has no read timeout: a silent peer holds up every status and stop
  (`control.rs:195`).
- `tls.rs` does not know the config's `cert_dir`, which the panel reads. The pin of a QR
  is said to be "of the cert the running server actually serves"
  (`muxrctl/src/server/mod.rs:305`) and is the file's; makers that overlap leave
  mismatched files, a first making that crashes an empty key that is loaded for ever.
- `AdvertiseTrust` says `Auto` with a DNS host leans toward Ca; the code pins.
- The Cert screen loads the config on entry "so that `build_sans_from_config` has real
  interface addresses even when the user navigates directly to the Cert screen"
  (`muxrctl/src/app/update.rs:197-199`), but `g` and `r` wait only for the certificate: pressed
  before that load has come, or after it failed, they ask for a certificate without the
  addresses a QR then names. DialedIsCovered holds of the addresses the panel could know:
  it excepts those of a config not yet loaded, and a bind address or an address of the
  machine that has changed since; makers that fail or meet, too.

*Panel*
- `update.rs:250` "guarded so only one query is in flight at a time": the guard is
  cleared by results of other tasks. `update.rs:494` "`r`: reload fingerprint only." is
  followed by EnsureCert.

## 5. Proofs

For every value of the constants, under the assumptions on them that each module
names, and the runs evaluate (`QueryAssumption` in LayoutQuery, `RegistryAssumption`
in HerdrRegistry, and so on). Every inductive invariant was checked by TLC on the
instance of the run before it was proved.

**LayoutQueryProofs**, for any number of calls and stray messages.
- `TypeCorrect`: `Spec => []TypeOK`.
- `SnapshotsAreNeverTorn`: `Spec => []NeverTorn`. NeverTorn speaks of the answers
  only and is not inductive. The invariant `IInv` adds how Logs are numbered: a
  panes request directly follows its own tabs request (`PanesFollowTheirTabs`),
  because they are fired by one action; the Log the reader holds is the last one
  received (`HandIsLastTaken`); the tabs Log in the slot is the last one matched
  (`TabsAreLastMatched`). So the next Log captured is the very next request's, and
  if it parses as panes, it is of the same query (`AnswersAdjacent`). Each action
  has a lemma.
- `NoReplyIsOrphaned`: `Spec => []NoOrphanedReply`, by `WInv`. Its part
  `Whereabouts` says that a query in the relay was sent (`QueuedAreSent`), and that one
  in the control channel is there once and was not armed before (`ControlIsApart`,
  `ControlHasNoCopies`), without which a step that takes a query out of one place
  could not be told to leave it nowhere else.
- `CleanQueriesAreAnswered`: `Spec => []CleanQueriesOwnTheirLogs`, by `CInv`: one
  query is between arming and firing at most (`OneFiring`); a query armed at Log n
  with nothing outstanding fires n + 1 and n + 2 (`CleanFired`); while it waits to
  be taken up nothing beyond n is received for another (`CleanArmed`), and in the
  slot only its own are (`CleanHeld`, `CleanAnswered`).
- `RelayKeepsPromise`: `Spec => Promise!Spec`, that every step of the relay is a
  step of LayoutRpc or a stutter under the mapping. That calls end, the fairness of
  LayoutRpc, is checked by TLC (KeepsPromise).

**HerdrProofs**, of HerdrRegistry and HerdrWire, whose names it keeps apart by a prefix
(`WireSpec`, `WireTypeOK`).
- `TypeCorrect`: `Spec => []TypeOK`. The type of the terminal a relay takes from
  a pane id rests on the registry knowing every id that was shown, so it is
  proved together with the next one.
- `RefsAlwaysResolve`: `Spec => []RefsResolve`. `Inv` adds that no pane has the
  id to be given out next unless it is the last one (`PaneIdsAreFresh`), that an
  id which is not the last leads back to its pane and to its terminal or none
  (`PaneIdsLeadBack`), and that what clients were shown still stands
  (`ShownIdsStand`). `AssignPaneKeeps` is the lemma on `assign_or_get` that
  carries it.
- `ResolvedAlways`: `Spec => []ResolvedInItsSpace`, from `ListsAreOfTheirSpace`:
  what a thread has listed is of the workspace it works on, and it has listed
  nothing before it asks.

- `WireTypeCorrect` (WireTypeOK), `WholeFrames` (FramesStayWhole), `RecordedIsShown`
  (ShowsWhatIsRecorded), for any terminals, sizes, socket and number of frames. Unless a
  write was torn, the half herdr has read, what is in the socket and the frame being
  written are one stream of whole frames (`StreamIsWhole`, with `Alternate`,
  `BeginsWhole` and `EndsWhole` for its middle and two ends). The terminal herdr will
  show when it has read all of it is the target of the last attach in it
  (`LeadsToTarget`, `Target`): it is that one the relay records when its write returns.

**AttachProofs**, of RelayLifecycle, for any number of attaches and any bound of the
channel, and of ZellijSession (`SessionSpec`), for any calls, clients and sizes.
- `TypeCorrect`, `CountAlwaysExact`, `RunningAlwaysCounted`,
  `NothingEverLeftBehind`, `RoutableAlwaysHasView`: `[]` of TypeOK, CountIsExact,
  RunningIsCounted, NothingLeftBehind and RoutableHasView. One invariant carries
  the five: the count is the cardinality of a finite set (`Counted`, with
  `CountAttach` and `CountDetach` for the two ends of a guard); where an attach is
  in the registries follows from where its task is (`Listed`: RoutableHasView
  alone does not tell why a view is there when the route is entered); and a thread
  runs only for an attach that holds its guard (`Held`). That the count is a
  number, part of TypeOK, follows from its being exact.
- `SessionTypeCorrect` (SessionTypeOK), `AcknowledgesTheAction` (AckIsOfTheAction),
  `OthersDecideTheSize` (CallsShrinkNothing). Terminators carry no tag, so the invariant
  counts them, those read (`armed`) and those in the inbox: none before the server has
  finished with the attach (`BeforeAttached`), one at most before it has done the action
  (`BeforeActed`), which it does once (`ActsOnce`); and a refusal's LogError is read or
  lies ahead of the second (`BlamesRefusals`). So the second that `send_action` reads
  is the action's. The size is the smallest of those attached, and a call is attached at
  Neutral or not at all (`Geometry`), so that one of the others is the smallest if there
  is one; that there is a smallest rests on the order of the naturals being well-founded
  (`MinFacts`).

**RelayControlProofs**, for any relays, clients, calls and ids.
- `TypeCorrect`, `WritableAlways` (RoutedToWritable), `LayoutsAreFresh`
  (ReadYourWrites). `Routes` keeps what the lookup promised of the relay a call
  holds, which nobody looks at again when the command is sent (`Route`), and tells
  commands from layouts by their stages. `InOrder` is why a layout is not from
  before a command: every command a relay was sent is done, being asked about, or
  ahead in its channel (`AllPutAreBelow`), and what a client had put when it asked
  for a layout is ahead of that query wherever the query has come to
  (`SinceIsAhead`), hence done when the relay has taken it (`SinceIsDone`).

**UnaryCallsProofs**, for any calls, tokens, workspaces and threads of the pool.
- `TypeCorrect`, `WritersOnly` (OnlyWritersDo), `NoPhantomsEver` (NoPhantoms),
  `HealthyAreShown` (HealthyIsShown). `Granted` says of a call how far its token
  has been seen: no token is valid again, so one found able to write when its scope
  is read was so when the bearer was, though it may be revoked by now; and work is
  queued only behind the gate. `Listing` says that what a listing was given, as running or as saved, was
  that during it, that a zellij session is given one way only, for the second look leaves
  out what the first has found (`Reads`), and that what was there all along is either given to it
  when its task ends, or was skipped for want of a thread.

**HerdrSpacesProofs**, for any workspaces, clients, relays and calls.
- `TypeCorrect`, `NobodyElse` (NobodyElseIsMoved), `ViewsMatch` (ViewMatchesSpace),
  `SwitchesStand` (AcknowledgedSwitchStands), `CallersAreOff` (RepointedOff) and the
  action property `CloseOfLast` (ClosesLeaveOne), from `Typed /\ AllGood`. A channel
  holds each command once, of its own client or a tab command that may stray there
  (`MayGo`), and a switch that was acknowledged has been taken (`Channelled`), so the only acknowledged switch that may have to stand is the
  one taken last, where the relay is (`Moved`). What a call closed is gone for good
  (`ClosedIsGone`), and it is to open workspaces only that a step takes a relay. What
  a call counted stands until something is closed (`CountStands`), which needs that
  workspaces are told apart (`Distinct`). A step is described once by what it leaves
  to those it is not about (`CallFrame`, `ChannelFrame`, `MovedFrame`, `SeesFrame`).

**PairingProofs**, for any names, hosts, makers and failures.
- `TypeCorrect`, `QrsConnect` (ScansConnect), `PinsOutlive` (PinsOutliveRestarts),
  `NamesKept` (PanelKeepsNames), `AddressIsCovered` (DialedIsCovered) and the action
  property `TornAreRedone` (TornPairsAreRedone). Whatever makers meet or fail, the
  certificate on disk is the one served, empty, or the operator's (`DiskIsServed`), and
  a QR under way was made for one daemon, told from the next by its number
  (`QrHolds`). While they do not meet, the names on disk never cover what is being
  written or what was left torn (`PairOf`, `TornHolds`), so that only whole pairs are
  loaded; while they do not fail either, what was made last is on disk
  (`LastIsOnDisk`), and all that was made since the last daemon is the operator's
  (`OnlyForNames`), so that a daemon which makes one was asked for a new name. The Cert
  screen asks for every address that its panel would advertise then, and the whole
  certificate it ends with, made or found, is for all of them (`CertHolds`).

**OperatorProofs**, of DaemonControl, for any servers, in the foreground or not, and any
commands; and of MuxrctlApp, for any script of keys, clients and ticks between polls.
- `TypeCorrect`, `Reachable` (ServingIsReachable), `OneOnly` (OneDaemon). Both speak
  of an operator who waits, and so does the invariant, `Orderly`: one start or one
  command is under way, not both (`OneAtATime`); a start found a daemon that serves or
  none, and past its check there is none, for the one there might be would have
  answered (`StartFinds`, `UnansweredStart`); a command that cleans up does so after
  daemons that are gone or leaving (`CommandFinds`); and the pidfile is that of the
  daemon until it leaves, the socket until it drains (`FilesLead`). The last is why a
  status that reads the two files one after the other deletes neither of a daemon that
  works. `AliveStep`, `StarterStep`, `BootStep` and `CommandStep` are the four ways a
  step may go.

- `PanelTypeCorrect`, `OverlayIsItsOwn` (OverlayShowsItsOwn), `ConnectedIsMore`
  (ConnectedMeansMore), `FlagsHaveTasks` (FlagMeansTask). The invariant `AppInv` says what
  a task of each kind was given or brings (`Brings`): counts of clients there were, tokens
  there were, and, for the tasks of a QR, a number that was given out and, if it is the
  overlay's, the overlay's token. Numbers only grow, so this outlives overlays that are
  closed and opened (`Later`, `BringsLater`). The baseline of an overlay is the count its
  code was built with (`Watched`), and every count brought is at most `peak`. A flag that
  stays set after a message is one the message was not among the tasks of (`FlagsTold`,
  `ReplacedKeeps`); a task that works becomes one that stands for the same flags
  (`WorkDone`). `ReplacedHolds` and `SpawnedHolds` are the lemmas about the bag.

Only model-checked: liveness (KeepsPromise with its fairness, SessionEndEnds,
RevocationEnds, QueriesEnd, ListsEnd, StopsEnd, StatusHeals), which with ENABLED is beyond
the prover. Every invariant and every other action property that a passing run checks is also a
theorem. No module declares a RECURSIVE operator.

## 6. Not modelled

- The contents of frames, geometry and titles of layouts, message texts and
  logging; the JSON and wire encodings, the fields of messages and the limit on a
  frame's size; the encoding of pairing codes: data without a protocol.
- Screens, the protocol definition, the example clients, packaging.
- The names, sizes and scroll positions of tabs and panes, so that renaming,
  resizing and scrolling are calls that change nothing.
- The precedence of settings and the guard on clear-text binds (`config.rs`): pure
  functions of what is read once. The socket paths of herdr, likewise.
- The remembered trust override of the panel (`muxrctl/src/server/ctl_state.rs`), and
  the text typed into its forms, but for the host.
- The `token` subcommands of `muxrd`, one call of the store each, which UnaryCalls
  has; a peer of the control socket that connects and is silent.
- The cryptography of certificates and tokens, tonic, tokio, the zellij crates and
  the herdr daemon are external, modelled by what the code relies on.

Real time is abstracted to timeouts that may fire whenever they are set.

## 7. What is left

Theorems worth adding: a second refinement. LayoutRpc is the only promise stated apart
from the module that keeps it; what an attach promises its client (one relay at most,
the registries as they were once it is over) and what a session of zellij promises its
calls could be stated the same way, and AttachProofs has most of the invariant each
would need.

Of the hazards, nine have no property (see `PROJECT.json`). Two are out of the models: a relay whose active tab was
closed by CloseTab, and a silent peer of the control socket. The others happen in them, and
the property that comes nearest excepts what the code does: a focus that moves during an
attach, the close of the last space by two calls, a torn frame, a stale promotion of the
QR overlay, starts and status that race, and a client that neither reads nor leaves.
