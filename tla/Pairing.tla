------------------------------- MODULE Pairing -------------------------------
(***************************************************************************)
(* The self-signed certificate and the QR that pins it (muxrd/src/tls.rs,  *)
(* bin/muxrd.rs, muxrctl/src/server/mod.rs, tui/runner.rs).  Three files   *)
(* hold the certificate, its key and the names it was made for; daemons,   *)
(* `muxrd init' and the panel's Cert screen all load them or make them     *)
(* anew, each on its own, one file after another.                          *)
(*                                                                         *)
(* A certificate is the number of its making, and a key that of its        *)
(* certificate.  Every process has the same environment and the default    *)
(* cert_dir; the machine has one address at a time; ports and tokens are   *)
(* left out.                                                               *)
(***************************************************************************)
EXTENDS Naturals, Sequences

CONSTANTS
  Host,      \* what bind_addr may name
  Wild,      \* hosts nobody can dial: 0.0.0.0 and the loopback
  Loopback,  \* of these, the loopback
  Dns,       \* names that are not addresses
  Env,       \* ZELLIMSERVER_SAN
  Interface, \* the addresses this machine may have (reachable_ipv4)
  Cli,       \* the lists of --san a user may give
  Modes,     \* bound: the transports a user asks for
  Trusts,    \* bound: the overrides of a QR's trust (AdvertiseTrust)
  Absent,    \* no such file, no such certificate
  Empty,     \* opened and not yet written
  Tries      \* bound: how often daemons, other makers and QRs begin, what the panel
             \* knows or the machine's address changes, writes fail

Maker == {"daemon",  \* muxrd start
          "side",    \* muxrd init, or a foreground start that finds the port taken
          "panel"}   \* the Cert screen
Mode == {"self", "external", "h2c"}   \* CertMode
Trust == {"auto", "ca", "pin"}

ASSUME PairingAssumption ==
  /\ Loopback \subseteq Wild /\ Wild \subseteq Host /\ Wild \cap (Dns \cup Env) = {}
  /\ Interface # {} /\ Interface \cap (Wild \cup Dns) = {}
  /\ Tries \in [{"daemon", "other", "qr", "change", "failure"} -> Nat] /\ Modes \subseteq Mode /\ Trusts \subseteq Trust
  /\ Absent # Empty /\ {Absent, Empty} \cap Nat = {} /\ Absent \notin Host \cup Env \cup Interface

VARIABLES
  disk,    \* server.crt, server.key, and the names in server.san.json
  made,    \* every certificate ever made: its names and its maker
  bind,    \* bind_addr of the config file
  addr,    \* the address the machine has
  typed,   \* the host on the Config screen
  snap,    \* the address the panel knows; with it, it knows the environment
  load,    \* load_config_snapshot, on its way to the panel
  cert,    \* the Cert screen: the certificate it shows, and for what it asked for it
  job,     \* load_or_generate_identity, as each maker goes through it
  daemon,  \* the daemon that serves, starts, or could not
  before,  \* what the daemon before it served (history)
  qr,      \* build_token_qr_task, and the QR it ends with
  left,    \* tries left
  overlap, \* two makers were at it at the same time (history)
  torn     \* the requests of makers that failed since the files were last written
           \* to the end (history)

panel == <<typed, snap, load>>
screen == <<addr, panel, cert>>
vars == <<disk, made, bind, screen, job, daemon, before, qr, left, overlap, torn>>

Idle == [at |-> "idle", step |-> 0, want |-> {}, crt |-> Absent, key |-> Absent]
NoCert == [crt |-> Absent, host |-> Absent, ip |-> Absent]
Down == [at |-> "down", n |-> 0, mode |-> "self", kept |-> {}, want |-> {},
         crt |-> Absent]
NoQr == [at |-> "idle", trust |-> "auto", host |-> Absent, peer |-> 0,
         pin |-> Absent]

Serving == daemon.at = "serving"
Concrete(h) == h \notin Wild
Take(x) == left[x] > 0 /\ left' = [left EXCEPT ![x] = @ - 1]

Init ==
  /\ disk = [crt |-> Absent, key |-> Absent, san |-> {}]
  /\ made = << >> /\ torn = {} /\ overlap = FALSE
  /\ bind \in Wild /\ addr \in Interface
  /\ typed = Absent /\ snap = Absent /\ cert = NoCert
  /\ load = [host |-> bind, ip |-> addr]  \* on entering its first screen
  /\ job = [p \in Maker |-> Idle]
  /\ daemon = Down /\ before = Absent /\ qr = NoQr
  /\ left = Tries

----------------------------------------------------------------------------
(* load_or_generate_identity.                                              *)

\* A plausible bug: any difference of the names makes the certificate anew.
CoversExactly(stored, want) == stored = want

\* sidecar_covers; a sidecar that is absent or cannot be parsed holds no name.
Covers(stored, want) == want \subseteq stored

\* A plausible bug: the names are written down before the certificate is.
NamesFirst == <<"san", "crt", "key">>

Order == <<"crt", "key", "san">>

Set(p, j) == job' = [job EXCEPT ![p] = j]

Begin(p, want) ==
  /\ job[p].at = "idle" /\ Take("other")
  /\ Set(p, [Idle EXCEPT !.at = "look", !.want = want])
  /\ overlap' = (overlap \/ \E q \in Maker \ {p} : job[q].at # "idle")

Usable(p) == /\ disk.crt # Absent /\ disk.key # Absent
             /\ Covers(disk.san, job[p].want)

LookAndLoad(p) ==
  /\ job[p].at = "look" /\ Usable(p)
  /\ Set(p, [job[p] EXCEPT !.at = "read", !.crt = disk.crt])
  /\ UNCHANGED <<disk, made, bind, screen, daemon, before, qr, left, overlap, torn>>

ReadKey(p) ==
  /\ job[p].at = "read"
  /\ Set(p, [job[p] EXCEPT !.at = "done", !.key = disk.key])
  /\ UNCHANGED <<disk, made, bind, screen, daemon, before, qr, left, overlap, torn>>

LookAndMake(p) ==
  /\ job[p].at = "look" /\ ~Usable(p)
  /\ made' = Append(made, [names |-> job[p].want, by |-> p])
  /\ Set(p, [job[p] EXCEPT !.at = "write", !.step = 1,
                           !.crt = Len(made'), !.key = Len(made')])
  /\ UNCHANGED <<disk, bind, screen, daemon, before, qr, left, overlap, torn>>

\* fs::write empties a file and then fills it: two steps for each of the three.
File(p) == Order[(job[p].step + 1) \div 2]
Content(p, f) == CASE f = "crt" -> job[p].crt [] f = "key" -> job[p].key
                   [] f = "san" -> job[p].want
Opened(f) == IF f = "san" THEN {} ELSE Empty

Write(p) ==
  /\ job[p].at = "write"
  /\ disk' = [disk EXCEPT ![File(p)] =
                IF job[p].step % 2 = 1 THEN Opened(File(p)) ELSE Content(p, File(p))]
  /\ Set(p, [job[p] EXCEPT !.at = IF @ = "write" /\ job[p].step = 6 THEN "done" ELSE @,
                           !.step = @ + 1])
  /\ torn' = IF job[p].step = 6 THEN {} ELSE torn
  /\ UNCHANGED <<made, bind, screen, daemon, before, qr, left, overlap>>

\* A write fails, or the process dies, with the files as they are.
Fails(p) ==
  /\ job[p].at = "write" /\ Take("failure")
  /\ torn' = torn \cup {job[p].want}
  /\ Set(p, Idle)
  /\ daemon' = IF p = "daemon" THEN [Down EXCEPT !.n = daemon.n] ELSE daemon
  /\ UNCHANGED <<disk, made, bind, screen, before, qr, overlap>>

\* The panel's Cert screen shows what it ends with.
Ends(p) ==
  /\ p # "daemon" /\ job[p].at = "done"
  /\ Set(p, Idle)
  /\ cert' = IF p = "panel" THEN [cert EXCEPT !.crt = job[p].crt] ELSE cert
  /\ UNCHANGED <<disk, made, bind, addr, panel, daemon, before, qr, left, overlap, torn>>

----------------------------------------------------------------------------
(* Who asks for it, and for which names.                                   *)

\* A plausible bug: only the host on the screen is certified.
ScreenNamesTyped == {typed} \ ({Absent} \cup (Wild \ Loopback))

\* build_sans_from_config: the host on the Config screen, saved or not, and what the last
\* snapshot held.
ScreenNames ==
  ({typed} \ ({Absent} \cup (Wild \ Loopback))) \cup (IF snap = Absent THEN {} ELSE {snap} \cup Env)

\* Either key of the Cert screen, which waits for no snapshot.
EnsureCert ==
  /\ Begin("panel", ScreenNames)
  /\ cert' = [crt |-> Absent, host |-> typed, ip |-> snap]
  /\ UNCHANGED <<disk, made, bind, addr, panel, daemon, before, qr, torn>>

\* collect_sans.
CollectSans(cli) == cli \cup Env \cup ({bind} \ (Wild \cup Dns))

Certify ==
  /\ \E cli \in Cli : Begin("side", CollectSans(cli))
  /\ UNCHANGED <<disk, made, bind, screen, daemon, before, qr, torn>>

\* A plausible bug: the panel starts the daemon with no --san.
NoNames == {}

\* build_daemon_args: a --san for each name of the sidecar.
ForwardedNames == disk.san

\* cmd_start, refused while a daemon answers; a bind_addr that is no address does not
\* parse.  kept: of a start by the panel, the names of the sidecar (history).
Start(kept, cli, mode) ==
  /\ ~Serving /\ daemon.at # "booting" /\ bind \notin Dns
  /\ Take("daemon")
  /\ IF mode = "self"
     THEN /\ daemon' = [Down EXCEPT !.at = "booting", !.n = left["daemon"],
                                    !.kept = kept, !.want = CollectSans(cli)]
          /\ Set("daemon", [Idle EXCEPT !.at = "look", !.want = CollectSans(cli)])
          /\ overlap' = (overlap \/ \E q \in Maker \ {"daemon"} : job[q].at # "idle")
     ELSE /\ daemon' = [Down EXCEPT !.at = "serving", !.n = left["daemon"], !.mode = mode]
          /\ UNCHANGED <<job, overlap>>
  /\ UNCHANGED <<disk, made, bind, screen, before, qr, torn>>

StartByHand == \E cli \in Cli, mode \in Modes : Start({}, cli, mode)
StartByPanel == Start(disk.san, ForwardedNames, "self")

\* serve: rustls refuses a key that is not the certificate's.
Serve ==
  /\ daemon.at = "booting" /\ job["daemon"].at = "done"
  /\ LET j == job["daemon"] IN
     daemon' = IF j.crt = j.key /\ j.crt # Empty
               THEN [daemon EXCEPT !.at = "serving", !.crt = j.crt]
               ELSE [Down EXCEPT !.at = "refused", !.n = daemon.n]
  /\ Set("daemon", Idle)
  /\ UNCHANGED <<disk, made, bind, screen, before, qr, left, overlap, torn>>

\* It is stopped, or dies.
Stop ==
  /\ Serving
  /\ daemon' = [Down EXCEPT !.n = daemon.n]
  /\ before' = IF daemon.mode = "self" THEN daemon.crt ELSE before
  /\ UNCHANGED <<disk, made, bind, screen, job, qr, left, overlap, torn>>

\* The Config screen: a host is typed, or saved.
Type(h) ==
  /\ h # typed /\ typed' = h /\ Take("change")
  /\ UNCHANGED <<disk, made, bind, addr, snap, load, cert, job, daemon, before, qr, overlap, torn>>

Save ==
  /\ typed \notin {Absent, bind} /\ bind' = typed
  /\ UNCHANGED <<disk, made, screen, job, daemon, before, qr, left, overlap, torn>>

\* LoadConfig, on entering a screen: its task reads, and later the panel is told.
ReadConfig ==
  /\ load = Absent /\ Take("change")
  /\ load' = [host |-> bind, ip |-> addr]
  /\ UNCHANGED <<disk, made, bind, addr, typed, snap, cert, job, daemon, before, qr, overlap, torn>>

ConfigLoaded ==
  /\ load # Absent /\ load' = Absent
  /\ typed' = load.host /\ snap' = load.ip
  /\ UNCHANGED <<disk, made, bind, addr, cert, job, daemon, before, qr, left, overlap, torn>>

\* The machine is given another address.
Move ==
  /\ addr' \in Interface \ {addr} /\ Take("change")
  /\ UNCHANGED <<disk, made, bind, panel, cert, job, daemon, before, qr, overlap, torn>>

----------------------------------------------------------------------------
(* build_token_qr_task.                                                    *)

\* choose_advertise_host.
Advertise(b, ip) == IF Concrete(b) THEN {b} ELSE IF Env # {} THEN Env ELSE {ip}

AskQr(trust) ==
  /\ qr.at \in {"idle", "ready"} /\ Take("qr")
  /\ qr' = [NoQr EXCEPT !.at = "begun", !.trust = trust]
  /\ UNCHANGED <<disk, made, bind, screen, job, daemon, before, overlap, torn>>

NotRunning ==
  /\ qr.at = "begun" /\ ~Serving /\ qr' = NoQr
  /\ UNCHANGED <<disk, made, bind, screen, job, daemon, before, left, overlap, torn>>

\* An override to CA ends here; one to a pin asks for no mode.
Locate ==
  /\ qr.at = "begun" /\ Serving
  /\ \E h \in Advertise(bind, addr) :
       qr' = [qr EXCEPT !.host = h,
                        !.at = CASE qr.trust = "ca" -> "ready" [] qr.trust = "pin" -> "pin"
                                 [] qr.trust = "auto" -> "ask"]
  /\ UNCHANGED <<disk, made, bind, screen, job, daemon, before, left, overlap, torn>>

\* A plausible bug, and one the panel once had: a DNS name is trusted through a CA.
PinsAddresses(mode) == mode = "self" /\ qr.host \notin Dns

\* resolve_auto_trust.
Pins(mode) == mode = "self"

\* server_cert_mode; a daemon that no longer answers counts as self-signed.
AskMode ==
  /\ qr.at = "ask"
  /\ LET mode == IF Serving THEN daemon.mode ELSE "self" IN
     qr' = [qr EXCEPT !.at = IF Pins(mode) THEN "pin" ELSE "ready",
                      !.peer = IF Serving THEN daemon.n ELSE 0]
  /\ UNCHANGED <<disk, made, bind, screen, job, daemon, before, left, overlap, torn>>

\* current_cert_fingerprint.
ReadPin ==
  /\ qr.at = "pin"
  /\ qr' = IF disk.crt \in {Absent, Empty} THEN NoQr
           ELSE [qr EXCEPT !.at = "ready", !.pin = disk.crt]
  /\ UNCHANGED <<disk, made, bind, screen, job, daemon, before, left, overlap, torn>>

----------------------------------------------------------------------------
Next ==
  \/ \E p \in Maker : \/ LookAndLoad(p) \/ ReadKey(p) \/ LookAndMake(p)
                      \/ Write(p) \/ Fails(p) \/ Ends(p)
  \/ EnsureCert \/ Certify \/ StartByHand \/ StartByPanel \/ Serve \/ Stop
  \/ \E h \in Host : Type(h)
  \/ Save \/ ReadConfig \/ ConfigLoaded \/ Move
  \/ \E t \in Trusts : AskQr(t)
  \/ NotRunning \/ Locate \/ AskMode \/ ReadPin

Spec == Init /\ [][Next]_vars

----------------------------------------------------------------------------
(* Properties.                                                             *)

Name == Host \cup Env \cup Interface \cup UNION Cli
Cert == Nat \cup {Absent, Empty}

\* Every variable has the shape its comment says.
TypeOK ==
  /\ disk \in [crt : Cert, key : Cert, san : SUBSET Name]
  /\ made \in Seq([names : SUBSET Name, by : Maker])
  /\ bind \in Host /\ addr \in Interface
  /\ typed \in Host \cup {Absent} /\ snap \in Interface \cup {Absent}
  /\ load \in [host : Host, ip : Interface] \cup {Absent}
  /\ cert \in [crt : Cert, host : Host \cup {Absent}, ip : Interface \cup {Absent}]
  /\ job \in [Maker -> [at : {"idle", "look", "read", "write", "done"}, step : 0..7,
                         want : SUBSET Name, crt : Cert, key : Cert]]
  /\ daemon \in [at : {"down", "booting", "serving", "refused"}, n : Nat, mode : Mode,
                  kept : SUBSET Name, want : SUBSET Name, crt : Cert]
  /\ before \in Cert
  /\ qr \in [at : {"idle", "begun", "ask", "pin", "ready"}, trust : Trust,
              host : Name \cup {Absent}, peer : Nat, pin : Cert]
  /\ left \in [DOMAIN Tries -> Nat]
  /\ overlap \in BOOLEAN /\ torn \subseteq SUBSET Name

\* The daemon the QR was made for still serves.
Current == qr.at = "ready" /\ Serving /\ qr.peer = daemon.n

\* A phone that scans a QR can trust the daemon that was asked for it: it pins the
\* certificate served or, of a daemon with another transport, none.  The exception is a
\* certificate the operator had made meanwhile, by init or on the Cert screen; making
\* the QR itself never makes one (current_cert_fingerprint, resolve_auto_trust).
ScansConnect ==
  Current /\ qr.trust = "auto" =>
    IF daemon.mode # "self" THEN qr.pin = Absent
    ELSE \/ qr.pin = daemon.crt
         \/ qr.pin # Absent /\ made[qr.pin].by # "daemon"

\* No maker has failed while writing.
Unfailing == left["failure"] = Tries["failure"]

\* Phones that pinned one daemon's certificate can reach the next: it serves the same,
\* unless it was asked for a name the old one lacks or the operator had another made.
\* It holds while makers neither fail nor meet (load_or_generate_identity).
PinsOutliveRestarts ==
  Serving /\ daemon.mode = "self" /\ before # Absent /\ Unfailing /\ ~overlap =>
    \/ daemon.crt = before
    \/ ~(daemon.want \subseteq made[before].names)
    \/ \E g \in before + 1 .. daemon.crt : made[g].by # "daemon"

\* A daemon the panel starts answers under every name the certificate had, even when a
\* new bind address makes it anew (build_daemon_args, collect_sans).
PanelKeepsNames ==
  Serving /\ daemon.mode = "self" /\ Unfailing /\ ~overlap =>
    daemon.kept \subseteq made[daemon.crt].names

\* What the panel would have a phone dial, as far as it knew when it asked for the
\* certificate on its Cert screen; before a config was loaded it knows what was typed.
Known ==
  IF cert.host = Absent \/ (~Concrete(cert.host) /\ cert.ip = Absent) THEN {}
  ELSE Advertise(cert.host, cert.ip)

\* A QR that pins the certificate on the Cert screen names an address this is valid for,
\* whether the screen had it made or found it on disk.  The exceptions are those of the
\* code: the address is another than the panel could know of, because no config had been
\* loaded, or bind_addr or the machine's address has changed since.  And it holds while
\* makers neither fail nor meet (build_sans_from_config, choose_advertise_host).
DialedIsCovered ==
  qr.at = "ready" /\ qr.pin # Absent /\ qr.pin = cert.crt /\ qr.host \in Known /\ Unfailing /\ ~overlap =>
    qr.host \in made[qr.pin].names

\* What a failed maker leaves is made anew by any start that asks for as much: such a
\* start never finds a key that is not its certificate's, for the names are written last,
\* and no start does before a maker failed (load_or_generate_identity).  Makers that meet
\* may leave any mixture.
TornPairsAreRedone ==
  [][daemon.at = "booting" /\ daemon'.at = "refused" /\ ~overlap =>
       /\ torn # {}
       /\ \A t \in torn : t = {} \/ ~(t \subseteq daemon.want)]_vars
=============================================================================
