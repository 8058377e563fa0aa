---------------------------- MODULE PairingProofs ----------------------------
(***************************************************************************)
(* Proofs about Pairing: the type invariant, what a QR pins, what survives  *)
(* a restart, and what a torn pair leads to.                               *)
(***************************************************************************)
EXTENDS Pairing, TLAPS

----------------------------------------------------------------------------
(* The inductive invariant.                                                *)

\* The certificates made by init or on the Cert screen.
Others == {g \in DOMAIN made : made[g].by # "daemon"}

\* What a maker holds exists: one that writes holds what it has just made, one that
\* loaded holds what was on disk.
JobHolds(p) ==
  /\ job[p].at = "write" =>
       /\ job[p].step \in 1..6
       /\ job[p].crt \in DOMAIN made /\ job[p].key = job[p].crt
       /\ made[job[p].crt] = [names |-> job[p].want, by |-> p]
  /\ job[p].at \in {"read", "done"} => job[p].crt \in DOMAIN made \cup {Empty}

JobsHold == \A p \in Maker : JobHolds(p)

\* The daemon's maker is at work while the daemon starts, and for its names.
BootingMakes ==
  /\ daemon.at = "booting" <=> job["daemon"].at # "idle"
  /\ daemon.at = "booting" => /\ job["daemon"].want = daemon.want
                              /\ daemon.mode = "self"

\* The Cert screen asks for every address the panel would advertise, as far as it knows,
\* and what it ends with is for these while makers neither fail nor meet.
CertHolds ==
  /\ job["panel"].at # "idle" => Known \subseteq job["panel"].want
  /\ Unfailing /\ ~overlap /\ cert.crt # Absent =>
       cert.crt \in DOMAIN made /\ Known \subseteq made[cert.crt].names

\* Files hold certificates that were made.
DiskHolds ==
  /\ disk.crt \in DOMAIN made \cup {Absent, Empty}
  /\ disk.key \in DOMAIN made \cup {Absent, Empty}

\* What daemons served was made; each has a number of its own, counted down.
DaemonHolds ==
  /\ Serving /\ daemon.mode = "self" => daemon.crt \in DOMAIN made
  /\ before \in DOMAIN made \cup {Absent}
  /\ daemon.at # "down" => daemon.n > 0
  /\ daemon.n = 0 \/ daemon.n > left["daemon"]
  /\ daemon.kept \subseteq daemon.want

\* The certificate on disk is the one served, or about to be, unless it was made by the
\* operator since.
Loaded(j) == j.at \in {"read", "done"} \/ (j.at = "write" /\ j.step > 1)
DiskIsServed ==
  /\ Serving /\ daemon.mode = "self" => disk.crt \in {daemon.crt, Empty} \cup Others
  /\ Loaded(job["daemon"]) => disk.crt \in {job["daemon"].crt, Empty} \cup Others

\* What the QR under way knows of the daemon it asked.
QrHolds ==
  /\ qr.pin \in DOMAIN made \cup {Absent}
  /\ qr.peer = 0 \/ qr.peer > left["daemon"]
  /\ qr.at # "ready" => qr.pin = Absent
  /\ daemon.at = "booting" => qr.peer # daemon.n
  /\ qr.at \in {"pin", "ready"} /\ qr.trust = "auto" /\ Serving /\ qr.peer = daemon.n =>
       IF daemon.mode # "self" THEN qr.at = "ready" /\ qr.pin = Absent
       ELSE qr.at = "ready" => qr.pin \in {daemon.crt} \cup Others

\* Without an overlap one maker is at work.
Solo == ~overlap => \A p, q \in Maker : job[p].at # "idle" /\ job[q].at # "idle" => p = q

Quiet == \A p \in Maker : job[p].at # "write"

\* The names on disk do not cover what a maker writes, until it has written them; what
\* it has written, or loaded, is there.
PairOf(p) ==
  /\ job[p].at = "write" =>
       /\ job[p].step < 6 => job[p].want = {} \/ ~(job[p].want \subseteq disk.san)
       /\ job[p].step = 6 => disk.san = {}
       /\ job[p].step > 2 => disk.crt = job[p].crt
       /\ job[p].step > 4 => disk.key = job[p].key
  /\ job[p].at \in {"read", "done"} =>
       job[p].want \subseteq disk.san /\ disk.crt = job[p].crt
  /\ job[p].at = "done" => disk.key = job[p].key

\* Nor do they cover what a failed maker was asked for; a pair nobody failed to write is
\* whole.
TornHolds ==
  ~overlap =>
    /\ \A t \in torn : t = {} \/ ~(t \subseteq disk.san)
    /\ disk.crt = Absent \/ disk.key = Absent => disk.san = {}
    /\ Quiet /\ torn = {} => disk.crt = disk.key /\ disk.crt # Empty
    /\ \A p \in Maker : PairOf(p)

\* All that was made after n, the operator had made.
LaterByOthers(n) == n # Absent => \A g \in DOMAIN made : g > n => g \in Others

\* Certificate n, for these names, may follow the one served before.
Follows(n, want) ==
  before # Absent =>
    \/ n = before
    \/ ~(want \subseteq made[before].names)
    \/ \E g \in Others : g > before /\ g <= n

\* What is on disk while nobody writes and nothing went wrong: what was made last.
Whole ==
  IF made = << >> THEN disk.crt = Absent /\ disk.san = {}
  ELSE disk.crt = Len(made) /\ disk.san = made[Len(made)].names

\* While makers neither fail nor meet, the disk holds what was made last.
LastIsOnDisk ==
  Unfailing /\ ~overlap =>
    /\ torn = {}
    /\ Quiet => Whole
    /\ \A p \in Maker : job[p].at \in {"read", "write", "done"} => job[p].crt = Len(made)

\* And then a daemon makes a certificate only if it has to.
OnlyForNames ==
  Unfailing /\ ~overlap =>
    /\ daemon.at # "refused"
    /\ Serving /\ daemon.mode = "self" =>
         /\ Follows(daemon.crt, daemon.want)
         /\ LaterByOthers(daemon.crt)
         /\ daemon.want \subseteq made[daemon.crt].names
    /\ job["daemon"].at \in {"read", "write", "done"} =>
         Follows(job["daemon"].crt, job["daemon"].want)
    /\ ~(Serving /\ daemon.mode = "self") /\ job["daemon"].at \in {"idle", "look"} =>
         LaterByOthers(before)

Bounded == left["failure"] <= Tries["failure"]

IInv ==
  /\ TypeOK /\ JobsHold /\ BootingMakes /\ CertHolds /\ DiskHolds /\ DaemonHolds
  /\ DiskIsServed /\ QrHolds /\ Solo /\ TornHolds /\ LastIsOnDisk /\ OnlyForNames
  /\ Bounded

----------------------------------------------------------------------------
(* What each step does, field by field.                                    *)

\* A maker's state is replaced, and nobody else's.
LEMMA SetJob ==
  ASSUME TypeOK, NEW p \in Maker, NEW j, Set(p, j)
  PROVE  job'[p] = j /\ \A q \in Maker \ {p} : job'[q] = job[q]
  BY DEF TypeOK, Set

\* A try is one try less of its kind.
LEMMA Taken ==
  ASSUME TypeOK, NEW x \in DOMAIN Tries, Take(x)
  PROVE  /\ left[x] > 0 /\ left'[x] = left[x] - 1
         /\ \A y \in DOMAIN Tries \ {x} : left'[y] = left[y]
         /\ left' \in [DOMAIN Tries -> Nat]
  BY DEF TypeOK, Take

\* The kinds of tries.
LEMMA Kinds ==
  DOMAIN Tries = {"daemon", "other", "qr", "change", "failure"}
  BY PairingAssumption

\* A certificate that is made comes last, and changes none before it.
LEMMA Made ==
  ASSUME TypeOK, NEW m, made' = Append(made, m)
  PROVE  /\ Len(made) \in Nat /\ Len(made') = Len(made) + 1
         /\ DOMAIN made = 1 .. Len(made) /\ DOMAIN made' = 1 .. Len(made) + 1
         /\ made'[Len(made) + 1] = m
         /\ \A g \in DOMAIN made : made'[g] = made[g]
         /\ made' # << >>
<1>1. PICK S : made \in Seq(S)
  BY DEF TypeOK
<1>2. Len(made) \in Nat /\ DOMAIN made = 1 .. Len(made)
  BY <1>1
<1>3. /\ Len(made') = Len(made) + 1 /\ DOMAIN made' = 1 .. Len(made) + 1
      /\ made'[Len(made) + 1] = m
      /\ \A g \in 1 .. Len(made) : made'[g] = made[g]
  BY <1>1, <1>2
<1> QED BY <1>2, <1>3

\* A maker finds a pair that covers its names, and reads the certificate.
LEMMA LoadEffect ==
  ASSUME TypeOK, NEW p \in Maker, LookAndLoad(p)
  PROVE  /\ job[p].at = "look" /\ disk.crt # Absent /\ disk.key # Absent
         /\ job[p].want \subseteq disk.san
         /\ job'[p].at = "read" /\ job'[p].step = job[p].step
         /\ job'[p].want = job[p].want
         /\ job'[p].crt = disk.crt /\ job'[p].key = job[p].key
         /\ \A q \in Maker \ {p} : job'[q] = job[q]
         /\ UNCHANGED <<disk, made, bind, screen, daemon, before, qr, left, overlap, torn>>
<1>1. Set(p, [job[p] EXCEPT !.at = "read", !.crt = disk.crt])
  BY DEF LookAndLoad
<1>2. /\ job'[p] = [job[p] EXCEPT !.at = "read", !.crt = disk.crt]
      /\ \A q \in Maker \ {p} : job'[q] = job[q]
  BY <1>1, SetJob
<1> QED BY <1>2 DEF LookAndLoad, Usable, Covers, TypeOK

\* It reads the key.
LEMMA KeyEffect ==
  ASSUME TypeOK, NEW p \in Maker, ReadKey(p)
  PROVE  /\ job[p].at = "read"
         /\ job'[p].at = "done" /\ job'[p].step = job[p].step
         /\ job'[p].want = job[p].want
         /\ job'[p].crt = job[p].crt /\ job'[p].key = disk.key
         /\ \A q \in Maker \ {p} : job'[q] = job[q]
         /\ UNCHANGED <<disk, made, bind, screen, daemon, before, qr, left, overlap, torn>>
<1>1. Set(p, [job[p] EXCEPT !.at = "done", !.key = disk.key])
  BY DEF ReadKey
<1>2. /\ job'[p] = [job[p] EXCEPT !.at = "done", !.key = disk.key]
      /\ \A q \in Maker \ {p} : job'[q] = job[q]
  BY <1>1, SetJob
<1> QED BY <1>2 DEF ReadKey, TypeOK

\* It finds none, and makes a certificate.
LEMMA MakeEffect ==
  ASSUME TypeOK, NEW p \in Maker, LookAndMake(p)
  PROVE  /\ job[p].at = "look"
         /\ \/ disk.crt = Absent \/ disk.key = Absent \/ ~(job[p].want \subseteq disk.san)
         /\ job'[p].at = "write" /\ job'[p].step = 1
         /\ job'[p].want = job[p].want
         /\ job'[p].crt = Len(made) + 1 /\ job'[p].key = Len(made) + 1
         /\ \A q \in Maker \ {p} : job'[q] = job[q]
         /\ made' = Append(made, [names |-> job[p].want, by |-> p])
         /\ UNCHANGED <<disk, bind, screen, daemon, before, qr, left, overlap, torn>>
<1>1. Set(p, [job[p] EXCEPT !.at = "write", !.step = 1,
                            !.crt = Len(made'), !.key = Len(made')])
  BY DEF LookAndMake
<1>2. /\ job'[p] = [job[p] EXCEPT !.at = "write", !.step = 1,
                                  !.crt = Len(made'), !.key = Len(made')]
      /\ \A q \in Maker \ {p} : job'[q] = job[q]
  BY <1>1, SetJob
<1>3. made' = Append(made, [names |-> job[p].want, by |-> p])
  BY DEF LookAndMake
<1>4. Len(made') = Len(made) + 1
  BY <1>3, Made
<1> QED BY <1>2, <1>3, <1>4 DEF LookAndMake, Usable, Covers, TypeOK

\* It writes: first the certificate, then the key, then the names, each in two steps.
LEMMA WriteEffect ==
  ASSUME TypeOK, JobsHold, NEW p \in Maker, Write(p)
  PROVE  /\ job[p].at = "write" /\ job[p].step \in 1..6
         /\ job'[p].at = IF job[p].step = 6 THEN "done" ELSE "write"
         /\ job'[p].step = job[p].step + 1
         /\ job'[p].want = job[p].want
         /\ job'[p].crt = job[p].crt /\ job'[p].key = job[p].key
         /\ \A q \in Maker \ {p} : job'[q] = job[q]
         /\ torn' = IF job[p].step = 6 THEN {} ELSE torn
         /\ UNCHANGED <<made, bind, screen, daemon, before, qr, left, overlap>>
<1>1. Set(p, [job[p] EXCEPT !.at = IF @ = "write" /\ job[p].step = 6 THEN "done" ELSE @,
                            !.step = @ + 1])
  BY DEF Write
<1>2. /\ job'[p] = [job[p] EXCEPT
                      !.at = IF @ = "write" /\ job[p].step = 6 THEN "done" ELSE @,
                      !.step = @ + 1]
      /\ \A q \in Maker \ {p} : job'[q] = job[q]
  BY <1>1, SetJob
<1>3. job[p].at = "write" /\ job[p].step \in 1..6
  BY DEF Write, JobsHold, JobHolds
<1> QED BY <1>2, <1>3 DEF Write, TypeOK

LEMMA WriteDisk ==
  ASSUME TypeOK, JobsHold, NEW p \in Maker, Write(p)
  PROVE  /\ disk'.crt = IF job[p].step = 1 THEN Empty
                        ELSE IF job[p].step = 2 THEN job[p].crt ELSE disk.crt
         /\ disk'.key = IF job[p].step = 3 THEN Empty
                        ELSE IF job[p].step = 4 THEN job[p].key ELSE disk.key
         /\ disk'.san = IF job[p].step = 5 THEN {}
                        ELSE IF job[p].step = 6 THEN job[p].want ELSE disk.san
         /\ disk' = [crt |-> disk'.crt, key |-> disk'.key, san |-> disk'.san]
<1> DEFINE New == IF job[p].step % 2 = 1 THEN Opened(File(p)) ELSE Content(p, File(p))
<1>0. disk \in [crt : Cert, key : Cert, san : SUBSET Name]
  BY DEF TypeOK
<1>1. job[p].step \in 1..6
  BY WriteEffect
<1>2. disk' = [disk EXCEPT ![File(p)] = New]
  BY DEF Write
<1>3. CASE job[p].step = 1
  <2>1. File(p) = "crt" /\ job[p].step % 2 = 1
    BY <1>3 DEF File, Order
  <2>2. New = Empty
    BY <2>1 DEF Opened
  <2> HIDE DEF New
  <2>3. disk' = [disk EXCEPT !.crt = Empty]
    BY <1>2, <2>1, <2>2
  <2> QED BY <1>0, <1>3, <2>3
<1>4. CASE job[p].step = 2
  <2>1. File(p) = "crt" /\ job[p].step % 2 # 1
    BY <1>4 DEF File, Order
  <2>2. New = job[p].crt
    BY <2>1 DEF Content
  <2> HIDE DEF New
  <2>3. disk' = [disk EXCEPT !.crt = job[p].crt]
    BY <1>2, <2>1, <2>2
  <2> QED BY <1>0, <1>4, <2>3
<1>5. CASE job[p].step = 3
  <2>1. File(p) = "key" /\ job[p].step % 2 = 1
    BY <1>5 DEF File, Order
  <2>2. New = Empty
    BY <2>1 DEF Opened
  <2> HIDE DEF New
  <2>3. disk' = [disk EXCEPT !.key = Empty]
    BY <1>2, <2>1, <2>2
  <2> QED BY <1>0, <1>5, <2>3
<1>6. CASE job[p].step = 4
  <2>1. File(p) = "key" /\ job[p].step % 2 # 1
    BY <1>6 DEF File, Order
  <2>2. New = job[p].key
    BY <2>1 DEF Content
  <2> HIDE DEF New
  <2>3. disk' = [disk EXCEPT !.key = job[p].key]
    BY <1>2, <2>1, <2>2
  <2> QED BY <1>0, <1>6, <2>3
<1>7. CASE job[p].step = 5
  <2>1. File(p) = "san" /\ job[p].step % 2 = 1
    BY <1>7 DEF File, Order
  <2>2. New = {}
    BY <2>1 DEF Opened
  <2> HIDE DEF New
  <2>3. disk' = [disk EXCEPT !.san = {}]
    BY <1>2, <2>1, <2>2
  <2> QED BY <1>0, <1>7, <2>3
<1>8. CASE job[p].step = 6
  <2>1. File(p) = "san" /\ job[p].step % 2 # 1
    BY <1>8 DEF File, Order
  <2>2. New = job[p].want
    BY <2>1 DEF Content
  <2> HIDE DEF New
  <2>3. disk' = [disk EXCEPT !.san = job[p].want]
    BY <1>2, <2>1, <2>2
  <2> QED BY <1>0, <1>8, <2>3
<1> QED BY <1>1, <1>3, <1>4, <1>5, <1>6, <1>7, <1>8

\* A maker fails or dies while it writes; the daemon's takes the daemon with it.
LEMMA FailEffect ==
  ASSUME TypeOK, NEW p \in Maker, Fails(p)
  PROVE  /\ job[p].at = "write" /\ job'[p] = Idle
         /\ \A q \in Maker \ {p} : job'[q] = job[q]
         /\ torn' = torn \cup {job[p].want}
         /\ left["failure"] > 0 /\ left'["failure"] = left["failure"] - 1
         /\ left'["daemon"] = left["daemon"] /\ left' \in [DOMAIN Tries -> Nat]
         /\ p # "daemon" => daemon' = daemon
         /\ p = "daemon" => daemon' = [Down EXCEPT !.n = daemon.n]
         /\ UNCHANGED <<disk, made, bind, screen, before, qr, overlap>>
<1>1. Set(p, Idle) /\ Take("failure")
  BY DEF Fails
<1>2. job'[p] = Idle /\ \A q \in Maker \ {p} : job'[q] = job[q]
  BY <1>1, SetJob
<1>3. "failure" \in DOMAIN Tries /\ "daemon" \in DOMAIN Tries
  BY Kinds
<1>4. /\ left["failure"] > 0 /\ left'["failure"] = left["failure"] - 1
      /\ left'["daemon"] = left["daemon"] /\ left' \in [DOMAIN Tries -> Nat]
  BY <1>1, <1>3, Taken
<1> QED BY <1>2, <1>4 DEF Fails

\* A maker that is no daemon ends.
LEMMA EndEffect ==
  ASSUME TypeOK, NEW p \in Maker, Ends(p)
  PROVE  /\ p # "daemon" /\ job[p].at = "done" /\ job'[p] = Idle
         /\ \A q \in Maker \ {p} : job'[q] = job[q]
         /\ cert' = IF p = "panel" THEN [cert EXCEPT !.crt = job[p].crt] ELSE cert
         /\ UNCHANGED <<disk, made, bind, addr, panel, daemon, before, qr, left,
                       overlap, torn>>
<1>1. Set(p, Idle)
  BY DEF Ends
<1> QED BY <1>1, SetJob DEF Ends

\* A maker begins.
LEMMA BeginEffect ==
  ASSUME TypeOK, NEW p \in Maker, NEW want, Begin(p, want)
  PROVE  /\ job[p].at = "idle"
         /\ job'[p].at = "look" /\ job'[p].step = 0
         /\ job'[p].want = want
         /\ job'[p].crt = Absent /\ job'[p].key = Absent
         /\ job'[p] = [at |-> "look", step |-> 0, want |-> want,
                       crt |-> Absent, key |-> Absent]
         /\ \A q \in Maker \ {p} : job'[q] = job[q]
         /\ overlap' \in BOOLEAN
         /\ ~overlap' => ~overlap /\ \A q \in Maker \ {p} : job[q].at = "idle"
         /\ left'["daemon"] = left["daemon"] /\ left'["failure"] = left["failure"]
         /\ left' \in [DOMAIN Tries -> Nat]
<1>1. Set(p, [Idle EXCEPT !.at = "look", !.want = want]) /\ Take("other")
  BY DEF Begin
<1>2. /\ job'[p] = [Idle EXCEPT !.at = "look", !.want = want]
      /\ \A q \in Maker \ {p} : job'[q] = job[q]
  BY <1>1, SetJob
<1>3. {"failure", "daemon", "other"} \subseteq DOMAIN Tries
  BY Kinds
<1>4. /\ left'["daemon"] = left["daemon"] /\ left'["failure"] = left["failure"]
      /\ left' \in [DOMAIN Tries -> Nat]
  BY <1>1, <1>3, Taken
<1>5. overlap' = (overlap \/ \E q \in Maker \ {p} : job[q].at # "idle")
  BY DEF Begin
<1>6. /\ overlap' \in BOOLEAN
      /\ ~overlap' => ~overlap /\ \A q \in Maker \ {p} : job[q].at = "idle"
  BY <1>5, Zenon
<1> QED BY <1>2, <1>4, <1>6 DEF Begin, Idle

\* A daemon starts.
LEMMA StartEffect ==
  ASSUME TypeOK, NEW kept, NEW cli, NEW mode, Start(kept, cli, mode)
  PROVE  /\ daemon.at # "serving" /\ daemon.at # "booting"
         /\ daemon'.at = IF mode = "self" THEN "booting" ELSE "serving"
         /\ daemon'.n = left["daemon"] /\ daemon'.mode = mode /\ daemon'.crt = Absent
         /\ daemon'.kept = IF mode = "self" THEN kept ELSE {}
         /\ daemon'.want = IF mode = "self" THEN CollectSans(cli) ELSE {}
         /\ daemon' = [at |-> daemon'.at, n |-> daemon'.n, mode |-> daemon'.mode,
                       kept |-> daemon'.kept, want |-> daemon'.want,
                       crt |-> daemon'.crt]
         /\ left["daemon"] > 0 /\ left'["daemon"] = left["daemon"] - 1
         /\ left'["failure"] = left["failure"] /\ left' \in [DOMAIN Tries -> Nat]
         /\ mode # "self" => job' = job /\ overlap' = overlap
         /\ mode = "self" =>
              /\ job'["daemon"] = [at |-> "look", step |-> 0, want |-> CollectSans(cli),
                                   crt |-> Absent, key |-> Absent]
              /\ job'["daemon"].at = "look" /\ job'["daemon"].want = CollectSans(cli)
              /\ \A q \in Maker \ {"daemon"} : job'[q] = job[q]
              /\ overlap' \in BOOLEAN
              /\ ~overlap' => /\ ~overlap
                              /\ \A q \in Maker \ {"daemon"} : job[q].at = "idle"
         /\ UNCHANGED <<disk, made, bind, screen, before, qr, torn>>
<1>1. Take("daemon")
  BY DEF Start
<1>2. "failure" \in DOMAIN Tries /\ "daemon" \in DOMAIN Tries /\ "daemon" \in Maker
  BY Kinds DEF Maker
<1>3. /\ left["daemon"] > 0 /\ left'["daemon"] = left["daemon"] - 1
      /\ left'["failure"] = left["failure"] /\ left' \in [DOMAIN Tries -> Nat]
  BY <1>1, <1>2, Taken
<1>4. mode # "self" => job' = job /\ overlap' = overlap
  BY DEF Start
<1>5. ASSUME mode = "self"
      PROVE  /\ job'["daemon"] = [at |-> "look", step |-> 0, want |-> CollectSans(cli),
                                  crt |-> Absent, key |-> Absent]
             /\ job'["daemon"].at = "look" /\ job'["daemon"].want = CollectSans(cli)
             /\ \A q \in Maker \ {"daemon"} : job'[q] = job[q]
             /\ overlap' \in BOOLEAN
             /\ ~overlap' => /\ ~overlap
                             /\ \A q \in Maker \ {"daemon"} : job[q].at = "idle"
  <2>1. /\ Set("daemon", [Idle EXCEPT !.at = "look", !.want = CollectSans(cli)])
        /\ overlap' = (overlap \/ \E q \in Maker \ {"daemon"} : job[q].at # "idle")
    BY <1>5 DEF Start
  <2>2. /\ job'["daemon"] = [Idle EXCEPT !.at = "look", !.want = CollectSans(cli)]
        /\ \A q \in Maker \ {"daemon"} : job'[q] = job[q]
    BY <1>2, <2>1, SetJob
  <2>3. /\ overlap' \in BOOLEAN
        /\ ~overlap' => ~overlap /\ \A q \in Maker \ {"daemon"} : job[q].at = "idle"
    BY <2>1, Zenon
  <2> QED BY <2>2, <2>3 DEF Idle
<1>6. daemon' = IF mode = "self"
                THEN [Down EXCEPT !.at = "booting", !.n = left["daemon"],
                                  !.kept = kept, !.want = CollectSans(cli)]
                ELSE [Down EXCEPT !.at = "serving", !.n = left["daemon"], !.mode = mode]
  BY DEF Start
<1>7. /\ daemon'.at = IF mode = "self" THEN "booting" ELSE "serving"
      /\ daemon'.n = left["daemon"] /\ daemon'.mode = mode /\ daemon'.crt = Absent
      /\ daemon'.kept = IF mode = "self" THEN kept ELSE {}
      /\ daemon'.want = IF mode = "self" THEN CollectSans(cli) ELSE {}
      /\ daemon' = [at |-> daemon'.at, n |-> daemon'.n, mode |-> daemon'.mode,
                    kept |-> daemon'.kept, want |-> daemon'.want, crt |-> daemon'.crt]
  BY <1>6 DEF Down
<1> QED BY <1>3, <1>4, <1>5, <1>7 DEF Start, Serving

\* A daemon has its pair: it serves, or the pair is none.
LEMMA ServeEffect ==
  ASSUME TypeOK, Serve
  PROVE  /\ daemon.at = "booting" /\ job["daemon"].at = "done"
         /\ daemon'.at = IF /\ job["daemon"].crt = job["daemon"].key
                            /\ job["daemon"].crt # Empty
                         THEN "serving" ELSE "refused"
         /\ daemon'.n = daemon.n
         /\ daemon'.at = "serving" =>
              /\ daemon'.crt = job["daemon"].crt /\ daemon'.mode = daemon.mode
              /\ daemon'.kept = daemon.kept /\ daemon'.want = daemon.want
         /\ daemon'.at = "refused" => daemon'.kept = {}
         /\ \/ daemon' = [daemon EXCEPT !.at = "serving", !.crt = job["daemon"].crt]
            \/ daemon' = [Down EXCEPT !.at = "refused", !.n = daemon.n]
         /\ job'["daemon"] = Idle /\ \A q \in Maker \ {"daemon"} : job'[q] = job[q]
         /\ UNCHANGED <<disk, made, bind, screen, before, qr, left, overlap, torn>>
<1>1. Set("daemon", Idle) /\ "daemon" \in Maker
  BY DEF Serve, Maker
<1>2. job'["daemon"] = Idle /\ \A q \in Maker \ {"daemon"} : job'[q] = job[q]
  BY <1>1, SetJob
<1>3. daemon' = IF job["daemon"].crt = job["daemon"].key /\ job["daemon"].crt # Empty
                THEN [daemon EXCEPT !.at = "serving", !.crt = job["daemon"].crt]
                ELSE [Down EXCEPT !.at = "refused", !.n = daemon.n]
  BY DEF Serve
<1>4. daemon \in [at : {"down", "booting", "serving", "refused"}, n : Nat, mode : Mode,
                  kept : SUBSET Name, want : SUBSET Name, crt : Cert]
  BY DEF TypeOK
<1>5. daemon.at = "booting" /\ job["daemon"].at = "done"
  BY DEF Serve
<1>6. /\ daemon'.at = IF /\ job["daemon"].crt = job["daemon"].key
                         /\ job["daemon"].crt # Empty
                      THEN "serving" ELSE "refused"
      /\ daemon'.n = daemon.n
      /\ daemon'.at = "serving" =>
           /\ daemon'.crt = job["daemon"].crt /\ daemon'.mode = daemon.mode
           /\ daemon'.kept = daemon.kept /\ daemon'.want = daemon.want
      /\ daemon'.at = "refused" => daemon'.kept = {}
  BY <1>3, <1>4 DEF Down
<1> QED BY <1>2, <1>3, <1>5, <1>6 DEF Serve

\* A daemon stops.
LEMMA StopEffect ==
  ASSUME TypeOK, Stop
  PROVE  /\ daemon.at = "serving" /\ daemon'.at = "down"
         /\ daemon'.n = daemon.n /\ daemon'.kept = {}
         /\ daemon' = [at |-> "down", n |-> daemon.n, mode |-> "self", kept |-> {},
                       want |-> {}, crt |-> Absent]
         /\ before' = IF daemon.mode = "self" THEN daemon.crt ELSE before
         /\ UNCHANGED <<disk, made, bind, screen, job, qr, left, overlap, torn>>
  BY DEF Stop, Serving, Down

\* What hosts and QRs do leaves the makers, the files and the daemon alone.
QuietStep ==
  /\ UNCHANGED <<disk, made, cert, job, daemon, before, overlap, torn>>
  /\ left'["daemon"] = left["daemon"] /\ left'["failure"] = left["failure"]
  /\ left' \in [DOMAIN Tries -> Nat]

QrStep == (\E t \in Trusts : AskQr(t)) \/ NotRunning \/ Locate
             \/ AskMode \/ ReadPin
HostStep == (\E h \in Host : Type(h)) \/ Save \/ ReadConfig \/ ConfigLoaded \/ Move

LEMMA QuietEffect ==
  ASSUME TypeOK, QrStep \/ HostStep \/ UNCHANGED vars
  PROVE  QuietStep
<1>1. {"failure", "daemon", "qr", "change"} \subseteq DOMAIN Tries
  BY Kinds
<1>2. left' \in [DOMAIN Tries -> Nat] /\ left'["daemon"] = left["daemon"]
      /\ left'["failure"] = left["failure"]
  <2>1. CASE left' = left
    BY <2>1 DEF TypeOK
  <2>2. CASE Take("qr")
    BY <1>1, <2>2, Taken
  <2>3. CASE Take("change")
    BY <1>1, <2>3, Taken
  <2>4. left' = left \/ Take("qr") \/ Take("change")
    BY DEF QrStep, HostStep, AskQr, NotRunning, Locate, AskMode, ReadPin, Type, Save,
     ReadConfig, ConfigLoaded, Move, vars, screen, panel
  <2> QED BY <2>1, <2>2, <2>3, <2>4
<1> QED BY <1>2 DEF QuietStep, QrStep, HostStep, AskQr, NotRunning, Locate, AskMode,
     ReadPin, Type, Save, ReadConfig, ConfigLoaded, Move,
     vars, screen, panel

----------------------------------------------------------------------------
(* Every step keeps the types.                                             *)

JobState == [at : {"idle", "look", "read", "write", "done"}, step : 0..7,
             want : SUBSET Name, crt : Cert, key : Cert]
DaemonState == [at : {"down", "booting", "serving", "refused"}, n : Nat, mode : Mode,
                kept : SUBSET Name, want : SUBSET Name, crt : Cert]
CertState == [crt : Cert, host : Host \cup {Absent}, ip : Interface \cup {Absent}]

\* The host, and the hosts of the user, are among the names.
LEMMA NamesOf ==
  ASSUME TypeOK
  PROVE  /\ ScreenNames \subseteq Name
         /\ \A cli \in Cli : CollectSans(cli) \subseteq Name
         /\ CollectSans(disk.san) \subseteq Name
         /\ Advertise(bind, addr) \subseteq Name
  BY DEF TypeOK, ScreenNames, CollectSans, Advertise, Name

LEMMA IdleTyped == Idle \in JobState
<1>1. Absent \in Cert /\ 0 \in 0..7
  BY DEF Cert
<1> QED BY <1>1 DEF Idle, JobState

LEMMA JobsTyped ==
  ASSUME TypeOK, NEW p \in Maker, NEW j \in JobState, Set(p, j)
  PROVE  job' \in [Maker -> JobState]
  BY DEF TypeOK, JobState, Set

\* A step of a maker that touches neither files nor certificates.
LEMMA TypeOfJobs ==
  ASSUME TypeOK, NEW p \in Maker, LookAndLoad(p) \/ ReadKey(p) \/ Ends(p)
  PROVE  TypeOK'
<1>0. job[p] \in JobState /\ disk.crt \in Cert /\ disk.key \in Cert
  BY DEF TypeOK, JobState
<1>1. \E j \in JobState : Set(p, j)
  <2>1. CASE LookAndLoad(p)
    <3>1. Set(p, [job[p] EXCEPT !.at = "read", !.crt = disk.crt])
      BY <2>1 DEF LookAndLoad
    <3>2. [job[p] EXCEPT !.at = "read", !.crt = disk.crt] \in JobState
      BY <1>0 DEF JobState
    <3> QED BY <3>1, <3>2
  <2>2. CASE ReadKey(p)
    <3>1. Set(p, [job[p] EXCEPT !.at = "done", !.key = disk.key])
      BY <2>2 DEF ReadKey
    <3>2. [job[p] EXCEPT !.at = "done", !.key = disk.key] \in JobState
      BY <1>0 DEF JobState
    <3> QED BY <3>1, <3>2
  <2>3. CASE Ends(p)
    BY <2>3, IdleTyped DEF Ends
  <2> QED BY <2>1, <2>2, <2>3
<1>2. job' \in [Maker -> JobState]
  BY <1>1, JobsTyped
<1>3. UNCHANGED <<disk, made, bind, addr, panel, daemon, before, qr, left, overlap, torn>>
  BY DEF LookAndLoad, ReadKey, Ends, screen
<1>4. cert' \in CertState
  <2>1. cert \in CertState /\ job[p].crt \in Cert
    BY <1>0 DEF TypeOK, CertState, JobState
  <2>2. cert' = cert \/ cert' = [cert EXCEPT !.crt = job[p].crt]
    BY DEF LookAndLoad, ReadKey, Ends, screen
  <2> QED BY <2>1, <2>2 DEF CertState
<1> QED BY <1>2, <1>3, <1>4 DEF TypeOK, JobState, CertState, panel

LEMMA TypeOfMake ==
  ASSUME TypeOK, NEW p \in Maker, LookAndMake(p)
  PROVE  TypeOK'
<1>0. job[p] \in JobState
  BY DEF TypeOK, JobState
<1>1. /\ Len(made') \in Nat
      /\ made' \in Seq([names : SUBSET Name, by : Maker])
  <2>1. [names |-> job[p].want, by |-> p]
          \in [names : SUBSET Name, by : Maker]
    BY <1>0 DEF JobState
  <2>2. made' = Append(made, [names |-> job[p].want, by |-> p])
    BY DEF LookAndMake
  <2>3. made' \in Seq([names : SUBSET Name, by : Maker])
    BY <2>1, <2>2 DEF TypeOK
  <2> QED BY <2>3
<1>2. Set(p, [job[p] EXCEPT !.at = "write", !.step = 1,
                            !.crt = Len(made'), !.key = Len(made')])
  BY DEF LookAndMake
<1>3. [job[p] EXCEPT !.at = "write", !.step = 1,
                     !.crt = Len(made'), !.key = Len(made')] \in JobState
  <2>1. PICK n \in Cert : n = Len(made')
    BY <1>1 DEF Cert
  <2>2. 1 \in 0..7
    OBVIOUS
  <2>3. [job[p] EXCEPT !.at = "write", !.step = 1, !.crt = n, !.key = n] \in JobState
    BY <1>0, <2>2 DEF JobState
  <2> QED BY <2>1, <2>3
<1>4. job' \in [Maker -> JobState]
  BY <1>2, <1>3, JobsTyped
<1>5. UNCHANGED <<disk, bind, screen, daemon, before, qr, left, overlap, torn>>
  BY DEF LookAndMake
<1> QED BY <1>1, <1>4, <1>5 DEF TypeOK, JobState, screen, panel

LEMMA TypeOfWrite ==
  ASSUME TypeOK, JobsHold, NEW p \in Maker, Write(p)
  PROVE  TypeOK'
<1>0. job[p] \in JobState /\ job[p].step \in 1..6 /\ job[p].at = "write"
  BY WriteEffect DEF TypeOK, JobState
<1>1. disk' \in [crt : Cert, key : Cert, san : SUBSET Name]
  <2>1. disk \in [crt : Cert, key : Cert, san : SUBSET Name] /\ Empty \in Cert
    BY DEF TypeOK, Cert
  <2>2. disk'.crt \in Cert /\ disk'.key \in Cert /\ disk'.san \in SUBSET Name
    BY <1>0, <2>1, WriteDisk DEF JobState
  <2> QED BY <2>2, WriteDisk
<1>2. Set(p, [job[p] EXCEPT !.at = IF @ = "write" /\ job[p].step = 6 THEN "done" ELSE @,
                            !.step = @ + 1])
  BY DEF Write
<1>3. [job[p] EXCEPT !.at = IF @ = "write" /\ job[p].step = 6 THEN "done" ELSE @,
                     !.step = @ + 1] \in JobState
  <2>1. job[p].step + 1 \in 0..7
    BY <1>0
  <2>2. \A a \in {"write", "done"}, n \in 0..7 :
          [job[p] EXCEPT !.at = a, !.step = n] \in JobState
    BY <1>0 DEF JobState
  <2>3. (IF job[p].at = "write" /\ job[p].step = 6 THEN "done" ELSE job[p].at)
          \in {"write", "done"}
    BY <1>0
  <2> QED BY <2>1, <2>2, <2>3
<1>4. job' \in [Maker -> JobState]
  BY <1>2, <1>3, JobsTyped
<1>5. UNCHANGED <<made, bind, screen, daemon, before, qr, left, overlap>>
      /\ torn' \subseteq SUBSET Name
  BY WriteEffect DEF TypeOK
<1> QED BY <1>1, <1>4, <1>5 DEF TypeOK, JobState, screen, panel

LEMMA TypeOfFail ==
  ASSUME TypeOK, NEW p \in Maker, Fails(p)
  PROVE  TypeOK'
<1>1. Set(p, Idle)
  BY DEF Fails
<1>2. job' \in [Maker -> JobState]
  BY <1>1, IdleTyped, JobsTyped
<1>3. torn' \subseteq SUBSET Name
  <2>1. job[p].want \in SUBSET Name /\ torn \subseteq SUBSET Name
    BY DEF TypeOK
  <2>2. torn' = torn \cup {job[p].want}
    BY FailEffect
  <2> QED BY <2>1, <2>2
<1>4. daemon' \in DaemonState
  <2>1. daemon \in DaemonState
    BY DEF TypeOK, DaemonState
  <2>2. daemon' = daemon \/ daemon' = [Down EXCEPT !.n = daemon.n]
    BY FailEffect
  <2>3. "self" \in Mode /\ Absent \in Cert
    BY DEF Mode, Cert
  <2> QED BY <2>1, <2>2, <2>3 DEF DaemonState, Down
<1>5. /\ UNCHANGED <<disk, made, bind, screen, before, qr, overlap>>
      /\ left' \in [DOMAIN Tries -> Nat]
  BY FailEffect
<1> QED BY <1>2, <1>3, <1>4, <1>5 DEF TypeOK, JobState, DaemonState, screen, panel

LEMMA TypeOfBegin ==
  ASSUME TypeOK, EnsureCert \/ Certify
  PROVE  TypeOK'
<1>1. PICK p \in Maker, want \in SUBSET Name : Begin(p, want)
  <2>1. CASE EnsureCert
    BY <2>1, NamesOf DEF EnsureCert, TypeOK, Maker
  <2>2. CASE Certify
    BY <2>2, NamesOf DEF Certify, TypeOK, Maker
  <2> QED BY <2>1, <2>2
<1>2. job' \in [Maker -> JobState]
  <2>1. Set(p, [Idle EXCEPT !.at = "look", !.want = want])
    BY <1>1 DEF Begin
  <2>2. [Idle EXCEPT !.at = "look", !.want = want] \in JobState
    BY IdleTyped DEF JobState
  <2> QED BY <2>1, <2>2, JobsTyped
<1>3. left' \in [DOMAIN Tries -> Nat] /\ overlap' \in BOOLEAN
  BY <1>1, BeginEffect
<1>4. UNCHANGED <<disk, made, bind, addr, panel, daemon, before, qr, torn>>
  BY DEF EnsureCert, Certify, screen
<1>5. cert' \in CertState
  <2>1. cert' = cert \/ cert' = [crt |-> Absent, host |-> typed, ip |-> snap]
    BY DEF EnsureCert, Certify, screen
  <2> QED BY <2>1 DEF TypeOK, CertState, Cert
<1> QED BY <1>2, <1>3, <1>4, <1>5 DEF TypeOK, JobState, CertState, panel

\* The two ways a daemon starts.
LEMMA Starts ==
  ASSUME TypeOK, StartByHand \/ StartByPanel
  PROVE  \E kept \in SUBSET Name, cli \in Cli \cup {disk.san}, mode \in Mode :
           Start(kept, cli, mode) /\ kept \subseteq cli
<1>1. disk.san \in SUBSET Name /\ {} \in SUBSET Name /\ Modes \subseteq Mode
      /\ "self" \in Mode
  BY PairingAssumption DEF TypeOK, Mode
<1>2. CASE StartByHand
  <2>1. PICK cli \in Cli, mode \in Modes : Start({}, cli, mode)
    BY <1>2 DEF StartByHand
  <2> QED BY <1>1, <2>1
<1>3. CASE StartByPanel
  <2>1. Start(disk.san, disk.san, "self")
    BY <1>3 DEF StartByPanel, ForwardedNames
  <2> QED BY <1>1, <2>1
<1> QED BY <1>2, <1>3

\* The two ways a maker begins that is no daemon's.
LEMMA Begins ==
  ASSUME TypeOK, EnsureCert \/ Certify
  PROVE  \E p \in {"panel", "side"}, want \in SUBSET Name :
           /\ Begin(p, want)
           /\ p = "panel" => cert'.crt = Absent /\ Known' \subseteq want
           /\ p = "side" => cert' = cert
           /\ UNCHANGED <<disk, made, bind, addr, panel, daemon, before, qr, torn>>
<1>1. CASE EnsureCert
  <2>1. /\ Begin("panel", ScreenNames)
        /\ cert' = [crt |-> Absent, host |-> typed, ip |-> snap]
        /\ UNCHANGED <<disk, made, bind, addr, panel, daemon, before, qr, torn>>
    BY <1>1 DEF EnsureCert
  <2>2. cert'.crt = Absent /\ cert'.host = typed /\ cert'.ip = snap
    BY <2>1
  <2>3. Known' \subseteq ScreenNames
    <3>1. CASE typed = Absent
      BY <2>2, <3>1 DEF Known
    <3>2. CASE typed # Absent /\ typed \notin Wild
      BY <2>2, <3>2 DEF Known, Advertise, Concrete, ScreenNames
    <3>3. CASE typed # Absent /\ typed \in Wild
      BY <2>2, <3>3 DEF Known, Advertise, Concrete, ScreenNames
    <3> QED BY <3>1, <3>2, <3>3
  <2>4. ScreenNames \in SUBSET Name
    BY NamesOf
  <2> QED BY <2>1, <2>2, <2>3, <2>4
<1>2. CASE Certify
  <2>1. /\ \E cli \in Cli : Begin("side", CollectSans(cli))
        /\ UNCHANGED <<disk, made, bind, addr, panel, cert, daemon, before, qr, torn>>
    BY <1>2 DEF Certify, screen
  <2>2. \A cli \in Cli : CollectSans(cli) \in SUBSET Name
    BY NamesOf
  <2> QED BY <2>1, <2>2
<1> QED BY <1>1, <1>2

LEMMA TypeOfStart ==
  ASSUME TypeOK, StartByHand \/ StartByPanel
  PROVE  TypeOK'
<1>1. PICK kept \in SUBSET Name, cli \in Cli \cup {disk.san}, mode \in Mode :
        Start(kept, cli, mode)
  BY Starts
<1>2. CollectSans(cli) \in SUBSET Name /\ disk.san \in SUBSET Name /\ Absent \in Cert
      /\ left["daemon"] \in Nat
  BY NamesOf, Kinds DEF TypeOK, Cert
<1>3. daemon' \in DaemonState
  <2>1. /\ daemon'.at \in {"booting", "serving"} /\ daemon'.n = left["daemon"]
        /\ daemon'.mode = mode /\ daemon'.crt = Absent
        /\ daemon'.kept \in {{}, kept} /\ daemon'.want \in {{}, CollectSans(cli)}
        /\ daemon' = [at |-> daemon'.at, n |-> daemon'.n, mode |-> daemon'.mode,
                      kept |-> daemon'.kept, want |-> daemon'.want, crt |-> daemon'.crt]
    BY <1>1, StartEffect
  <2>2. /\ daemon'.at \in {"down", "booting", "serving", "refused"}
        /\ daemon'.kept \in SUBSET Name /\ daemon'.want \in SUBSET Name
    BY <1>2, <2>1
  <2> QED BY <1>2, <2>1, <2>2 DEF DaemonState
<1>4. job' \in [Maker -> JobState] /\ overlap' \in BOOLEAN
  <2>1. CASE mode = "self"
    <3>1. Set("daemon", [Idle EXCEPT !.at = "look", !.want = CollectSans(cli)])
          /\ overlap' = (overlap \/ \E q \in Maker \ {"daemon"} : job[q].at # "idle")
      BY <1>1, <2>1 DEF Start
    <3>2. [Idle EXCEPT !.at = "look", !.want = CollectSans(cli)] \in JobState
      BY <1>2, IdleTyped DEF JobState
    <3> QED BY <3>1, <3>2, JobsTyped DEF Maker
  <2>2. CASE mode # "self"
    <3>1. job' = job /\ overlap' = overlap
      BY <1>1, <2>2, StartEffect
    <3> QED BY <3>1 DEF TypeOK, JobState
  <2> QED BY <2>1, <2>2
<1>5. /\ UNCHANGED <<disk, made, bind, screen, before, qr, torn>>
      /\ left' \in [DOMAIN Tries -> Nat]
  BY <1>1, StartEffect
<1> QED BY <1>3, <1>4, <1>5 DEF TypeOK, JobState, DaemonState, screen, panel

LEMMA TypeOfServe ==
  ASSUME TypeOK, Serve
  PROVE  TypeOK'
<1>1. Set("daemon", Idle) /\ "daemon" \in Maker
  BY DEF Serve, Maker
<1>2. job' \in [Maker -> JobState]
  BY <1>1, IdleTyped, JobsTyped
<1>3. daemon' \in DaemonState
  <2>1. /\ daemon \in DaemonState /\ job["daemon"].crt \in Cert
        /\ "self" \in Mode /\ Absent \in Cert
    BY <1>1 DEF TypeOK, DaemonState, Mode, Cert
  <2>2. \/ daemon' = [daemon EXCEPT !.at = "serving", !.crt = job["daemon"].crt]
        \/ daemon' = [Down EXCEPT !.at = "refused", !.n = daemon.n]
    BY ServeEffect
  <2> QED BY <2>1, <2>2 DEF DaemonState, Down
<1>4. UNCHANGED <<disk, made, bind, screen, before, qr, left, overlap, torn>>
  BY ServeEffect
<1> QED BY <1>2, <1>3, <1>4 DEF TypeOK, JobState, DaemonState, screen, panel

LEMMA TypeOfStop ==
  ASSUME TypeOK, Stop
  PROVE  TypeOK'
<1>1. daemon' \in DaemonState
  <2>1. daemon.n \in Nat /\ Absent \in Cert /\ "self" \in Mode
    BY DEF TypeOK, Cert, Mode
  <2> QED BY <2>1, StopEffect DEF DaemonState
<1>2. before' \in Cert
  BY StopEffect DEF TypeOK
<1>3. UNCHANGED <<disk, made, bind, screen, job, qr, left, overlap, torn>>
  BY StopEffect
<1> QED BY <1>1, <1>2, <1>3 DEF TypeOK, DaemonState, screen, panel

QrState == [at : {"idle", "begun", "ask", "pin", "ready"}, trust : Trust,
            host : Name \cup {Absent}, peer : Nat, pin : Cert]

LEMMA TypeOfQuiet ==
  ASSUME TypeOK, QrStep \/ HostStep \/ UNCHANGED vars
  PROVE  TypeOK'
<1>1. UNCHANGED <<disk, made, job, daemon, before, overlap, torn>>
      /\ left' \in [DOMAIN Tries -> Nat]
  BY QuietEffect DEF QuietStep
<1>2. /\ bind' \in Host /\ addr' \in Interface
      /\ typed' \in Host \cup {Absent} /\ snap' \in Interface \cup {Absent}
      /\ load' \in [host : Host, ip : Interface] \cup {Absent}
      /\ cert' = cert
  <2>1. CASE \E h \in Host : Type(h)
    BY <2>1 DEF Type, TypeOK
  <2>2. CASE Save
    BY <2>2 DEF Save, TypeOK, screen, panel
  <2>3. CASE ReadConfig
    BY <2>3 DEF ReadConfig, TypeOK
  <2>4. CASE ConfigLoaded
    <3>1. load.host \in Host /\ load.ip \in Interface
      BY <2>4 DEF ConfigLoaded, TypeOK
    <3> QED BY <2>4, <3>1 DEF ConfigLoaded, TypeOK
  <2>5. CASE Move
    BY <2>5 DEF Move, TypeOK, panel
  <2>6. CASE QrStep \/ UNCHANGED vars
    BY <2>6 DEF QrStep, AskQr, NotRunning, Locate, AskMode, ReadPin, vars, screen, panel,
       TypeOK
  <2> QED BY <2>1, <2>2, <2>3, <2>4, <2>5, <2>6 DEF HostStep
<1>3. qr' \in QrState
  <2>1. /\ qr \in QrState /\ Absent \in Cert /\ daemon.n \in Nat /\ disk.crt \in Cert
        /\ Advertise(bind, addr) \subseteq Name
    BY NamesOf DEF TypeOK, QrState, Trust, Cert
  <2>2. NoQr \in QrState
    BY DEF NoQr, QrState, Trust, Cert
  <2>3. CASE qr' = qr
    BY <2>1, <2>3
  <2>4. ASSUME NEW t \in Trusts, AskQr(t) PROVE qr' \in QrState
    <3>1. t \in Trust
      BY PairingAssumption
    <3> QED BY <2>2, <2>4, <3>1 DEF AskQr, QrState
  <2>5. CASE NotRunning
    BY <2>2, <2>5 DEF NotRunning
  <2>6. CASE Locate
    <3>1. PICK h \in Advertise(bind, addr) :
       qr' = [qr EXCEPT !.host = h,
                        !.at = CASE qr.trust = "ca" -> "ready" [] qr.trust = "pin" -> "pin"
                                 [] qr.trust = "auto" -> "ask"]
      BY <2>6 DEF Locate
    <3>2. h \in Name
      BY <2>1
    <3>3. (CASE qr.trust = "ca" -> "ready" [] qr.trust = "pin" -> "pin"
              [] qr.trust = "auto" -> "ask") \in {"ready", "pin", "ask"}
      BY <2>1 DEF QrState, Trust
    <3> QED BY <2>1, <3>1, <3>2, <3>3 DEF QrState, Trust
  <2>7. CASE AskMode
    BY <2>1, <2>7 DEF AskMode, QrState, Trust
  <2>8. CASE ReadPin
    <3>1. qr' = NoQr \/ qr' = [qr EXCEPT !.at = "ready", !.pin = disk.crt]
      BY <2>8 DEF ReadPin
    <3> QED BY <2>1, <2>2, <3>1 DEF QrState, Trust
  <2>9. qr' = qr \/ QrStep
    BY DEF HostStep, Type, Save, ReadConfig, ConfigLoaded, Move,
     vars, screen, panel
  <2> QED BY <2>3, <2>4, <2>5, <2>6, <2>7, <2>8, <2>9 DEF QrStep
<1> QED BY <1>1, <1>2, <1>3 DEF TypeOK, QrState, Trust

\* Every step is one of these.
LEMMA Cases ==
  ASSUME [Next]_vars
  PROVE  \/ \E p \in Maker : LookAndLoad(p) \/ ReadKey(p) \/ Ends(p)
         \/ \E p \in Maker : LookAndMake(p)
         \/ \E p \in Maker : Write(p)
         \/ \E p \in Maker : Fails(p)
         \/ EnsureCert \/ Certify
         \/ StartByHand \/ StartByPanel
         \/ Serve \/ Stop
         \/ QrStep \/ HostStep \/ UNCHANGED vars
  BY Zenon DEF Next, QrStep, HostStep

LEMMA TypeStep ==
  ASSUME TypeOK, JobsHold, [Next]_vars
  PROVE  TypeOK'
  BY Cases, TypeOfJobs, TypeOfMake, TypeOfWrite, TypeOfFail, TypeOfBegin, TypeOfStart,
     TypeOfServe, TypeOfStop, TypeOfQuiet

----------------------------------------------------------------------------
(* Each part of the invariant, step by step.                               *)

\* The parts a quiet step cannot disturb.
LEMMA QuietKeeps ==
  ASSUME IInv, QuietStep
  PROVE  /\ JobsHold' /\ BootingMakes' /\ DiskHolds' /\ DaemonHolds'
         /\ DiskIsServed' /\ Solo' /\ TornHolds' /\ LastIsOnDisk' /\ OnlyForNames'
         /\ Bounded'
<1>1. JobsHold' /\ BootingMakes' /\ DiskHolds' /\ DaemonHolds'
  BY DEF IInv, QuietStep, JobsHold, JobHolds, BootingMakes, DiskHolds, DaemonHolds,
     Serving
<1>2. DiskIsServed' /\ Solo' /\ TornHolds' /\ LastIsOnDisk'
  BY DEF IInv, QuietStep, DiskIsServed, Loaded, Solo, Others, Serving, TornHolds, Quiet,
     PairOf, LastIsOnDisk, Whole, Unfailing
<1>3. OnlyForNames' /\ Bounded'
  BY DEF IInv, QuietStep, OnlyForNames, Serving, Follows, LaterByOthers, Others,
     Unfailing, Bounded
<1> QED BY <1>1, <1>2, <1>3

\* No two makers are at work unless they overlap.
LEMMA SoloStep ==
  ASSUME IInv, [Next]_vars
  PROVE  Solo'
<1> USE DEF IInv
<1> SUFFICES ASSUME ~overlap', NEW q \in Maker, NEW r \in Maker,
                    job'[q].at # "idle", job'[r].at # "idle"
             PROVE  q = r
  BY DEF Solo
<1>0. \A x, y \in Maker : ~overlap /\ job[x].at # "idle" /\ job[y].at # "idle" => x = y
  BY DEF Solo
<1>1. ASSUME NEW p \in Maker, LookAndLoad(p) \/ ReadKey(p) \/ Ends(p) PROVE q = r
  BY <1>0, <1>1, LoadEffect, KeyEffect, EndEffect DEF Idle
<1>2. ASSUME NEW p \in Maker, LookAndMake(p) PROVE q = r
  <2>1. /\ job[p].at = "look" /\ overlap' = overlap
        /\ \A x \in Maker \ {p} : job'[x] = job[x]
    BY <1>2, MakeEffect
  <2> QED BY <1>0, <2>1
<1>3. ASSUME NEW p \in Maker, Write(p) PROVE q = r
  BY <1>0, <1>3, WriteEffect
<1>4. ASSUME NEW p \in Maker, Fails(p) PROVE q = r
  BY <1>0, <1>4, FailEffect DEF Idle
<1>5. CASE EnsureCert \/ Certify
  <2>1. PICK p \in Maker, want \in SUBSET Name : Begin(p, want)
    BY <1>5, Begins DEF Maker
  <2>2. /\ \A x \in Maker \ {p} : job'[x] = job[x]
        /\ \A x \in Maker \ {p} : job[x].at = "idle"
    BY <2>1, BeginEffect
  <2> QED BY <2>2
<1>6. CASE StartByHand \/ StartByPanel
  <2>1. PICK kept \in SUBSET Name, cli \in Cli \cup {disk.san}, mode \in Mode :
          Start(kept, cli, mode)
    BY <1>6, Starts
  <2>2. CASE mode = "self"
    <3>1. /\ \A x \in Maker \ {"daemon"} : job'[x] = job[x]
          /\ \A x \in Maker \ {"daemon"} : job[x].at = "idle"
      BY <2>1, <2>2, StartEffect
    <3> QED BY <3>1
  <2>3. CASE mode # "self"
    <3>1. job' = job /\ overlap' = overlap
      BY <2>1, <2>3, StartEffect
    <3> QED BY <1>0, <3>1
  <2> QED BY <2>2, <2>3
<1>7. CASE Serve
  BY <1>0, <1>7, ServeEffect DEF Idle
<1>8. CASE Stop
  BY <1>0, <1>8, StopEffect
<1>9. CASE QrStep \/ HostStep \/ UNCHANGED vars
  BY <1>0, <1>9, QuietEffect DEF QuietStep
<1> QED BY <1>1, <1>2, <1>3, <1>4, <1>5, <1>6, <1>7, <1>8, <1>9, Cases

\* What a maker holds exists.
LEMMA JobsHoldStep ==
  ASSUME IInv, [Next]_vars
  PROVE  JobsHold'
<1> USE DEF IInv
<1> SUFFICES ASSUME NEW q \in Maker PROVE JobHolds(q)'
  BY DEF JobsHold
<1>0. JobHolds(q)
  BY DEF JobsHold
<1>a. ASSUME made' = made, job'[q] = job[q] PROVE JobHolds(q)'
  BY <1>0, <1>a DEF JobHolds
<1>b. ASSUME job'[q].at \in {"idle", "look"} PROVE JobHolds(q)'
  BY <1>b DEF JobHolds
<1>1. ASSUME NEW p \in Maker, LookAndLoad(p) \/ ReadKey(p) \/ Ends(p) PROVE JobHolds(q)'
  <2>1. CASE LookAndLoad(p)
    <3>1. disk.crt \in DOMAIN made \cup {Empty}
      BY <2>1, LoadEffect DEF DiskHolds
    <3> QED BY <1>a, <2>1, <3>1, LoadEffect DEF JobHolds
  <2>2. CASE ReadKey(p)
    BY <1>0, <1>a, <2>2, KeyEffect DEF JobHolds
  <2>3. CASE Ends(p)
    BY <1>a, <1>b, <2>3, EndEffect DEF Idle
  <2> QED BY <1>1, <2>1, <2>2, <2>3
<1>2. ASSUME NEW p \in Maker, LookAndMake(p) PROVE JobHolds(q)'
  <2>1. made' = Append(made, [names |-> job[p].want, by |-> p])
    BY <1>2, MakeEffect
  <2>2. PICK n \in Nat : n = Len(made)
    BY <2>1, Made
  <2>3. /\ DOMAIN made = 1 .. n /\ DOMAIN made' = 1 .. n + 1
        /\ made'[n + 1] = [names |-> job[p].want, by |-> p]
        /\ \A g \in DOMAIN made : made'[g] = made[g]
    BY <2>1, <2>2, Made
  <2>4. CASE q = p
    <3>1. /\ job'[p].at = "write" /\ job'[p].step = 1
          /\ job'[p].want = job[p].want
          /\ job'[p].crt = n + 1 /\ job'[p].key = n + 1
      BY <1>2, <2>2, MakeEffect
    <3> QED BY <2>3, <2>4, <3>1 DEF JobHolds
  <2>5. CASE q # p
    <3>1. job'[q] = job[q]
      BY <1>2, <2>5, MakeEffect
    <3> QED BY <1>0, <2>3, <3>1 DEF JobHolds
  <2> QED BY <2>4, <2>5
<1>3. ASSUME NEW p \in Maker, Write(p) PROVE JobHolds(q)'
  <2>1. CASE q = p
    <3>1. /\ job[p].at = "write" /\ job[p].step \in 1..6
          /\ job'[p].at = IF job[p].step = 6 THEN "done" ELSE "write"
          /\ job'[p].step = job[p].step + 1
          /\ job'[p].want = job[p].want
          /\ job'[p].crt = job[p].crt /\ job'[p].key = job[p].key
          /\ made' = made
      BY <1>3, WriteEffect
    <3> QED BY <1>0, <2>1, <3>1 DEF JobHolds
  <2> QED BY <1>3, <1>a, <2>1, WriteEffect
<1>4. ASSUME NEW p \in Maker, Fails(p) PROVE JobHolds(q)'
  BY <1>4, <1>a, <1>b, FailEffect DEF Idle
<1>5. CASE EnsureCert \/ Certify
  <2>1. PICK p \in Maker, want \in SUBSET Name : Begin(p, want)
    BY <1>5, Begins DEF Maker
  <2>2. made' = made
    BY <1>5 DEF EnsureCert, Certify
  <2> QED BY <1>a, <1>b, <2>1, <2>2, BeginEffect
<1>6. CASE StartByHand \/ StartByPanel
  <2>1. PICK kept \in SUBSET Name, cli \in Cli \cup {disk.san}, mode \in Mode :
          Start(kept, cli, mode)
    BY <1>6, Starts
  <2>2. made' = made
    BY <2>1, StartEffect
  <2>3. CASE mode = "self"
    <3>1. /\ \A x \in Maker \ {"daemon"} : job'[x] = job[x]
          /\ job'["daemon"].at = "look"
      BY <2>1, <2>3, StartEffect
    <3> QED BY <1>a, <1>b, <2>2, <3>1
  <2>4. CASE mode # "self"
    BY <1>a, <2>1, <2>2, <2>4, StartEffect
  <2> QED BY <2>3, <2>4
<1>7. CASE Serve
  BY <1>7, <1>a, <1>b, ServeEffect DEF Idle
<1>8. CASE Stop
  BY <1>8, <1>a, StopEffect
<1>9. CASE QrStep \/ HostStep \/ UNCHANGED vars
  BY <1>9, QuietEffect, QuietKeeps DEF JobsHold
<1> QED BY <1>1, <1>2, <1>3, <1>4, <1>5, <1>6, <1>7, <1>8, <1>9, Cases

\* The daemon's maker is at work exactly while the daemon starts.
LEMMA BootingStep ==
  ASSUME IInv, [Next]_vars
  PROVE  BootingMakes'
<1> USE DEF IInv
<1>0. "daemon" \in Maker /\ "panel" \in Maker /\ "side" \in Maker
  BY DEF Maker
<1>a. ASSUME daemon' = daemon, job'["daemon"].at # "idle", job["daemon"].at # "idle",
             job'["daemon"].want = job["daemon"].want
      PROVE  BootingMakes'
  BY <1>a DEF BootingMakes
<1>b. ASSUME daemon' = daemon, job'["daemon"] = job["daemon"] PROVE BootingMakes'
  BY <1>b DEF BootingMakes
<1>1. ASSUME NEW p \in Maker, LookAndLoad(p) \/ ReadKey(p) \/ Ends(p) PROVE BootingMakes'
  BY <1>0, <1>1, <1>a, <1>b, LoadEffect, KeyEffect, EndEffect
<1>2. ASSUME NEW p \in Maker, LookAndMake(p) PROVE BootingMakes'
  <2>1. /\ job[p].at = "look" /\ job'[p].at = "write" /\ job'[p].want = job[p].want
        /\ daemon' = daemon /\ \A q \in Maker \ {p} : job'[q] = job[q]
    BY <1>2, MakeEffect
  <2> QED BY <1>0, <1>a, <1>b, <2>1
<1>3. ASSUME NEW p \in Maker, Write(p) PROVE BootingMakes'
  <2>1. /\ job[p].at = "write" /\ job'[p].at # "idle" /\ job'[p].want = job[p].want
        /\ daemon' = daemon /\ \A q \in Maker \ {p} : job'[q] = job[q]
    BY <1>3, WriteEffect
  <2> QED BY <1>0, <1>a, <1>b, <2>1
<1>4. ASSUME NEW p \in Maker, Fails(p) PROVE BootingMakes'
  <2>1. CASE p = "daemon"
    <3>1. job'["daemon"].at = "idle" /\ daemon'.at = "down"
      BY <1>4, <2>1, FailEffect DEF Idle, Down
    <3> QED BY <3>1 DEF BootingMakes
  <2> QED BY <1>0, <1>4, <1>b, <2>1, FailEffect
<1>5. CASE EnsureCert \/ Certify
  <2>1. PICK p \in {"panel", "side"}, want \in SUBSET Name :
          Begin(p, want) /\ daemon' = daemon
    BY <1>5, Begins
  <2>2. p \in Maker /\ p # "daemon"
    BY <1>0, <2>1
  <2>3. \A q \in Maker \ {p} : job'[q] = job[q]
    BY <2>1, <2>2, BeginEffect
  <2> QED BY <1>0, <1>b, <2>1, <2>2, <2>3
<1>6. CASE StartByHand \/ StartByPanel
  <2>1. PICK kept \in SUBSET Name, cli \in Cli \cup {disk.san}, mode \in Mode :
          Start(kept, cli, mode)
    BY <1>6, Starts
  <2>2. CASE mode = "self"
    <3>1. /\ job'["daemon"].at = "look" /\ job'["daemon"].want = CollectSans(cli)
          /\ daemon'.at = "booting" /\ daemon'.mode = "self"
          /\ daemon'.want = CollectSans(cli)
      BY <2>1, <2>2, StartEffect
    <3> QED BY <3>1 DEF BootingMakes
  <2>3. CASE mode # "self"
    <3>1. job' = job
      BY <2>1, <2>3, StartEffect
    <3>3. daemon'.at = "serving"
      BY <2>1, <2>3, StartEffect
    <3>2. daemon.at # "booting"
      BY <2>1 DEF Start
    <3> QED BY <3>1, <3>2, <3>3 DEF BootingMakes
  <2> QED BY <2>2, <2>3
<1>7. CASE Serve
  <2>1. job'["daemon"].at = "idle" /\ daemon'.at \in {"serving", "refused"}
    BY <1>7, ServeEffect DEF Idle
  <2> QED BY <2>1 DEF BootingMakes
<1>8. CASE Stop
  BY <1>8, StopEffect DEF BootingMakes
<1>9. CASE QrStep \/ HostStep \/ UNCHANGED vars
  BY <1>9, QuietEffect, QuietKeeps
<1> QED BY <1>1, <1>2, <1>3, <1>4, <1>5, <1>6, <1>7, <1>8, <1>9, Cases

\* Files hold certificates that were made.
LEMMA DiskStep ==
  ASSUME IInv, [Next]_vars
  PROVE  DiskHolds'
<1> USE DEF IInv
<1>a. ASSUME made' = made, disk' = disk PROVE DiskHolds'
  BY <1>a DEF DiskHolds
<1>1. ASSUME NEW p \in Maker, LookAndLoad(p) \/ ReadKey(p) \/ Ends(p) PROVE DiskHolds'
  BY <1>1, <1>a, LoadEffect, KeyEffect, EndEffect
<1>2. ASSUME NEW p \in Maker, LookAndMake(p) PROVE DiskHolds'
  <2>1. made' = Append(made, [names |-> job[p].want, by |-> p])
        /\ disk' = disk
    BY <1>2, MakeEffect
  <2>2. DOMAIN made \subseteq DOMAIN made'
    BY <2>1, Made
  <2> QED BY <2>1, <2>2 DEF DiskHolds
<1>3. ASSUME NEW p \in Maker, Write(p) PROVE DiskHolds'
  <2>1. job[p].crt \in DOMAIN made /\ job[p].key = job[p].crt /\ made' = made
    BY <1>3, WriteEffect DEF JobsHold, JobHolds
  <2>2. /\ disk'.crt \in {Empty, job[p].crt, disk.crt}
        /\ disk'.key \in {Empty, job[p].key, disk.key}
    BY <1>3, WriteDisk
  <2> QED BY <2>1, <2>2 DEF DiskHolds
<1>4. ASSUME NEW p \in Maker, Fails(p) PROVE DiskHolds'
  BY <1>4, <1>a, FailEffect
<1>5. CASE EnsureCert \/ Certify
  BY <1>5, <1>a DEF EnsureCert, Certify
<1>6. CASE StartByHand \/ StartByPanel
  BY <1>6, <1>a, Starts, StartEffect
<1>7. CASE Serve
  BY <1>7, <1>a, ServeEffect
<1>8. CASE Stop
  BY <1>8, <1>a, StopEffect
<1>9. CASE QrStep \/ HostStep \/ UNCHANGED vars
  BY <1>9, QuietEffect, QuietKeeps
<1> QED BY <1>1, <1>2, <1>3, <1>4, <1>5, <1>6, <1>7, <1>8, <1>9, Cases

\* Failures are counted down.
LEMMA BoundedStep ==
  ASSUME IInv, [Next]_vars
  PROVE  Bounded' /\ (Unfailing' => Unfailing /\ left'["failure"] = left["failure"])
<1> USE DEF IInv
<1>0. left["failure"] \in Nat /\ Tries["failure"] \in Nat
  BY PairingAssumption, Kinds DEF TypeOK
<1>a. ASSUME left'["failure"] = left["failure"]
      PROVE  Bounded' /\ (Unfailing' => Unfailing /\ left'["failure"] = left["failure"])
  BY <1>a DEF Bounded, Unfailing
<1>1. ASSUME NEW p \in Maker, LookAndLoad(p) \/ ReadKey(p) \/ Ends(p)
      PROVE  left'["failure"] = left["failure"]
  BY <1>1, LoadEffect, KeyEffect, EndEffect
<1>2. ASSUME NEW p \in Maker, LookAndMake(p) PROVE left'["failure"] = left["failure"]
  BY <1>2, MakeEffect
<1>3. ASSUME NEW p \in Maker, Write(p) PROVE left'["failure"] = left["failure"]
  BY <1>3, WriteEffect
<1>4. ASSUME NEW p \in Maker, Fails(p)
      PROVE  Bounded' /\ (Unfailing' => Unfailing /\ left'["failure"] = left["failure"])
  <2>1. left'["failure"] = left["failure"] - 1
    BY <1>4, FailEffect
  <2> QED BY <1>0, <2>1 DEF Bounded, Unfailing
<1>5. CASE EnsureCert \/ Certify
  <2>1. PICK p \in {"panel", "side"}, want \in SUBSET Name : Begin(p, want)
    BY <1>5, Begins
  <2>2. p \in Maker
    BY DEF Maker
  <2> QED BY <2>1, <2>2, <1>a, BeginEffect
<1>6. CASE StartByHand \/ StartByPanel
  BY <1>6, <1>a, Starts, StartEffect
<1>7. CASE Serve
  BY <1>7, <1>a, ServeEffect
<1>8. CASE Stop
  BY <1>8, <1>a, StopEffect
<1>9. CASE QrStep \/ HostStep \/ UNCHANGED vars
  BY <1>9, <1>a, QuietEffect DEF QuietStep
<1> QED BY <1>1, <1>2, <1>3, <1>4, <1>5, <1>6, <1>7, <1>8, <1>9, <1>a, Cases

\* What daemons served was made.
LEMMA DaemonStep ==
  ASSUME IInv, [Next]_vars
  PROVE  DaemonHolds'
<1> USE DEF IInv
<1>0. left["daemon"] \in Nat /\ daemon.n \in Nat
  BY Kinds DEF TypeOK
<1>a. ASSUME DOMAIN made \subseteq DOMAIN made', daemon' = daemon, before' = before,
             left'["daemon"] = left["daemon"]
      PROVE  DaemonHolds'
  BY <1>a DEF DaemonHolds, Serving
<1>1. ASSUME NEW p \in Maker, LookAndLoad(p) \/ ReadKey(p) \/ Ends(p) PROVE DaemonHolds'
  BY <1>1, <1>a, LoadEffect, KeyEffect, EndEffect
<1>2. ASSUME NEW p \in Maker, LookAndMake(p) PROVE DaemonHolds'
  <2>1. made' = Append(made, [names |-> job[p].want, by |-> p])
        /\ daemon' = daemon /\ before' = before /\ left' = left
    BY <1>2, MakeEffect
  <2>2. DOMAIN made \subseteq DOMAIN made'
    BY <2>1, Made
  <2> QED BY <1>a, <2>1, <2>2
<1>3. ASSUME NEW p \in Maker, Write(p) PROVE DaemonHolds'
  BY <1>3, <1>a, WriteEffect
<1>4. ASSUME NEW p \in Maker, Fails(p) PROVE DaemonHolds'
  <2>1. CASE p = "daemon"
    <3>1. daemon'.at = "down" /\ daemon'.n = daemon.n /\ daemon'.kept = {}
      BY <1>4, <2>1, FailEffect DEF TypeOK, Down
    <3>2. made' = made /\ before' = before /\ left'["daemon"] = left["daemon"]
      BY <1>4, FailEffect
    <3> QED BY <3>1, <3>2 DEF DaemonHolds, Serving
  <2> QED BY <1>4, <1>a, <2>1, FailEffect
<1>5. CASE EnsureCert \/ Certify
  <2>1. PICK p \in {"panel", "side"}, want \in SUBSET Name :
          Begin(p, want) /\ UNCHANGED <<made, daemon, before>>
    BY <1>5, Begins
  <2>2. p \in Maker
    BY DEF Maker
  <2> QED BY <2>1, <2>2, <1>a, BeginEffect
<1>6. CASE StartByHand \/ StartByPanel
  <2>1. PICK kept \in SUBSET Name, cli \in Cli \cup {disk.san}, mode \in Mode :
          Start(kept, cli, mode) /\ kept \subseteq cli
    BY <1>6, Starts
  <2>2. /\ daemon'.n = left["daemon"] /\ left["daemon"] > 0
        /\ left'["daemon"] = left["daemon"] - 1 /\ made' = made /\ before' = before
    BY <2>1, StartEffect
  <2>3. /\ daemon'.kept = IF mode = "self" THEN kept ELSE {}
        /\ daemon'.want = IF mode = "self" THEN CollectSans(cli) ELSE {}
    <3>1. TypeOK
      OBVIOUS
    <3> HIDE DEF IInv
    <3> QED BY <2>1, <3>1, StartEffect, ZenonT(60)
  <2>4. ~(daemon'.at = "serving" /\ daemon'.mode = "self")
    BY <2>1, StartEffect
  <2>5. daemon'.kept \subseteq daemon'.want
    BY <2>1, <2>3 DEF CollectSans
  <2> QED BY <1>0, <2>2, <2>4, <2>5 DEF DaemonHolds, Serving
<1>7. CASE Serve
  <2>1. /\ job["daemon"].at = "done" /\ "daemon" \in Maker
        /\ daemon'.at = "serving" => job["daemon"].crt # Empty
        /\ daemon'.at = "serving" => /\ daemon'.crt = job["daemon"].crt
                                     /\ daemon'.kept = daemon.kept
                                     /\ daemon'.want = daemon.want
        /\ daemon'.at # "serving" => daemon'.kept = {}
        /\ daemon'.n = daemon.n /\ daemon.at = "booting"
    BY <1>7, ServeEffect DEF Maker
  <2>2. UNCHANGED <<made, before, left>>
    BY <1>7, ServeEffect
  <2>3. job["daemon"].crt \in DOMAIN made \cup {Empty}
    BY <2>1 DEF JobsHold, JobHolds
  <2> QED BY <2>1, <2>2, <2>3 DEF DaemonHolds, Serving
<1>8. CASE Stop
  <2>1. before' \in DOMAIN made \cup {Absent}
    BY <1>8, StopEffect DEF DaemonHolds, Serving
  <2>2. /\ daemon'.at = "down" /\ daemon'.n = daemon.n /\ daemon'.kept = {}
        /\ made' = made /\ left' = left
    BY <1>8, StopEffect
  <2> QED BY <2>1, <2>2 DEF DaemonHolds, Serving
<1>9. CASE QrStep \/ HostStep \/ UNCHANGED vars
  BY <1>9, QuietEffect, QuietKeeps
<1> QED BY <1>1, <1>2, <1>3, <1>4, <1>5, <1>6, <1>7, <1>8, <1>9, Cases

\* A new certificate leaves the operator's where they are, and may be one of them.
LEMMA OthersGrow ==
  ASSUME TypeOK, NEW m, made' = Append(made, m)
  PROVE  /\ Others \subseteq Others'
         /\ \A g \in Others' : g \in Others \/ (g = Len(made) + 1 /\ m.by # "daemon")
         /\ m.by # "daemon" => Len(made) + 1 \in Others'
<1>1. PICK n \in Nat : n = Len(made)
  BY Made
<1>2. /\ DOMAIN made = 1 .. n /\ DOMAIN made' = 1 .. n + 1 /\ made'[n + 1] = m
      /\ \A g \in DOMAIN made : made'[g] = made[g]
  BY <1>1, Made
<1>3. \A g \in 1 .. n : made'[g].by = made[g].by
  BY <1>2
<1>4. Others \subseteq Others'
  BY <1>2, <1>3 DEF Others
<1>5. ASSUME NEW g \in Others' PROVE g \in Others \/ (g = n + 1 /\ m.by # "daemon")
  <2>1. g \in 1 .. n + 1 /\ made'[g].by # "daemon"
    BY <1>2, <1>5 DEF Others
  <2>2. CASE g = n + 1
    BY <1>2, <2>1, <2>2
  <2>3. CASE g \in 1 .. n
    BY <1>2, <1>3, <2>1, <2>3 DEF Others
  <2> QED BY <2>1, <2>2, <2>3
<1>6. m.by # "daemon" => n + 1 \in Others'
  BY <1>2 DEF Others
<1> QED BY <1>1, <1>4, <1>5, <1>6

\* The certificate on disk is the one served, or the operator's.
LEMMA ServedStep ==
  ASSUME IInv, [Next]_vars
  PROVE  DiskIsServed'
<1> USE DEF IInv
<1>0. "daemon" \in Maker
  BY DEF Maker
<1>a. ASSUME Others \subseteq Others', disk' = disk, daemon' = daemon,
             \/ job'["daemon"] = job["daemon"]
             \/ ~Loaded(job'["daemon"])
             \/ job'["daemon"].crt = disk.crt
             \/ Loaded(job["daemon"]) /\ job'["daemon"].crt = job["daemon"].crt
      PROVE  DiskIsServed'
  BY <1>a DEF DiskIsServed, Serving
<1>b. made' = made => Others' = Others
  BY DEF Others
<1>1. ASSUME NEW p \in Maker, LookAndLoad(p) \/ ReadKey(p) \/ Ends(p) PROVE DiskIsServed'
  <2>1. UNCHANGED <<disk, daemon, made>>
    BY <1>1, LoadEffect, KeyEffect, EndEffect
  <2>2. CASE p = "daemon" /\ LookAndLoad(p)
    <3>1. job'["daemon"].crt = disk.crt
      BY <2>2, LoadEffect
    <3> QED BY <1>a, <1>b, <2>1, <3>1
  <2>3. CASE p = "daemon" /\ ReadKey(p)
    <3>1. job["daemon"].at = "read" /\ job'["daemon"].crt = job["daemon"].crt
      BY <2>3, KeyEffect
    <3>2. Loaded(job["daemon"])
      BY <3>1 DEF Loaded
    <3> QED BY <1>a, <1>b, <2>1, <3>1, <3>2
  <2>4. CASE p # "daemon"
    <3>1. job'["daemon"] = job["daemon"]
      BY <1>0, <1>1, <2>4, LoadEffect, KeyEffect, EndEffect
    <3> QED BY <1>a, <1>b, <2>1, <3>1
  <2> QED BY <1>1, <2>2, <2>3, <2>4 DEF Ends
<1>2. ASSUME NEW p \in Maker, LookAndMake(p) PROVE DiskIsServed'
  <2>1. /\ made' = Append(made, [names |-> job[p].want, by |-> p])
        /\ disk' = disk /\ daemon' = daemon
        /\ job'[p].at = "write" /\ job'[p].step = 1
        /\ \A q \in Maker \ {p} : job'[q] = job[q]
    BY <1>2, MakeEffect
  <2>2. Others \subseteq Others'
    BY <2>1, OthersGrow
  <2>3. job'["daemon"] = job["daemon"] \/ ~Loaded(job'["daemon"])
    BY <1>0, <2>1 DEF Loaded
  <2> QED BY <1>a, <2>1, <2>2, <2>3
<1>3. ASSUME NEW p \in Maker, Write(p) PROVE DiskIsServed'
  <2>1. /\ job[p].at = "write" /\ job[p].step \in 1..6
        /\ job'[p].crt = job[p].crt
        /\ \A q \in Maker \ {p} : job'[q] = job[q]
        /\ made' = made /\ daemon' = daemon
    BY <1>3, WriteEffect
  <2>2. disk'.crt = IF job[p].step = 1 THEN Empty
                    ELSE IF job[p].step = 2 THEN job[p].crt ELSE disk.crt
    BY <1>3, WriteDisk
  <2>3. CASE p = "daemon"
    <3>1. ~Serving
      BY <2>1, <2>3 DEF BootingMakes, Serving
    <3>2. disk'.crt \in {job'["daemon"].crt, Empty} \cup Others
      <4>1. CASE job[p].step > 2
        <5>1. Loaded(job["daemon"])
          BY <2>1, <2>3, <4>1 DEF Loaded
        <5> QED BY <2>1, <2>2, <2>3, <4>1, <5>1 DEF DiskIsServed
      <4> QED BY <2>1, <2>2, <2>3, <4>1
    <3> QED BY <1>b, <2>1, <3>1, <3>2 DEF DiskIsServed, Serving
  <2>4. CASE p # "daemon"
    <3>1. job[p].crt \in Others
      <4>1. /\ job[p].crt \in DOMAIN made
            /\ made[job[p].crt] = [names |-> job[p].want, by |-> p]
        BY <2>1 DEF JobsHold, JobHolds
      <4>2. made[job[p].crt].by = p
        BY <4>1
      <4> QED BY <2>4, <4>1, <4>2 DEF Others
    <3>2. disk'.crt \in {Empty, disk.crt} \cup Others
      BY <2>2, <3>1
    <3>3. job'["daemon"] = job["daemon"]
      BY <1>0, <2>1, <2>4
    <3> QED BY <1>b, <2>1, <3>2, <3>3 DEF DiskIsServed, Serving
  <2> QED BY <2>3, <2>4
<1>4. ASSUME NEW p \in Maker, Fails(p) PROVE DiskIsServed'
  <2>1. made' = made /\ disk' = disk
    BY <1>4, FailEffect
  <2>2. CASE p = "daemon"
    <3>1. daemon'.at = "down" /\ job'["daemon"] = Idle
      BY <1>4, <2>2, FailEffect DEF Down
    <3> QED BY <3>1 DEF DiskIsServed, Serving, Loaded, Idle
  <2>3. CASE p # "daemon"
    BY <1>0, <1>4, <1>a, <1>b, <2>1, <2>3, FailEffect
  <2> QED BY <2>2, <2>3
<1>5. CASE EnsureCert \/ Certify
  <2>1. PICK p \in {"panel", "side"}, want \in SUBSET Name :
          Begin(p, want) /\ UNCHANGED <<made, disk, daemon>>
    BY <1>5, Begins
  <2>2. p \in Maker /\ p # "daemon"
    BY <2>1 DEF Maker
  <2>3. job'["daemon"] = job["daemon"]
    <3>1. \A q \in Maker \ {p} : job'[q] = job[q]
      BY <2>1, <2>2, BeginEffect
    <3> QED BY <1>0, <2>2, <3>1
  <2> QED BY <1>a, <1>b, <2>1, <2>3
<1>6. CASE StartByHand \/ StartByPanel
  <2>1. PICK kept \in SUBSET Name, cli \in Cli \cup {disk.san}, mode \in Mode :
          Start(kept, cli, mode)
    BY <1>6, Starts
  <2>2. ~(daemon'.at = "serving" /\ daemon'.mode = "self") /\ disk' = disk /\ made' = made
    BY <2>1, StartEffect
  <2>3. CASE mode = "self"
    <3>1. job'["daemon"].at = "look"
      BY <2>1, <2>3, StartEffect
    <3> QED BY <2>2, <3>1 DEF DiskIsServed, Serving, Loaded
  <2>4. CASE mode # "self"
    <3>1. job' = job
      BY <2>1, <2>4, StartEffect
    <3> QED BY <1>b, <2>2, <3>1 DEF DiskIsServed, Serving
  <2> QED BY <2>3, <2>4
<1>7. CASE Serve
  <2>1. /\ job["daemon"].at = "done"
        /\ daemon'.at = "serving" => daemon'.crt = job["daemon"].crt
        /\ job'["daemon"] = Idle /\ disk' = disk /\ made' = made
    BY <1>7, ServeEffect
  <2>2. disk.crt \in {job["daemon"].crt, Empty} \cup Others
    BY <2>1 DEF DiskIsServed, Loaded
  <2> QED BY <1>b, <2>1, <2>2 DEF DiskIsServed, Serving, Loaded, Idle
<1>8. CASE Stop
  <2>1. daemon'.at = "down" /\ disk' = disk /\ job' = job /\ made' = made
    BY <1>8, StopEffect
  <2> QED BY <1>b, <2>1 DEF DiskIsServed, Serving
<1>9. CASE QrStep \/ HostStep \/ UNCHANGED vars
  BY <1>9, QuietEffect, QuietKeeps
<1> QED BY <1>1, <1>2, <1>3, <1>4, <1>5, <1>6, <1>7, <1>8, <1>9, Cases

\* What the QR under way knows of its daemon.
LEMMA QrStepKeeps ==
  ASSUME IInv, QrStep
  PROVE  QrHolds'
<1> USE DEF IInv
<1>1. QuietStep
  BY QuietEffect
<1>2. /\ UNCHANGED <<disk, made, job, daemon>> /\ left'["daemon"] = left["daemon"]
      /\ left["daemon"] \in Nat /\ daemon.n \in Nat /\ qr.peer \in Nat
      /\ qr.trust \in {"auto", "ca", "pin"} /\ qr \in QrState
  BY <1>1, Kinds DEF QuietStep, TypeOK, QrState, Trust
<1>3. Others' = Others
  BY <1>2 DEF Others
<1>a. ASSUME qr'.at \notin {"pin", "ready"}, qr'.pin = Absent,
             qr'.peer = 0 \/ qr'.peer = qr.peer
      PROVE  QrHolds'
  BY <1>2, <1>a DEF QrHolds, DaemonHolds
<1>4. ASSUME NEW t \in Trusts, AskQr(t) PROVE QrHolds'
  <2>1. qr'.at = "begun" /\ qr'.pin = Absent /\ qr'.peer = 0
    BY <1>4 DEF AskQr, NoQr
  <2> QED BY <1>a, <2>1
<1>5. CASE NotRunning
  BY <1>5, <1>a DEF NotRunning, NoQr
<1>6. CASE Locate
  <2>1. PICK h :
       qr' = [qr EXCEPT !.host = h,
                        !.at = CASE qr.trust = "ca" -> "ready" [] qr.trust = "pin" -> "pin"
                                 [] qr.trust = "auto" -> "ask"]
    BY <1>6 DEF Locate
  <2>2. qr'.pin = qr.pin /\ qr'.peer = qr.peer /\ qr'.trust = qr.trust
    BY <1>2, <2>1 DEF QrState, Trust
  <2>3. qr.pin = Absent
    BY <1>6 DEF Locate, QrHolds
  <2>4. qr.trust = "auto" => qr'.at = "ask"
    BY <1>2, <2>1 DEF QrState, Trust
  <2> QED BY <1>2, <2>2, <2>3, <2>4 DEF QrHolds
<1>7. CASE AskMode
  <2>1. /\ qr'.pin = qr.pin /\ qr.pin = Absent
        /\ qr'.peer = IF Serving THEN daemon.n ELSE 0
        /\ Serving => qr'.at = IF daemon.mode = "self" THEN "pin" ELSE "ready"
    BY <1>2, <1>7 DEF AskMode, Pins, QrState, Trust, QrHolds
  <2>2. Serving => daemon.n > left["daemon"] /\ daemon.n > 0
    BY <1>2 DEF Serving, DaemonHolds
  <2>3. daemon.at # "down" => daemon.n > 0
    BY DEF DaemonHolds
  <2> QED BY <1>2, <2>1, <2>2, <2>3 DEF QrHolds, Serving
<1>8. CASE ReadPin
  <2>1. CASE disk.crt \in {Absent, Empty}
    <3>1. qr'.at = "idle" /\ qr'.pin = Absent /\ qr'.peer = 0
      BY <1>8, <2>1 DEF ReadPin, NoQr
    <3> QED BY <1>a, <3>1
  <2>2. CASE disk.crt \notin {Absent, Empty}
    <3>1. /\ qr.at = "pin" /\ qr'.at = "ready" /\ qr'.pin = disk.crt
          /\ qr'.peer = qr.peer /\ qr'.trust = qr.trust
      BY <1>2, <1>8, <2>2 DEF ReadPin, QrState, Trust
    <3>2. disk.crt \in DOMAIN made
      BY <2>2 DEF DiskHolds
    <3>3. Serving /\ daemon.mode = "self" => disk.crt \in {daemon.crt} \cup Others
      BY <2>2 DEF DiskIsServed
    <3> QED BY <1>2, <1>3, <3>1, <3>2, <3>3 DEF QrHolds, Serving
  <2> QED BY <2>1, <2>2
<1> QED BY <1>4, <1>5, <1>6, <1>7, <1>8 DEF QrStep

LEMMA QrHoldsStep ==
  ASSUME IInv, [Next]_vars
  PROVE  QrHolds'
<1> USE DEF IInv
<1>0. /\ left["daemon"] \in Nat /\ daemon.n \in Nat /\ qr.peer \in Nat
  BY Kinds DEF TypeOK
<1>a. ASSUME DOMAIN made \subseteq DOMAIN made', Others \subseteq Others', qr' = qr,
             daemon' = daemon, left'["daemon"] = left["daemon"]
      PROVE  QrHolds'
  BY <1>a DEF QrHolds, Serving
<1>b. made' = made => DOMAIN made \subseteq DOMAIN made' /\ Others \subseteq Others'
  BY DEF Others
<1>c. ASSUME made' = made, qr' = qr, left'["daemon"] = left["daemon"],
             daemon'.at \notin {"booting", "serving"}
      PROVE  QrHolds'
  BY <1>c DEF QrHolds, Serving
<1>1. ASSUME NEW p \in Maker, LookAndLoad(p) \/ ReadKey(p) \/ Ends(p) PROVE QrHolds'
  BY <1>1, <1>a, <1>b, LoadEffect, KeyEffect, EndEffect
<1>2. ASSUME NEW p \in Maker, LookAndMake(p) PROVE QrHolds'
  <2>1. /\ made' = Append(made, [names |-> job[p].want, by |-> p])
        /\ qr' = qr /\ daemon' = daemon /\ left' = left
    BY <1>2, MakeEffect
  <2>2. DOMAIN made \subseteq DOMAIN made' /\ Others \subseteq Others'
    BY <2>1, Made, OthersGrow
  <2> QED BY <1>a, <2>1, <2>2
<1>3. ASSUME NEW p \in Maker, Write(p) PROVE QrHolds'
  BY <1>3, <1>a, <1>b, WriteEffect
<1>4. ASSUME NEW p \in Maker, Fails(p) PROVE QrHolds'
  <2>1. made' = made /\ qr' = qr /\ left'["daemon"] = left["daemon"]
    BY <1>4, FailEffect
  <2>2. CASE p = "daemon"
    <3>1. daemon'.at = "down"
      BY <1>4, <2>2, FailEffect DEF Down
    <3> QED BY <1>c, <2>1, <3>1
  <2> QED BY <1>4, <1>a, <1>b, <2>1, <2>2, FailEffect
<1>5. CASE EnsureCert \/ Certify
  <2>1. PICK p \in {"panel", "side"}, want \in SUBSET Name :
          Begin(p, want) /\ UNCHANGED <<made, qr, daemon>>
    BY <1>5, Begins
  <2>2. p \in Maker
    BY DEF Maker
  <2>3. left'["daemon"] = left["daemon"]
    BY <2>1, <2>2, BeginEffect
  <2> QED BY <1>a, <1>b, <2>1, <2>3
<1>6. CASE StartByHand \/ StartByPanel
  <2>1. PICK kept \in SUBSET Name, cli \in Cli \cup {disk.san}, mode \in Mode :
          Start(kept, cli, mode)
    BY <1>6, Starts
  <2>2. /\ daemon'.n = left["daemon"] /\ left["daemon"] > 0
        /\ left'["daemon"] = left["daemon"] - 1 /\ made' = made /\ qr' = qr
    BY <2>1, StartEffect
  <2>3. qr.peer # daemon'.n /\ (qr.peer = 0 \/ qr.peer > left'["daemon"])
    BY <1>0, <2>2 DEF QrHolds
  <2> QED BY <2>2, <2>3 DEF QrHolds, Serving
<1>7. CASE Serve
  <2>1. /\ daemon.at = "booting" /\ daemon'.at \in {"serving", "refused"}
        /\ daemon'.n = daemon.n /\ made' = made /\ qr' = qr /\ left' = left
    BY <1>7, ServeEffect
  <2>2. qr.peer # daemon'.n
    BY <2>1 DEF QrHolds
  <2> QED BY <2>1, <2>2 DEF QrHolds, Serving
<1>8. CASE Stop
  <2>1. daemon'.at = "down" /\ made' = made /\ qr' = qr /\ left' = left
    BY <1>8, StopEffect
  <2> QED BY <1>c, <2>1
<1>9. CASE HostStep \/ UNCHANGED vars
  <2>1. QuietStep /\ qr' = qr
    BY <1>9, QuietEffect DEF HostStep, Type, Save, ReadConfig, ConfigLoaded, Move,
     vars, screen, panel
  <2> QED BY <1>a, <1>b, <2>1 DEF QuietStep
<1>10. CASE QrStep
  BY <1>10, QrStepKeeps
<1> QED BY <1>1, <1>2, <1>3, <1>4, <1>5, <1>6, <1>7, <1>8, <1>9, <1>10, Cases

\* Makers that met have met.
LEMMA OverlapStays ==
  ASSUME IInv, [Next]_vars, ~overlap'
  PROVE  ~overlap
<1> USE DEF IInv
<1>1. ASSUME NEW p \in Maker, LookAndLoad(p) \/ ReadKey(p) \/ Ends(p) PROVE ~overlap
  BY <1>1, LoadEffect, KeyEffect, EndEffect
<1>2. ASSUME NEW p \in Maker, LookAndMake(p) PROVE ~overlap
  BY <1>2, MakeEffect
<1>3. ASSUME NEW p \in Maker, Write(p) PROVE ~overlap
  BY <1>3, WriteEffect
<1>4. ASSUME NEW p \in Maker, Fails(p) PROVE ~overlap
  BY <1>4, FailEffect
<1>5. CASE EnsureCert \/ Certify
  <2>1. PICK p \in Maker, want \in SUBSET Name : Begin(p, want)
    BY <1>5, Begins DEF Maker
  <2> QED BY <2>1, BeginEffect
<1>6. CASE StartByHand \/ StartByPanel
  <2>1. PICK kept \in SUBSET Name, cli \in Cli \cup {disk.san}, mode \in Mode :
          Start(kept, cli, mode)
    BY <1>6, Starts
  <2>2. CASE mode = "self"
    BY <2>1, <2>2, StartEffect
  <2>3. CASE mode # "self"
    <3>1. overlap' = overlap
      BY <2>1, <2>3, StartEffect
    <3> QED BY <3>1
  <2> QED BY <2>2, <2>3
<1>7. CASE Serve
  BY <1>7, ServeEffect
<1>8. CASE Stop
  BY <1>8, StopEffect
<1>9. CASE QrStep \/ HostStep \/ UNCHANGED vars
  BY <1>9, QuietEffect DEF QuietStep
<1> QED BY <1>1, <1>2, <1>3, <1>4, <1>5, <1>6, <1>7, <1>8, <1>9, Cases

\* A maker that is at work alone.
LEMMA Alone ==
  ASSUME IInv, ~overlap, NEW p \in Maker, job[p].at # "idle"
  PROVE  /\ \A q \in Maker \ {p} : job[q].at = "idle"
         /\ job[p].at # "write" => Quiet
  BY DEF IInv, Solo, Quiet

\* The files stay as they are, and one maker moves that did not write.
LEMMA TornFrame ==
  ASSUME IInv, ~overlap, NEW p \in Maker, UNCHANGED <<disk, torn>>,
         \A q \in Maker \ {p} : job'[q] = job[q],
         job[p].at # "write", PairOf(p)'
  PROVE  TornHolds'
<1>1. Quiet' => Quiet
  BY DEF Quiet
<1>2. ASSUME NEW q \in Maker PROVE PairOf(q)'
  BY <1>2 DEF IInv, TornHolds, PairOf
<1> QED BY <1>1, <1>2 DEF IInv, TornHolds

\* A maker that begins or ends, or has just looked, knows of no file.
LEMMA PairOfIdle ==
  ASSUME NEW p \in Maker, job'[p].at \in {"idle", "look"}
  PROVE  PairOf(p)'
  BY DEF PairOf

\* Writing a file.
LEMMA TornOfWrite ==
  ASSUME IInv, ~overlap, NEW p \in Maker, Write(p)
  PROVE  TornHolds'
<1> USE DEF IInv
<1>1. /\ job[p].at = "write" /\ job[p].step \in 1..6
      /\ job'[p].at = IF job[p].step = 6 THEN "done" ELSE "write"
      /\ job'[p].step = job[p].step + 1
      /\ job'[p].want = job[p].want /\ job'[p].crt = job[p].crt
      /\ job'[p].key = job[p].key
      /\ \A q \in Maker \ {p} : job'[q] = job[q]
      /\ torn' = IF job[p].step = 6 THEN {} ELSE torn
  BY WriteEffect
<1>2. /\ disk'.crt = IF job[p].step = 1 THEN Empty
                     ELSE IF job[p].step = 2 THEN job[p].crt ELSE disk.crt
      /\ disk'.key = IF job[p].step = 3 THEN Empty
                     ELSE IF job[p].step = 4 THEN job[p].key ELSE disk.key
      /\ disk'.san = IF job[p].step = 5 THEN {}
                     ELSE IF job[p].step = 6 THEN job[p].want ELSE disk.san
  BY WriteDisk
<1>3. job[p].crt \notin {Absent, Empty} /\ job[p].key = job[p].crt /\ Absent # Empty
  <2>1. job[p].crt \in DOMAIN made /\ job[p].key = job[p].crt
    BY <1>1 DEF JobsHold, JobHolds
  <2>2. job[p].crt \in Nat
    BY <2>1 DEF TypeOK
  <2> QED BY <2>1, <2>2, PairingAssumption
<1>4. PairOf(p)
  BY DEF TornHolds
<1>5. \A q \in Maker \ {p} : job'[q].at = "idle"
  BY <1>1, Alone
<1>6. PairOf(p)'
  BY <1>1, <1>2, <1>4 DEF PairOf
<1>7. \A q \in Maker : PairOf(q)'
  BY <1>5, <1>6 DEF PairOf
<1>8. \A t \in torn' : t = {} \/ ~(t \subseteq disk'.san)
  <2>1. \A t \in torn : t = {} \/ ~(t \subseteq disk.san)
    BY DEF TornHolds
  <2>2. torn' = {} \/ (torn' = torn /\ disk'.san \in {{}, disk.san})
    BY <1>1, <1>2
  <2> QED BY <2>1, <2>2
<1>9. disk'.crt = Absent \/ disk'.key = Absent => disk'.san = {}
  <2>1. disk.crt = Absent \/ disk.key = Absent => disk.san = {}
    BY DEF TornHolds
  <2>2. CASE job[p].step = 6
    BY <1>1, <1>2, <1>3, <1>4, <2>2 DEF PairOf
  <2>3. CASE job[p].step # 6
    BY <1>1, <1>2, <1>3, <2>1, <2>3
  <2> QED BY <2>2, <2>3
<1>10. Quiet' => disk'.crt = disk'.key /\ disk'.crt # Empty
  <2>1. CASE job[p].step = 6
    BY <1>1, <1>2, <1>3, <1>4, <2>1 DEF PairOf
  <2>2. CASE job[p].step # 6
    BY <1>1, <2>2 DEF Quiet
  <2> QED BY <2>1, <2>2
<1> QED BY <1>7, <1>8, <1>9, <1>10 DEF TornHolds

\* What failed is not covered, what did not is whole.
LEMMA TornStep ==
  ASSUME IInv, [Next]_vars
  PROVE  TornHolds'
<1> USE DEF IInv
<1> SUFFICES ASSUME ~overlap' PROVE TornHolds'
  BY DEF TornHolds
<1>0. ~overlap /\ "daemon" \in Maker
  BY OverlapStays DEF Maker
<1>1. ASSUME NEW p \in Maker, LookAndLoad(p) \/ ReadKey(p) \/ Ends(p) PROVE TornHolds'
  <2>1. /\ UNCHANGED <<disk, torn>> /\ job[p].at # "write"
        /\ \A q \in Maker \ {p} : job'[q] = job[q]
    BY <1>1, LoadEffect, KeyEffect, EndEffect
  <2>2. PairOf(p)'
    <3>1. CASE LookAndLoad(p)
      <4>1. /\ job[p].want \subseteq disk.san
            /\ job'[p].at = "read" /\ job'[p].want = job[p].want
            /\ job'[p].crt = disk.crt
        BY <3>1, LoadEffect
      <4> QED BY <2>1, <4>1 DEF PairOf
    <3>2. CASE ReadKey(p)
      <4>1. /\ job[p].at = "read" /\ job'[p].at = "done" /\ job'[p].want = job[p].want
            /\ job'[p].crt = job[p].crt /\ job'[p].key = disk.key
        BY <3>2, KeyEffect
      <4>2. PairOf(p)
        BY <1>0 DEF TornHolds
      <4> QED BY <2>1, <4>1, <4>2 DEF PairOf
    <3>3. CASE Ends(p)
      BY <3>3, EndEffect, PairOfIdle DEF Idle
    <3> QED BY <1>1, <3>1, <3>2, <3>3
  <2> QED BY <1>0, <2>1, <2>2, TornFrame
<1>2. ASSUME NEW p \in Maker, LookAndMake(p) PROVE TornHolds'
  <2>1. /\ job[p].at = "look"
        /\ disk.crt = Absent \/ disk.key = Absent \/ ~(job[p].want \subseteq disk.san)
        /\ job'[p].at = "write" /\ job'[p].step = 1 /\ job'[p].want = job[p].want
        /\ \A q \in Maker \ {p} : job'[q] = job[q]
        /\ UNCHANGED <<disk, torn>>
    BY <1>2, MakeEffect
  <2>2. job[p].want = {} \/ ~(job[p].want \subseteq disk.san)
    BY <1>0, <2>1 DEF TornHolds
  <2>3. PairOf(p)'
    BY <2>1, <2>2 DEF PairOf
  <2> QED BY <1>0, <2>1, <2>3, TornFrame
<1>3. ASSUME NEW p \in Maker, Write(p) PROVE TornHolds'
  BY <1>0, <1>3, TornOfWrite
<1>4. ASSUME NEW p \in Maker, Fails(p) PROVE TornHolds'
  <2>1. /\ job[p].at = "write" /\ job'[p] = Idle
        /\ \A q \in Maker \ {p} : job'[q] = job[q]
        /\ torn' = torn \cup {job[p].want} /\ disk' = disk
    BY <1>4, FailEffect
  <2>2. job[p].want = {} \/ ~(job[p].want \subseteq disk.san)
    <3>1. PairOf(p) /\ job[p].step \in 1..6
      BY <1>0, <2>1 DEF TornHolds, JobsHold, JobHolds
    <3>2. CASE job[p].step = 6
      BY <2>1, <3>1, <3>2 DEF PairOf
    <3>3. CASE job[p].step < 6
      BY <2>1, <3>1, <3>3 DEF PairOf
    <3> QED BY <3>1, <3>2, <3>3
  <2>3. \A t \in torn' : t = {} \/ ~(t \subseteq disk'.san)
    BY <1>0, <2>1, <2>2 DEF TornHolds
  <2>4. \A q \in Maker : PairOf(q)'
    <3>1. \A q \in Maker : job'[q].at = "idle"
      BY <1>0, <2>1, Alone DEF Idle
    <3> QED BY <3>1, PairOfIdle
  <2>5. torn' # {}
    BY <2>1
  <2>6. disk'.crt = Absent \/ disk'.key = Absent => disk'.san = {}
    BY <1>0, <2>1 DEF TornHolds
  <2> QED BY <2>3, <2>4, <2>5, <2>6 DEF TornHolds
<1>5. CASE EnsureCert \/ Certify
  <2>1. PICK p \in Maker, want \in SUBSET Name :
          Begin(p, want) /\ UNCHANGED <<disk, torn>>
    BY <1>5, Begins DEF Maker
  <2>2. /\ job[p].at = "idle" /\ job'[p].at = "look"
        /\ \A q \in Maker \ {p} : job'[q] = job[q]
    BY <2>1, BeginEffect
  <2> QED BY <1>0, <2>1, <2>2, TornFrame, PairOfIdle
<1>6. CASE StartByHand \/ StartByPanel
  <2>1. PICK kept \in SUBSET Name, cli \in Cli \cup {disk.san}, mode \in Mode :
          Start(kept, cli, mode)
    BY <1>6, Starts
  <2>2. UNCHANGED <<disk, torn>> /\ job["daemon"].at = "idle"
    <3>1. daemon.at # "booting"
      BY <2>1 DEF Start
    <3> QED BY <2>1, <3>1, StartEffect DEF BootingMakes
  <2>3. /\ \A q \in Maker \ {"daemon"} : job'[q] = job[q]
        /\ job'["daemon"].at \in {"idle", "look"}
    <3>1. CASE mode = "self"
      BY <2>1, <3>1, StartEffect
    <3>2. CASE mode # "self"
      <4>1. job' = job
        BY <2>1, <3>2, StartEffect
      <4> QED BY <2>2, <4>1
    <3> QED BY <3>1, <3>2
  <2> QED BY <1>0, <2>2, <2>3, TornFrame, PairOfIdle
<1>7. CASE Serve
  <2>1. /\ job["daemon"].at = "done" /\ job'["daemon"].at = "idle"
        /\ \A q \in Maker \ {"daemon"} : job'[q] = job[q]
        /\ UNCHANGED <<disk, torn>>
    BY <1>7, ServeEffect DEF Idle
  <2> QED BY <1>0, <2>1, TornFrame, PairOfIdle
<1>8. CASE Stop
  <2>1. UNCHANGED <<disk, torn, job, overlap>>
    BY <1>8, StopEffect
  <2> QED BY <2>1 DEF TornHolds, Quiet, PairOf
<1>9. CASE QrStep \/ HostStep \/ UNCHANGED vars
  BY <1>9, QuietEffect, QuietKeeps
<1> QED BY <1>1, <1>2, <1>3, <1>4, <1>5, <1>6, <1>7, <1>8, <1>9, Cases

\* Nothing is made, the files stay as they are, and one maker moves that did not write.
LEMMA LastFrame ==
  ASSUME IInv, ~overlap, Unfailing, NEW p \in Maker, UNCHANGED <<made, disk, torn>>,
         \A q \in Maker \ {p} : job'[q] = job[q],
         job[p].at # "write",
         job'[p].at \in {"read", "write", "done"} => job'[p].crt = Len(made)
  PROVE  LastIsOnDisk'
<1>1. Quiet' => Quiet
  BY DEF Quiet
<1>2. ASSUME NEW q \in Maker, job'[q].at \in {"read", "write", "done"}
      PROVE  job'[q].crt = Len(made')
  BY <1>2 DEF IInv, LastIsOnDisk
<1>3. torn' = {}
  BY DEF IInv, LastIsOnDisk
<1> QED BY <1>1, <1>2, <1>3 DEF IInv, LastIsOnDisk, Whole

\* While makers neither fail nor meet, the disk holds what was made last.
LEMMA LastStep ==
  ASSUME IInv, [Next]_vars
  PROVE  LastIsOnDisk'
<1> USE DEF IInv
<1> SUFFICES ASSUME ~overlap', Unfailing' PROVE LastIsOnDisk'
  BY DEF LastIsOnDisk
<1>0. ~overlap /\ Unfailing /\ left'["failure"] = left["failure"] /\ "daemon" \in Maker
  BY OverlapStays, BoundedStep DEF Maker
<1>u. torn = {} /\ left["failure"] \in Nat
  BY <1>0, Kinds DEF LastIsOnDisk, TypeOK
<1>1. ASSUME NEW p \in Maker, LookAndLoad(p) \/ ReadKey(p) \/ Ends(p) PROVE LastIsOnDisk'
  <2>1. /\ UNCHANGED <<made, disk, torn>> /\ job[p].at \notin {"idle", "write"}
        /\ \A q \in Maker \ {p} : job'[q] = job[q]
    BY <1>1, LoadEffect, KeyEffect, EndEffect
  <2>2. job'[p].at \in {"read", "write", "done"} => job'[p].crt = Len(made)
    <3>1. CASE LookAndLoad(p)
      <4>1. job'[p].crt = disk.crt /\ disk.crt # Absent
        BY <3>1, LoadEffect
      <4>2. Quiet
        BY <1>0, <2>1, Alone
      <4> QED BY <1>0, <4>1, <4>2 DEF LastIsOnDisk, Whole
    <3>2. CASE ReadKey(p)
      <4>1. job[p].at = "read" /\ job'[p].crt = job[p].crt
        BY <3>2, KeyEffect
      <4> QED BY <1>0, <4>1 DEF LastIsOnDisk
    <3>3. CASE Ends(p)
      BY <3>3, EndEffect DEF Idle
    <3> QED BY <1>1, <3>1, <3>2, <3>3
  <2> QED BY <1>0, <2>1, <2>2, LastFrame
<1>2. ASSUME NEW p \in Maker, LookAndMake(p) PROVE LastIsOnDisk'
  <2>1. /\ made' = Append(made, [names |-> job[p].want, by |-> p])
        /\ job[p].at = "look" /\ job'[p].at = "write" /\ job'[p].crt = Len(made) + 1
        /\ \A q \in Maker \ {p} : job'[q] = job[q]
        /\ torn' = torn
    BY <1>2, MakeEffect
  <2>2. Len(made') = Len(made) + 1
    BY <2>1, Made
  <2>3. \A q \in Maker \ {p} : job'[q].at = "idle"
    BY <1>0, <2>1, Alone
  <2>4. ~Quiet'
    BY <2>1 DEF Quiet
  <2>5. \A q \in Maker : job'[q].at \in {"read", "write", "done"} =>
                           job'[q].crt = Len(made')
    BY <2>1, <2>2, <2>3
  <2> QED BY <1>u, <2>1, <2>4, <2>5 DEF LastIsOnDisk
<1>3. ASSUME NEW p \in Maker, Write(p) PROVE LastIsOnDisk'
  <2>1. /\ job[p].at = "write" /\ job[p].step \in 1..6
        /\ job'[p].at = IF job[p].step = 6 THEN "done" ELSE "write"
        /\ job'[p].crt = job[p].crt /\ made' = made
        /\ \A q \in Maker \ {p} : job'[q] = job[q]
        /\ torn' = IF job[p].step = 6 THEN {} ELSE torn
    BY <1>3, WriteEffect
  <2>2. \A q \in Maker \ {p} : job'[q].at = "idle"
    BY <1>0, <2>1, Alone
  <2>3. job[p].crt = Len(made)
    BY <1>0, <2>1 DEF LastIsOnDisk
  <2>4. Quiet' => Whole'
    <3>1. CASE job[p].step = 6
      <4>1. disk'.crt = disk.crt /\ disk'.san = job[p].want
        BY <1>3, <3>1, WriteDisk
      <4>2. disk.crt = job[p].crt
        <5>1. PairOf(p)
          BY <1>0 DEF TornHolds
        <5> QED BY <2>1, <3>1, <5>1 DEF PairOf
      <4>3. /\ job[p].crt \in DOMAIN made
            /\ made[job[p].crt] = [names |-> job[p].want, by |-> p]
        BY <2>1 DEF JobsHold, JobHolds
      <4>4. made[Len(made)].names = job[p].want /\ made # << >>
        BY <2>3, <4>3
      <4> QED BY <2>1, <2>3, <4>1, <4>2, <4>4 DEF Whole
    <3>2. CASE job[p].step # 6
      BY <2>1, <3>2 DEF Quiet
    <3> QED BY <3>1, <3>2
  <2>5. \A q \in Maker : job'[q].at \in {"read", "write", "done"} =>
                           job'[q].crt = Len(made')
    BY <2>1, <2>2, <2>3
  <2>6. torn' = {}
    BY <1>u, <2>1
  <2> QED BY <2>4, <2>5, <2>6 DEF LastIsOnDisk
<1>4. ASSUME NEW p \in Maker, Fails(p) PROVE LastIsOnDisk'
  <2>1. left'["failure"] = left["failure"] - 1
    BY <1>4, FailEffect
  <2> QED BY <1>0, <1>u, <2>1
<1>5. CASE EnsureCert \/ Certify
  <2>1. PICK p \in Maker, want \in SUBSET Name :
          Begin(p, want) /\ UNCHANGED <<made, disk, torn>>
    BY <1>5, Begins DEF Maker
  <2>2. /\ job[p].at = "idle" /\ job'[p].at = "look"
        /\ \A q \in Maker \ {p} : job'[q] = job[q]
    BY <2>1, BeginEffect
  <2> QED BY <1>0, <2>1, <2>2, LastFrame
<1>6. CASE StartByHand \/ StartByPanel
  <2>1. PICK kept \in SUBSET Name, cli \in Cli \cup {disk.san}, mode \in Mode :
          Start(kept, cli, mode)
    BY <1>6, Starts
  <2>2. UNCHANGED <<made, disk, torn>> /\ job["daemon"].at = "idle"
    <3>1. daemon.at # "booting"
      BY <2>1 DEF Start
    <3> QED BY <2>1, <3>1, StartEffect DEF BootingMakes
  <2>3. /\ \A q \in Maker \ {"daemon"} : job'[q] = job[q]
        /\ job'["daemon"].at \in {"idle", "look"}
    <3>1. CASE mode = "self"
      BY <2>1, <3>1, StartEffect
    <3>2. CASE mode # "self"
      <4>1. job' = job
        BY <2>1, <3>2, StartEffect
      <4> QED BY <2>2, <4>1
    <3> QED BY <3>1, <3>2
  <2> QED BY <1>0, <2>2, <2>3, LastFrame
<1>7. CASE Serve
  <2>1. /\ job["daemon"].at = "done" /\ job'["daemon"].at = "idle"
        /\ \A q \in Maker \ {"daemon"} : job'[q] = job[q]
        /\ UNCHANGED <<made, disk, torn>>
    BY <1>7, ServeEffect DEF Idle
  <2> QED BY <1>0, <2>1, LastFrame
<1>8. CASE Stop
  <2>1. UNCHANGED <<made, disk, torn, job, overlap, left>>
    BY <1>8, StopEffect
  <2> QED BY <2>1 DEF LastIsOnDisk, Whole, Quiet, Unfailing
<1>9. CASE QrStep \/ HostStep \/ UNCHANGED vars
  BY <1>9, QuietEffect, QuietKeeps
<1> QED BY <1>1, <1>2, <1>3, <1>4, <1>5, <1>6, <1>7, <1>8, <1>9, Cases

\* The Cert screen shows what it did, and its maker stands still or goes on for the names
\* it was asked for, or ends.
LEMMA CertFrame ==
  ASSUME IInv, [Next]_vars, cert' = cert, DOMAIN made \subseteq DOMAIN made',
         \A g \in DOMAIN made : made'[g] = made[g],
         \/ job'["panel"].at = "idle"
         \/ job["panel"].at # "idle" /\ job'["panel"].want = job["panel"].want
  PROVE  CertHolds'
<1>1. Known' = Known
  BY DEF Known, Advertise
<1>2. job'["panel"].at # "idle" => Known' \subseteq job'["panel"].want
  BY <1>1 DEF IInv, CertHolds
<1>3. ASSUME Unfailing', ~overlap', cert'.crt # Absent
      PROVE  cert'.crt \in DOMAIN made' /\ Known' \subseteq made'[cert'.crt].names
  <2>1. Unfailing /\ ~overlap
    BY <1>3, BoundedStep, OverlapStays
  <2> QED BY <1>1, <1>3, <2>1 DEF IInv, CertHolds
<1> QED BY <1>2, <1>3 DEF CertHolds

\* The Cert screen's maker ends with what was made last, which is for its names.
LEMMA CertEnds ==
  ASSUME IInv, Ends("panel")
  PROVE  CertHolds'
<1> USE DEF IInv
<1>0. "panel" \in Maker
  BY DEF Maker
<1>1. /\ job["panel"].at = "done" /\ job'["panel"].at = "idle"
      /\ cert' = [cert EXCEPT !.crt = job["panel"].crt]
      /\ UNCHANGED <<disk, made, left, overlap, torn>>
  BY <1>0, EndEffect DEF Idle
<1>2. cert'.crt = job["panel"].crt /\ cert'.host = cert.host /\ cert'.ip = cert.ip
  BY <1>1 DEF TypeOK
<1>3. Known' = Known
  BY <1>2 DEF Known, Advertise
<1>4. ASSUME Unfailing', ~overlap'
      PROVE  cert'.crt \in DOMAIN made' /\ Known' \subseteq made'[cert'.crt].names
  <2>1. Unfailing /\ ~overlap
    BY <1>1, <1>4 DEF Unfailing
  <2>2. Quiet
    BY <1>0, <1>1, <2>1, Alone
  <2>3. PairOf("panel")
    BY <1>0, <2>1 DEF TornHolds
  <2>4. job["panel"].want \subseteq disk.san /\ disk.crt = job["panel"].crt
    BY <1>1, <2>3 DEF PairOf
  <2>5. Whole /\ job["panel"].crt = Len(made)
    BY <1>0, <1>1, <2>1, <2>2 DEF LastIsOnDisk
  <2>6. made # << >>
    <3>1. Len(made) \in Nat /\ Absent \notin Nat
      BY PairingAssumption DEF TypeOK
    <3> QED BY <2>4, <2>5, <3>1 DEF Whole
  <2>7. disk.san = made[Len(made)].names /\ Len(made) \in DOMAIN made
    BY <2>5, <2>6 DEF Whole, TypeOK
  <2>8. Known \subseteq job["panel"].want
    BY <1>1 DEF CertHolds
  <2> QED BY <1>1, <1>2, <1>3, <2>4, <2>5, <2>7, <2>8
<1> QED BY <1>1, <1>4 DEF CertHolds

\* The Cert screen asks for every address the panel would advertise, and gets them.
LEMMA CertStep ==
  ASSUME IInv, [Next]_vars
  PROVE  CertHolds'
<1> USE DEF IInv
<1>0. "daemon" \in Maker /\ "panel" \in Maker /\ "side" \in Maker
  BY DEF Maker
<1>a. ASSUME made' = made, cert' = cert,
             \/ job'["panel"].at = "idle"
             \/ job["panel"].at # "idle" /\ job'["panel"].want = job["panel"].want
      PROVE  CertHolds'
  BY <1>a, CertFrame
<1>b. ASSUME made' = made, cert' = cert, job'["panel"] = job["panel"]
      PROVE  CertHolds'
  BY <1>a, <1>b
<1>1. ASSUME NEW p \in Maker, LookAndLoad(p) \/ ReadKey(p) \/ Ends(p) PROVE CertHolds'
  <2>1. CASE LookAndLoad(p)
    <3>1. /\ made' = made /\ cert' = cert /\ job[p].at # "idle"
          /\ job'[p].want = job[p].want /\ \A q \in Maker \ {p} : job'[q] = job[q]
      BY <2>1, LoadEffect DEF screen
    <3> QED BY <1>0, <1>a, <1>b, <3>1
  <2>2. CASE ReadKey(p)
    <3>1. /\ made' = made /\ cert' = cert /\ job[p].at # "idle"
          /\ job'[p].want = job[p].want /\ \A q \in Maker \ {p} : job'[q] = job[q]
      BY <2>2, KeyEffect DEF screen
    <3> QED BY <1>0, <1>a, <1>b, <3>1
  <2>3. CASE Ends(p)
    <3>1. CASE p = "panel"
      BY <2>3, <3>1, CertEnds
    <3>2. CASE p # "panel"
      <4>1. made' = made /\ cert' = cert /\ job'["panel"] = job["panel"]
        BY <1>0, <2>3, <3>2, EndEffect
      <4> QED BY <1>b, <4>1
    <3> QED BY <3>1, <3>2
  <2> QED BY <1>1, <2>1, <2>2, <2>3
<1>2. ASSUME NEW p \in Maker, LookAndMake(p) PROVE CertHolds'
  <2>1. /\ job[p].at = "look" /\ job'[p].want = job[p].want /\ cert' = cert
        /\ \A q \in Maker \ {p} : job'[q] = job[q]
        /\ made' = Append(made, [names |-> job[p].want, by |-> p])
    BY <1>2, MakeEffect DEF screen
  <2>2. /\ DOMAIN made \subseteq DOMAIN made'
        /\ \A g \in DOMAIN made : made'[g] = made[g]
    BY <2>1, Made
  <2>3. \/ job'["panel"].at = "idle"
        \/ job["panel"].at # "idle" /\ job'["panel"].want = job["panel"].want
    BY <1>0, <2>1
  <2> QED BY <2>1, <2>2, <2>3, CertFrame
<1>3. ASSUME NEW p \in Maker, Write(p) PROVE CertHolds'
  <2>1. /\ job[p].at = "write" /\ job'[p].want = job[p].want /\ made' = made
        /\ cert' = cert /\ \A q \in Maker \ {p} : job'[q] = job[q]
    BY <1>3, WriteEffect DEF screen
  <2> QED BY <1>0, <1>a, <1>b, <2>1
<1>4. ASSUME NEW p \in Maker, Fails(p) PROVE CertHolds'
  <2>1. /\ job'[p].at = "idle" /\ made' = made /\ cert' = cert
        /\ \A q \in Maker \ {p} : job'[q] = job[q]
    BY <1>4, FailEffect DEF Idle, screen
  <2> QED BY <1>0, <1>a, <1>b, <2>1
<1>5. CASE EnsureCert \/ Certify
  <2>1. PICK p \in {"panel", "side"}, want \in SUBSET Name :
          /\ Begin(p, want) /\ made' = made
          /\ p = "panel" => cert'.crt = Absent /\ Known' \subseteq want
          /\ p = "side" => cert' = cert
    BY <1>5, Begins
  <2>2. p \in Maker
    BY <1>0, <2>1
  <2>3. job'[p].want = want /\ \A q \in Maker \ {p} : job'[q] = job[q]
    BY <2>1, <2>2, BeginEffect
  <2>4. CASE p = "panel"
    BY <2>1, <2>3, <2>4 DEF CertHolds
  <2>5. CASE p = "side"
    BY <1>0, <1>b, <2>1, <2>3, <2>5
  <2> QED BY <2>4, <2>5
<1>6. CASE StartByHand \/ StartByPanel
  <2>1. PICK kept \in SUBSET Name, cli \in Cli \cup {disk.san}, mode \in Mode :
          Start(kept, cli, mode)
    BY <1>6, Starts
  <2>2. job'["panel"] = job["panel"] /\ made' = made /\ cert' = cert
    <3>1. CASE mode = "self"
      BY <1>0, <2>1, <3>1, StartEffect DEF screen
    <3>2. CASE mode # "self"
      BY <2>1, <3>2, StartEffect DEF screen
    <3> QED BY <3>1, <3>2
  <2> QED BY <1>b, <2>2
<1>7. CASE Serve
  BY <1>0, <1>7, <1>b, ServeEffect DEF screen
<1>8. CASE Stop
  BY <1>8, <1>b, StopEffect DEF screen
<1>9. CASE QrStep \/ HostStep \/ UNCHANGED vars
  BY <1>9, <1>b, QuietEffect DEF QuietStep
<1> QED BY <1>1, <1>2, <1>3, <1>4, <1>5, <1>6, <1>7, <1>8, <1>9, Cases

\* What followed the one before still does: certificates are only added.
LEMMA StillFollows ==
  ASSUME TypeOK, DaemonHolds, NEW n, NEW want, before' = before,
         Others \subseteq Others', \A g \in DOMAIN made : made'[g] = made[g],
         Follows(n, want)
  PROVE  Follows(n, want)'
  BY DEF DaemonHolds, Follows

\* Nothing is made and the daemon's maker stands still.
LEMMA NamesFrame ==
  ASSUME IInv, ~overlap, Unfailing, UNCHANGED <<made, daemon, before>>,
         job'["daemon"] = job["daemon"]
  PROVE  OnlyForNames'
  BY DEF IInv, OnlyForNames, Serving, Follows, LaterByOthers, Others

\* A new certificate, by a daemon only if it is asked for a name the last one lacks.
LEMMA NamesOfMake ==
  ASSUME IInv, ~overlap, Unfailing, NEW p \in Maker, LookAndMake(p)
  PROVE  OnlyForNames'
<1> USE DEF IInv
<1>1. /\ job[p].at = "look" /\ job'[p].at = "write" /\ job'[p].crt = Len(made) + 1
      /\ job'[p].want = job[p].want
      /\ disk.crt = Absent \/ disk.key = Absent \/ ~(job[p].want \subseteq disk.san)
      /\ \A q \in Maker \ {p} : job'[q] = job[q]
      /\ daemon' = daemon /\ before' = before
  BY MakeEffect
<1>2. made' = Append(made, [names |-> job[p].want, by |-> p])
  BY MakeEffect
<1>3. PICK n \in Nat : n = Len(made)
  BY <1>2, Made
<1>4. /\ DOMAIN made = 1 .. n /\ DOMAIN made' = 1 .. n + 1
      /\ \A g \in DOMAIN made : made'[g] = made[g]
      /\ Others \subseteq Others'
  BY <1>2, <1>3, Made, OthersGrow
<1>5. "daemon" \in Maker /\ Quiet
  BY <1>1, Alone DEF Maker
<1>6. daemon'.at # "refused"
  BY <1>1 DEF OnlyForNames
<1>7. CASE p = "daemon"
  <2>1. ~(daemon'.at = "serving")
    BY <1>1, <1>7 DEF BootingMakes
  <2>w. PICK w : w = job[p].want
    OBVIOUS
  <2>2. Follows(n + 1, w)'
    <3>1. CASE before = Absent
      BY <1>1, <3>1 DEF Follows
    <3>2. CASE before # Absent
      <4>1. before \in 1 .. n
        BY <1>4, <3>2 DEF DaemonHolds
      <4>2. disk.crt = n /\ disk.san = made[n].names
        <5>1. made # << >>
          BY <1>3, <4>1
        <5> QED BY <1>3, <1>5, <5>1 DEF LastIsOnDisk, Whole
      <4>3. n # Absent
        BY PairingAssumption
      <4>4. disk.key = disk.crt
        BY <1>5 DEF LastIsOnDisk, TornHolds
      <4>5. ~(w \subseteq made[n].names)
        BY <1>1, <2>w, <4>2, <4>3, <4>4
      <4>6. CASE before = n
        BY <1>1, <1>4, <4>1, <4>5, <4>6 DEF Follows
      <4>7. CASE before # n
        <5>1. n \in Others
          <6>1. LaterByOthers(before)
            BY <1>1, <1>7, <2>1 DEF OnlyForNames, Serving
          <6> QED BY <1>4, <3>2, <4>1, <4>7, <6>1 DEF LaterByOthers
        <5>2. n \in Others' /\ n > before /\ n <= n + 1
          BY <1>4, <4>1, <4>7, <5>1
        <5> QED BY <1>1, <5>2 DEF Follows
      <4> QED BY <4>6, <4>7
    <3> QED BY <3>1, <3>2
  <2>3. job'["daemon"].crt = n + 1 /\ job'["daemon"].want = w
    BY <1>1, <1>3, <1>7, <2>w
  <2>4. Follows(job["daemon"].crt, job["daemon"].want)'
    BY <2>2, <2>3 DEF Follows
  <2>5. job'["daemon"].at = "write"
    BY <1>1, <1>7
  <2> QED BY <1>6, <2>1, <2>4, <2>5 DEF OnlyForNames, Serving
<1>8. CASE p # "daemon"
  <2>1. job["daemon"].at = "idle" /\ job'["daemon"] = job["daemon"]
    BY <1>1, <1>5, <1>8, Alone
  <2>2. n + 1 \in Others'
    BY <1>2, <1>3, <1>8, OthersGrow
  <2>3. ASSUME NEW k, LaterByOthers(k) PROVE LaterByOthers(k)'
    <3> SUFFICES ASSUME k # Absent, NEW g \in DOMAIN made', g > k PROVE g \in Others'
      BY DEF LaterByOthers
    <3>1. CASE g = n + 1
      BY <2>2, <3>1
    <3>2. CASE g # n + 1
      <4>1. g \in DOMAIN made
        BY <1>3, <1>4, <3>2
      <4> QED BY <1>4, <2>3, <4>1 DEF LaterByOthers
    <3> QED BY <3>1, <3>2
  <2>4. ASSUME Serving, daemon.mode = "self"
        PROVE  /\ Follows(daemon.crt, daemon.want)'
               /\ LaterByOthers(daemon.crt)'
               /\ daemon.want \subseteq made'[daemon.crt].names
    <3>1. /\ Follows(daemon.crt, daemon.want) /\ LaterByOthers(daemon.crt)
          /\ daemon.want \subseteq made[daemon.crt].names
          /\ daemon.crt \in DOMAIN made
      BY <2>4 DEF OnlyForNames, DaemonHolds
    <3>2. PICK c, w : c = daemon.crt /\ w = daemon.want
      OBVIOUS
    <3>3. Follows(c, w)'
      BY <1>1, <1>4, <3>1, <3>2, StillFollows
    <3>4. LaterByOthers(c)'
      BY <2>3, <3>1, <3>2
    <3> QED BY <1>1, <1>4, <3>1, <3>2, <3>3, <3>4 DEF Follows, LaterByOthers
  <2>5. ASSUME ~(Serving /\ daemon.mode = "self") PROVE LaterByOthers(before)'
    <3>1. LaterByOthers(before)
      BY <2>1, <2>5 DEF OnlyForNames
    <3>2. PICK b : b = before
      OBVIOUS
    <3>3. LaterByOthers(b)'
      BY <2>3, <3>1, <3>2
    <3> QED BY <1>1, <3>2, <3>3 DEF LaterByOthers
  <2> QED BY <1>1, <1>6, <2>1, <2>4, <2>5 DEF OnlyForNames, Serving, Follows, LaterByOthers
<1> QED BY <1>7, <1>8

\* A daemon makes a certificate only if it has to.
LEMMA NamesStep ==
  ASSUME IInv, [Next]_vars
  PROVE  OnlyForNames'
<1> USE DEF IInv
<1> SUFFICES ASSUME ~overlap', Unfailing' PROVE OnlyForNames'
  BY DEF OnlyForNames
<1>0. ~overlap /\ Unfailing /\ left'["failure"] = left["failure"] /\ "daemon" \in Maker
  BY OverlapStays, BoundedStep DEF Maker
<1>u. torn = {} /\ left["failure"] \in Nat
  BY <1>0, Kinds DEF LastIsOnDisk, TypeOK
<1>1. ASSUME NEW p \in Maker, LookAndLoad(p) \/ ReadKey(p) \/ Ends(p) PROVE OnlyForNames'
  <2>1. /\ UNCHANGED <<made, daemon, before>> /\ job[p].at \notin {"idle", "write"}
        /\ \A q \in Maker \ {p} : job'[q] = job[q]
    BY <1>1, LoadEffect, KeyEffect, EndEffect
  <2>2. CASE p # "daemon"
    BY <1>0, <2>1, <2>2, NamesFrame
  <2>3. CASE p = "daemon" /\ LookAndLoad(p)
    <3>1. /\ job["daemon"].at = "look" /\ job'["daemon"].at = "read"
          /\ disk.crt # Absent /\ job["daemon"].want \subseteq disk.san
          /\ job'["daemon"].crt = disk.crt /\ job'["daemon"].want = job["daemon"].want
      BY <2>3, LoadEffect
    <3>2. daemon.at = "booting" /\ Quiet
      BY <1>0, <3>1, Alone DEF BootingMakes
    <3>3. PICK n \in Nat : n = Len(made)
      BY DEF TypeOK
    <3>4. /\ made # << >> /\ disk.crt = n /\ disk.san = made[n].names
          /\ n \in DOMAIN made /\ DOMAIN made = 1 .. n
      BY <1>0, <3>1, <3>2, <3>3 DEF LastIsOnDisk, Whole, TypeOK
    <3>5. PICK w : w = job["daemon"].want
      OBVIOUS
    <3>6. Follows(n, w)
      <4>1. CASE before \in {Absent, n}
        BY <4>1 DEF Follows
      <4>2. CASE before \notin {Absent, n}
        <5>1. before \in 1 .. n /\ n > before
          BY <3>4, <4>2 DEF DaemonHolds
        <5>2. LaterByOthers(before)
          BY <1>0, <3>1, <3>2 DEF OnlyForNames, Serving
        <5>3. n \in Others
          BY <3>4, <4>2, <5>1, <5>2 DEF LaterByOthers
        <5> QED BY <5>1, <5>3 DEF Follows
      <4> QED BY <4>1, <4>2
    <3>7. Follows(n, w)'
      BY <2>1, <3>6 DEF Follows, Others
    <3>8. job'["daemon"].crt = n /\ job'["daemon"].want = w
      BY <3>1, <3>4, <3>5
    <3>9. Follows(job["daemon"].crt, job["daemon"].want)'
      BY <3>7, <3>8 DEF Follows
    <3> QED BY <2>1, <3>1, <3>2, <3>9 DEF OnlyForNames, Serving
  <2>4. CASE p = "daemon" /\ ReadKey(p)
    <3>1. /\ job["daemon"].at = "read" /\ job'["daemon"].at = "done"
          /\ job'["daemon"].crt = job["daemon"].crt
          /\ job'["daemon"].want = job["daemon"].want
      BY <2>4, KeyEffect
    <3>2. daemon.at = "booting"
      BY <3>1 DEF BootingMakes
    <3>3. Follows(job["daemon"].crt, job["daemon"].want)
      BY <1>0, <3>1 DEF OnlyForNames
    <3>4. Follows(job["daemon"].crt, job["daemon"].want)'
      BY <2>1, <3>1, <3>3 DEF Follows, Others
    <3> QED BY <2>1, <3>1, <3>2, <3>4 DEF OnlyForNames, Serving
  <2> QED BY <1>1, <2>2, <2>3, <2>4 DEF Ends
<1>2. ASSUME NEW p \in Maker, LookAndMake(p) PROVE OnlyForNames'
  BY <1>0, <1>2, NamesOfMake
<1>3. ASSUME NEW p \in Maker, Write(p) PROVE OnlyForNames'
  <2>1. /\ job[p].at = "write" /\ job'[p].at \in {"write", "done"}
        /\ job'[p].crt = job[p].crt /\ job'[p].want = job[p].want
        /\ \A q \in Maker \ {p} : job'[q] = job[q]
        /\ UNCHANGED <<made, daemon, before>>
    BY <1>3, WriteEffect
  <2>2. CASE p # "daemon"
    BY <1>0, <2>1, <2>2, NamesFrame
  <2>3. CASE p = "daemon"
    <3>1. daemon.at = "booting"
      BY <2>1, <2>3 DEF BootingMakes
    <3>2. Follows(job["daemon"].crt, job["daemon"].want)
      BY <1>0, <2>1, <2>3 DEF OnlyForNames
    <3>3. Follows(job["daemon"].crt, job["daemon"].want)'
      BY <2>1, <2>3, <3>2 DEF Follows, Others
    <3> QED BY <2>1, <2>3, <3>1, <3>3 DEF OnlyForNames, Serving
  <2> QED BY <2>2, <2>3
<1>4. ASSUME NEW p \in Maker, Fails(p) PROVE OnlyForNames'
  <2>1. left'["failure"] = left["failure"] - 1
    BY <1>4, FailEffect
  <2> QED BY <1>0, <1>u, <2>1
<1>5. CASE EnsureCert \/ Certify
  <2>1. PICK p \in {"panel", "side"}, want \in SUBSET Name :
          Begin(p, want) /\ UNCHANGED <<made, daemon, before>>
    BY <1>5, Begins
  <2>2. p \in Maker /\ p # "daemon"
    BY <2>1 DEF Maker
  <2>3. \A q \in Maker \ {p} : job'[q] = job[q]
    BY <2>1, <2>2, BeginEffect
  <2>4. job'["daemon"] = job["daemon"]
    BY <1>0, <2>2, <2>3
  <2> QED BY <1>0, <2>1, <2>4, NamesFrame
<1>6. CASE StartByHand \/ StartByPanel
  <2>1. PICK kept \in SUBSET Name, cli \in Cli \cup {disk.san}, mode \in Mode :
          Start(kept, cli, mode)
    BY <1>6, Starts
  <2>2. UNCHANGED <<made, before>> /\ job["daemon"].at = "idle"
        /\ daemon.at \notin {"serving", "booting"}
    <3>1. daemon.at \notin {"serving", "booting"}
      BY <2>1 DEF Start, Serving
    <3> QED BY <2>1, <3>1, StartEffect DEF BootingMakes
  <2>3. LaterByOthers(before)
    BY <1>0, <2>2 DEF OnlyForNames, Serving
  <2>4. LaterByOthers(before)'
    BY <2>2, <2>3 DEF LaterByOthers, Others
  <2>5. job'["daemon"].at \in {"idle", "look"}
    <3>1. CASE mode = "self"
      BY <2>1, <3>1, StartEffect
    <3>2. CASE mode # "self"
      <4>1. job' = job
        BY <2>1, <3>2, StartEffect
      <4> QED BY <2>2, <4>1
    <3> QED BY <3>1, <3>2
  <2>6. ~(daemon'.at = "serving" /\ daemon'.mode = "self") /\ daemon'.at # "refused"
    BY <2>1, StartEffect
  <2> QED BY <2>4, <2>5, <2>6 DEF OnlyForNames, Serving
<1>7. CASE Serve
  <2>1. /\ daemon.at = "booting" /\ job["daemon"].at = "done"
        /\ daemon'.at = IF /\ job["daemon"].crt = job["daemon"].key
                           /\ job["daemon"].crt # Empty
                        THEN "serving" ELSE "refused"
        /\ daemon'.at = "serving" => /\ daemon'.crt = job["daemon"].crt
                                     /\ daemon'.mode = daemon.mode
                                     /\ daemon'.want = daemon.want
        /\ job'["daemon"].at = "idle"
        /\ UNCHANGED <<made, before, disk, torn>>
    BY <1>7, ServeEffect DEF Idle
  <2>2. Quiet
    BY <1>0, <2>1, Alone
  <2>3. /\ job["daemon"].want \subseteq disk.san /\ disk.crt = job["daemon"].crt
        /\ disk.key = job["daemon"].key
    <3>1. PairOf("daemon")
      BY <1>0 DEF TornHolds
    <3> QED BY <2>1, <3>1 DEF PairOf
  <2>4. disk.crt = disk.key /\ disk.crt # Empty
    BY <1>0, <1>u, <2>2 DEF TornHolds
  <2>5. daemon'.at = "serving" /\ daemon'.mode = "self"
        /\ job["daemon"].want = daemon.want
    BY <2>1, <2>3, <2>4 DEF BootingMakes
  <2>6. PICK n \in Nat : n = Len(made)
    BY DEF TypeOK
  <2>7. job["daemon"].crt = n /\ n \in DOMAIN made /\ DOMAIN made = 1 .. n
    <3>1. job["daemon"].crt \in DOMAIN made \cup {Empty}
      BY <1>0, <2>1 DEF JobsHold, JobHolds
    <3>2. job["daemon"].crt = n
      BY <1>0, <2>1, <2>6 DEF LastIsOnDisk
    <3>3. job["daemon"].crt \in DOMAIN made
      BY <2>3, <2>4, <3>1
    <3>4. DOMAIN made = 1 .. n
      BY <2>6 DEF TypeOK
    <3> QED BY <3>2, <3>3, <3>4
  <2>8. PICK w : w = daemon.want
    OBVIOUS
  <2>9. Follows(n, w)
    BY <1>0, <2>1, <2>5, <2>7, <2>8 DEF OnlyForNames
  <2>10. daemon'.crt = n /\ daemon'.want = w
    BY <2>1, <2>5, <2>7, <2>8
  <2>11. Follows(daemon.crt, daemon.want)'
    BY <2>1, <2>9, <2>10 DEF Follows, Others
  <2>12. LaterByOthers(daemon.crt)'
    BY <2>1, <2>7, <2>10 DEF LaterByOthers
  <2>13. w \subseteq made[n].names
    <3>1. made # << >> /\ Whole
      BY <1>0, <2>2, <2>7 DEF LastIsOnDisk
    <3> QED BY <2>3, <2>5, <2>6, <2>8, <3>1 DEF Whole
  <2>14. daemon'.want \subseteq made'[daemon'.crt].names
    BY <2>1, <2>10, <2>13
  <2> QED BY <2>1, <2>5, <2>11, <2>12, <2>14 DEF OnlyForNames, Serving
<1>8. CASE Stop
  <2>1. /\ daemon.at = "serving" /\ daemon'.at = "down"
        /\ before' = IF daemon.mode = "self" THEN daemon.crt ELSE before
        /\ UNCHANGED <<made, job>>
    BY <1>8, StopEffect
  <2>2. job["daemon"].at = "idle"
    BY <2>1 DEF BootingMakes
  <2>3. LaterByOthers(before')
    BY <1>0, <2>1, <2>2 DEF OnlyForNames, Serving
  <2>4. LaterByOthers(before)'
    BY <2>1, <2>3 DEF LaterByOthers, Others
  <2> QED BY <2>1, <2>2, <2>4 DEF OnlyForNames, Serving
<1>9. CASE QrStep \/ HostStep \/ UNCHANGED vars
  BY <1>9, QuietEffect, QuietKeeps
<1> QED BY <1>1, <1>2, <1>3, <1>4, <1>5, <1>6, <1>7, <1>8, <1>9, Cases

----------------------------------------------------------------------------
(* The theorems.                                                           *)

LEMMA InitInv ==
  ASSUME Init
  PROVE  IInv
<1>1. TypeOK
  <2>1. /\ bind \in Host /\ addr \in Interface /\ "self" \in Mode
        /\ Absent \in Cert /\ {} \in SUBSET Name
    BY PairingAssumption DEF Init, Mode, Cert
  <2>2. disk \in [crt : Cert, key : Cert, san : SUBSET Name]
    BY <2>1 DEF Init
  <2>3. job \in [Maker -> JobState]
    BY IdleTyped DEF Init
  <2>4. daemon \in DaemonState
    BY <2>1 DEF Init, Down, DaemonState
  <2>5. qr \in QrState
    BY <2>1 DEF Init, NoQr, QrState, Trust
  <2>6. left \in [DOMAIN Tries -> Nat]
    BY PairingAssumption DEF Init
  <2>7. made \in Seq([names : SUBSET Name, by : Maker])
    BY DEF Init
  <2>8. before \in Cert /\ overlap \in BOOLEAN /\ torn \subseteq SUBSET Name
    BY <2>1 DEF Init
  <2>9. /\ typed = Absent /\ snap = Absent /\ load \in [host : Host, ip : Interface]
        /\ cert \in CertState
    BY <2>1 DEF Init, NoCert, CertState
  <2> QED BY <2>1, <2>2, <2>3, <2>4, <2>5, <2>6, <2>7, <2>8, <2>9
          DEF TypeOK, CertState, JobState, DaemonState, QrState, Trust
<1>2. DOMAIN made = {} /\ made = << >>
  BY DEF Init
<1>3. \A p \in Maker : job[p] = Idle
  BY DEF Init
<1>4. JobsHold /\ BootingMakes /\ CertHolds /\ DiskHolds
  BY <1>2, <1>3 DEF Init, JobsHold, JobHolds, BootingMakes, CertHolds, NoCert, DiskHolds, Idle,
     Down, Maker
<1>5. DaemonHolds /\ DiskIsServed /\ QrHolds
  BY <1>2, <1>3 DEF Init, DaemonHolds, DiskIsServed, QrHolds, Serving, Loaded, Idle, Down,
     NoQr, Maker
<1>6. Solo /\ TornHolds
  BY <1>3, PairingAssumption DEF Init, Solo, TornHolds, PairOf, Idle
<1>7. LastIsOnDisk
  BY <1>2, <1>3 DEF Init, LastIsOnDisk, Whole, Idle
<1>8. OnlyForNames
  BY <1>3 DEF Init, OnlyForNames, Serving, LaterByOthers, Idle, Down, Maker
<1>9. Bounded
  BY PairingAssumption DEF Init, Bounded
<1> QED BY <1>1, <1>4, <1>5, <1>6, <1>7, <1>8, <1>9 DEF IInv

LEMMA StepInv ==
  ASSUME IInv, [Next]_vars
  PROVE  IInv'
<1>1. TypeOK'
  BY TypeStep DEF IInv
<1>2. JobsHold' /\ BootingMakes' /\ CertHolds' /\ DiskHolds' /\ DaemonHolds'
  BY JobsHoldStep, BootingStep, CertStep, DiskStep, DaemonStep
<1>3. DiskIsServed' /\ QrHolds' /\ Solo' /\ TornHolds' /\ LastIsOnDisk'
  BY ServedStep, QrHoldsStep, SoloStep, TornStep, LastStep
<1>4. OnlyForNames' /\ Bounded'
  BY NamesStep, BoundedStep
<1> QED BY <1>1, <1>2, <1>3, <1>4 DEF IInv

LEMMA Invariance == Spec => []IInv
<1>1. Init => IInv
  BY InitInv
<1>2. IInv /\ [Next]_vars => IInv'
  BY StepInv
<1> QED BY <1>1, <1>2, PTL DEF Spec

\* Every variable keeps the shape its comment says.
THEOREM TypeCorrect == Spec => []TypeOK
<1>1. IInv => TypeOK
  BY DEF IInv
<1> QED BY <1>1, Invariance, PTL

\* A phone that scans a QR can trust the daemon that was asked for it: it pins the
\* certificate served, or one the operator had made meanwhile, or none if none is needed.
THEOREM QrsConnect == Spec => []ScansConnect
<1>1. IInv => ScansConnect
  <2> SUFFICES ASSUME IInv, Current, qr.trust = "auto"
               PROVE  IF daemon.mode # "self" THEN qr.pin = Absent
                      ELSE \/ qr.pin = daemon.crt
                           \/ qr.pin # Absent /\ made[qr.pin].by # "daemon"
    BY DEF ScansConnect
  <2> USE DEF IInv
  <2>1. qr.at = "ready" /\ Serving /\ qr.peer = daemon.n
    BY DEF Current
  <2>2. IF daemon.mode # "self" THEN qr.pin = Absent
        ELSE qr.pin \in {daemon.crt} \cup Others
    BY <2>1 DEF QrHolds
  <2>3. qr.pin \in Others => qr.pin # Absent /\ made[qr.pin].by # "daemon"
    <3>1. Others \subseteq DOMAIN made /\ DOMAIN made \subseteq Nat
      BY DEF Others, TypeOK
    <3>2. Absent \notin Nat
      BY PairingAssumption
    <3> QED BY <3>1, <3>2 DEF Others
  <2> QED BY <2>2, <2>3
<1> QED BY <1>1, Invariance, PTL

\* Phones that pinned one daemon's certificate can reach the next, while makers neither
\* fail nor meet: certificates are made for a new name or by the operator only.
THEOREM PinsOutlive == Spec => []PinsOutliveRestarts
<1>1. IInv => PinsOutliveRestarts
  <2> SUFFICES ASSUME IInv, Serving, daemon.mode = "self", before # Absent, Unfailing,
                      ~overlap
               PROVE  \/ daemon.crt = before
                      \/ ~(daemon.want \subseteq made[before].names)
                      \/ \E g \in before + 1 .. daemon.crt : made[g].by # "daemon"
    BY DEF PinsOutliveRestarts
  <2> USE DEF IInv
  <2>1. Follows(daemon.crt, daemon.want)
    BY DEF OnlyForNames
  <2>2. before \in Nat /\ daemon.crt \in Nat /\ DOMAIN made \subseteq Nat
    BY DEF DaemonHolds, TypeOK
  <2>3. ASSUME NEW g \in Others, g > before, g <= daemon.crt
        PROVE  g \in before + 1 .. daemon.crt /\ made[g].by # "daemon"
    BY <2>2, <2>3 DEF Others
  <2> QED BY <2>1, <2>3 DEF Follows
<1> QED BY <1>1, Invariance, PTL

\* A daemon the panel starts answers under every name the certificate had, while makers
\* neither fail nor meet.
THEOREM NamesKept == Spec => []PanelKeepsNames
<1>1. IInv => PanelKeepsNames
  BY DEF IInv, PanelKeepsNames, OnlyForNames, DaemonHolds
<1> QED BY <1>1, Invariance, PTL

\* The address in a QR is one that the certificate it pins is valid for, if this is the one
\* on the Cert screen and the panel could know of the address when it asked for it, while
\* makers neither fail nor meet.
THEOREM AddressIsCovered == Spec => []DialedIsCovered
<1>1. IInv => DialedIsCovered
  BY DEF IInv, CertHolds, DialedIsCovered
<1> QED BY <1>1, Invariance, PTL

\* No start is refused its pair before a maker failed, and none that asks for what a
\* failed maker was asked for, unless makers met.
THEOREM TornAreRedone == Spec => TornPairsAreRedone
<1>1. IInv /\ [Next]_vars =>
        [daemon.at = "booting" /\ daemon'.at = "refused" /\ ~overlap =>
           /\ torn # {}
           /\ \A t \in torn : t = {} \/ ~(t \subseteq daemon.want)]_vars
  <2> SUFFICES ASSUME IInv, [Next]_vars, daemon.at = "booting", daemon'.at = "refused",
                      ~overlap
               PROVE  /\ torn # {}
                      /\ \A t \in torn : t = {} \/ ~(t \subseteq daemon.want)
    OBVIOUS
  <2> USE DEF IInv
  <2>1. Serve
    <3>1. \A p \in Maker : ~(LookAndLoad(p) \/ ReadKey(p) \/ Ends(p))
      BY LoadEffect, KeyEffect, EndEffect
    <3>2. \A p \in Maker : ~LookAndMake(p)
      BY MakeEffect
    <3>3. \A p \in Maker : ~Write(p)
      BY WriteEffect
    <3>4. ASSUME NEW p \in Maker, Fails(p) PROVE FALSE
      <4>1. daemon' = daemon \/ daemon' = [Down EXCEPT !.n = daemon.n]
        BY <3>4, FailEffect
      <4> QED BY <4>1 DEF Down
    <3>5. ~(EnsureCert \/ Certify)
      BY DEF EnsureCert, Certify
    <3>6. ~(StartByHand \/ StartByPanel)
      BY DEF StartByHand, StartByPanel, Start
    <3>7. ~Stop
      BY DEF Stop, Serving
    <3>8. ~(QrStep \/ HostStep \/ UNCHANGED vars)
      BY QuietEffect DEF QuietStep
    <3> QED BY <3>1, <3>2, <3>3, <3>4, <3>5, <3>6, <3>7, <3>8, Cases
  <2>2. /\ job["daemon"].at = "done" /\ "daemon" \in Maker
        /\ ~(job["daemon"].crt = job["daemon"].key /\ job["daemon"].crt # Empty)
    BY <2>1, ServeEffect DEF Maker
  <2>3. /\ job["daemon"].want \subseteq disk.san /\ disk.crt = job["daemon"].crt
        /\ disk.key = job["daemon"].key
    <3>1. PairOf("daemon")
      BY <2>2 DEF TornHolds
    <3> QED BY <2>2, <3>1 DEF PairOf
  <2>4. Quiet
    BY <2>2, Alone
  <2>5. torn # {}
    BY <2>2, <2>3, <2>4 DEF TornHolds
  <2>6. job["daemon"].want = daemon.want
    BY DEF BootingMakes
  <2>7. \A t \in torn : t = {} \/ ~(t \subseteq disk.san)
    BY DEF TornHolds
  <2> QED BY <2>3, <2>5, <2>6, <2>7
<1> QED BY <1>1, Invariance, PTL DEF Spec, TornPairsAreRedone
=============================================================================
