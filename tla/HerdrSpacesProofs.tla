------------------------- MODULE HerdrSpacesProofs -------------------------
(***************************************************************************)
(* What HerdrSpaces promises, proved for any workspaces, clients, relays   *)
(* and calls: whom a switch moves, what an acknowledged one is worth, and  *)
(* where a close leaves its caller.                                        *)
(***************************************************************************)
EXTENDS HerdrSpaces, TLAPS, SequenceTheorems

\* The stages of a call whose command is in a relay's channel.
Behind == {"waiting", "ok", "unmoved", "failed"}

\* Workspaces are told apart, and none that was closed is there again.
Distinct == IsInjective(open) /\ Range(open) \subseteq made

\* Where a call's command may go: to its client's own relay, and a tab command
\* under a bare id to another that may write.
MayGo(k, c) ==
  \/ Owner[k] = c
  \/ /\ req[k].kind = "tab" /\ c \notin ReadOnly
     /\ idOf[Owner[k]] = "bare" /\ idOf[c] = "bare"

\* The relay a call names is one it may go to, and only tab commands go to the
\* daemon instead.
Meant(k) ==
  /\ req[k].conn \in Conn => MayGo(k, req[k].conn)
  /\ stage[k] = "idle" => req[k].kind = "get" /\ result[k] = NoSpace
  /\ stage[k] = "focusing" => req[k].kind = "tab"

\* What a call closed is gone, and is neither where its client is sent nor
\* where it is after that.
ClosedIsGone(k) ==
  req[k].kind = "close" =>
    /\ req[k].space \in made /\ result[k] # req[k].space
    /\ stage[k] \in {"closed", "repoint", "sending", "waiting", "ok", "unmoved"} =>
         req[k].space \notin Range(open)
    /\ stage[k] = "ok" => Where(Owner[k]) # req[k].space

\* A call that counted the spaces counted two, unless one was closed since.
CountStands(k) ==
  stage[k] = "counted" =>
    saw[k].closes <= closes /\ (saw[k].closes = closes => Len(open) > 1)

\* A channel holds each command that was to go there once, and what was
\* acknowledged of switches is done.
Channelled(c) ==
  /\ \A i \in 1 .. Len(sent[c]) :
       /\ MayGo(sent[c][i], c) /\ req[sent[c][i]].conn = c
       /\ stage[sent[c][i]] \in Behind
       /\ stage[sent[c][i]] = "ok" /\ req[sent[c][i]].kind \in {"switch", "close"} =>
            i <= taken[c] /\ (i = taken[c] => ~busy[c])
  /\ \A i, j \in 1 .. Len(sent[c]) : sent[c][i] = sent[c][j] => i = j
  /\ phase[c] \in {"none", "opened"} => sent[c] = <<>>

\* A relay at a switch is on its way to where that leads, and one that
\* acknowledged a switch last is there and knows it.
Moved(c) ==
  /\ busy[c] => /\ phase[c] = "serving" /\ taken[c] >= 1
                /\ req[sent[c][taken[c]]].kind \in {"switch", "close"}
                /\ on[c] = Target(sent[c][taken[c]])
  /\ phase[c] = "serving" /\ ~busy[c] /\ taken[c] >= 1 =>
       LET k == sent[c][taken[c]] IN
       req[k].kind = "switch" /\ stage[k] = "ok" => on[c] = req[k].space /\ known[c] = req[k].space

\* A relay sees a tab of its own space, unless the daemon moved while it attached.
Sees(c) ==
  ~drifted[c] =>
    /\ phase[c] = "opened" => on[c] = ActiveOrFirst(open, focus)
    /\ phase[c] = "serving" /\ ~busy[c] => tab[c] \in {NoSpace, on[c]}

----------------------------------------------------------------------------
(* Sequences.                                                              *)

\* Taking one element out of a sequence without repetitions.
LEMMA RemoveAtProperties ==
  ASSUME NEW S, NEW q \in Seq(S), IsInjective(q), NEW i \in 1 .. Len(q)
  PROVE  /\ RemoveAt(q, i) \in Seq(S) /\ Len(RemoveAt(q, i)) = Len(q) - 1
         /\ Range(RemoveAt(q, i)) = Range(q) \ {q[i]}
         /\ IsInjective(RemoveAt(q, i))
<1>1. Len(q) \in Nat /\ DOMAIN q = 1 .. Len(q) /\ \A j \in 1 .. Len(q) : q[j] \in S
  OBVIOUS
<1>2. PICK a : a = SubSeq(q, 1, i - 1)
  OBVIOUS
<1>3. PICK b : b = SubSeq(q, i + 1, Len(q))
  OBVIOUS
<1>4. /\ a \in Seq(S) /\ Len(a) = i - 1
      /\ \A j \in 1 .. i - 1 : a[j] = q[j]
  <2>1. 1 \in Int /\ i - 1 \in Int /\ \A j \in 1 .. i - 1 : q[j] \in S
    BY <1>1
  <2>2. /\ a \in Seq(S) /\ Len(a) = IF 1 <= i - 1 THEN (i - 1) - 1 + 1 ELSE 0
        /\ \A j \in 1 .. (i - 1) - 1 + 1 : a[j] = q[1 + j - 1]
    BY <1>2, <2>1, SubSeqProperties
  <2>3. QED
    BY <1>1, <2>2
<1>5. /\ b \in Seq(S) /\ Len(b) = Len(q) - i
      /\ \A j \in 1 .. Len(q) - i : b[j] = q[i + j]
  <2>1. i + 1 \in Int /\ Len(q) \in Int /\ \A j \in (i + 1) .. Len(q) : q[j] \in S
    BY <1>1
  <2>2. /\ b \in Seq(S) /\ Len(b) = IF i + 1 <= Len(q) THEN Len(q) - (i + 1) + 1 ELSE 0
        /\ \A j \in 1 .. Len(q) - (i + 1) + 1 : b[j] = q[(i + 1) + j - 1]
    BY <1>3, <2>1, SubSeqProperties
  <2>3. Len(b) = Len(q) - i
    <3>1. CASE i = Len(q)
      BY <1>1, <2>2, <3>1
    <3>2. CASE i # Len(q)
      <4>1. PICK n \in Nat : n = Len(q)
        BY <1>1
      <4>2. i \in 1 .. n /\ i # n
        BY <3>2, <4>1
      <4>3. i + 1 <= n /\ n - (i + 1) + 1 = n - i
        BY <4>1, <4>2
      <4>4. i + 1 <= Len(q) /\ Len(q) - (i + 1) + 1 = Len(q) - i
        BY <4>1, <4>3
      <4>5. QED
        BY <2>2, <4>4
    <3>3. QED
      BY <3>1, <3>2
  <2>4. ASSUME NEW j \in 1 .. Len(q) - i
        PROVE  b[j] = q[i + j]
    <3>1. j \in 1 .. Len(q) - (i + 1) + 1 /\ (i + 1) + j - 1 = i + j
      BY <1>1
    <3>2. QED
      BY <2>2, <3>1
  <2>5. QED
    BY <2>2, <2>3, <2>4
<1>6. PICK r : r = RemoveAt(q, i)
  OBVIOUS
<1>7. r = a \o b
  BY <1>2, <1>3, <1>6 DEF RemoveAt
<1>8. /\ r \in Seq(S) /\ Len(r) = Len(q) - 1
      /\ \A j \in 1 .. Len(q) - 1 : r[j] = IF j < i THEN q[j] ELSE q[j + 1]
  <2>1. Len(a) \in Nat /\ Len(b) \in Nat
    BY <1>4, <1>5
  <2>2. a \in Seq(S) /\ b \in Seq(S) /\ Len(a) = i - 1 /\ Len(b) = Len(q) - i
    BY <1>4, <1>5
  <2>3. /\ a \o b \in Seq(S) /\ Len(a \o b) = Len(a) + Len(b)
        /\ \A j \in 1 .. Len(a) + Len(b) :
             (a \o b)[j] = IF j <= Len(a) THEN a[j] ELSE b[j - Len(a)]
    BY <2>2, ConcatProperties
  <2>4. Len(a) + Len(b) = Len(q) - 1
    BY <1>1, <2>2
  <2>5. r \in Seq(S) /\ Len(r) = Len(q) - 1
    BY <1>7, <2>3, <2>4
  <2>6. \A j \in 1 .. Len(q) - 1 : r[j] = IF j <= Len(a) THEN a[j] ELSE b[j - Len(a)]
    BY <1>7, <2>3, <2>4
  <2>7. ASSUME NEW j \in 1 .. Len(q) - 1
        PROVE  r[j] = IF j < i THEN q[j] ELSE q[j + 1]
    <3>1. CASE j < i
      <4>1. j <= Len(a) /\ j \in 1 .. i - 1
        BY <1>1, <2>2, <3>1
      <4>2. QED
        BY <1>4, <2>6, <3>1, <4>1
    <3>2. CASE ~(j < i)
      <4>1. ~(j <= Len(a)) /\ j - Len(a) \in 1 .. Len(q) - i /\ i + (j - Len(a)) = j + 1
        BY <1>1, <2>2, <3>2
      <4>2. r[j] = b[j - Len(a)]
        BY <2>6, <4>1
      <4>3. QED
        BY <1>5, <3>2, <4>1, <4>2
    <3>3. QED
      BY <3>1, <3>2
  <2>8. QED
    BY <2>5, <2>7
<1>9. DOMAIN r = 1 .. Len(q) - 1
  BY <1>8
<1>10. IsInjective(r)
  <2>1. SUFFICES ASSUME NEW x \in 1 .. Len(q) - 1, NEW y \in 1 .. Len(q) - 1, r[x] = r[y]
                 PROVE  x = y
    BY <1>9 DEF IsInjective
  <2>2. PICK u \in 1 .. Len(q) : u = IF x < i THEN x ELSE x + 1
    BY <1>1
  <2>3. PICK v \in 1 .. Len(q) : v = IF y < i THEN y ELSE y + 1
    BY <1>1
  <2>4. q[u] = q[v]
    BY <1>8, <2>1, <2>2, <2>3
  <2>5. u = v
    BY <1>1, <2>4 DEF IsInjective
  <2>6. QED
    BY <1>1, <2>2, <2>3, <2>5
<1>11. Range(r) = Range(q) \ {q[i]}
  <2>1. Range(r) = {r[j] : j \in 1 .. Len(q) - 1} /\ Range(q) = {q[j] : j \in 1 .. Len(q)}
    BY <1>1, <1>9 DEF Range
  <2>2. ASSUME NEW j \in 1 .. Len(q) - 1
        PROVE  r[j] \in Range(q) /\ r[j] # q[i]
    <3>1. PICK u \in 1 .. Len(q) : u = IF j < i THEN j ELSE j + 1
      BY <1>1
    <3>2. r[j] = q[u] /\ u # i
      BY <1>1, <1>8, <3>1
    <3>3. QED
      BY <1>1, <2>1, <3>2 DEF IsInjective
  <2>3. ASSUME NEW j \in 1 .. Len(q), q[j] # q[i]
        PROVE  q[j] \in Range(r)
    <3>1. CASE j < i
      BY <1>1, <1>8, <2>1, <3>1
    <3>2. CASE j > i
      <4>1. j - 1 \in 1 .. Len(q) - 1 /\ ~(j - 1 < i) /\ (j - 1) + 1 = j
        BY <1>1, <3>2
      <4>2. r[j - 1] = q[j]
        BY <1>8, <4>1
      <4>3. QED
        BY <2>1, <4>1, <4>2
    <3>3. QED
      BY <1>1, <2>3, <3>1, <3>2
  <2>4. QED
    BY <2>1, <2>2, <2>3
<1>12. QED
  BY <1>6, <1>8, <1>10, <1>11

LEMMA AppendDistinct ==
  ASSUME NEW S, NEW q \in Seq(S), IsInjective(q), NEW e \in S, e \notin Range(q)
  PROVE  /\ Append(q, e) \in Seq(S) /\ Len(Append(q, e)) = Len(q) + 1
         /\ Range(Append(q, e)) = Range(q) \cup {e} /\ IsInjective(Append(q, e))
<1>1. /\ Append(q, e) \in Seq(S) /\ Len(Append(q, e)) = Len(q) + 1 /\ Len(q) \in Nat
      /\ \A j \in 1 .. Len(q) : Append(q, e)[j] = q[j]
      /\ Append(q, e)[Len(q) + 1] = e
  OBVIOUS
<1>2. /\ DOMAIN q = 1 .. Len(q) /\ DOMAIN Append(q, e) = 1 .. Len(q) + 1
  BY <1>1
<1>3. Range(q) = {q[j] : j \in 1 .. Len(q)}
  BY <1>2 DEF Range
<1>4. Range(Append(q, e)) = {Append(q, e)[j] : j \in 1 .. Len(q) + 1}
  BY <1>2 DEF Range
<1>5. \A j \in 1 .. Len(q) + 1 : j \in 1 .. Len(q) \/ j = Len(q) + 1
  BY <1>1
<1>6. 1 .. Len(q) \subseteq 1 .. Len(q) + 1 /\ Len(q) + 1 \in 1 .. Len(q) + 1
  BY <1>1
<1>7. Range(Append(q, e)) = Range(q) \cup {e}
  BY <1>1, <1>3, <1>4, <1>5, <1>6
<1>8. IsInjective(Append(q, e))
  BY <1>1, <1>2, <1>3, <1>5 DEF IsInjective
<1>9. QED
  BY <1>1, <1>7, <1>8

LEMMA ActiveIsOpen ==
  ASSUME NEW S, NEW q \in Seq(S), NEW f
  PROVE  /\ ActiveOrFirst(q, f) \in Range(q) \cup {NoSpace}
         /\ q # <<>> => ActiveOrFirst(q, f) \in Range(q)
<1>1. q # <<>> => 1 \in DOMAIN q /\ Head(q) = q[1]
  OBVIOUS
<1>2. QED
  BY <1>1 DEF ActiveOrFirst, Range

----------------------------------------------------------------------------
(* The daemon.  A step of it, whoever makes it, brings no closed workspace *)
(* back, and it is shorter only when one was closed.                       *)

DaemonOK == /\ open \in Seq(Space) /\ made \subseteq Space /\ focus \in MaybeSpace
            /\ closes \in Nat /\ Distinct

DaemonMoves ==
  /\ made \subseteq made' /\ closes <= closes'
  /\ \A s \in made : s \notin Range(open) => s \notin Range(open')
  /\ closes' = closes => Len(open') >= Len(open)

LEMMA OpensMoves ==
  ASSUME DaemonOK, NEW s \in Space, Opens(s)
  PROVE  DaemonOK' /\ DaemonMoves /\ open' # <<>>
<1>1. s \notin made /\ open' = Append(open, s) /\ made' = made \cup {s} /\ focus' = s /\ closes' = closes
  BY DEF Opens
<1>2. s \notin Range(open)
  BY <1>1 DEF DaemonOK, Distinct
<1>3. open \in Seq(Space) /\ IsInjective(open) /\ Len(open) \in Nat
  BY DEF DaemonOK, Distinct
<1>4. PICK q : q = Append(open, s)
  OBVIOUS
<1>5. /\ q \in Seq(Space) /\ Len(q) = Len(open) + 1
      /\ Range(q) = Range(open) \cup {s} /\ IsInjective(q)
  BY <1>2, <1>3, <1>4, AppendDistinct
<1>6. open' = q
  BY <1>1, <1>4
<1>7. Range(open)' = Range(q) /\ (IsInjective(open))' = IsInjective(q)
  BY <1>6
<1>8. Distinct'
  BY <1>1, <1>5, <1>6, <1>7 DEF DaemonOK, Distinct
<1>9. DaemonOK'
  BY <1>1, <1>5, <1>6, <1>8 DEF DaemonOK, MaybeSpace
<1>10. DaemonMoves
  BY <1>1, <1>3, <1>5, <1>6, <1>7 DEF DaemonOK, DaemonMoves
<1>11. q # <<>>
  BY <1>3, <1>5
<1>12. QED
  BY <1>6, <1>9, <1>10, <1>11

LEMMA ClosesMoves ==
  ASSUME DaemonOK, NEW s, Closes(s)
  PROVE  /\ DaemonOK' /\ DaemonMoves /\ closes' = closes + 1
         /\ Len(open) \in Nat /\ Len(open') = Len(open) - 1 /\ s \notin Range(open')
<1>1. PICK i \in DOMAIN open : open[i] = s /\ open' = RemoveAt(open, i)
  BY DEF Closes
<1>2. /\ focus' = IF focus = s THEN ActiveOrFirst(open', NoSpace) ELSE focus
      /\ closes' = closes + 1 /\ made' = made
  BY DEF Closes
<1>3. open \in Seq(Space) /\ IsInjective(open) /\ Len(open) \in Nat
  BY DEF DaemonOK, Distinct
<1>4. i \in 1 .. Len(open)
  BY <1>1, <1>3
<1>5. PICK q : q = RemoveAt(open, i)
  OBVIOUS
<1>6. /\ q \in Seq(Space) /\ Len(q) = Len(open) - 1
      /\ Range(q) = Range(open) \ {s} /\ IsInjective(q)
  BY <1>1, <1>3, <1>4, <1>5, RemoveAtProperties
<1>7. open' = q
  BY <1>1, <1>5
<1>8. Range(open)' = Range(q) /\ (IsInjective(open))' = IsInjective(q)
  BY <1>7
<1>9. Distinct'
  BY <1>2, <1>6, <1>7, <1>8 DEF DaemonOK, Distinct
<1>10. ActiveOrFirst(q, NoSpace) \in Range(q) \cup {NoSpace}
  BY <1>6, ActiveIsOpen
<1>11. Range(q) \subseteq Space
  BY <1>6, <1>3, <1>8 DEF DaemonOK, Distinct
<1>12. focus' \in MaybeSpace
  BY <1>2, <1>7, <1>10, <1>11 DEF DaemonOK, MaybeSpace
<1>13. DaemonOK'
  BY <1>2, <1>6, <1>7, <1>9, <1>12 DEF DaemonOK
<1>14. DaemonMoves
  BY <1>2, <1>6, <1>7, <1>8 DEF DaemonOK, DaemonMoves
<1>15. QED
  BY <1>2, <1>3, <1>6, <1>7, <1>8, <1>13, <1>14

LEMMA SameMoves ==
  ASSUME DaemonOK, UNCHANGED <<open, made, focus, closes>>
  PROVE  DaemonOK' /\ DaemonMoves
<1>1. open' = open /\ made' = made /\ focus' = focus /\ closes' = closes
  OBVIOUS
<1>2. Range(open)' = Range(open) /\ (IsInjective(open))' = IsInjective(open)
  BY <1>1
<1>3. Distinct'
  BY <1>1, <1>2 DEF DaemonOK, Distinct
<1>4. closes \in Nat /\ Len(open) \in Nat
  BY DEF DaemonOK
<1>5. QED
  BY <1>1, <1>2, <1>3, <1>4 DEF DaemonOK, DaemonMoves

\* What a desktop client does.
LEMMA DesktopMoves ==
  ASSUME DaemonOK, moved \in 0 .. Moves, Desktop
  PROVE  /\ DaemonOK' /\ DaemonMoves /\ Drift /\ moved' \in 0 .. Moves
         /\ open # <<>> => open' # <<>>
<1>1. moved' \in 0 .. Moves
  BY SpacesAssumption DEF Desktop
<1>2. PICK s \in Space :
        \/ IsOpen(s) /\ focus' = s /\ Drift /\ UNCHANGED <<open, made, closes>>
        \/ Opens(s)
        \/ Len(open) > 1 /\ Closes(s)
  BY DEF Desktop
<1>3. CASE IsOpen(s) /\ focus' = s /\ Drift /\ UNCHANGED <<open, made, closes>>
  <2>1. open' = open /\ made' = made /\ closes' = closes /\ focus' \in MaybeSpace
    BY <1>3 DEF MaybeSpace
  <2>2. Range(open)' = Range(open) /\ (IsInjective(open))' = IsInjective(open)
    BY <2>1
  <2>3. Distinct'
    BY <2>1, <2>2 DEF DaemonOK, Distinct
  <2>4. closes \in Nat /\ Len(open) \in Nat
    BY DEF DaemonOK
  <2>5. QED
    BY <1>1, <1>3, <2>1, <2>2, <2>3, <2>4 DEF DaemonOK, DaemonMoves
<1>4. CASE Opens(s)
  <2>1. Drift
    BY <1>4 DEF Opens
  <2>2. QED
    BY <1>1, <1>4, <2>1, OpensMoves
<1>5. CASE Len(open) > 1 /\ Closes(s)
  <2>1. Drift
    BY <1>5 DEF Closes
  <2>2. /\ DaemonOK' /\ DaemonMoves
        /\ Len(open) \in Nat /\ Len(open') = Len(open) - 1
    BY <1>5, ClosesMoves
  <2>3. open' # <<>>
    BY <1>5, <2>2
  <2>4. QED
    BY <1>1, <2>1, <2>2, <2>3
<1>6. QED
  BY <1>2, <1>3, <1>4, <1>5

----------------------------------------------------------------------------
(* Types, one step per action.                                             *)

Phase == {"none", "opened", "serving", "gone"}
Stage == {"idle", "rejected", "refused", "calling", "counted", "closed", "repoint",
          "sending", "focusing", "waiting", "listed", "ok", "unmoved", "failed"}

RelaysOK ==
  /\ phase \in [Conn -> Phase]
  /\ on \in [Conn -> MaybeSpace] /\ known \in [Conn -> MaybeSpace]
  /\ tab \in [Conn -> MaybeSpace]
  /\ sent \in [Conn -> Seq(Call)]
  /\ taken \in [Conn -> Nat] /\ \A c \in Conn : taken[c] <= Len(sent[c])
  /\ busy \in [Conn -> BOOLEAN] /\ drifted \in [Conn -> BOOLEAN]

CallsOK ==
  /\ stage \in [Call -> Stage]
  /\ req \in [Call -> [kind : Kind, conn : Client \cup {NoConn}, space : MaybeSpace]]
  /\ saw \in [Call -> [active : MaybeSpace, closes : Nat, on : MaybeSpace]]
  /\ result \in [Call -> MaybeSpace]

Typed == DaemonOK /\ moved \in 0 .. Moves /\ RelaysOK /\ CallsOK /\ idOf \in Spellings

LEMMA TypedIs == Typed <=> TypeOK /\ Distinct
BY DEF Typed, TypeOK, DaemonOK, RelaysOK, CallsOK, Phase, Stage

\* Where a workspace that is active or first is looked for.
LEMMA ActiveIsSpace ==
  ASSUME DaemonOK
  PROVE  /\ ActiveOrFirst(open, focus) \in MaybeSpace
         /\ ActiveOrFirst(open, focus) \in Range(open) \cup {NoSpace}
         /\ open # <<>> => ActiveOrFirst(open, focus) \in Range(open)
<1>1. open \in Seq(Space) /\ Range(open) \subseteq Space
  BY DEF DaemonOK, Distinct
<1>2. /\ ActiveOrFirst(open, focus) \in Range(open) \cup {NoSpace}
      /\ open # <<>> => ActiveOrFirst(open, focus) \in Range(open)
  BY <1>1, ActiveIsOpen
<1>3. QED
  BY <1>1, <1>2 DEF MaybeSpace

LEMMA RelayKeepsTypes ==
  ASSUME Typed, NEW c \in Conn, Moved(c), Relay(c)
  PROVE  RelaysOK' /\ CallsOK' /\ UNCHANGED daemonVars
<1> USE DEF Typed
<1>1. CASE Attach(c)
  <2>1. ActiveOrFirst(open, focus) \in MaybeSpace
    BY ActiveIsSpace
  <2>2. CallsOK'
    BY <1>1 DEF Attach, CallsOK, callVars
  <2>3. RelaysOK'
    BY <1>1, <2>1 DEF Attach, RelaysOK, Phase
  <2>4. QED
    BY <1>1, <2>2, <2>3 DEF Attach
<1>2. CASE InitView(c)
  <2>1. ActiveOrFirst(open, focus) \in MaybeSpace /\ NoSpace \in MaybeSpace
    BY ActiveIsSpace DEF MaybeSpace
  <2>2. CallsOK'
    BY <1>2 DEF InitView, CallsOK, callVars
  <2>3. RelaysOK'
    BY <1>2, <2>1 DEF InitView, RelaysOK, Phase
  <2>4. QED
    BY <1>2, <2>2, <2>3 DEF InitView
<1>3. CASE Leave(c)
  <2>1. NoSpace \in MaybeSpace /\ \A k \in Call : Failed(k) \in Stage
    BY DEF MaybeSpace, Failed, Stage
  <2>2. CallsOK'
    BY <1>3, <2>1 DEF Leave, CallsOK
  <2>3. RelaysOK'
    BY <1>3, <2>1 DEF Leave, RelaysOK, Phase
  <2>4. QED
    BY <1>3, <2>2, <2>3 DEF Leave
<1>4. ASSUME Serving(c)
      PROVE  /\ taken[c] + 1 \in Nat /\ taken[c] + 1 <= Len(sent[c]) /\ taken[c] + 1 \in 1 .. Len(sent[c])
             /\ Command(c) \in Call /\ Target(Command(c)) \in MaybeSpace
             /\ Failed(Command(c)) \in Stage
  <2>1. /\ sent[c] \in Seq(Call) /\ Len(sent[c]) \in Nat
        /\ taken[c] \in Nat /\ taken[c] < Len(sent[c])
    BY <1>4 DEF Serving, RelaysOK
  <2>2. taken[c] + 1 \in Nat /\ taken[c] + 1 <= Len(sent[c]) /\ taken[c] + 1 \in 1 .. Len(sent[c])
    BY <2>1
  <2>3. Command(c) \in Call
    BY <2>1, <2>2 DEF Command
  <2>4. Target(Command(c)) \in MaybeSpace
    BY <2>3 DEF Target, CallsOK
  <2>5. Failed(Command(c)) \in Stage
    BY DEF Failed, Stage
  <2>6. QED
    BY <2>2, <2>3, <2>4, <2>5
<1>5. CASE RefuseSwitch(c)
  <2>1. Serving(c)
    BY <1>5 DEF RefuseSwitch
  <2>2. CallsOK'
    BY <1>4, <1>5, <2>1 DEF RefuseSwitch, Answer, CallsOK
  <2>3. RelaysOK'
    BY <1>4, <1>5, <2>1 DEF RefuseSwitch, RelaysOK
  <2>4. QED
    BY <1>5, <2>2, <2>3 DEF RefuseSwitch
<1>6. CASE TakeSwitch(c)
  <2>1. Serving(c)
    BY <1>6 DEF TakeSwitch
  <2>2. CallsOK'
    BY <1>6 DEF TakeSwitch, CallsOK, callVars
  <2>3. RelaysOK'
    BY <1>4, <1>6, <2>1 DEF TakeSwitch, RelaysOK
  <2>4. QED
    BY <1>6, <2>2, <2>3 DEF TakeSwitch
<1>7. CASE TakeTab(c)
  <2>1. Serving(c)
    BY <1>7 DEF TakeTab
  <2>2. CallsOK'
    BY <1>7 DEF TakeTab, CallsOK, callVars
  <2>3. /\ taken' = [taken EXCEPT ![c] = @ + 1] /\ phase' = phase /\ on' = on
        /\ known' = known /\ sent' = sent /\ busy' = busy
        /\ \/ tab' = [tab EXCEPT ![c] = on[c]] /\ drifted' = [drifted EXCEPT ![c] = FALSE]
           \/ tab' = tab /\ drifted' = drifted
    BY <1>7 DEF TakeTab
  <2>4. tab' \in [Conn -> MaybeSpace] /\ drifted' \in [Conn -> BOOLEAN]
    BY <2>3 DEF RelaysOK
  <2>5. RelaysOK'
    BY <1>4, <2>1, <2>3, <2>4 DEF RelaysOK
  <2>6. QED
    BY <1>7, <2>2, <2>5 DEF TakeTab
<1>8. CASE RecordSwitch(c)
  <2>1. PICK k : k = sent[c][taken[c]]
    OBVIOUS
  <2>2. busy[c] /\ taken[c] \in Nat /\ taken[c] >= 1 /\ taken[c] <= Len(sent[c])
    BY <1>8 DEF RecordSwitch, Moved, RelaysOK
  <2>3. k \in Call
    BY <2>1, <2>2 DEF RelaysOK
  <2>4. Target(k) \in MaybeSpace /\ NoSpace \in MaybeSpace
    BY <2>3 DEF Target, CallsOK, MaybeSpace
  <2>5. known' = [known EXCEPT ![c] = Target(k)]
    BY <1>8, <2>1 DEF RecordSwitch
  <2>6. CallsOK'
    BY <1>8 DEF RecordSwitch, Answer, CallsOK, Stage
  <2>7. RelaysOK'
    BY <1>8, <2>4, <2>5 DEF RecordSwitch, RelaysOK
  <2>8. QED
    BY <1>8, <2>6, <2>7 DEF RecordSwitch
<1>9. QED
  BY <1>1, <1>2, <1>3, <1>5, <1>6, <1>7, <1>8 DEF Relay

\* What an RPC may change besides its own state and a channel.
RpcBounds == /\ DaemonOK' /\ DaemonMoves /\ moved' = moved
             /\ \/ Drift
                \/ UNCHANGED <<open, focus, drifted>>
             /\ UNCHANGED <<phase, on, known, tab, taken, busy>>

LEMMA SameBounds ==
  ASSUME Typed, UNCHANGED <<daemonVars, phase, on, known, tab, taken, busy, drifted>>
  PROVE  RpcBounds
<1>1. /\ UNCHANGED <<open, made, focus, closes>> /\ moved' = moved
      /\ UNCHANGED <<phase, on, known, tab, taken, busy, drifted>>
  BY DEF daemonVars
<1>2. DaemonOK' /\ DaemonMoves
  BY <1>1, SameMoves DEF Typed
<1>3. QED
  BY <1>1, <1>2 DEF RpcBounds

LEMMA SendingKeepsTypes ==
  ASSUME Typed, NEW k \in Call, NEW c \in Conn, sent' = [sent EXCEPT ![c] = Append(@, k)],
         UNCHANGED <<phase, on, known, tab, taken, busy, drifted>>
  PROVE  RelaysOK'
<1>1. /\ sent[c] \in Seq(Call) /\ taken[c] \in Nat /\ taken[c] <= Len(sent[c])
      /\ Len(sent[c]) \in Nat
  BY DEF Typed, RelaysOK
<1>2. /\ Append(sent[c], k) \in Seq(Call)
      /\ Len(Append(sent[c], k)) = Len(sent[c]) + 1
  BY <1>1
<1>3. sent' \in [Conn -> Seq(Call)]
  BY <1>2 DEF Typed, RelaysOK
<1>4. \A d \in Conn : taken[d] <= Len(sent'[d])
  <2>1. SUFFICES ASSUME NEW d \in Conn
                 PROVE  taken[d] <= Len(sent'[d])
    OBVIOUS
  <2>2. CASE d = c
    <3>1. sent'[d] = Append(sent[c], k)
      BY <2>2 DEF Typed, RelaysOK
    <3>2. QED
      BY <1>1, <1>2, <2>2, <3>1
  <2>3. CASE d # c
    <3>1. sent'[d] = sent[d] /\ taken[d] <= Len(sent[d])
      BY <2>3 DEF Typed, RelaysOK
    <3>2. QED
      BY <3>1
  <2>4. QED
    BY <2>2, <2>3
<1>5. QED
  BY <1>3, <1>4 DEF Typed, RelaysOK

\* Whom an RPC's command goes to.
LEMMA RoutedIs ==
  ASSUME NEW k \in Call, NEW kind \in {"switch", "tab"}, NEW conn \in {Owner[k], NoConn},
         NEW c \in Routed(k, kind, conn), Typed
  PROVE  /\ c \in Conn
         /\ \/ Owner[k] = c
            \/ /\ kind = "tab" /\ c \notin ReadOnly
               /\ idOf[Owner[k]] = "bare" /\ idOf[c] = "bare"
<1>1. Conn \subseteq Client /\ NoConn \notin Conn /\ Owner[k] \in Client
  BY SpacesAssumption
<1>2. Registered(conn) => conn = Owner[k] /\ conn \in Conn
  BY <1>1 DEF Registered
<1>3. CASE kind = "switch"
  BY <1>2, <1>3 DEF Routed, SpaceRelay
<1>4. CASE kind = "tab"
  <2>1. c \in TabRelays(k, conn)
    BY <1>4 DEF Routed
  <2>2. CASE Registered(conn)
    BY <1>2, <2>1, <2>2 DEF TabRelays
  <2>3. CASE ~Registered(conn)
    <3>1. ~IsCollapsed(k) /\ c \in Entries(k) /\ c \notin ReadOnly
      BY <2>1, <2>3 DEF TabRelays
    <3>2. QED
      BY <1>1, <1>4, <3>1, SpacesAssumption DEF Entries, IsCollapsed, Typed
  <2>4. QED
    BY <2>2, <2>3
<1>5. QED
  BY <1>3, <1>4

\* What a call asks for once it has begun, and how far it is then.
BeginsAs(k, kind, conn, s, g) ==
  /\ stage' = [stage EXCEPT ![k] = g]
  /\ req' = [req EXCEPT ![k] = [kind |-> kind, conn |-> conn, space |-> s]]
  /\ conn \in Conn =>
       \/ Owner[k] = conn
       \/ /\ kind = "tab" /\ conn \notin ReadOnly
          /\ idOf[Owner[k]] = "bare" /\ idOf[conn] = "bare"
  /\ g = "focusing" => kind = "tab"
  /\ kind = "close" => s \in made /\ g = "calling"

LEMMA BeginEffect ==
  ASSUME Typed, NEW k \in Call, Begin(k)
  PROVE  /\ stage[k] = "idle" /\ UNCHANGED <<daemonVars, relayVars, saw, result>>
         /\ \/ req' = req /\ \E g \in {"rejected", "failed"} : stage' = [stage EXCEPT ![k] = g]
            \/ \E kind \in Kind, conn \in Client \cup {NoConn}, s \in made \cup {NoSpace},
                  g \in {"sending", "focusing", "calling"} : BeginsAs(k, kind, conn, s, g)
<1>1. stage[k] = "idle" /\ UNCHANGED <<daemonVars, relayVars, saw, result>>
  BY DEF Begin
<1>2. PICK kind \in Does[k] :
        IF Mutating(kind) /\ Owner[k] \in ReadOnly
        THEN Goto(k, "rejected") /\ UNCHANGED req
        ELSE \E conn \in {Owner[k], NoConn} :
               IF kind \in {"switch", "tab"}
               THEN \/ \E c \in Routed(k, kind, conn) :
                         Goto(k, "sending") /\ Ask(k, kind, c)
                    \/ Routed(k, kind, conn) = {} /\ Unrouted(k, kind)
               ELSE Goto(k, "calling") /\ Ask(k, kind, conn)
  BY DEF Begin
<1>3. /\ kind \in Kind /\ Owner[k] \in Client
      /\ Conn \subseteq Client /\ NoConn \notin Conn
  BY SpacesAssumption
<1>4. CASE Mutating(kind) /\ Owner[k] \in ReadOnly
  BY <1>1, <1>2, <1>4 DEF Goto
<1>5. CASE ~(Mutating(kind) /\ Owner[k] \in ReadOnly)
  <2>1. PICK conn \in {Owner[k], NoConn} :
          IF kind \in {"switch", "tab"}
          THEN \/ \E c \in Routed(k, kind, conn) :
                    Goto(k, "sending") /\ Ask(k, kind, c)
               \/ Routed(k, kind, conn) = {} /\ Unrouted(k, kind)
          ELSE Goto(k, "calling") /\ Ask(k, kind, conn)
    BY <1>2, <1>5
  <2>2. CASE kind \notin {"switch", "tab"}
    <3>1. Goto(k, "calling") /\ Ask(k, kind, conn)
      BY <2>1, <2>2
    <3>2. PICK s \in IF kind \in {"get", "create"} THEN {NoSpace} ELSE made :
            req' = [req EXCEPT ![k] = [kind |-> kind, conn |-> conn, space |-> s]]
      BY <3>1 DEF Ask
    <3>3. BeginsAs(k, kind, conn, s, "calling")
      BY <1>3, <3>1, <3>2 DEF BeginsAs, Goto
    <3>4. QED
      BY <1>1, <1>3, <3>2, <3>3
  <2>3. CASE kind \in {"switch", "tab"}
    <3>1. CASE \E c \in Routed(k, kind, conn) : Goto(k, "sending") /\ Ask(k, kind, c)
      <4>1. PICK c \in Routed(k, kind, conn) : Goto(k, "sending") /\ Ask(k, kind, c)
        BY <3>1
      <4>2. PICK s \in made :
              req' = [req EXCEPT ![k] = [kind |-> kind, conn |-> c, space |-> s]]
        BY <2>3, <4>1 DEF Ask
      <4>3. /\ c \in Conn
            /\ \/ Owner[k] = c
               \/ /\ kind = "tab" /\ c \notin ReadOnly
                  /\ idOf[Owner[k]] = "bare" /\ idOf[c] = "bare"
        BY <2>3, <4>1, RoutedIs
      <4>4. BeginsAs(k, kind, c, s, "sending")
        BY <2>3, <4>1, <4>2, <4>3 DEF BeginsAs, Goto
      <4>5. QED
        BY <1>1, <1>3, <4>3, <4>4
    <3>2. CASE Unrouted(k, kind)
      <4>1. CASE kind = "tab" /\ ~IsCollapsed(k)
        <5>1. Goto(k, "focusing") /\ Ask(k, kind, NoConn)
          BY <3>2, <4>1 DEF Unrouted
        <5>2. PICK s \in made :
                req' = [req EXCEPT ![k] = [kind |-> kind, conn |-> NoConn, space |-> s]]
          BY <4>1, <5>1 DEF Ask
        <5>3. BeginsAs(k, kind, NoConn, s, "focusing")
          BY <1>3, <4>1, <5>1, <5>2 DEF BeginsAs, Goto
        <5>4. QED
          BY <1>1, <1>3, <5>3
      <4>2. CASE ~(kind = "tab" /\ ~IsCollapsed(k))
        BY <1>1, <3>2, <4>2 DEF Unrouted, Goto
      <4>3. QED
        BY <4>1, <4>2
    <3>3. QED
      BY <2>1, <2>3, <3>1, <3>2
  <2>4. QED
    BY <2>2, <2>3
<1>6. QED
  BY <1>4, <1>5

\* A tab command the daemon takes itself changes its focus, or nothing.
LEMMA FocusTabEffect ==
  ASSUME Typed, NEW k \in Call, FocusTab(k)
  PROVE  /\ RpcBounds /\ RelaysOK' /\ stage[k] = "focusing"
         /\ UNCHANGED <<sent, req, saw, result>>
         /\ \E g \in {"ok", "failed"} : stage' = [stage EXCEPT ![k] = g]
<1>1. /\ stage[k] = "focusing" /\ moved' = moved
      /\ UNCHANGED <<open, made, closes>>
      /\ UNCHANGED <<phase, on, known, tab, sent, taken, busy, req, saw, result>>
  BY DEF FocusTab
<1>2. CASE IsOpen(req[k].space) /\ focus' = req[k].space /\ Drift /\ Goto(k, "ok")
  <2>1. focus' \in MaybeSpace
    BY <1>2 DEF IsOpen, Typed, CallsOK
  <2>2. Range(open)' = Range(open) /\ (IsInjective(open))' = IsInjective(open)
    BY <1>1
  <2>3. Distinct'
    BY <1>1, <2>2 DEF Typed, DaemonOK, Distinct
  <2>4. closes \in Nat /\ Len(open) \in Nat
    BY DEF Typed, DaemonOK
  <2>5. DaemonOK' /\ DaemonMoves
    BY <1>1, <2>1, <2>2, <2>3, <2>4 DEF Typed, DaemonOK, DaemonMoves
  <2>6. RpcBounds
    BY <1>1, <1>2, <2>5 DEF RpcBounds
  <2>7. RelaysOK'
    BY <1>1, <1>2 DEF Drift, Typed, RelaysOK
  <2>8. QED
    BY <1>1, <1>2, <2>6, <2>7 DEF Goto
<1>3. CASE Goto(k, "failed") /\ UNCHANGED <<focus, drifted>>
  <2>1. RpcBounds
    BY <1>1, <1>3, SameBounds DEF daemonVars
  <2>2. RelaysOK'
    BY <1>1, <1>3 DEF Typed, RelaysOK
  <2>3. QED
    BY <1>1, <1>3, <2>1, <2>2 DEF Goto
<1>4. QED
  BY <1>2, <1>3 DEF FocusTab

LEMMA RpcKeepsTypes ==
  ASSUME Typed, NEW k \in Call, Rpc(k)
  PROVE  RpcBounds /\ RelaysOK' /\ CallsOK'
<1>1. ASSUME UNCHANGED <<daemonVars, relayVars>>
      PROVE  RpcBounds /\ RelaysOK'
  <2>1. UNCHANGED <<daemonVars, phase, on, known, tab, taken, busy, drifted>> /\ sent' = sent
    BY <1>1 DEF relayVars
  <2>2. RelaysOK'
    BY <2>1 DEF Typed, RelaysOK
  <2>3. QED
    BY <2>1, <2>2, SameBounds
<1>2. ASSUME NEW s \in Stage, Goto(k, s)
      PROVE  stage' \in [Call -> Stage]
  BY <1>2 DEF Goto, Typed, CallsOK
<1>3. Failed(k) \in Stage
  BY DEF Failed, Stage
<1>4. \A conn : CurrentSpace(conn) \in MaybeSpace
  BY DEF CurrentSpace, Registered, Typed, RelaysOK, MaybeSpace
<1>5. Snapshot(Owner[k]) \in [active : MaybeSpace, closes : Nat, on : MaybeSpace]
  <2>1. Where(Owner[k]) \in MaybeSpace
    BY DEF Where, Typed, RelaysOK, MaybeSpace
  <2>2. QED
    BY <2>1 DEF Snapshot, Typed, DaemonOK
<1>6. NoSpace \in MaybeSpace /\ made \subseteq MaybeSpace
  BY DEF MaybeSpace, Typed, DaemonOK
<1>7. CASE Begin(k)
  <2>1. CASE req' = req /\ \E g \in {"rejected", "failed"} : stage' = [stage EXCEPT ![k] = g]
    <3>1. CallsOK'
      BY <1>7, <2>1 DEF Begin, Typed, CallsOK, Stage
    <3>2. QED
      BY <1>1, <1>7, <3>1 DEF Begin
  <2>2. CASE \E kind \in Kind, conn \in Client \cup {NoConn}, s \in made \cup {NoSpace},
                g \in {"sending", "focusing", "calling"} : BeginsAs(k, kind, conn, s, g)
    <3>1. PICK kind \in Kind, conn \in Client \cup {NoConn}, s \in made \cup {NoSpace},
               g \in {"sending", "focusing", "calling"} : BeginsAs(k, kind, conn, s, g)
      BY <2>2
    <3>2. /\ stage' = [stage EXCEPT ![k] = g]
          /\ req' = [req EXCEPT ![k] = [kind |-> kind, conn |-> conn, space |-> s]]
      BY <3>1 DEF BeginsAs
    <3>3. req' \in [Call -> [kind : Kind, conn : Client \cup {NoConn}, space : MaybeSpace]]
      BY <1>6, <3>2 DEF Typed, CallsOK
    <3>4. CallsOK'
      BY <1>7, <3>2, <3>3 DEF Begin, Typed, CallsOK, Stage
    <3>5. QED
      BY <1>1, <1>7, <3>4 DEF Begin
  <2>3. QED
    BY <1>7, <2>1, <2>2, BeginEffect
<1>8. CASE Send(k)
  <2>1. CallsOK'
    BY <1>3, <1>8 DEF Send, Goto, Typed, CallsOK, Stage
  <2>2. RpcBounds
    BY <1>8, SameBounds DEF Send
  <2>3. RelaysOK'
    <3>1. CASE Registered(req[k].conn)
      <4>1. PICK c \in Conn : c = req[k].conn
        BY <3>1 DEF Registered
      <4>2. sent' = [sent EXCEPT ![c] = Append(@, k)]
        BY <1>8, <3>1, <4>1 DEF Send
      <4>3. UNCHANGED <<phase, on, known, tab, taken, busy, drifted>>
        BY <1>8 DEF Send
      <4>4. QED
        BY <4>2, <4>3, SendingKeepsTypes
    <3>2. CASE ~Registered(req[k].conn)
      BY <1>8, <3>2 DEF Send, Typed, RelaysOK
    <3>3. QED
      BY <3>1, <3>2
  <2>4. QED
    BY <2>1, <2>2, <2>3
<1>19. CASE FocusTab(k)
  <2>1. PICK g \in {"ok", "failed"} : stage' = [stage EXCEPT ![k] = g]
    BY <1>19, FocusTabEffect
  <2>2. CallsOK'
    BY <1>19, <2>1, FocusTabEffect DEF Typed, CallsOK, Stage
  <2>3. QED
    BY <1>19, <2>2, FocusTabEffect
<1>9. CASE TimeOut(k)
  <2>1. CallsOK'
    BY <1>3, <1>9 DEF TimeOut, Goto, Typed, CallsOK
  <2>2. QED
    BY <1>1, <1>9, <2>1 DEF TimeOut
<1>10. CASE BackendFails(k)
  <2>1. CallsOK'
    BY <1>10 DEF BackendFails, Goto, Typed, CallsOK, Stage
  <2>2. QED
    BY <1>1, <1>10, <2>1 DEF BackendFails
<1>11. CASE ListSpaces(k)
  <2>1. CallsOK'
    BY <1>5, <1>11 DEF ListSpaces, Goto, Typed, CallsOK, Stage
  <2>2. QED
    BY <1>1, <1>11, <2>1 DEF ListSpaces
<1>12. CASE MarkActive(k)
  <2>1. saw[k].active \in MaybeSpace
    BY DEF Typed, CallsOK
  <2>2. PICK m \in MaybeSpace : m = CurrentSpace(req[k].conn)
    BY <1>4
  <2>3. result' = [result EXCEPT ![k] = IF m # NoSpace THEN m ELSE saw[k].active]
    BY <1>12, <2>2 DEF MarkActive
  <2>4. CallsOK'
    BY <1>12, <2>1, <2>2, <2>3 DEF MarkActive, Goto, Typed, CallsOK, Stage
  <2>5. QED
    BY <1>1, <1>12, <2>4 DEF MarkActive
<1>13. CASE CreateSpace(k)
  <2>1. CallsOK'
    BY <1>13 DEF CreateSpace, Goto, Typed, CallsOK, Stage
  <2>2. PICK s \in Space : Opens(s)
    BY <1>13 DEF CreateSpace
  <2>3. Drift /\ DaemonOK' /\ DaemonMoves
    BY <2>2, OpensMoves DEF Opens, Typed
  <2>4. RpcBounds
    BY <1>13, <2>3 DEF CreateSpace, RpcBounds
  <2>5. RelaysOK'
    BY <1>13, <2>3 DEF CreateSpace, Drift, Typed, RelaysOK
  <2>6. QED
    BY <2>1, <2>4, <2>5
<1>14. CASE CountSpaces(k)
  <2>1. CallsOK'
    BY <1>5, <1>14 DEF CountSpaces, Goto, Typed, CallsOK, Stage
  <2>2. QED
    BY <1>1, <1>14, <2>1 DEF CountSpaces
<1>15. CASE CloseSpace(k)
  <2>1. /\ UNCHANGED <<moved, phase, on, known, tab, sent, taken, busy>>
        /\ req' = req /\ result' = result
    BY <1>15 DEF CloseSpace
  <2>2. CASE IsOpen(req[k].space)
    <3>1. /\ Closes(req[k].space)
          /\ saw' = [saw EXCEPT ![k].on = Where(Owner[k])] /\ Goto(k, "closed")
      BY <1>15, <2>2 DEF CloseSpace
    <3>2. Drift /\ DaemonOK' /\ DaemonMoves
      BY <3>1, ClosesMoves DEF Closes, Typed
    <3>3. RpcBounds
      BY <2>1, <3>2 DEF RpcBounds
    <3>4. RelaysOK'
      BY <2>1, <3>2 DEF Drift, Typed, RelaysOK
    <3>5. Where(Owner[k]) \in MaybeSpace
      BY DEF Where, Typed, RelaysOK, MaybeSpace
    <3>6. saw' \in [Call -> [active : MaybeSpace, closes : Nat, on : MaybeSpace]]
      BY <3>1, <3>5 DEF Typed, CallsOK
    <3>7. CallsOK'
      BY <2>1, <3>1, <3>6 DEF Goto, Typed, CallsOK, Stage
    <3>8. QED
      BY <3>3, <3>4, <3>7
  <2>3. CASE ~IsOpen(req[k].space)
    <3>1. Goto(k, "failed") /\ UNCHANGED <<open, made, focus, closes, drifted, saw>>
      BY <1>15, <2>3 DEF CloseSpace
    <3>2. CallsOK'
      BY <2>1, <3>1 DEF Goto, Typed, CallsOK, Stage
    <3>3. RpcBounds /\ RelaysOK'
      BY <1>1, <2>1, <3>1 DEF daemonVars, relayVars
    <3>4. QED
      BY <3>2, <3>3
  <2>4. QED
    BY <2>2, <2>3
<1>16. CASE CheckCaller(k)
  <2>1. CallsOK'
    BY <1>16 DEF CheckCaller, Goto, Typed, CallsOK, Stage
  <2>2. QED
    BY <1>1, <1>16, <2>1 DEF CheckCaller
<1>17. CASE PickTarget(k)
  <2>1. PICK m \in MaybeSpace : m = ActiveOrFirst(open, focus)
    BY ActiveIsSpace DEF Typed
  <2>2. result' = [result EXCEPT ![k] = m]
    BY <1>17, <2>1 DEF PickTarget
  <2>3. CallsOK'
    BY <1>17, <2>1, <2>2 DEF PickTarget, Goto, Typed, CallsOK, Stage
  <2>4. QED
    BY <1>1, <1>17, <2>3 DEF PickTarget
<1>18. QED
  BY <1>7, <1>8, <1>9, <1>10, <1>11, <1>12, <1>13, <1>14, <1>15, <1>16, <1>17, <1>19 DEF Rpc

----------------------------------------------------------------------------
(* What a step leaves of the invariant to those it is not about.           *)

\* Where a client's relay is, a step may change only to an open workspace.
StaysSomewhere(c) ==
  c \in Conn => on'[c] = on[c] \/ on'[c] \in Range(open')

\* A call that a step is not about may at most have given up waiting.
CallKeeps(k) ==
  /\ req'[k] = req[k] /\ saw'[k] = saw[k] /\ result'[k] = result[k]
  /\ stage'[k] = stage[k] \/ (stage[k] = "waiting" /\ stage'[k] \in {"unmoved", "failed"})

CallGood(k) == Meant(k) /\ ClosedIsGone(k) /\ CountStands(k)

LEMMA CallFrame ==
  ASSUME Typed, idOf' = idOf, DaemonOK', DaemonMoves, NEW k \in Call, CallKeeps(k), CallGood(k),
         StaysSomewhere(Owner[k])
  PROVE  CallGood(k)'
<1>1. Meant(k)'
  BY DEF CallKeeps, CallGood, Meant, MayGo
<1>2. CountStands(k)'
  <2>1. SUFFICES ASSUME stage'[k] = "counted"
                 PROVE  saw'[k].closes <= closes'
                        /\ (saw'[k].closes = closes' => Len(open') > 1)
    BY DEF CountStands
  <2>2. stage[k] = "counted" /\ saw'[k] = saw[k]
    BY <2>1 DEF CallKeeps
  <2>3. saw[k].closes <= closes /\ (saw[k].closes = closes => Len(open) > 1)
    BY <2>2 DEF CallGood, CountStands
  <2>4. saw[k].closes \in Nat /\ closes \in Nat /\ Len(open) \in Nat
    BY DEF Typed, CallsOK, DaemonOK
  <2>5. closes <= closes' /\ (closes' = closes => Len(open') >= Len(open))
    BY DEF DaemonMoves
  <2>6. closes' \in Nat /\ Len(open') \in Nat
    BY DEF DaemonOK
  <2>7. QED
    BY <2>2, <2>3, <2>4, <2>5, <2>6
<1>3. ClosedIsGone(k)'
  <2>1. SUFFICES ASSUME req'[k].kind = "close"
        PROVE  /\ req'[k].space \in made' /\ result'[k] # req'[k].space
               /\ stage'[k] \in {"closed", "repoint", "sending", "waiting", "ok", "unmoved"} =>
                    req'[k].space \notin Range(open')
               /\ stage'[k] = "ok" => Where(Owner[k])' # req'[k].space
    BY DEF ClosedIsGone
  <2>2. req'[k] = req[k] /\ result'[k] = result[k] /\ req[k].kind = "close"
    BY <2>1 DEF CallKeeps
  <2>3. /\ req[k].space \in made /\ result[k] # req[k].space
        /\ stage[k] \in {"closed", "repoint", "sending", "waiting", "ok", "unmoved"} =>
             req[k].space \notin Range(open)
        /\ stage[k] = "ok" => Where(Owner[k]) # req[k].space
    BY <2>2 DEF CallGood, ClosedIsGone
  <2>4. req'[k].space \in made'
    BY <2>2, <2>3 DEF DaemonMoves
  <2>5. stage'[k] \in {"closed", "repoint", "sending", "waiting", "ok", "unmoved"} =>
          req'[k].space \notin Range(open')
    BY <2>2, <2>3 DEF DaemonMoves, CallKeeps
  <2>6. stage'[k] = "ok" => Where(Owner[k])' # req'[k].space
    <3>1. SUFFICES ASSUME stage'[k] = "ok"
                   PROVE  Where(Owner[k])' # req'[k].space
      OBVIOUS
    <3>2. stage[k] = "ok"
      BY <3>1 DEF CallKeeps
    <3>3. CASE Owner[k] \in Conn
      <4>1. Where(Owner[k])' = on'[Owner[k]] /\ Where(Owner[k]) = on[Owner[k]]
        BY <3>3 DEF Where
      <4>2. QED
        BY <2>2, <2>3, <2>5, <3>1, <3>2, <3>3, <4>1 DEF StaysSomewhere
    <3>4. CASE Owner[k] \notin Conn
      <4>1. Where(Owner[k])' = NoSpace /\ Where(Owner[k]) = NoSpace
        BY <3>4 DEF Where
      <4>2. QED
        BY <2>2, <2>3, <3>2, <4>1
    <3>5. QED
      BY <3>3, <3>4
  <2>7. QED
    BY <2>2, <2>3, <2>4, <2>5, <2>6
<1>4. QED
  BY <1>1, <1>2, <1>3 DEF CallGood

\* A relay's commands keep what they ask and are not acknowledged.
CommandsKeep(c) ==
  /\ idOf' = idOf
  /\ \A i \in 1 .. Len(sent[c]) :
       /\ stage'[sent[c][i]] \in Behind
       /\ req'[sent[c][i]] = req[sent[c][i]] /\ result'[sent[c][i]] = result[sent[c][i]]
       /\ stage'[sent[c][i]] = "ok" => stage[sent[c][i]] = "ok"

\* A call that asks what it did may go where it might.
LEMMA GoesOn ==
  ASSUME idOf' = idOf, NEW k, NEW c, req'[k] = req[k], MayGo(k, c)
  PROVE  MayGo(k, c)'
BY DEF MayGo

SameChannel(c) == sent'[c] = sent[c] /\ taken'[c] = taken[c] /\ busy'[c] = busy[c]

LEMMA ChannelFrame ==
  ASSUME Typed, NEW c \in Conn, Channelled(c), CommandsKeep(c), SameChannel(c),
         phase'[c] \in {"none", "opened"} => phase[c] \in {"none", "opened"}
  PROVE  Channelled(c)'
<1>1. sent'[c] = sent[c] /\ taken'[c] = taken[c] /\ busy'[c] = busy[c]
  BY DEF SameChannel
<1>2. ASSUME NEW i \in 1 .. Len(sent[c])
      PROVE  /\ MayGo(sent[c][i], c)' /\ req'[sent[c][i]].conn = c
             /\ stage'[sent[c][i]] \in Behind
             /\ stage'[sent[c][i]] = "ok" /\ req'[sent[c][i]].kind \in {"switch", "close"} =>
                  i <= taken[c] /\ (i = taken[c] => ~busy[c])
  <2>1. PICK k : k = sent[c][i]
    OBVIOUS
  <2>2. /\ MayGo(k, c) /\ req[k].conn = c
        /\ stage[k] = "ok" /\ req[k].kind \in {"switch", "close"} =>
             i <= taken[c] /\ (i = taken[c] => ~busy[c])
    BY <1>2, <2>1 DEF Channelled
  <2>3. /\ req'[k] = req[k] /\ stage'[k] \in Behind /\ idOf' = idOf
        /\ stage'[k] = "ok" => stage[k] = "ok"
    BY <1>2, <2>1 DEF CommandsKeep
  <2>4. MayGo(sent[c][i], c)'
    BY <1>1, <2>1, <2>2, <2>3 DEF MayGo
  <2>5. QED
    BY <2>1, <2>2, <2>3, <2>4
<1>3. \A i, j \in 1 .. Len(sent[c]) : sent[c][i] = sent[c][j] => i = j
  BY DEF Channelled
<1>4. phase'[c] \in {"none", "opened"} => sent[c] = <<>>
  BY DEF Channelled
<1>5. QED
  BY <1>1, <1>2, <1>3, <1>4 DEF Channelled

LEMMA MovedFrame ==
  ASSUME Typed, NEW c \in Conn, Moved(c), CommandsKeep(c), SameChannel(c),
         phase'[c] = phase[c], on'[c] = on[c], known'[c] = known[c]
  PROVE  Moved(c)'
<1>1. /\ sent'[c] = sent[c] /\ taken'[c] = taken[c] /\ busy'[c] = busy[c]
      /\ taken[c] \in Nat /\ taken[c] <= Len(sent[c]) /\ Len(sent[c]) \in Nat
  BY DEF SameChannel, Typed, RelaysOK
<1>2. PICK k : k = sent[c][taken[c]]
  OBVIOUS
<1>3. sent'[c][taken'[c]] = k
  BY <1>1, <1>2
<1>4. taken[c] >= 1 => /\ req'[k] = req[k] /\ result'[k] = result[k]
                       /\ stage'[k] = "ok" => stage[k] = "ok"
  BY <1>1, <1>2 DEF CommandsKeep
<1>5. taken[c] >= 1 => Target(k)' = Target(k)
  BY <1>4 DEF Target
<1>6. busy[c] => /\ phase[c] = "serving" /\ taken[c] >= 1
                 /\ req[k].kind \in {"switch", "close"} /\ on[c] = Target(k)
  BY <1>2 DEF Moved
<1>7. phase[c] = "serving" /\ ~busy[c] /\ taken[c] >= 1 =>
        (req[k].kind = "switch" /\ stage[k] = "ok" => on[c] = req[k].space /\ known[c] = req[k].space)
  BY <1>2 DEF Moved
<1>8. busy'[c] => /\ phase'[c] = "serving" /\ taken'[c] >= 1
                  /\ req'[k].kind \in {"switch", "close"} /\ on'[c] = Target(k)'
  BY <1>1, <1>4, <1>5, <1>6
<1>9. phase'[c] = "serving" /\ ~busy'[c] /\ taken'[c] >= 1 =>
        (req'[k].kind = "switch" /\ stage'[k] = "ok" => on'[c] = req'[k].space /\ known'[c] = req'[k].space)
  BY <1>1, <1>4, <1>7
<1>10. QED
  BY <1>3, <1>8, <1>9 DEF Moved

LEMMA SeesFrame ==
  ASSUME Typed, NEW c \in Conn, Sees(c), phase'[c] = phase[c], on'[c] = on[c],
         tab'[c] = tab[c], busy'[c] = busy[c],
         Drift \/ (open' = open /\ focus' = focus /\ drifted'[c] = drifted[c])
  PROVE  Sees(c)'
<1>1. CASE Drift
  <2>1. drifted'[c] = (drifted[c] \/ phase[c] = "opened")
    BY <1>1 DEF Drift
  <2>2. drifted[c] \in BOOLEAN
    BY DEF Typed, RelaysOK
  <2>3. ~drifted'[c] => ~drifted[c] /\ phase[c] # "opened"
    BY <2>1, <2>2
  <2>4. QED
    BY <2>3 DEF Sees
<1>2. CASE open' = open /\ focus' = focus /\ drifted'[c] = drifted[c]
  <2>1. ActiveOrFirst(open, focus)' = ActiveOrFirst(open, focus)
    BY <1>2 DEF ActiveOrFirst
  <2>2. QED
    BY <1>2, <2>1 DEF Sees
<1>3. QED
  BY <1>1, <1>2

----------------------------------------------------------------------------
(* A relay's steps.                                                        *)

LEMMA OthersSame ==
  ASSUME Typed, NEW c \in Conn, Relay(c), NEW d \in Conn, d # c
  PROVE  /\ SameChannel(d) /\ phase'[d] = phase[d] /\ on'[d] = on[d]
         /\ known'[d] = known[d] /\ tab'[d] = tab[d] /\ drifted'[d] = drifted[d]
<1> USE DEF Typed, RelaysOK, SameChannel
<1>1. CASE Attach(c)
  BY <1>1 DEF Attach
<1>2. CASE InitView(c)
  BY <1>2 DEF InitView
<1>3. CASE Leave(c)
  BY <1>3 DEF Leave
<1>4. CASE RefuseSwitch(c)
  BY <1>4 DEF RefuseSwitch
<1>5. CASE TakeSwitch(c)
  BY <1>5 DEF TakeSwitch
<1>6. CASE RecordSwitch(c)
  <2>1. /\ known' = [known EXCEPT ![c] = Target(sent[c][taken[c]])]
        /\ tab' = [tab EXCEPT ![c] = NoSpace] /\ busy' = [busy EXCEPT ![c] = FALSE]
        /\ drifted' = [drifted EXCEPT ![c] = FALSE]
        /\ UNCHANGED <<phase, on, sent, taken>>
    BY <1>6 DEF RecordSwitch
  <2>2. QED
    BY <2>1
<1>7. CASE TakeTab(c)
  BY <1>7 DEF TakeTab
<1>8. QED
  BY <1>1, <1>2, <1>3, <1>4, <1>5, <1>6, <1>7 DEF Relay

\* What a relay at a command has before it.
LEMMA AtCommand ==
  ASSUME Typed, NEW c \in Conn, Serving(c)
  PROVE  /\ phase[c] = "serving" /\ ~busy[c]
         /\ taken[c] \in Nat /\ taken[c] + 1 \in 1 .. Len(sent[c])
         /\ Command(c) = sent[c][taken[c] + 1] /\ Command(c) \in Call
<1>1. /\ sent[c] \in Seq(Call) /\ Len(sent[c]) \in Nat /\ taken[c] \in Nat
      /\ taken[c] < Len(sent[c])
  BY DEF Serving, Typed, RelaysOK
<1>2. QED
  BY <1>1 DEF Serving, Command

LEMMA RelayKeepsCalls ==
  ASSUME Typed, NEW c \in Conn, Relay(c), ~RecordSwitch(c), NEW k \in Call
  PROVE  CallKeeps(k)
<1> USE DEF CallKeeps
<1>1. CASE Attach(c) \/ InitView(c) \/ TakeSwitch(c) \/ TakeTab(c)
  <2>1. UNCHANGED callVars
    BY <1>1 DEF Attach, InitView, TakeSwitch, TakeTab
  <2>2. QED
    BY <2>1 DEF callVars
<1>2. ASSUME NEW m \in Call
      PROVE  Failed(m) \in {"unmoved", "failed"}
  BY DEF Failed
<1>3. CASE Leave(c)
  BY <1>2, <1>3 DEF Leave
<1>4. CASE RefuseSwitch(c)
  <2>1. Command(c) \in Call
    BY <1>4, AtCommand DEF RefuseSwitch
  <2>2. Failed(Command(c)) \in {"unmoved", "failed"}
    BY <1>2, <2>1
  <2>3. stage' = [stage EXCEPT ![Command(c)] = IF @ = "waiting" THEN Failed(Command(c)) ELSE @]
        /\ UNCHANGED <<req, saw, result>>
    BY <1>4 DEF RefuseSwitch, Answer
  <2>4. QED
    BY <2>1, <2>2, <2>3 DEF Typed, CallsOK
<1>5. QED
  BY <1>1, <1>3, <1>4 DEF Relay

LEMMA RelayStaysSomewhere ==
  ASSUME Typed, NEW c \in Conn, Relay(c), NEW d
  PROVE  StaysSomewhere(d)
<1>1. SUFFICES ASSUME d \in Conn
               PROVE  on'[d] = on[d] \/ on'[d] \in Range(open')
  BY DEF StaysSomewhere
<1>2. CASE d # c
  BY <1>1, <1>2, OthersSame
<1>3. CASE d = c
  <2>1. CASE Attach(c)
    <3>1. ActiveOrFirst(open, focus) \in Range(open)
      BY <2>1, ActiveIsSpace DEF Attach, Typed
    <3>2. on'[c] = ActiveOrFirst(open, focus) /\ open' = open
      BY <2>1 DEF Attach, daemonVars, Typed, RelaysOK
    <3>3. QED
      BY <1>3, <3>1, <3>2
  <2>2. CASE TakeSwitch(c)
    <3>1. on'[c] = Target(Command(c)) /\ Target(Command(c)) \in Range(open) /\ open' = open
      BY <2>2 DEF TakeSwitch, IsOpen, daemonVars, Typed, RelaysOK
    <3>2. QED
      BY <1>3, <3>1
  <2>3. CASE InitView(c) \/ Leave(c) \/ RefuseSwitch(c) \/ RecordSwitch(c) \/ TakeTab(c)
    <3>1. on' = on
      BY <2>3 DEF InitView, Leave, RefuseSwitch, RecordSwitch, TakeTab
    <3>2. QED
      BY <3>1
  <2>4. QED
    BY <2>1, <2>2, <2>3 DEF Relay
<1>4. QED
  BY <1>2, <1>3

LEMMA CommandsAreKept ==
  ASSUME Typed, idOf' = idOf, NEW c \in Conn, Channelled(c), \A k \in Call : CallKeeps(k)
  PROVE  CommandsKeep(c)
<1>1. SUFFICES ASSUME NEW i \in 1 .. Len(sent[c])
      PROVE  /\ stage'[sent[c][i]] \in Behind
             /\ req'[sent[c][i]] = req[sent[c][i]] /\ result'[sent[c][i]] = result[sent[c][i]]
             /\ stage'[sent[c][i]] = "ok" => stage[sent[c][i]] = "ok"
  BY DEF CommandsKeep
<1>2. PICK k \in Call : k = sent[c][i]
  BY <1>1 DEF Typed, RelaysOK
<1>3. stage[k] \in Behind /\ CallKeeps(k)
  BY <1>1, <1>2 DEF Channelled
<1>4. /\ stage'[k] \in Behind /\ req'[k] = req[k] /\ result'[k] = result[k]
      /\ stage'[k] = "ok" => stage[k] = "ok"
  BY <1>3 DEF CallKeeps, Behind
<1>5. QED
  BY <1>2, <1>4

\* A command that was taken, and refused or about a tab, was none that was
\* acknowledged.
LEMMA TakenFrame ==
  ASSUME Typed, NEW c \in Conn, Channelled(c), CommandsKeep(c), Serving(c),
         sent'[c] = sent[c], taken'[c] = taken[c] + 1,
         phase'[c] = phase[c]
  PROVE  /\ Channelled(c)'
         /\ req'[Command(c)] = req[Command(c)] /\ result'[Command(c)] = result[Command(c)]
         /\ req[Command(c)].kind = "switch" => stage'[Command(c)] # "ok"
         /\ sent'[c][taken'[c]] = Command(c)
<1>1. /\ taken[c] \in Nat /\ taken[c] + 1 \in 1 .. Len(sent[c])
      /\ Command(c) = sent[c][taken[c] + 1] /\ phase[c] = "serving"
  BY AtCommand
<1>2. ASSUME NEW i \in 1 .. Len(sent[c])
      PROVE  /\ MayGo(sent[c][i], c)' /\ req'[sent[c][i]].conn = c
             /\ stage'[sent[c][i]] \in Behind
             /\ stage'[sent[c][i]] = "ok" /\ req'[sent[c][i]].kind \in {"switch", "close"} =>
                  i <= taken[c]
  BY DEF Channelled, CommandsKeep, MayGo
<1>3. \A i, j \in 1 .. Len(sent[c]) : sent[c][i] = sent[c][j] => i = j
  BY DEF Channelled
<1>4. \A i \in 1 .. Len(sent[c]) : i <= taken[c] => i <= taken[c] + 1 /\ i # taken[c] + 1
  BY <1>1
<1>5. Channelled(c)'
  BY <1>1, <1>2, <1>3, <1>4 DEF Channelled
<1>6. req'[Command(c)] = req[Command(c)] /\ result'[Command(c)] = result[Command(c)]
  BY <1>1 DEF CommandsKeep
<1>7. ASSUME req[Command(c)].kind = "switch", stage'[Command(c)] = "ok"
      PROVE  FALSE
  BY <1>1, <1>2, <1>6, <1>7
<1>8. QED
  BY <1>1, <1>5, <1>6, <1>7

RelayGood(c) == Channelled(c) /\ Moved(c) /\ Sees(c)

LEMMA AttachKeeps ==
  ASSUME Typed, NEW c \in Conn, RelayGood(c), Attach(c), CommandsKeep(c)
  PROVE  RelayGood(c)'
<1> USE DEF RelayGood
<1>1. /\ phase[c] = "none" /\ phase'[c] = "opened" /\ SameChannel(c)
      /\ on'[c] = ActiveOrFirst(open, focus)
      /\ open' = open /\ focus' = focus
  BY DEF Attach, daemonVars, SameChannel, Typed, RelaysOK
<1>2. Channelled(c)'
  BY <1>1, ChannelFrame
<1>3. ~busy'[c]
  BY <1>1 DEF Moved, SameChannel
<1>4. Moved(c)'
  BY <1>1, <1>3 DEF Moved
<1>5. ActiveOrFirst(open, focus)' = ActiveOrFirst(open, focus)
  BY <1>1 DEF ActiveOrFirst
<1>6. Sees(c)'
  BY <1>1, <1>5 DEF Sees
<1>7. QED
  BY <1>2, <1>4, <1>6

LEMMA InitViewKeeps ==
  ASSUME Typed, NEW c \in Conn, RelayGood(c), InitView(c), CommandsKeep(c)
  PROVE  RelayGood(c)'
<1> USE DEF RelayGood
<1>1. /\ phase[c] = "opened" /\ phase'[c] = "serving" /\ SameChannel(c)
      /\ on'[c] = on[c] /\ drifted'[c] = drifted[c]
      /\ tab'[c] \in {ActiveOrFirst(open, focus), NoSpace}
  BY DEF InitView, SameChannel, Typed, RelaysOK
<1>2. Channelled(c)'
  BY <1>1, ChannelFrame
<1>3. sent[c] = <<>> /\ ~busy[c]
  BY <1>1 DEF Channelled, Moved
<1>4. taken'[c] = 0 /\ ~busy'[c]
  BY <1>1, <1>3 DEF SameChannel, Typed, RelaysOK
<1>5. Moved(c)'
  BY <1>4 DEF Moved
<1>6. Sees(c)'
  BY <1>1 DEF Sees
<1>7. QED
  BY <1>2, <1>5, <1>6

LEMMA LeaveKeeps ==
  ASSUME Typed, NEW c \in Conn, RelayGood(c), Leave(c), CommandsKeep(c)
  PROVE  RelayGood(c)'
<1> USE DEF RelayGood
<1>1. ~busy[c] /\ phase'[c] = "gone" /\ SameChannel(c)
  BY DEF Leave, SameChannel, Typed, RelaysOK
<1>2. Channelled(c)'
  BY <1>1, ChannelFrame
<1>3. Moved(c)' /\ Sees(c)'
  BY <1>1 DEF Moved, Sees, SameChannel
<1>4. QED
  BY <1>2, <1>3

LEMMA RefuseSwitchKeeps ==
  ASSUME Typed, NEW c \in Conn, RelayGood(c), RefuseSwitch(c), CommandsKeep(c)
  PROVE  RelayGood(c)'
<1> USE DEF RelayGood
<1>1. Serving(c) /\ taken' = [taken EXCEPT ![c] = @ + 1]
      /\ UNCHANGED <<daemonVars, phase, on, known, tab, sent, busy, drifted>>
  BY DEF RefuseSwitch
<1>2. /\ sent'[c] = sent[c] /\ taken'[c] = taken[c] + 1 /\ phase'[c] = phase[c]
      /\ busy'[c] = busy[c] /\ ~busy[c]
  BY <1>1, AtCommand DEF Typed, RelaysOK
<1>3. PICK k : k = Command(c)
  OBVIOUS
<1>4. /\ Channelled(c)' /\ req'[k] = req[k] /\ sent'[c][taken'[c]] = k
      /\ req[k].kind = "switch" => stage'[k] # "ok"
  BY <1>1, <1>2, <1>3, TakenFrame
<1>5. Moved(c)'
  BY <1>2, <1>4 DEF Moved
<1>6. Sees(c)'
  BY <1>1, SeesFrame DEF daemonVars
<1>7. QED
  BY <1>4, <1>5, <1>6

LEMMA TakeTabKeeps ==
  ASSUME Typed, NEW c \in Conn, RelayGood(c), TakeTab(c), CommandsKeep(c)
  PROVE  RelayGood(c)'
<1> USE DEF RelayGood
<1>1. /\ Serving(c) /\ req[Command(c)].kind = "tab" /\ taken' = [taken EXCEPT ![c] = @ + 1]
      /\ UNCHANGED <<daemonVars, phase, on, known, sent, busy>>
      /\ \/ tab' = [tab EXCEPT ![c] = on[c]] /\ drifted' = [drifted EXCEPT ![c] = FALSE]
         \/ tab' = tab /\ drifted' = drifted
  BY DEF TakeTab
<1>2. /\ sent'[c] = sent[c] /\ taken'[c] = taken[c] + 1 /\ phase'[c] = phase[c]
      /\ busy'[c] = busy[c] /\ ~busy[c] /\ on'[c] = on[c] /\ phase[c] = "serving"
  BY <1>1, AtCommand DEF Typed, RelaysOK
<1>3. PICK k : k = Command(c)
  OBVIOUS
<1>4. /\ Channelled(c)' /\ req'[k] = req[k] /\ sent'[c][taken'[c]] = k
  BY <1>1, <1>2, <1>3, TakenFrame
<1>5. Moved(c)'
  BY <1>1, <1>2, <1>3, <1>4 DEF Moved
<1>6. Sees(c)'
  <2>1. CASE tab' = [tab EXCEPT ![c] = on[c]]
    <3>1. tab'[c] = on[c]
      BY <2>1 DEF Typed, RelaysOK
    <3>2. QED
      BY <1>2, <3>1 DEF Sees
  <2>2. CASE tab' = tab /\ drifted' = drifted
    BY <1>1, <2>2, SeesFrame DEF daemonVars
  <2>3. QED
    BY <1>1, <2>1, <2>2
<1>7. QED
  BY <1>4, <1>5, <1>6

LEMMA TakeSwitchKeeps ==
  ASSUME Typed, NEW c \in Conn, RelayGood(c), TakeSwitch(c), CommandsKeep(c)
  PROVE  RelayGood(c)'
<1> USE DEF RelayGood
<1>1. /\ Serving(c) /\ req[Command(c)].kind \in {"switch", "close"}
      /\ taken' = [taken EXCEPT ![c] = @ + 1] /\ busy' = [busy EXCEPT ![c] = TRUE]
      /\ on' = [on EXCEPT ![c] = Target(Command(c))]
      /\ UNCHANGED <<daemonVars, phase, known, tab, sent, drifted, callVars>>
  BY DEF TakeSwitch
<1>2. PICK k : k = Command(c)
  OBVIOUS
<1>3. PICK m : m = Target(k)
  OBVIOUS
<1>4. /\ sent'[c] = sent[c] /\ taken'[c] = taken[c] + 1 /\ phase'[c] = "serving"
      /\ phase'[c] = phase[c] /\ busy'[c] /\ on'[c] = m /\ taken[c] \in Nat
  BY <1>1, <1>2, <1>3, AtCommand DEF Typed, RelaysOK
<1>5. /\ Channelled(c)' /\ req'[k] = req[k] /\ result'[k] = result[k]
      /\ sent'[c][taken'[c]] = k
  BY <1>1, <1>2, <1>4, TakenFrame
<1>6. Target(k)' = m
  BY <1>3, <1>5 DEF Target
<1>7. Moved(c)'
  BY <1>1, <1>2, <1>4, <1>5, <1>6 DEF Moved
<1>8. Sees(c)'
  BY <1>4 DEF Sees
<1>9. QED
  BY <1>5, <1>7, <1>8

\* The answer to a switch, or to the re-point of a close, changes one call.
LEMMA RecordSwitchEffect ==
  ASSUME Typed, NEW c \in Conn, RelayGood(c), RecordSwitch(c)
  PROVE  \E k \in Call :
           /\ k = sent[c][taken[c]] /\ taken[c] \in 1 .. Len(sent[c])
           /\ req[k].kind \in {"switch", "close"} /\ on[c] = Target(k)
           /\ stage' = [stage EXCEPT ![k] = IF @ = "waiting" THEN "ok" ELSE @]
           /\ req' = req /\ saw' = saw /\ result' = result
           /\ sent' = sent /\ taken' = taken /\ phase' = phase /\ on' = on
           /\ known'[c] = Target(k) /\ tab'[c] = NoSpace /\ ~busy'[c]
           /\ Owner[k] = c /\ req[k].conn = c /\ stage[k] \in Behind /\ phase[c] = "serving"
<1>1. busy[c] /\ taken[c] \in Nat /\ taken[c] >= 1 /\ taken[c] <= Len(sent[c]) /\ Len(sent[c]) \in Nat
  BY DEF RecordSwitch, RelayGood, Moved, Typed, RelaysOK
<1>2. taken[c] \in 1 .. Len(sent[c])
  BY <1>1
<1>3. PICK k \in Call : k = sent[c][taken[c]]
  BY <1>2 DEF Typed, RelaysOK
<1>4. /\ stage' = [stage EXCEPT ![k] = IF @ = "waiting" THEN "ok" ELSE @]
      /\ known' = [known EXCEPT ![c] = Target(k)]
      /\ tab' = [tab EXCEPT ![c] = NoSpace] /\ busy' = [busy EXCEPT ![c] = FALSE]
      /\ UNCHANGED <<phase, on, sent, taken, req, saw, result>>
  BY <1>3 DEF RecordSwitch, Answer
<1>5. known'[c] = Target(k) /\ tab'[c] = NoSpace /\ ~busy'[c]
  BY <1>4 DEF Typed, RelaysOK
<1>6. req[k].kind \in {"switch", "close"} /\ on[c] = Target(k) /\ phase[c] = "serving"
  BY <1>1, <1>3 DEF RelayGood, Moved
<1>7. MayGo(k, c) /\ req[k].conn = c /\ stage[k] \in Behind
  BY <1>2, <1>3 DEF RelayGood, Channelled
<1>8. Owner[k] = c
  BY <1>6, <1>7 DEF MayGo
<1>9. QED
  BY <1>2, <1>3, <1>4, <1>5, <1>6, <1>7, <1>8

LEMMA RecordSwitchKeeps ==
  ASSUME Typed, idOf' = idOf, NEW c \in Conn, RelayGood(c), RecordSwitch(c)
  PROVE  RelayGood(c)'
<1>1. PICK k \in Call :
           /\ k = sent[c][taken[c]] /\ taken[c] \in 1 .. Len(sent[c])
           /\ req[k].kind \in {"switch", "close"} /\ on[c] = Target(k)
           /\ stage' = [stage EXCEPT ![k] = IF @ = "waiting" THEN "ok" ELSE @]
           /\ req' = req /\ saw' = saw /\ result' = result
           /\ sent' = sent /\ taken' = taken /\ phase' = phase /\ on' = on
           /\ known'[c] = Target(k) /\ tab'[c] = NoSpace /\ ~busy'[c]
           /\ Owner[k] = c /\ req[k].conn = c /\ stage[k] \in Behind /\ phase[c] = "serving"
  BY RecordSwitchEffect
<1>2. ASSUME NEW i \in 1 .. Len(sent[c])
      PROVE  /\ MayGo(sent[c][i], c)' /\ req'[sent[c][i]].conn = c
             /\ stage'[sent[c][i]] \in Behind
             /\ stage'[sent[c][i]] = "ok" /\ req'[sent[c][i]].kind \in {"switch", "close"} =>
                  i <= taken[c] /\ (i = taken[c] => ~busy'[c])
  <2>1. PICK m \in Call : m = sent[c][i]
    BY <1>2 DEF Typed, RelaysOK
  <2>2. /\ MayGo(m, c) /\ req[m].conn = c /\ stage[m] \in Behind
        /\ stage[m] = "ok" /\ req[m].kind \in {"switch", "close"} => i <= taken[c]
    BY <1>2, <2>1 DEF RelayGood, Channelled
  <2>6. MayGo(m, c)' /\ req'[m] = req[m]
    BY <1>1, <2>2, GoesOn
  <2>7. MayGo(sent[c][i], c)'
    BY <1>1, <2>1, <2>6 DEF MayGo
  <2>3. CASE m = k
    <3>1. sent[c][i] = sent[c][taken[c]]
      BY <1>1, <2>1, <2>3
    <3>2. i = taken[c]
      BY <1>1, <1>2, <3>1 DEF RelayGood, Channelled
    <3>3. i <= taken[c]
      BY <1>2, <3>2
    <3>4. stage'[m] \in Behind
      BY <1>1, <2>2, <2>3 DEF Behind, Typed, CallsOK
    <3>5. QED
      BY <1>1, <2>1, <2>2, <2>6, <2>7, <3>2, <3>3, <3>4
  <2>4. CASE m # k
    <3>1. stage'[m] = stage[m]
      BY <1>1, <2>4 DEF Typed, CallsOK
    <3>2. QED
      BY <1>1, <2>1, <2>2, <2>6, <2>7, <3>1
  <2>5. QED
    BY <2>3, <2>4
<1>3. Channelled(c)'
  BY <1>1, <1>2 DEF RelayGood, Channelled
<1>4. Target(k)' = Target(k) /\ (req[k].kind = "switch" => Target(k) = req[k].space)
  BY <1>1 DEF Target
<1>5. Moved(c)'
  BY <1>1, <1>4 DEF Moved
<1>6. Sees(c)'
  BY <1>1 DEF Sees
<1>7. QED
  BY <1>3, <1>5, <1>6 DEF RelayGood

LEMMA RelayKeepsOwn ==
  ASSUME Typed, NEW c \in Conn, RelayGood(c), Relay(c), ~RecordSwitch(c), CommandsKeep(c)
  PROVE  RelayGood(c)'
BY AttachKeeps, InitViewKeeps, LeaveKeeps, RefuseSwitchKeeps, TakeSwitchKeeps, TakeTabKeeps
   DEF Relay

LEMMA RelayKeepsOther ==
  ASSUME Typed, NEW c \in Conn, Relay(c), NEW d \in Conn, d # c, RelayGood(d),
         CommandsKeep(d), UNCHANGED daemonVars
  PROVE  RelayGood(d)'
<1>1. /\ SameChannel(d) /\ phase'[d] = phase[d] /\ on'[d] = on[d]
      /\ known'[d] = known[d] /\ tab'[d] = tab[d] /\ drifted'[d] = drifted[d]
      /\ busy'[d] = busy[d]
  BY OthersSame DEF SameChannel
<1>2. open' = open /\ focus' = focus
  BY DEF daemonVars
<1>3. Channelled(d)'
  BY <1>1, ChannelFrame DEF RelayGood
<1>4. Moved(d)'
  BY <1>1, MovedFrame DEF RelayGood
<1>5. Sees(d)'
  BY <1>1, <1>2, SeesFrame DEF RelayGood
<1>6. QED
  BY <1>3, <1>4, <1>5 DEF RelayGood

\* The call that a relay answers.
LEMMA RecordedCall ==
  ASSUME Typed, idOf' = idOf, UNCHANGED daemonVars, NEW k \in Call, CallGood(k), NEW c \in Conn,
         Owner[k] = c, stage[k] \in Behind,
         stage' = [stage EXCEPT ![k] = IF @ = "waiting" THEN "ok" ELSE @],
         req' = req, saw' = saw, result' = result, on' = on, on[c] = Target(k)
  PROVE  CallGood(k)'
<1>1. CASE stage[k] # "waiting"
  <2>1. stage'[k] = stage[k]
    BY <1>1 DEF Typed, CallsOK
  <2>2. CallKeeps(k)
    BY <2>1 DEF CallKeeps
  <2>3. DaemonOK' /\ DaemonMoves
    BY SameMoves DEF Typed, daemonVars
  <2>4. StaysSomewhere(Owner[k])
    BY DEF StaysSomewhere
  <2>5. QED
    BY <2>2, <2>3, <2>4, CallFrame
<1>2. CASE stage[k] = "waiting"
  <2>1. stage'[k] = "ok"
    BY <1>2 DEF Typed, CallsOK
  <2>2. open' = open /\ made' = made
    BY DEF daemonVars
  <2>3. Meant(k)' /\ CountStands(k)'
    BY <2>1 DEF CallGood, Meant, MayGo, CountStands
  <2>4. Where(Owner[k])' = Target(k)
    BY DEF Where
  <2>5. req[k].kind = "close" => Target(k) = result[k]
    BY DEF Target
  <2>6. req[k].kind = "close" => /\ req[k].space \in made /\ result[k] # req[k].space
                                 /\ req[k].space \notin Range(open)
    BY <1>2 DEF CallGood, ClosedIsGone
  <2>7. ClosedIsGone(k)'
    BY <2>1, <2>2, <2>4, <2>5, <2>6 DEF ClosedIsGone
  <2>8. QED
    BY <2>3, <2>7 DEF CallGood
<1>3. QED
  BY <1>1, <1>2

\* With Typed, the inductive invariant.
AllGood == (\A k \in Call : CallGood(k)) /\ (\A c \in Conn : RelayGood(c))

LEMMA RelayKeepsAll ==
  ASSUME Typed, idOf' = idOf, AllGood, NEW c \in Conn, Relay(c)
  PROVE  Typed' /\ AllGood'
<1>1. /\ RelaysOK' /\ CallsOK' /\ UNCHANGED daemonVars
      /\ UNCHANGED <<open, made, focus, closes>> /\ moved' = moved
  BY RelayKeepsTypes DEF AllGood, RelayGood, daemonVars
<1>2. DaemonOK' /\ DaemonMoves
  BY <1>1, SameMoves DEF Typed
<1>3. Typed'
  BY <1>1, <1>2 DEF Typed
<1>4. \A d : StaysSomewhere(d)
  BY RelayStaysSomewhere
<1>5. CASE ~RecordSwitch(c)
  <2>1. \A k \in Call : CallKeeps(k)
    BY <1>5, RelayKeepsCalls
  <2>2. \A k \in Call : CallGood(k)'
    BY <1>2, <1>4, <2>1, CallFrame DEF AllGood
  <2>3. ASSUME NEW d \in Conn
        PROVE  RelayGood(d)'
    <3>1. CommandsKeep(d) /\ RelayGood(d)
      BY <2>1, CommandsAreKept DEF AllGood, RelayGood
    <3>2. QED
      BY <1>1, <1>5, <3>1, RelayKeepsOwn, RelayKeepsOther
  <2>4. QED
    BY <1>3, <2>2, <2>3 DEF AllGood
<1>6. CASE RecordSwitch(c)
  <2>1. PICK k \in Call :
           /\ k = sent[c][taken[c]] /\ taken[c] \in 1 .. Len(sent[c])
           /\ req[k].kind \in {"switch", "close"} /\ on[c] = Target(k)
           /\ stage' = [stage EXCEPT ![k] = IF @ = "waiting" THEN "ok" ELSE @]
           /\ req' = req /\ saw' = saw /\ result' = result
           /\ sent' = sent /\ taken' = taken /\ phase' = phase /\ on' = on
           /\ known'[c] = Target(k) /\ tab'[c] = NoSpace /\ ~busy'[c]
           /\ Owner[k] = c /\ req[k].conn = c /\ stage[k] \in Behind /\ phase[c] = "serving"
    BY <1>6, RecordSwitchEffect DEF AllGood
  <2>2. CallGood(k)'
    BY <1>1, <2>1, RecordedCall DEF AllGood
  <2>3. ASSUME NEW m \in Call, m # k
        PROVE  CallKeeps(m) /\ stage'[m] = stage[m]
    BY <2>1, <2>3 DEF CallKeeps, Typed, CallsOK
  <2>4. \A m \in Call : m # k => CallGood(m)'
    BY <1>2, <1>4, <2>3, CallFrame DEF AllGood
  <2>5. ASSUME NEW d \in Conn, d # c
        PROVE  CommandsKeep(d)
    <3>1. SUFFICES ASSUME NEW i \in 1 .. Len(sent[d])
          PROVE  /\ stage'[sent[d][i]] \in Behind
                 /\ req'[sent[d][i]] = req[sent[d][i]] /\ result'[sent[d][i]] = result[sent[d][i]]
                 /\ stage'[sent[d][i]] = "ok" => stage[sent[d][i]] = "ok"
      BY DEF CommandsKeep
    <3>2. PICK m \in Call : m = sent[d][i]
      BY <2>5, <3>1 DEF Typed, RelaysOK
    <3>3. req[m].conn = d /\ stage[m] \in Behind
      BY <2>5, <3>1, <3>2 DEF AllGood, RelayGood, Channelled
    <3>4. m # k
      BY <2>1, <2>5, <3>3
    <3>5. stage'[m] = stage[m]
      BY <2>3, <3>4
    <3>6. QED
      BY <2>1, <3>2, <3>3, <3>5
  <2>6. RelayGood(c)'
    BY <1>6, RecordSwitchKeeps DEF AllGood
  <2>7. \A d \in Conn : d # c => RelayGood(d)'
    BY <1>1, <2>5, RelayKeepsOther DEF AllGood
  <2>8. QED
    BY <1>3, <2>2, <2>4, <2>6, <2>7 DEF AllGood
<1>7. QED
  BY <1>5, <1>6

LEMMA DesktopKeepsAll ==
  ASSUME Typed, idOf' = idOf, AllGood, Desktop
  PROVE  Typed' /\ AllGood'
<1>1. DaemonOK' /\ DaemonMoves /\ Drift /\ moved' \in 0 .. Moves
  BY DesktopMoves DEF Typed
<1>2. UNCHANGED <<phase, on, known, tab, sent, taken, busy, callVars>>
  BY DEF Desktop
<1>3. CallsOK'
  BY <1>2 DEF Typed, CallsOK, callVars
<1>4. RelaysOK'
  BY <1>1, <1>2 DEF Typed, RelaysOK, Drift
<1>5. \A k \in Call : CallKeeps(k)
  BY <1>2 DEF CallKeeps, callVars
<1>6. \A d : StaysSomewhere(d)
  BY <1>2 DEF StaysSomewhere
<1>7. \A k \in Call : CallGood(k)'
  BY <1>1, <1>5, <1>6, CallFrame DEF AllGood
<1>8. ASSUME NEW d \in Conn
      PROVE  RelayGood(d)'
  <2>1. CommandsKeep(d) /\ RelayGood(d)
    BY <1>5, CommandsAreKept DEF AllGood, RelayGood
  <2>2. /\ SameChannel(d) /\ phase'[d] = phase[d] /\ on'[d] = on[d]
        /\ known'[d] = known[d] /\ tab'[d] = tab[d] /\ busy'[d] = busy[d]
    BY <1>2 DEF SameChannel
  <2>3. Channelled(d)'
    BY <2>1, <2>2, ChannelFrame DEF RelayGood
  <2>4. Moved(d)'
    BY <2>1, <2>2, MovedFrame DEF RelayGood
  <2>5. Sees(d)'
    BY <1>1, <2>1, <2>2, SeesFrame DEF RelayGood
  <2>6. QED
    BY <2>3, <2>4, <2>5 DEF RelayGood
<1>9. QED
  BY <1>1, <1>3, <1>4, <1>7, <1>8 DEF Typed, AllGood

----------------------------------------------------------------------------
(* The steps of an RPC.                                                    *)

LEMMA RpcIsOfOne ==
  ASSUME Typed, NEW k \in Call, Rpc(k)
  PROVE  /\ \A m \in Call : m # k => CallKeeps(m)
         /\ stage[k] \notin Behind \/ CallKeeps(k)
<1> USE DEF Typed, CallsOK, CallKeeps
<1>1. CASE Begin(k)
  <2>1. /\ stage[k] = "idle" /\ saw' = saw /\ result' = result
        /\ \E g : stage' = [stage EXCEPT ![k] = g]
        /\ req' = req \/ \E r : req' = [req EXCEPT ![k] = r]
    BY <1>1, BeginEffect DEF BeginsAs
  <2>2. QED
    BY <2>1 DEF Behind
<1>2. CASE Send(k)
  <2>1. stage[k] = "sending" /\ UNCHANGED <<req, saw, result>>
        /\ \E s : stage' = [stage EXCEPT ![k] = s]
    BY <1>2 DEF Send, Goto
  <2>2. QED
    BY <2>1 DEF Behind
<1>3. CASE TimeOut(k)
  <2>1. stage[k] = "waiting" /\ UNCHANGED <<req, saw, result>>
        /\ stage' = [stage EXCEPT ![k] = Failed(k)]
    BY <1>3 DEF TimeOut, Goto
  <2>2. QED
    BY <2>1 DEF Failed
<1>4. CASE BackendFails(k) \/ CheckCaller(k)
  <2>1. stage[k] \in {"calling", "counted", "closed"} /\ UNCHANGED <<req, saw, result>>
        /\ \E s : stage' = [stage EXCEPT ![k] = s]
    BY <1>4 DEF BackendFails, CheckCaller, Goto
  <2>2. QED
    BY <2>1 DEF Behind
<1>5. CASE ListSpaces(k) \/ CountSpaces(k)
  <2>1. stage[k] = "calling" /\ UNCHANGED <<req, result>>
        /\ saw' = [saw EXCEPT ![k] = Snapshot(Owner[k])]
        /\ \E s : stage' = [stage EXCEPT ![k] = s]
    BY <1>5 DEF ListSpaces, CountSpaces, Goto
  <2>2. QED
    BY <2>1 DEF Behind
<1>6. CASE MarkActive(k) \/ PickTarget(k)
  <2>1. stage[k] \in {"listed", "repoint"} /\ UNCHANGED <<req, saw>>
        /\ (\E r : result' = [result EXCEPT ![k] = r])
        /\ \E s : stage' = [stage EXCEPT ![k] = s]
    BY <1>6 DEF MarkActive, PickTarget, Goto
  <2>2. QED
    BY <2>1 DEF Behind
<1>7. CASE CreateSpace(k)
  <2>1. stage[k] = "calling" /\ UNCHANGED <<req, saw, result>>
        /\ \E s : stage' = [stage EXCEPT ![k] = s]
    BY <1>7 DEF CreateSpace, Goto
  <2>2. QED
    BY <2>1 DEF Behind
<1>8. CASE CloseSpace(k)
  <2>1. stage[k] = "counted" /\ UNCHANGED <<req, result>>
        /\ (saw' = saw \/ saw' = [saw EXCEPT ![k].on = Where(Owner[k])])
        /\ \E s : stage' = [stage EXCEPT ![k] = s]
    BY <1>8 DEF CloseSpace, Goto
  <2>2. QED
    BY <2>1 DEF Behind
<1>9. CASE FocusTab(k)
  <2>1. stage[k] = "focusing" /\ UNCHANGED <<req, saw, result>>
        /\ \E s : stage' = [stage EXCEPT ![k] = s]
    BY <1>9, FocusTabEffect
  <2>2. QED
    BY <2>1 DEF Behind
<1>10. QED
  BY <1>1, <1>2, <1>3, <1>4, <1>5, <1>6, <1>7, <1>8, <1>9 DEF Rpc

\* So the commands in a channel keep what they ask, and are not acknowledged.
LEMMA RpcKeepsCommands ==
  ASSUME Typed, idOf' = idOf, NEW k \in Call, Rpc(k), NEW c \in Conn, Channelled(c)
  PROVE  CommandsKeep(c)
<1>1. SUFFICES ASSUME NEW i \in 1 .. Len(sent[c])
      PROVE  /\ stage'[sent[c][i]] \in Behind
             /\ req'[sent[c][i]] = req[sent[c][i]] /\ result'[sent[c][i]] = result[sent[c][i]]
             /\ stage'[sent[c][i]] = "ok" => stage[sent[c][i]] = "ok"
  BY DEF CommandsKeep
<1>2. PICK m \in Call : m = sent[c][i]
  BY <1>1 DEF Typed, RelaysOK
<1>3. stage[m] \in Behind
  BY <1>1, <1>2 DEF Channelled
<1>4. CallKeeps(m)
  BY <1>3, RpcIsOfOne
<1>5. /\ stage'[m] \in Behind /\ req'[m] = req[m] /\ result'[m] = result[m]
      /\ stage'[m] = "ok" => stage[m] = "ok"
  BY <1>3, <1>4 DEF CallKeeps, Behind
<1>6. QED
  BY <1>2, <1>5

\* A command enters the channel of the relay that was looked up for it, once.
LEMMA SendEnters ==
  ASSUME Typed, NEW k \in Call, Send(k), Meant(k), NEW c \in Conn, sent'[c] # sent[c]
  PROVE  /\ sent'[c] = Append(sent[c], k) /\ MayGo(k, c) /\ req[k].conn = c /\ req'[k] = req[k]
         /\ stage[k] = "sending" /\ stage'[k] \in {"waiting", "ok"} /\ phase[c] = "serving"
         /\ stage'[k] = "ok" => req[k].kind = "tab"
         /\ busy' = busy /\ taken' = taken
<1>1. Registered(req[k].conn)
  BY DEF Send
<1>2. PICK d \in Conn : d = req[k].conn /\ phase[d] = "serving"
  BY <1>1 DEF Registered
<1>3. sent' = [sent EXCEPT ![d] = Append(@, k)]
  BY <1>1, <1>2 DEF Send
<1>4. d = c
  BY <1>3 DEF Typed, RelaysOK
<1>5. MayGo(k, c)
  BY <1>2, <1>4 DEF Meant
<1>6. sent'[c] = Append(sent[c], k)
  BY <1>3, <1>4 DEF Typed, RelaysOK
<1>7. stage' = [stage EXCEPT ![k] = IF req[k].kind = "tab" THEN "ok" ELSE "waiting"]
  BY <1>1 DEF Send, Goto
<1>8. /\ stage[k] = "sending" /\ stage'[k] \in {"waiting", "ok"} /\ req' = req
      /\ stage'[k] = "ok" => req[k].kind = "tab"
      /\ busy' = busy /\ taken' = taken
  BY <1>7 DEF Send, Typed, CallsOK
<1>9. QED
  BY <1>2, <1>4, <1>5, <1>6, <1>8

LEMMA SendKeepsRelay ==
  ASSUME Typed, NEW k \in Call, Send(k), Meant(k), NEW c \in Conn, sent'[c] # sent[c],
         RelayGood(c), CommandsKeep(c), phase'[c] = phase[c], on'[c] = on[c],
         known'[c] = known[c]
  PROVE  Channelled(c)' /\ Moved(c)'
<1>1. /\ sent'[c] = Append(sent[c], k) /\ MayGo(k, c) /\ req[k].conn = c /\ req'[k] = req[k]
      /\ stage[k] = "sending" /\ stage'[k] \in {"waiting", "ok"} /\ phase[c] = "serving"
      /\ stage'[k] = "ok" => req[k].kind = "tab"
      /\ busy' = busy /\ taken' = taken
  BY SendEnters
<1>2. /\ sent[c] \in Seq(Call) /\ Len(sent[c]) \in Nat
      /\ taken[c] \in Nat /\ taken[c] <= Len(sent[c])
  BY DEF Typed, RelaysOK
<1>3. PICK n \in Nat : n = Len(sent[c])
  BY <1>2
<1>4. /\ Len(sent'[c]) = n + 1 /\ sent'[c][n + 1] = k
      /\ \A i \in 1 .. n : sent'[c][i] = sent[c][i]
  BY <1>1, <1>2, <1>3
<1>5. \A i \in 1 .. n + 1 : i \in 1 .. n \/ i = n + 1
  OBVIOUS
<1>6. ASSUME NEW i \in 1 .. n
      PROVE  /\ MayGo(sent[c][i], c)' /\ req'[sent[c][i]].conn = c
             /\ stage'[sent[c][i]] \in Behind
             /\ stage'[sent[c][i]] = "ok" /\ req'[sent[c][i]].kind \in {"switch", "close"} =>
                  i <= taken[c] /\ (i = taken[c] => ~busy[c])
             /\ sent[c][i] # k
  <2>1. /\ MayGo(sent[c][i], c) /\ req[sent[c][i]].conn = c /\ stage[sent[c][i]] \in Behind
        /\ stage[sent[c][i]] = "ok" /\ req[sent[c][i]].kind \in {"switch", "close"} =>
             i <= taken[c] /\ (i = taken[c] => ~busy[c])
    BY <1>3 DEF RelayGood, Channelled
  <2>2. /\ stage'[sent[c][i]] \in Behind /\ req'[sent[c][i]] = req[sent[c][i]]
        /\ stage'[sent[c][i]] = "ok" => stage[sent[c][i]] = "ok"
        /\ idOf' = idOf
    BY <1>3 DEF CommandsKeep
  <2>3. MayGo(sent[c][i], c)'
    BY <1>4, <2>1, <2>2 DEF MayGo
  <2>4. sent[c][i] # k
    BY <1>1, <2>1 DEF Behind
  <2>5. QED
    BY <2>1, <2>2, <2>3, <2>4
<1>7. \A i, j \in 1 .. n : sent[c][i] = sent[c][j] => i = j
  BY <1>3 DEF RelayGood, Channelled
<1>8. ASSUME NEW i \in 1 .. n + 1
      PROVE  /\ MayGo(sent[c][i], c)' /\ req'[sent'[c][i]].conn = c
             /\ stage'[sent'[c][i]] \in Behind
             /\ stage'[sent'[c][i]] = "ok" /\ req'[sent'[c][i]].kind \in {"switch", "close"} =>
                  i <= taken'[c] /\ (i = taken'[c] => ~busy'[c])
  <2>1. CASE i \in 1 .. n
    BY <1>1, <1>4, <1>6, <2>1 DEF MayGo
  <2>2. CASE i = n + 1
    <3>1. MayGo(k, c)'
      BY <1>1, GoesOn DEF CommandsKeep
    <3>2. QED
      BY <1>1, <1>4, <2>2, <3>1 DEF Behind, MayGo
  <2>3. QED
    BY <1>5, <2>1, <2>2
<1>9. ASSUME NEW i \in 1 .. n + 1, NEW j \in 1 .. n + 1, sent'[c][i] = sent'[c][j]
      PROVE  i = j
  <2>1. CASE i \in 1 .. n /\ j \in 1 .. n
    <3>1. sent[c][i] = sent[c][j]
      BY <1>4, <1>9, <2>1
    <3>2. QED
      BY <1>7, <2>1, <3>1
  <2>2. CASE i \in 1 .. n /\ j = n + 1
    <3>1. sent[c][i] = k
      BY <1>4, <1>9, <2>2
    <3>2. QED
      BY <1>6, <2>2, <3>1
  <2>3. CASE i = n + 1 /\ j \in 1 .. n
    <3>1. sent[c][j] = k
      BY <1>4, <1>9, <2>3
    <3>2. QED
      BY <1>6, <2>3, <3>1
  <2>4. QED
    BY <1>5, <2>1, <2>2, <2>3
<1>10. Channelled(c)'
  <2>1. 1 .. Len(sent'[c]) = 1 .. n + 1
    BY <1>4
  <2>2. \A i \in 1 .. Len(sent'[c]) :
          /\ MayGo(sent[c][i], c)' /\ req'[sent'[c][i]].conn = c
          /\ stage'[sent'[c][i]] \in Behind
          /\ stage'[sent'[c][i]] = "ok" /\ req'[sent'[c][i]].kind \in {"switch", "close"} =>
               i <= taken'[c] /\ (i = taken'[c] => ~busy'[c])
    BY <1>8, <2>1
  <2>3. \A i, j \in 1 .. Len(sent'[c]) : sent'[c][i] = sent'[c][j] => i = j
    BY <1>9, <2>1
  <2>4. phase'[c] \notin {"none", "opened"}
    BY <1>1
  <2>5. QED
    BY <2>2, <2>3, <2>4, Zenon DEF Channelled
<1>11. PICK m : m = sent[c][taken[c]]
  OBVIOUS
<1>12. taken[c] >= 1 => taken[c] \in 1 .. n
  BY <1>2, <1>3
<1>13. taken[c] >= 1 => sent'[c][taken'[c]] = m
  BY <1>1, <1>4, <1>11, <1>12
<1>14. taken[c] >= 1 => /\ req'[m] = req[m] /\ result'[m] = result[m]
                        /\ stage'[m] = "ok" => stage[m] = "ok"
  BY <1>3, <1>11, <1>12 DEF CommandsKeep
<1>15. taken[c] >= 1 => Target(m)' = Target(m)
  BY <1>14 DEF Target
<1>16. busy[c] => /\ taken[c] >= 1 /\ req[m].kind \in {"switch", "close"} /\ on[c] = Target(m)
  BY <1>11 DEF RelayGood, Moved
<1>17. ~busy[c] /\ taken[c] >= 1 =>
        (req[m].kind = "switch" /\ stage[m] = "ok" => on[c] = req[m].space /\ known[c] = req[m].space)
  BY <1>1, <1>11 DEF RelayGood, Moved
<1>18. busy'[c] => /\ phase'[c] = "serving" /\ taken'[c] >= 1
                   /\ req'[m].kind \in {"switch", "close"} /\ on'[c] = Target(m)'
  BY <1>1, <1>14, <1>15, <1>16
<1>19. phase'[c] = "serving" /\ ~busy'[c] /\ taken'[c] >= 1 =>
         (req'[m].kind = "switch" /\ stage'[m] = "ok" =>
            on'[c] = req'[m].space /\ known'[c] = req'[m].space)
  BY <1>1, <1>14, <1>17
<1>20. busy'[c] => taken[c] >= 1
  BY <1>1, <1>16
<1>21. Moved(c)'
  <2>1. CASE taken[c] >= 1
    BY <1>13, <1>18, <1>19, <2>1 DEF Moved
  <2>2. CASE ~(taken[c] >= 1)
    BY <1>1, <1>20, <2>2 DEF Moved
  <2>3. QED
    BY <2>1, <2>2
<1>22. QED
  BY <1>10, <1>21

LEMMA RpcKeepsRelays ==
  ASSUME Typed, idOf' = idOf, NEW k \in Call, Rpc(k), Meant(k), NEW c \in Conn, RelayGood(c)
  PROVE  RelayGood(c)'
<1>1. RpcBounds
  BY RpcKeepsTypes
<1>2. /\ phase'[c] = phase[c] /\ on'[c] = on[c] /\ known'[c] = known[c] /\ tab'[c] = tab[c]
      /\ taken'[c] = taken[c] /\ busy'[c] = busy[c]
      /\ Drift \/ (open' = open /\ focus' = focus /\ drifted'[c] = drifted[c])
  BY <1>1 DEF RpcBounds
<1>3. CommandsKeep(c)
  BY RpcKeepsCommands DEF RelayGood
<1>4. Sees(c)'
  BY <1>2, SeesFrame DEF RelayGood
<1>5. CASE sent'[c] = sent[c]
  <2>1. SameChannel(c)
    BY <1>2, <1>5 DEF SameChannel
  <2>2. Channelled(c)' /\ Moved(c)'
    BY <1>2, <1>3, <2>1, ChannelFrame, MovedFrame DEF RelayGood
  <2>3. QED
    BY <1>4, <2>2 DEF RelayGood
<1>6. CASE sent'[c] # sent[c]
  <2>1. Send(k)
    BY <1>6 DEF Rpc, Begin, FocusTab, TimeOut, BackendFails, ListSpaces, MarkActive,
                CreateSpace, CountSpaces, CloseSpace, CheckCaller, PickTarget, relayVars
  <2>2. Channelled(c)' /\ Moved(c)'
    BY <1>2, <1>3, <1>6, <2>1, SendKeepsRelay
  <2>3. QED
    BY <1>4, <2>2 DEF RelayGood
<1>7. QED
  BY <1>5, <1>6

\* A step of a call that changes only how far it is, short of "counted" and "ok",
\* and closed its space before if it counts as having done so now.
LEMMA StageFrame ==
  ASSUME Typed, idOf' = idOf, NEW k \in Call, CallGood(k), UNCHANGED <<daemonVars, on>>,
         req'[k] = req[k], result'[k] = result[k],
         stage'[k] \notin {"idle", "counted", "ok", "focusing"},
         stage'[k] \in {"closed", "repoint", "sending", "waiting", "unmoved"} =>
           stage[k] \in {"closed", "repoint", "sending", "waiting", "unmoved"}
           \/ req[k].kind # "close"
  PROVE  CallGood(k)'
<1>1. open' = open /\ made' = made
  BY DEF daemonVars
<1>2. Meant(k)' /\ CountStands(k)'
  BY DEF CallGood, Meant, MayGo, CountStands
<1>3. ClosedIsGone(k)'
  BY <1>1 DEF CallGood, ClosedIsGone
<1>4. QED
  BY <1>2, <1>3 DEF CallGood

\* A call of another kind promises nothing about a space.
LEMMA OtherKind ==
  ASSUME Typed, idOf' = idOf, NEW k \in Call, CallGood(k), req'[k] = req[k], req[k].kind # "close",
         stage'[k] \notin {"idle", "counted"}, stage'[k] = "focusing" => req[k].kind = "tab"
  PROVE  CallGood(k)'
BY DEF CallGood, Meant, MayGo, ClosedIsGone, CountStands

LEMMA BeginKeeps ==
  ASSUME Typed, idOf' = idOf, NEW k \in Call, CallGood(k), Begin(k)
  PROVE  CallGood(k)'
<1>1. /\ stage[k] = "idle" /\ result' = result /\ saw' = saw /\ made' = made
      /\ req[k].kind = "get" /\ result[k] = NoSpace
  BY DEF Begin, daemonVars, CallGood, Meant
<1>2. CASE req' = req /\ \E g \in {"rejected", "failed"} : stage' = [stage EXCEPT ![k] = g]
  <2>1. stage'[k] \in {"rejected", "failed"}
    BY <1>2 DEF Typed, CallsOK
  <2>2. QED
    BY <1>1, <1>2, <2>1, OtherKind
<1>3. CASE \E kind \in Kind, conn \in Client \cup {NoConn}, s \in made \cup {NoSpace},
              g \in {"sending", "focusing", "calling"} : BeginsAs(k, kind, conn, s, g)
  <2>1. PICK kind \in Kind, conn \in Client \cup {NoConn}, s \in made \cup {NoSpace},
             g \in {"sending", "focusing", "calling"} : BeginsAs(k, kind, conn, s, g)
    BY <1>3
  <2>2. req'[k] = [kind |-> kind, conn |-> conn, space |-> s] /\ stage'[k] = g
    BY <2>1 DEF BeginsAs, Typed, CallsOK
  <2>3. req'[k].kind = kind /\ req'[k].conn = conn /\ req'[k].space = s
    BY <2>2
  <2>4. Meant(k)' /\ CountStands(k)'
    <3>1. conn \in Conn => MayGo(k, conn)'
      BY <2>1, <2>3 DEF BeginsAs, MayGo
    <3>2. g = "focusing" => kind = "tab"
      BY <2>1 DEF BeginsAs
    <3>3. QED
      BY <2>2, <2>3, <3>1, <3>2 DEF Meant, MayGo, CountStands
  <2>5. kind = "close" => s \in made' /\ s # NoSpace /\ g = "calling"
    <3>1. kind = "close" => s \in made /\ g = "calling"
      BY <2>1 DEF BeginsAs
    <3>2. made \subseteq Space /\ NoSpace \notin Space
      BY SpacesAssumption DEF Typed, DaemonOK
    <3>3. QED
      BY <1>1, <3>1, <3>2
  <2>6. ClosedIsGone(k)'
    BY <1>1, <2>2, <2>3, <2>5 DEF ClosedIsGone
  <2>7. QED
    BY <2>4, <2>6 DEF CallGood
<1>4. QED
  BY <1>2, <1>3, BeginEffect

LEMMA CountSpacesKeeps ==
  ASSUME Typed, idOf' = idOf, NEW k \in Call, CallGood(k), CountSpaces(k)
  PROVE  CallGood(k)'
<1>1. /\ saw' = [saw EXCEPT ![k] = Snapshot(Owner[k])] /\ req' = req /\ result' = result
      /\ Goto(k, IF WouldCloseLast(Len(open)) THEN "refused" ELSE "counted")
      /\ open' = open /\ made' = made /\ closes' = closes
  BY DEF CountSpaces, daemonVars
<1>2. stage'[k] = IF Len(open) <= 1 THEN "refused" ELSE "counted"
  BY <1>1 DEF Goto, WouldCloseLast, Typed, CallsOK
<1>3. saw'[k].closes = closes
  BY <1>1 DEF Snapshot, Typed, CallsOK
<1>4. Len(open) \in Nat /\ closes \in Nat
  BY DEF Typed, DaemonOK
<1>5. CountStands(k)'
  BY <1>1, <1>2, <1>3, <1>4 DEF CountStands
<1>6. Meant(k)' /\ ClosedIsGone(k)'
  BY <1>1, <1>2 DEF CallGood, Meant, MayGo, ClosedIsGone
<1>7. QED
  BY <1>5, <1>6 DEF CallGood

LEMMA CloseSpaceKeeps ==
  ASSUME Typed, idOf' = idOf, NEW k \in Call, CallGood(k), CloseSpace(k)
  PROVE  CallGood(k)'
<1>1. req' = req /\ result' = result /\ on' = on /\ stage[k] = "counted"
  BY DEF CloseSpace
<1>2. CASE IsOpen(req[k].space)
  <2>1. Closes(req[k].space) /\ stage' = [stage EXCEPT ![k] = "closed"]
    BY <1>2 DEF CloseSpace, Goto
  <2>2. stage'[k] = "closed" /\ made' = made
    BY <2>1 DEF Closes, Typed, CallsOK
  <2>3. req[k].space \notin Range(open')
    BY <2>1, ClosesMoves DEF Typed
  <2>4. Meant(k)' /\ CountStands(k)'
    BY <1>1, <2>2 DEF CallGood, Meant, MayGo, CountStands
  <2>5. ClosedIsGone(k)'
    BY <1>1, <2>2, <2>3 DEF CallGood, ClosedIsGone
  <2>6. QED
    BY <2>4, <2>5 DEF CallGood
<1>3. CASE ~IsOpen(req[k].space)
  <2>1. stage' = [stage EXCEPT ![k] = "failed"] /\ UNCHANGED <<daemonVars, on>>
    BY <1>3 DEF CloseSpace, Goto, daemonVars
  <2>2. stage'[k] = "failed"
    BY <2>1 DEF Typed, CallsOK
  <2>3. QED
    BY <1>1, <2>1, <2>2, StageFrame
<1>4. QED
  BY <1>2, <1>3

LEMMA PickTargetKeeps ==
  ASSUME Typed, idOf' = idOf, NEW k \in Call, CallGood(k), PickTarget(k)
  PROVE  CallGood(k)'
<1>1. PICK m : m = ActiveOrFirst(open, focus)
  OBVIOUS
<1>2. /\ result' = [result EXCEPT ![k] = m] /\ stage[k] = "repoint"
      /\ req' = req /\ open' = open /\ made' = made
      /\ stage' = [stage EXCEPT ![k] = IF result'[k] = NoSpace THEN "unmoved" ELSE "sending"]
  BY <1>1 DEF PickTarget, Goto, daemonVars
<1>3. result'[k] = m /\ stage'[k] \in {"unmoved", "sending"}
  BY <1>2 DEF Typed, CallsOK
<1>4. m \in Range(open) \cup {NoSpace}
  BY <1>1, ActiveIsSpace DEF Typed
<1>5. Meant(k)' /\ CountStands(k)'
  BY <1>2, <1>3 DEF CallGood, Meant, MayGo, CountStands
<1>6. req[k].kind = "close" => /\ req[k].space \in made /\ req[k].space \notin Range(open)
                               /\ req[k].space # NoSpace
  BY <1>2, SpacesAssumption DEF CallGood, ClosedIsGone, Typed, DaemonOK
<1>7. ClosedIsGone(k)'
  BY <1>2, <1>3, <1>4, <1>6 DEF ClosedIsGone
<1>8. QED
  BY <1>5, <1>7 DEF CallGood

LEMMA RpcKeepsCall ==
  ASSUME Typed, idOf' = idOf, NEW k \in Call, CallGood(k), Rpc(k)
  PROVE  CallGood(k)'
<1>1. CASE Send(k)
  <2>1. stage[k] = "sending" /\ UNCHANGED <<daemonVars, on>> /\ req' = req /\ result' = result
    BY <1>1 DEF Send
  <2>2. CASE req[k].kind = "tab"
    <3>1. \E g \in {"ok", "focusing", "failed"} : stage' = [stage EXCEPT ![k] = g]
      BY <1>1, <2>2 DEF Send, Goto, Failed
    <3>2. stage'[k] \in {"ok", "focusing", "failed"}
      BY <3>1 DEF Typed, CallsOK
    <3>3. QED
      BY <2>1, <2>2, <3>2, OtherKind
  <2>3. CASE req[k].kind # "tab"
    <3>1. \E g \in {"waiting", "unmoved", "failed"} : stage' = [stage EXCEPT ![k] = g]
      BY <1>1, <2>3 DEF Send, Goto, Failed
    <3>2. stage'[k] \in {"waiting", "unmoved", "failed"}
      BY <3>1 DEF Typed, CallsOK
    <3>3. QED
      BY <2>1, <3>2, StageFrame
  <2>4. QED
    BY <2>2, <2>3
<1>9. CASE FocusTab(k)
  <2>1. stage[k] = "focusing" /\ req' = req /\ \E g \in {"ok", "failed"} : stage' = [stage EXCEPT ![k] = g]
    BY <1>9, FocusTabEffect
  <2>2. stage'[k] \in {"ok", "failed"} /\ req[k].kind = "tab"
    BY <2>1 DEF Typed, CallsOK, CallGood, Meant
  <2>3. QED
    BY <2>1, <2>2, OtherKind
<1>2. CASE TimeOut(k)
  <2>1. /\ stage[k] = "waiting" /\ UNCHANGED <<daemonVars, on>> /\ req' = req /\ result' = result
        /\ stage' = [stage EXCEPT ![k] = Failed(k)]
    BY <1>2 DEF TimeOut, Goto, relayVars
  <2>2. stage'[k] \in {"unmoved", "failed"}
    BY <2>1 DEF Failed, Typed, CallsOK
  <2>3. QED
    BY <2>1, <2>2, StageFrame
<1>3. CASE BackendFails(k)
  <2>1. /\ UNCHANGED <<daemonVars, on>> /\ req' = req /\ result' = result
        /\ stage' = [stage EXCEPT ![k] = "failed"]
    BY <1>3 DEF BackendFails, Goto, relayVars
  <2>2. stage'[k] = "failed"
    BY <2>1 DEF Typed, CallsOK
  <2>3. QED
    BY <2>1, <2>2, StageFrame
<1>4. CASE ListSpaces(k)
  <2>1. req' = req /\ req[k].kind = "get" /\ stage' = [stage EXCEPT ![k] = "listed"]
    BY <1>4 DEF ListSpaces, Goto
  <2>2. stage'[k] = "listed"
    BY <2>1 DEF Typed, CallsOK
  <2>3. QED
    BY <2>1, <2>2, OtherKind
<1>5. CASE MarkActive(k)
  <2>1. req' = req /\ req[k].kind = "get" /\ stage' = [stage EXCEPT ![k] = "ok"]
    BY <1>5 DEF MarkActive, Goto
  <2>2. stage'[k] = "ok"
    BY <2>1 DEF Typed, CallsOK
  <2>3. QED
    BY <2>1, <2>2, OtherKind
<1>6. CASE CreateSpace(k)
  <2>1. req' = req /\ req[k].kind = "create" /\ stage' = [stage EXCEPT ![k] = "ok"]
    BY <1>6 DEF CreateSpace, Goto
  <2>2. stage'[k] = "ok"
    BY <2>1 DEF Typed, CallsOK
  <2>3. QED
    BY <2>1, <2>2, OtherKind
<1>7. CASE CheckCaller(k)
  <2>1. /\ stage[k] = "closed" /\ UNCHANGED <<daemonVars, on>> /\ req' = req /\ result' = result
        /\ \E s \in {"repoint", "unmoved"} : stage' = [stage EXCEPT ![k] = s]
    BY <1>7 DEF CheckCaller, Goto, relayVars
  <2>2. stage'[k] \in {"repoint", "unmoved"}
    BY <2>1 DEF Typed, CallsOK
  <2>3. QED
    BY <2>1, <2>2, StageFrame
<1>8. QED
  BY <1>1, <1>2, <1>3, <1>4, <1>5, <1>6, <1>7, <1>9, BeginKeeps, CountSpacesKeeps,
     CloseSpaceKeeps, PickTargetKeeps DEF Rpc

LEMMA RpcKeepsAll ==
  ASSUME Typed, idOf' = idOf, AllGood, NEW k \in Call, Rpc(k)
  PROVE  Typed' /\ AllGood'
<1>1. RpcBounds /\ RelaysOK' /\ CallsOK'
  BY RpcKeepsTypes
<1>2. DaemonOK' /\ DaemonMoves /\ moved' = moved /\ on' = on
  BY <1>1 DEF RpcBounds
<1>3. Typed'
  BY <1>1, <1>2 DEF Typed
<1>4. CallGood(k)'
  BY RpcKeepsCall DEF AllGood
<1>5. \A m \in Call : m # k => CallKeeps(m)
  BY RpcIsOfOne
<1>6. \A d : StaysSomewhere(d)
  BY <1>2 DEF StaysSomewhere
<1>7. \A m \in Call : m # k => CallGood(m)'
  BY <1>2, <1>5, <1>6, CallFrame DEF AllGood
<1>8. Meant(k)
  BY DEF AllGood, CallGood
<1>9. \A c \in Conn : RelayGood(c)'
  BY <1>8, RpcKeepsRelays DEF AllGood
<1>10. QED
  BY <1>3, <1>4, <1>7, <1>9 DEF AllGood

----------------------------------------------------------------------------
(* The invariant, and what it says.                                        *)

LEMMA InitGood == Init => Typed /\ AllGood
<1> SUFFICES ASSUME Init
             PROVE  Typed /\ AllGood
  OBVIOUS
<1>1. /\ open = AtStart /\ made = Range(AtStart) /\ moved = 0 /\ closes = 0
      /\ focus \in Range(AtStart)
  BY DEF Init
<1>2. AtStart \in Seq(Space) /\ IsInjective(AtStart) /\ Range(AtStart) \subseteq Space
  <2>1. AtStart \in Seq(Space) /\ IsInjective(AtStart)
    BY SpacesAssumption
  <2>2. \A i \in DOMAIN AtStart : AtStart[i] \in Space
    BY <2>1
  <2>3. QED
    BY <2>1, <2>2 DEF Range
<1>3. DaemonOK /\ moved \in 0 .. Moves
  BY <1>1, <1>2, SpacesAssumption DEF DaemonOK, Distinct, MaybeSpace
<1>4. /\ phase = [c \in Conn |-> "none"] /\ on = [c \in Conn |-> NoSpace]
      /\ known = [c \in Conn |-> NoSpace] /\ tab = [c \in Conn |-> NoSpace]
      /\ sent = [c \in Conn |-> <<>>] /\ taken = [c \in Conn |-> 0]
      /\ busy = [c \in Conn |-> FALSE] /\ drifted = [c \in Conn |-> FALSE]
  BY DEF Init
<1>5. /\ stage = [k \in Call |-> "idle"]
      /\ req = [k \in Call |-> [kind |-> "get", conn |-> NoConn, space |-> NoSpace]]
      /\ saw = [k \in Call |-> Unseen]
      /\ result = [k \in Call |-> NoSpace]
  BY DEF Init
<1>6. RelaysOK
  BY <1>4 DEF RelaysOK, Phase, MaybeSpace
<1>7. CallsOK
  BY <1>5 DEF CallsOK, Stage, Kind, Unseen, MaybeSpace
<1>8. ASSUME NEW k \in Call
      PROVE  CallGood(k)
  <2>1. stage[k] = "idle" /\ req[k].kind = "get" /\ req[k].conn = NoConn /\ result[k] = NoSpace
    BY <1>5
  <2>2. NoConn \notin Conn
    BY SpacesAssumption
  <2>3. QED
    BY <2>1, <2>2 DEF CallGood, Meant, ClosedIsGone, CountStands
<1>9. ASSUME NEW c \in Conn
      PROVE  RelayGood(c)
  <2>1. /\ phase[c] = "none" /\ sent[c] = <<>> /\ ~busy[c]
    BY <1>4
  <2>2. Len(sent[c]) = 0
    BY <2>1
  <2>3. Channelled(c)
    BY <2>1, <2>2 DEF Channelled
  <2>4. Moved(c) /\ Sees(c)
    BY <2>1 DEF Moved, Sees
  <2>5. QED
    BY <2>3, <2>4 DEF RelayGood
<1>10. idOf \in Spellings
  BY DEF Init
<1>11. QED
  BY <1>3, <1>6, <1>7, <1>8, <1>9, <1>10 DEF Typed, AllGood

LEMMA StutterGood ==
  ASSUME Typed, AllGood, UNCHANGED vars
  PROVE  Typed' /\ AllGood'
<1>1. UNCHANGED <<daemonVars, relayVars, callVars>>
  BY DEF vars
<1>2. /\ UNCHANGED <<open, made, focus, closes>> /\ moved' = moved /\ idOf' = idOf
      /\ UNCHANGED <<phase, on, known, tab, sent, taken, busy, drifted>>
      /\ UNCHANGED <<stage, req, saw, result>>
  BY <1>1 DEF vars, daemonVars, relayVars, callVars
<1>3. DaemonOK' /\ DaemonMoves
  BY <1>2, SameMoves DEF Typed
<1>4. Typed'
  BY <1>2, <1>3 DEF Typed, RelaysOK, CallsOK
<1>5. \A k \in Call : CallGood(k)'
  BY <1>2, <1>3, CallFrame DEF AllGood, CallKeeps, StaysSomewhere
<1>6. ASSUME NEW c \in Conn
      PROVE  RelayGood(c)'
  <2>1. SameChannel(c) /\ CommandsKeep(c)
    BY <1>2 DEF SameChannel, CommandsKeep, AllGood, RelayGood, Channelled
  <2>2. /\ phase'[c] = phase[c] /\ on'[c] = on[c] /\ known'[c] = known[c] /\ tab'[c] = tab[c]
        /\ busy'[c] = busy[c] /\ open' = open /\ focus' = focus /\ drifted'[c] = drifted[c]
    BY <1>2
  <2>3. QED
    BY <2>1, <2>2, ChannelFrame, MovedFrame, SeesFrame DEF AllGood, RelayGood
<1>7. QED
  BY <1>4, <1>5, <1>6 DEF AllGood

LEMMA Inductive == Spec => [](Typed /\ AllGood)
<1>1. Typed /\ AllGood /\ [Next]_vars => (Typed /\ AllGood)'
  BY StutterGood, DesktopKeepsAll, RelayKeepsAll, RpcKeepsAll DEF Next
<1>2. QED
  BY <1>1, InitGood, PTL DEF Spec

\* Every variable keeps its type.
THEOREM TypeCorrect == Spec => []TypeOK
<1>1. Typed => TypeOK
  BY TypedIs
<1>2. QED
  BY <1>1, Inductive, PTL

\* However the commands of all clients to the one session interleave, one that
\* got into the channel of another's relay is a tab command under a bare id, on
\* a relay that may write (resolve_space_relay, try_route_control).
THEOREM NobodyElse == Spec => []NobodyElseIsMoved
<1>1. Typed /\ AllGood => NobodyElseIsMoved
  <2>1. SUFFICES ASSUME Typed, AllGood, NEW c \in Conn, NEW i \in DOMAIN sent[c],
                        Owner[sent[c][i]] # c
                 PROVE  /\ req[sent[c][i]].kind = "tab" /\ c \notin ReadOnly
                        /\ idOf[Owner[sent[c][i]]] = "bare" /\ idOf[c] = "bare"
    BY DEF NobodyElseIsMoved
  <2>2. i \in 1 .. Len(sent[c])
    BY <2>1 DEF Typed, RelaysOK
  <2>3. MayGo(sent[c][i], c)
    BY <2>1, <2>2 DEF AllGood, RelayGood, Channelled
  <2>4. QED
    BY <2>1, <2>3 DEF MayGo
<1>2. QED
  BY <1>1, Inductive, PTL

\* The tab that is active in a view is one of the space its relay shows, unless
\* the daemon moved while the relay attached (init_relay_view_state).
THEOREM ViewsMatch == Spec => []ViewMatchesSpace
<1>1. Typed /\ AllGood => ViewMatchesSpace
  BY DEF AllGood, RelayGood, Sees, ViewMatchesSpace
<1>2. QED
  BY <1>1, Inductive, PTL

\* What was acknowledged stands until a later command is taken: a switch that
\* timed out is not applied over it (switch_space_impl).
THEOREM SwitchesStand == Spec => []AcknowledgedSwitchStands
<1>1. Typed /\ AllGood => AcknowledgedSwitchStands
  <2>1. SUFFICES ASSUME Typed, AllGood, NEW c \in Conn, NEW i \in DOMAIN sent[c],
                        req[sent[c][i]].kind = "switch", stage[sent[c][i]] = "ok",
                        phase[c] = "serving", \A j \in DOMAIN sent[c] : j > i => j > taken[c]
                 PROVE  on[c] = req[sent[c][i]].space /\ known[c] = req[sent[c][i]].space
    BY DEF AcknowledgedSwitchStands
  <2>2. /\ sent[c] \in Seq(Call) /\ DOMAIN sent[c] = 1 .. Len(sent[c]) /\ Len(sent[c]) \in Nat
        /\ taken[c] \in Nat /\ taken[c] <= Len(sent[c])
    BY <2>1 DEF Typed, RelaysOK
  <2>3. i \in 1 .. Len(sent[c]) /\ i <= taken[c] /\ (i = taken[c] => ~busy[c])
    BY <2>1, <2>2 DEF AllGood, RelayGood, Channelled
  <2>4. taken[c] \in DOMAIN sent[c]
    BY <2>2, <2>3
  <2>5. ~(taken[c] > i)
    BY <2>1, <2>2, <2>4
  <2>6. i = taken[c] /\ taken[c] >= 1
    BY <2>2, <2>3, <2>5
  <2>7. QED
    BY <2>1, <2>3, <2>6 DEF AllGood, RelayGood, Moved
<1>2. QED
  BY <1>1, Inductive, PTL

\* A caller is never sent to the space it had closed, and does not stay there
\* (repoint_caller_after_close).
THEOREM CallersAreOff == Spec => []RepointedOff
<1>1. Typed /\ AllGood => RepointedOff
  BY DEF AllGood, CallGood, ClosedIsGone, RepointedOff
<1>2. QED
  BY <1>1, Inductive, PTL

\* The last space is closed only by a call that counted two, of which another
\* was closed since (would_close_last_space).
THEOREM CloseOfLast == Spec => ClosesLeaveOne
<1>1. ASSUME Typed, AllGood, Next, open # <<>>, open' = <<>>
      PROVE  \E k \in Call : stage[k] = "counted" /\ stage'[k] = "closed" /\ saw[k].closes < closes
  <2>1. ~Desktop
    BY <1>1, DesktopMoves DEF Typed
  <2>2. ASSUME NEW c \in Conn, Relay(c)
        PROVE  FALSE
    <3>1. open' = open
      BY <1>1, <2>2, RelayKeepsTypes DEF AllGood, RelayGood, daemonVars
    <3>2. QED
      BY <1>1, <3>1
  <2>3. PICK k \in Call : Rpc(k)
    BY <1>1, <2>1, <2>2 DEF Next
  <2>4. ~CreateSpace(k)
    BY <1>1, OpensMoves DEF CreateSpace, Typed
  <2>5. CloseSpace(k)
    BY <1>1, <2>3, <2>4 DEF Rpc, Begin, Send, FocusTab, TimeOut, BackendFails, ListSpaces, MarkActive,
                            CountSpaces, CheckCaller, PickTarget, daemonVars
  <2>6. Closes(req[k].space) /\ Goto(k, "closed") /\ stage[k] = "counted"
    BY <1>1, <2>5 DEF CloseSpace
  <2>7. Len(open) \in Nat /\ Len(open') = Len(open) - 1
    BY <1>1, <2>6, ClosesMoves DEF Typed
  <2>8. Len(open') = 0
    BY <1>1
  <2>9. saw[k].closes <= closes /\ (saw[k].closes = closes => Len(open) > 1)
    BY <1>1, <2>6 DEF AllGood, CallGood, CountStands
  <2>10. saw[k].closes \in Nat /\ closes \in Nat
    BY <1>1 DEF Typed, CallsOK, DaemonOK
  <2>11. saw[k].closes < closes
    <3>1. Len(open) = 1
      BY <2>7, <2>8
    <3>2. saw[k].closes # closes
      BY <2>9, <3>1
    <3>3. QED
      BY <2>9, <2>10, <3>2
  <2>12. stage'[k] = "closed"
    BY <1>1, <2>6 DEF Goto, Typed, CallsOK
  <2>13. QED
    BY <2>6, <2>11, <2>12
<1>2. Typed /\ AllGood /\ [Next]_vars =>
        [open # <<>> /\ open' = <<>> =>
           \E k \in Call : stage[k] = "counted" /\ stage'[k] = "closed"
                           /\ saw[k].closes < closes]_vars
  BY <1>1
<1>3. QED
  BY <1>2, Inductive, PTL DEF Spec, ClosesLeaveOne

=============================================================================
