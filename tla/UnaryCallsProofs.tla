-------------------------- MODULE UnaryCallsProofs --------------------------
(***************************************************************************)
(* What UnaryCalls promises, proved for any calls, tokens, workspaces and  *)
(* pool: who may change anything, and what a listing shows.                *)
(***************************************************************************)
EXTENDS UnaryCalls, TLAPS

\* What a call may do rests on the token it came with.  One that may write when
\* its scope is read could when the call came: no token is valid again.
Granted(k) ==
  /\ stage[k] = "idle" => flag[k] = "none" /\ (k \in Worker => ~did[k])
  /\ stage[k] # "idle" => /\ token[Bearer[k]] \in {"session", "revoked"}
                          /\ token[Bearer[k]] = "session" /\ Scope[Bearer[k]] = "rw" => granted[k]
  /\ flag[k] = "rw" => granted[k]
  /\ stage[k] = "handle" => flag[k] \in {"ro", "rw"}
  /\ stage[k] \in {"idle", "auth", "scope", "handle"} => \A t \in Task : job[k][t] = "none"
  /\ k \in Worker /\ job[k]["work"] \in {"queued", "running"} => flag[k] = "rw" \/ method[k] \in Ungated
  /\ k \in Worker /\ did[k] => granted[k]

\* A listing that is not over.
On(k) == stage[k] \notin {"idle", "done", "gone"}

\* What zellij's sockets and then its layouts have shown: what did not run when
\* the sockets were tried was not there all along.
Reads(k) ==
  /\ stage[k] \in {"idle", "auth", "scope", "handle"} => got[k] = {} /\ ~looked[k]
  /\ stage[k] = "wait" /\ looked[k] => \/ "zellij" \in got[k]
                                       \/ "dead" \in seen[k] /\ "zellij" \notin steady[k]
  /\ stage[k] = "wait" /\ job[k]["zellij"] # "ended" => "saved" \notin got[k]
  /\ "saved" \in got[k] => "dead" \in seen[k] /\ "zellij" \notin got[k]
  /\ "saved" \in listed[k] => "dead" \in seen[k] /\ "zellij" \notin listed[k]

\* What a listing was given was there, and what was there all along was given
\* to it, if its task ended and was not skipped.
Listing(k) ==
  /\ Reads(k)
  /\ stage[k] = "idle" => /\ answer[k] = "none" /\ skipped[k] = {}
                          /\ listed[k] = {} /\ starved[k] = {}
  /\ On(k) => There \subseteq seen[k] /\ steady[k] \subseteq Sound
  /\ got[k] \cup listed[k] \subseteq seen[k]
  /\ skipped[k] \cap steady[k] \subseteq starved[k]
  /\ stage[k] = "wait" => \A b \in Backend : job[k][b] = "ended" /\ b \in steady[k] => b \in got[k]
  /\ stage[k] = "count" \/ answer[k] = "ok" => steady[k] \subseteq listed[k] \cup starved[k]
  /\ answer[k] = "ok" => stage[k] = "done"

IInv == TypeOK /\ (\A k \in Call : Granted(k)) /\ \A k \in Lister : Listing(k)

----------------------------------------------------------------------------
(* Types, action by action.                                                *)

LEMMA InitTypeOK == Init => TypeOK
<1> SUFFICES ASSUME Init PROVE TypeOK
  OBVIOUS
<1>1. /\ token \in [Token -> {"unused", "auth", "session", "revoked"}]
      /\ zellij \in {"none", "up", "dying", "stale"} /\ saved \in BOOLEAN /\ starting \in BOOLEAN
      /\ label \in [Space -> {"none", "name", "other"}]
      /\ health \in [Backend -> {"up", "stuck", "down"}] /\ trouble \in 0 .. MaxTrouble
  <2>1. token \in [Token -> {"unused", "auth", "session", "revoked"}]
    BY DEF Init
  <2>2. label \in [Space -> {"none", "name", "other"}] /\ health \in [Backend -> {"up", "stuck", "down"}]
    BY DEF Init
  <2>3. zellij \in {"none", "up", "dying", "stale"} /\ saved \in BOOLEAN /\ starting \in BOOLEAN
    BY DEF Init
  <2>4. trouble \in 0 .. MaxTrouble
    BY CallsAssumption DEF Init
  <2>5. QED
    BY <2>1, <2>2, <2>3, <2>4
<1>2. /\ stage \in [Call -> {"idle", "auth", "scope", "handle", "wait", "count", "done", "gone"}]
      /\ method \in [Call -> Method \cup {"ListSessions", "none"}]
      /\ flag \in [Call -> {"none", "ro", "rw"}]
      /\ answer \in [Call -> {"none", "ok", "error", "refused", "denied", "unauthenticated"}]
  BY DEF Init
<1>3. job \in [Call -> [Task -> {"none", "queued", "running", "ended"}]]
  BY DEF Init
<1>4. /\ looked \in [Call -> BOOLEAN] /\ found \in [Worker -> SUBSET Space]
      /\ granted \in [Call -> BOOLEAN] /\ did \in [Worker -> BOOLEAN]
  BY DEF Init
<1>5. ListOK
  BY DEF Init, ListOK
<1>6. QED
  BY <1>1, <1>2, <1>3, <1>4, <1>5 DEF TypeOK, WorldOK, CallOK, WorkOK

LEMMA ScopeType == \A k \in Call : Bearer[k] \in Token /\ Scope[Bearer[k]] \in {"rw", "ro"}
BY CallsAssumption

\* What is watched keeps its type.
LEMMA WatchType ==
  ASSUME ListOK, Watch
  PROVE  /\ steady' \in [Lister -> SUBSET Backend]
         /\ seen' \in [Lister -> SUBSET (Entry \cup {"dead"})]
<1>1. Sound' \subseteq Backend /\ There' \subseteq Entry \cup {"dead"}
  BY DEF Sound, There, Live, Entry
<1>2. QED
  BY <1>1 DEF Watch, ListOK

\* A call ends within the types.
LEMMA EndType ==
  ASSUME CallOK, WorkOK, NEW k \in Worker, NEW a \in {"ok", "error", "refused"}, End(k, a)
  PROVE  /\ CallOK' /\ UNCHANGED fanout
         /\ \A c \in Call \ {k} : looked'[c] = looked[c]
         /\ looked' \in [Call -> BOOLEAN] /\ found' \in [Worker -> SUBSET Space]
<1>1. k \in Call /\ "work" \in Task
  BY DEF Call, Task
<1>2. /\ stage' = stage \/ stage' = [stage EXCEPT ![k] = "done"]
      /\ answer' = answer \/ answer' = [answer EXCEPT ![k] = a]
      /\ method' = [method EXCEPT ![k] = "none"] /\ flag' = [flag EXCEPT ![k] = "none"]
      /\ looked' = [looked EXCEPT ![k] = FALSE] /\ found' = [found EXCEPT ![k] = {}]
      /\ granted' = granted /\ UNCHANGED fanout
  BY DEF End, Goto, Answer
<1>3. job' = [job EXCEPT ![k]["work"] = "none"]
  BY DEF End
<1>4. job' \in [Call -> [Task -> {"none", "queued", "running", "ended"}]]
  BY <1>1, <1>3 DEF CallOK
<1>5. /\ looked' \in [Call -> BOOLEAN] /\ found' \in [Worker -> SUBSET Space]
      /\ \A c \in Call \ {k} : looked'[c] = looked[c]
  BY <1>1, <1>2 DEF WorkOK
<1>6. stage' \in [Call -> {"idle", "auth", "scope", "handle", "wait", "count", "done", "gone"}]
  BY <1>1, <1>2 DEF CallOK
<1>7. answer' \in [Call -> {"none", "ok", "error", "refused", "denied", "unauthenticated"}]
  BY <1>1, <1>2 DEF CallOK
<1>8. /\ method' \in [Call -> Method \cup {"ListSessions", "none"}]
      /\ flag' \in [Call -> {"none", "ro", "rw"}] /\ granted' \in [Call -> BOOLEAN]
  BY <1>1, <1>2 DEF CallOK
<1>9. QED
  BY <1>2, <1>4, <1>5, <1>6, <1>7, <1>8 DEF CallOK

\* Or looks first.
LEMMA LookType ==
  ASSUME CallOK, WorkOK, NEW k \in Worker, NEW ws \in SUBSET Space, Look(k, ws)
  PROVE  CallOK' /\ WorkOK' /\ UNCHANGED fanout /\ \A c \in Call \ {k} : looked'[c] = looked[c]
<1>1. /\ looked' = [looked EXCEPT ![k] = TRUE] /\ found' = [found EXCEPT ![k] = ws]
      /\ did' = did /\ UNCHANGED <<call, job, fanout>>
  BY DEF Look
<1>2. CallOK'
  BY <1>1 DEF CallOK, call
<1>3. WorkOK' /\ \A c \in Call \ {k} : looked'[c] = looked[c]
  BY <1>1 DEF WorkOK, Call
<1>4. QED
  BY <1>1, <1>2, <1>3

\* What the world and the token database may do to themselves.
TokensGoOn ==
  \A t \in Token : /\ token[t] = "revoked" => token'[t] = "revoked"
                   /\ token[t] = "session" => token'[t] \in {"session", "revoked"}

\* Nobody's listing misses a session that comes or goes.
Watched == Watch \/ (There' = There /\ Sound' = Sound /\ UNCHANGED watch)

LEMMA WatchedType ==
  ASSUME ListOK, Watched, UNCHANGED fanout
  PROVE  ListOK'
<1>1. CASE Watch
  BY <1>1, WatchType DEF ListOK, fanout
<1>2. CASE UNCHANGED watch
  BY <1>2 DEF ListOK, fanout, watch
<1>3. QED
  BY <1>1, <1>2 DEF Watched

\* What the work of a call comes to: it looks, or it is over, and what it did
\* then is what its method is for.
Worked(k) ==
  /\ job[k]["work"] = "running"
  /\ UNCHANGED fanout /\ granted' = granted
  /\ \A c \in Call \ {k} : looked'[c] = looked[c]
  /\ \/ did' = did
     \/ did' = [did EXCEPT ![k] = TRUE] /\ method[k] \notin Ungated
  /\ \/ UNCHANGED <<stage, method, flag, answer, job>>
     \/ \E a \in {"ok", "error", "refused"} : End(k, a)

Stays == UNCHANGED <<zellij, saved, health, watch>>

LEMMA StaysWatched == Stays => Watched
BY DEF Stays, Watched, There, Live, Sound

LEMMA EndWorks ==
  ASSUME CallOK, WorkOK, NEW k \in Worker, NEW a \in {"ok", "error", "refused"}, End(k, a),
         Running(k, "work"), did' = did \/ (Done(k) /\ method[k] \notin Ungated)
  PROVE  Worked(k) /\ CallOK' /\ WorkOK'
<1>1. /\ CallOK' /\ UNCHANGED fanout
      /\ \A c \in Call \ {k} : looked'[c] = looked[c]
      /\ looked' \in [Call -> BOOLEAN] /\ found' \in [Worker -> SUBSET Space]
  BY EndType
<1>2. did' \in [Worker -> BOOLEAN]
  BY DEF WorkOK, Done
<1>3. granted' = granted
  BY DEF End
<1>4. Worked(k)
  BY <1>1, <1>3 DEF Worked, Running, Done
<1>5. QED
  BY <1>1, <1>2, <1>4 DEF WorkOK

LEMMA LookWorks ==
  ASSUME CallOK, WorkOK, NEW k \in Worker, NEW ws \in SUBSET Space, Look(k, ws), Running(k, "work")
  PROVE  Worked(k) /\ CallOK' /\ WorkOK'
<1>1. CallOK' /\ WorkOK' /\ UNCHANGED fanout /\ \A c \in Call \ {k} : looked'[c] = looked[c]
  BY LookType
<1>2. Worked(k)
  BY <1>1 DEF Worked, Look, Running, call
<1>3. QED
  BY <1>1, <1>2

LEMMA SameWorld ==
  ASSUME WorldOK, UNCHANGED world, UNCHANGED watch
  PROVE  WorldOK' /\ TokensGoOn /\ Watched
<1>1. Stays
  BY DEF Stays, world
<1>2. QED
  BY <1>1, StaysWatched DEF WorldOK, world, TokensGoOn

\* Only a label changes.
LEMMA Relabelled ==
  ASSUME WorldOK, NEW w \in Space, NEW l \in {"none", "name"}, label' = [label EXCEPT ![w] = l],
         UNCHANGED <<token, zellij, saved, starting, health, trouble, watch>>
  PROVE  WorldOK' /\ TokensGoOn /\ Watched
<1>1. Stays
  BY DEF Stays
<1>2. QED
  BY <1>1, StaysWatched DEF WorldOK, TokensGoOn

WorksOK(k) == Worked(k) /\ CallOK' /\ WorkOK' /\ WorldOK' /\ TokensGoOn /\ Watched

\* The methods whose work is all one action, or none of what is gated.
LEMMA ActionWorks ==
  ASSUME WorldOK, CallOK, WorkOK, NEW k \in Worker, PaneAction(k) \/ HerdrAction(k)
  PROVE  WorksOK(k)
<1>1. /\ Running(k, "work") /\ method[k] \in PaneChange \cup TabChange \cup PaneLook
      /\ UNCHANGED <<world, watch>>
  BY DEF PaneAction, HerdrAction
<1>2. /\ \E a \in {"ok", "error", "refused"} : End(k, a)
      /\ did' = did \/ (Done(k) /\ method[k] \notin PaneLook)
  <2>1. CASE PaneAction(k)
    BY <2>1 DEF PaneAction
  <2>2. CASE HerdrAction(k)
    BY <2>2 DEF HerdrAction, Unsupported, NoOp, PaneLook
  <2>3. QED
    BY <2>1, <2>2
<1>3. method[k] \notin PaneLook => method[k] \notin Ungated
  BY <1>1 DEF Ungated, PaneChange, TabChange
<1>4. Worked(k) /\ CallOK' /\ WorkOK'
  BY <1>1, <1>2, <1>3, EndWorks
<1>5. QED
  BY <1>1, <1>4, SameWorld DEF WorksOK

\* The sessions of zellij.
LEMMA ZellijWorks ==
  ASSUME WorldOK, CallOK, WorkOK, NEW k \in Worker, Spawn(k) \/ Poll(k) \/ Kill(k)
  PROVE  WorksOK(k)
<1>1. CASE Spawn(k)
  <2>1. /\ Running(k, "work") /\ method[k] = "CreateSession" /\ looked' = [looked EXCEPT ![k] = TRUE]
        /\ did' = [did EXCEPT ![k] = TRUE]
        /\ UNCHANGED <<token, zellij, saved, label, health, trouble, found, call, job, list>>
    BY <1>1 DEF Spawn, At
  <2>2. Worked(k)
    BY <2>1 DEF Worked, Running, Ungated, PaneLook, call, list, Call, WorkOK
  <2>3. CallOK'
    BY <2>1 DEF CallOK, call
  <2>4. WorkOK'
    BY <2>1 DEF WorkOK
  <2>5. starting' \in BOOLEAN
    BY <1>1 DEF Spawn
  <2>6. WorldOK' /\ TokensGoOn
    BY <2>1, <2>5 DEF WorldOK, TokensGoOn
  <2>7. Watched
    BY <2>1, StaysWatched DEF Stays, list
  <2>8. QED
    BY <2>2, <2>3, <2>4, <2>6, <2>7 DEF WorksOK
<1>2. CASE Poll(k)
  <2>1. /\ Running(k, "work") /\ \E a \in {"ok", "error", "refused"} : End(k, a)
        /\ UNCHANGED <<world, watch, did>>
    BY <1>2 DEF Poll, At
  <2>2. QED
    BY <2>1, EndWorks, SameWorld DEF WorksOK
<1>3. CASE Kill(k)
  <2>1. /\ Running(k, "work") /\ method[k] = "KillSession" /\ Watch
        /\ \E a \in {"ok", "error", "refused"} : End(k, a)
        /\ did' = did \/ Done(k)
        /\ zellij' \in {"dying", zellij} /\ UNCHANGED <<token, saved, starting, label, health, trouble>>
    BY <1>3 DEF Kill, At
  <2>2. Worked(k) /\ CallOK' /\ WorkOK'
    BY <2>1, EndWorks DEF Ungated, PaneLook
  <2>3. WorldOK' /\ TokensGoOn /\ Watched
    BY <2>1 DEF WorldOK, TokensGoOn, Watched
  <2>4. QED
    BY <2>2, <2>3 DEF WorksOK
<1>4. QED
  BY <1>1, <1>2, <1>3

\* The workspaces of herdr: a label changes, if anything does.
LEMMA HerdrWorks ==
  ASSUME WorldOK, CallOK, WorkOK, NEW k \in Worker,
         \/ HerdrFails(k) \/ LookForLabel(k) \/ CreateWorkspace(k) \/ LookForSpace(k)
         \/ RenameWorkspace(k) \/ CloseWorkspace(k) \/ RenameSpace(k)
  PROVE  WorksOK(k)
<1>1. Running(k, "work") /\ method[k] \notin Ungated
  BY DEF HerdrFails, LookForLabel, CreateWorkspace, LookForSpace, RenameWorkspace,
         CloseWorkspace, RenameSpace, At, Ungated, PaneLook
<1>2. \/ \E a \in {"ok", "error", "refused"} : End(k, a) /\ (did' = did \/ Done(k))
      \/ \E ws \in SUBSET Space : Look(k, ws)
  <2>1. Labelled("other") \subseteq Space
    BY DEF Labelled
  <2>2. QED
    BY <2>1 DEF HerdrFails, LookForLabel, CreateWorkspace, LookForSpace, RenameWorkspace,
                CloseWorkspace, RenameSpace
<1>3. Worked(k) /\ CallOK' /\ WorkOK'
  BY <1>1, <1>2, EndWorks, LookWorks
<1>4. CASE HerdrFails(k) \/ LookForLabel(k) \/ LookForSpace(k)
  <2>1. UNCHANGED world /\ UNCHANGED watch
    BY <1>4 DEF HerdrFails, LookForLabel, LookForSpace
  <2>2. QED
    BY <1>3, <2>1, SameWorld DEF WorksOK
<1>5. CASE CreateWorkspace(k) \/ RenameWorkspace(k) \/ CloseWorkspace(k) \/ RenameSpace(k)
  <2>1. /\ UNCHANGED <<token, zellij, saved, starting, health, trouble, watch>>
        /\ \/ label' = label
           \/ \E w \in Space, l \in {"none", "name"} : label' = [label EXCEPT ![w] = l]
    BY <1>5 DEF CreateWorkspace, RenameWorkspace, CloseWorkspace, RenameSpace, Labelled, WorkOK
  <2>2. CASE label' = label
    BY <1>3, <2>1, <2>2, SameWorld DEF WorksOK, world
  <2>3. CASE \E w \in Space, l \in {"none", "name"} : label' = [label EXCEPT ![w] = l]
    BY <1>3, <2>1, <2>3, Relabelled DEF WorksOK
  <2>4. QED
    BY <2>1, <2>2, <2>3
<1>6. QED
  BY <1>4, <1>5

\* The token database: a token is never valid again once it is revoked.
LEMMA TokenWorks ==
  ASSUME WorldOK, CallOK, WorkOK, NEW k \in Worker, TokenWork(k) \/ TokenFails(k)
  PROVE  WorksOK(k)
<1>1. /\ Running(k, "work") /\ method[k] \notin Ungated
      /\ \E a \in {"ok", "error", "refused"} : End(k, a) /\ (did' = did \/ Done(k))
  BY DEF TokenWork, TokenFails, At, Ungated, PaneLook
<1>2. Worked(k) /\ CallOK' /\ WorkOK'
  BY <1>1, EndWorks
<1>3. UNCHANGED <<zellij, saved, starting, label, health, trouble, watch>>
  BY DEF TokenWork, TokenFails, world
<1>4. \/ token' = token
      \/ \E t \in Token : \/ token[t] = "unused" /\ token' = [token EXCEPT ![t] = "auth"]
                          \/ token' = [token EXCEPT ![t] = "revoked"]
  BY DEF TokenWork, TokenFails, world
<1>5. token' \in [Token -> {"unused", "auth", "session", "revoked"}] /\ TokensGoOn
  BY <1>4 DEF WorldOK, TokensGoOn
<1>6. WorldOK'
  BY <1>3, <1>5 DEF WorldOK
<1>7. Watched
  BY <1>3, StaysWatched DEF Stays
<1>8. QED
  BY <1>2, <1>5, <1>6, <1>7 DEF WorksOK

LEMMA WorksEffect ==
  ASSUME WorldOK, CallOK, WorkOK, NEW k \in Worker, Works(k)
  PROVE  WorksOK(k)
BY ActionWorks, ZellijWorks, HerdrWorks, TokenWorks DEF Works

----------------------------------------------------------------------------
(* A call nobody touches.                                                  *)

CallSame(c) ==
  /\ stage'[c] = stage[c] /\ method'[c] = method[c] /\ flag'[c] = flag[c]
  /\ answer'[c] = answer[c] /\ granted'[c] = granted[c] /\ job'[c] = job[c]
  /\ c \in Worker => did'[c] = did[c]
  /\ c \in Lister => /\ looked'[c] = looked[c] /\ got'[c] = got[c] /\ skipped'[c] = skipped[c]
                     /\ listed'[c] = listed[c] /\ starved'[c] = starved[c]

LEMMA GrantedKept ==
  ASSUME NEW c \in Call, Granted(c), TokensGoOn, CallSame(c), token \in [Token -> {"unused", "auth", "session", "revoked"}]
  PROVE  Granted(c)'
BY ScopeType DEF Granted, TokensGoOn, CallSame

LEMMA ListingKept ==
  ASSUME ListOK, NEW c \in Lister, Listing(c), Watched, CallSame(c)
  PROVE  Listing(c)'
<1>1. CASE UNCHANGED watch /\ There' = There /\ Sound' = Sound
  BY <1>1 DEF Listing, Reads, On, CallSame, watch
<1>2. CASE Watch /\ On(c)
  <2>1. steady'[c] = steady[c] \cap Sound' /\ seen'[c] = seen[c] \cup There'
    BY <1>2 DEF Watch, On
  <2>2. QED
    BY <2>1 DEF Listing, Reads, On, CallSame
<1>3. CASE Watch /\ ~On(c)
  <2>1. steady'[c] = steady[c] /\ seen'[c] = seen[c]
    BY <1>3 DEF Watch, On
  <2>2. QED
    BY <1>3, <2>1 DEF Listing, Reads, On, CallSame
<1>4. QED
  BY <1>1, <1>2, <1>3 DEF Watched

Promises == (\A k \in Call : Granted(k)) /\ \A k \in Lister : Listing(k)

\* A step of one call, or of none, that leaves the others and the world as told.
LEMMA PromisesKept ==
  ASSUME WorldOK, ListOK, Promises, TokensGoOn, Watched, NEW k,
         \A c \in Call \ {k} : CallSame(c),
         k \in Call => Granted(k)', k \in Lister => Listing(k)'
  PROVE  Promises'
<1>1. ASSUME NEW c \in Call
      PROVE  Granted(c)'
  BY GrantedKept DEF Promises, WorldOK
<1>2. ASSUME NEW c \in Lister
      PROVE  Listing(c)'
  BY ListingKept DEF Promises, Call
<1>3. QED
  BY <1>1, <1>2 DEF Promises

LEMMA WorksKeepPromises ==
  ASSUME TypeOK, Promises, NEW k \in Worker, Works(k)
  PROVE  TypeOK' /\ Promises'
<1>1. Worked(k) /\ CallOK' /\ WorkOK' /\ WorldOK' /\ TokensGoOn /\ Watched
  BY WorksEffect DEF TypeOK, WorksOK
<1>2. TypeOK'
  BY <1>1, WatchedType DEF TypeOK, Worked
<1>3. k \in Call /\ k \notin Lister /\ "work" \in Task /\ Granted(k)
  BY CallsAssumption DEF Call, Task, Promises
<1>4. /\ granted' = granted /\ UNCHANGED fanout /\ job[k]["work"] = "running"
      /\ did' = did \/ (did' = [did EXCEPT ![k] = TRUE] /\ method[k] \notin Ungated)
  BY <1>1 DEF Worked
<1>5. \A c \in Worker \ {k} : did'[c] = did[c]
  BY <1>4 DEF TypeOK, WorkOK
<1>6. /\ did[k] \/ flag[k] = "rw" \/ method[k] \in Ungated
      /\ did'[k] => granted[k]
  BY <1>3, <1>4 DEF Granted, TypeOK, WorkOK
<1>7. stage[k] \in {"wait", "count", "done", "gone"}
  BY <1>3, <1>4 DEF Granted, TypeOK, CallOK
<1>8. CASE UNCHANGED <<stage, method, flag, answer, job>>
  <2>1. \A c \in Call \ {k} : CallSame(c)
    BY <1>1, <1>4, <1>5, <1>8 DEF CallSame, fanout, Worked, Call
  <2>2. Granted(k)'
    BY <1>1, <1>3, <1>4, <1>6, <1>7, <1>8, ScopeType DEF Granted, TokensGoOn, TypeOK, WorldOK
  <2>3. QED
    BY <1>1, <1>2, <1>3, <2>1, <2>2, PromisesKept DEF TypeOK
<1>9. CASE \E a \in {"ok", "error", "refused"} : End(k, a)
  <2>1. /\ stage' = stage \/ stage' = [stage EXCEPT ![k] = "done"]
        /\ \E a : answer' = answer \/ answer' = [answer EXCEPT ![k] = a]
        /\ method' = [method EXCEPT ![k] = "none"] /\ flag' = [flag EXCEPT ![k] = "none"]
        /\ job' = [job EXCEPT ![k]["work"] = "none"]
    BY <1>9 DEF End, Goto, Answer
  <2>2. \A c \in Call \ {k} : CallSame(c)
    BY <1>1, <1>4, <1>5, <2>1 DEF CallSame, fanout, Worked, TypeOK, CallOK, Call
  <2>3. stage'[k] \in {"wait", "count", "done", "gone"} /\ flag'[k] = "none" /\ job'[k]["work"] = "none"
    BY <1>3, <1>7, <2>1 DEF TypeOK, CallOK
  <2>4. Granted(k)'
    BY <1>1, <1>3, <1>4, <1>6, <1>7, <2>3, ScopeType DEF Granted, TokensGoOn, TypeOK, WorldOK
  <2>5. QED
    BY <1>1, <1>2, <1>3, <2>2, <2>4, PromisesKept DEF TypeOK
<1>10. QED
  BY <1>1, <1>8, <1>9 DEF Worked

----------------------------------------------------------------------------
(* The calls themselves.                                                   *)

\* A session token may be revoked at any moment: a call that comes has one of
\* the two, and may write if it was valid then.
LEMMA ArriveKeeps ==
  ASSUME TypeOK, Promises, NEW k \in Call, Arrive(k)
  PROVE  TypeOK' /\ Promises'
<1>1. /\ stage[k] = "idle" /\ token[Bearer[k]] \in {"session", "revoked"}
      /\ granted' = [granted EXCEPT ![k] = (token[Bearer[k]] = "session" /\ Scope[Bearer[k]] = "rw")]
      /\ stage' = [stage EXCEPT ![k] = "auth"]
      /\ UNCHANGED <<world, flag, answer, job, work, fanout>>
  BY DEF Arrive, Goto
<1>2. /\ \E m \in Method \cup {"ListSessions", "none"} : method' = [method EXCEPT ![k] = m]
      /\ \/ UNCHANGED watch
         \/ /\ k \in Lister
            /\ steady' = [steady EXCEPT ![k] = Sound] /\ seen' = [seen EXCEPT ![k] = There]
  <2>1. CASE k \in Lister /\ steady' = [steady EXCEPT ![k] = Sound] /\ seen' = [seen EXCEPT ![k] = There]
             /\ UNCHANGED method
    <3>1. method[k] \in Method \cup {"ListSessions", "none"} /\ method' = [method EXCEPT ![k] = method[k]]
      BY <2>1 DEF TypeOK, CallOK
    <3>2. QED
      BY <2>1, <3>1
  <2>2. CASE k \in Worker /\ (\E m \in Does[k] : method' = [method EXCEPT ![k] = m]) /\ UNCHANGED watch
    BY <2>2, CallsAssumption
  <2>3. QED
    BY <2>1, <2>2 DEF Arrive
<1>3. /\ (granted'[k] <=> (token[Bearer[k]] = "session" /\ Scope[Bearer[k]] = "rw"))
      /\ \A c \in Call \ {k} : granted'[c] = granted[c]
      /\ granted' \in [Call -> BOOLEAN]
  BY <1>1 DEF TypeOK, CallOK
<1>4. CallOK'
  <2>1. stage' \in [Call -> {"idle", "auth", "scope", "handle", "wait", "count", "done", "gone"}]
    BY <1>1 DEF TypeOK, CallOK
  <2>2. method' \in [Call -> Method \cup {"ListSessions", "none"}]
    BY <1>2 DEF TypeOK, CallOK
  <2>3. QED
    BY <1>1, <1>3, <2>1, <2>2 DEF TypeOK, CallOK
<1>5. WorldOK' /\ WorkOK' /\ There' = There /\ Sound' = Sound /\ token' = token
  BY <1>1 DEF TypeOK, WorldOK, WorkOK, world, work, local, There, Live, Sound
<1>6. ListOK'
  <2>1. Sound \subseteq Backend /\ There \subseteq Entry \cup {"dead"}
    BY DEF Sound, There, Live, Entry
  <2>2. QED
    BY <1>1, <1>2, <2>1 DEF TypeOK, ListOK, fanout, watch
<1>7. \A c \in Call \ {k} :
        /\ CallSame(c)
        /\ c \in Lister => steady'[c] = steady[c] /\ seen'[c] = seen[c]
  <2>1. \A c \in Call \ {k} : method'[c] = method[c] /\ stage'[c] = stage[c]
    BY <1>1, <1>2 DEF TypeOK, CallOK
  <2>2. \A c \in Lister \ {k} : steady'[c] = steady[c] /\ seen'[c] = seen[c]
    BY <1>2 DEF TypeOK, ListOK, watch
  <2>3. QED
    BY <1>1, <1>3, <2>1, <2>2 DEF CallSame, work, local, fanout
<1>8. TokensGoOn
  BY <1>5 DEF TokensGoOn
<1>9. ASSUME NEW c \in Call
      PROVE  Granted(c)'
  <2>1. CASE c # k
    BY <1>7, <1>8, <2>1, GrantedKept DEF Promises, TypeOK, WorldOK
  <2>2. CASE c = k
    <3>1. flag'[k] = "none" /\ (k \in Worker => ~did'[k]) /\ stage'[k] = "auth"
          /\ \A t \in Task : job'[k][t] = "none"
      BY <1>1 DEF Promises, Granted, TypeOK, CallOK, work, local
    <3>2. "work" \in Task
      BY DEF Task
    <3>3. QED
      BY <1>1, <1>3, <1>5, <2>2, <3>1, <3>2 DEF Granted
  <2>3. QED
    BY <2>1, <2>2
<1>10. ASSUME NEW c \in Lister
       PROVE  Listing(c)'
  <2>1. c \in Call /\ Listing(c)
    BY DEF Call, Promises
  <2>2. CASE c # k
    BY <1>5, <1>7, <2>1, <2>2 DEF Listing, Reads, On, CallSame
  <2>3. CASE c = k
    <3>1. /\ stage'[k] = "auth" /\ answer'[k] = "none" /\ got'[k] = {} /\ skipped'[k] = {}
          /\ listed'[k] = {} /\ starved'[k] = {} /\ ~looked'[k]
      BY <1>1, <2>1, <2>3 DEF Listing, Reads, TypeOK, CallOK, fanout, work, local
    <3>2. steady'[k] = Sound /\ seen'[k] = There
      <4>1. k \notin Worker
        BY <2>3, CallsAssumption
      <4>2. QED
        BY <2>3, <4>1 DEF Arrive, TypeOK, ListOK
    <3>3. QED
      BY <1>5, <2>3, <3>1, <3>2 DEF Listing, Reads, On
  <2>4. QED
    BY <2>2, <2>3
<1>11. QED
  BY <1>4, <1>5, <1>6, <1>9, <1>10 DEF TypeOK, Promises

\* A step that concerns one call, or the task of one, and not the world.
Quiet(k) ==
  /\ UNCHANGED <<token, zellij, saved, starting, label, health, work, watch>>
  /\ \A c \in Call \ {k} : CallSame(c)

FanoutOK ==
  /\ \A set \in {skipped, starved} : set \in [Lister -> SUBSET Backend]
  /\ \A set \in {got, listed} : set \in [Lister -> SUBSET Entry]

LEMMA QuietKeeps ==
  ASSUME TypeOK, Promises, NEW k \in Call, Quiet(k), Granted(k)', k \in Lister => Listing(k)',
         CallOK', trouble' \in 0 .. MaxTrouble,
         FanoutOK'
  PROVE  TypeOK' /\ Promises'
<1>1. TokensGoOn /\ Watched
  BY StaysWatched DEF Quiet, TokensGoOn, Stays
<1>2. WorldOK' /\ WorkOK' /\ ListOK'
  BY DEF FanoutOK, Quiet, TypeOK, WorldOK, WorkOK, ListOK, work, local, watch
<1>3. Promises'
  BY <1>1, PromisesKept DEF Quiet, TypeOK
<1>4. QED
  BY <1>2, <1>3 DEF TypeOK

\* The check of the bearer, and the gate.
LEMMA AuthKeeps ==
  ASSUME TypeOK, Promises, NEW k \in Call, Validate(k) \/ ReadScope(k)
  PROVE  TypeOK' /\ Promises'
<1>1. /\ UNCHANGED <<world, method, granted, job, work, list>>
      /\ stage[k] \in {"auth", "scope"}
      /\ \E s \in {"scope", "done", "handle"} : stage' = [stage EXCEPT ![k] = s]
      /\ answer' = answer \/ answer' = [answer EXCEPT ![k] = "unauthenticated"]
      /\ \/ flag' = flag
         \/ flag' = [flag EXCEPT ![k] = Scope[Bearer[k]]] /\ token[Bearer[k]] = "session"
         \/ flag' = [flag EXCEPT ![k] = "ro"]
  BY DEF Validate, ReadScope, Goto, Answer
<1>2. CallOK'
  <2>1. stage' \in [Call -> {"idle", "auth", "scope", "handle", "wait", "count", "done", "gone"}]
    BY <1>1 DEF TypeOK, CallOK
  <2>2. answer' \in [Call -> {"none", "ok", "error", "refused", "denied", "unauthenticated"}]
    BY <1>1 DEF TypeOK, CallOK
  <2>3. flag' \in [Call -> {"none", "ro", "rw"}]
    BY <1>1, ScopeType DEF TypeOK, CallOK
  <2>4. QED
    BY <1>1, <2>1, <2>2, <2>3 DEF TypeOK, CallOK
<1>3. stage'[k] \in {"scope", "done", "handle"} /\ answer'[k] \in {answer[k], "unauthenticated"}
  BY <1>1 DEF TypeOK, CallOK
<1>4. Granted(k) /\ (k \in Lister => Listing(k))
  BY DEF Promises
<1>5. flag'[k] = "rw" => granted[k]
  BY <1>1, <1>4 DEF Granted, TypeOK, CallOK
<1>6. /\ "work" \in Task
      /\ stage'[k] = "handle" => flag'[k] \in {"ro", "rw"}
  <2>1. stage'[k] = "handle" => stage' = [stage EXCEPT ![k] = "handle"] /\ ReadScope(k)
    BY DEF Validate, ReadScope, Goto, TypeOK, CallOK
  <2>2. ReadScope(k) => flag'[k] \in {"ro", "rw"}
    BY ScopeType DEF ReadScope, TypeOK, CallOK
  <2>3. QED
    BY <2>1, <2>2 DEF Task
<1>7. Quiet(k)
  BY <1>1 DEF Quiet, CallSame, world, work, local, list, fanout, TypeOK, CallOK
<1>8. Granted(k)'
  <2>1. token' = token /\ granted' = granted /\ did' = did /\ job' = job /\ method' = method
    BY <1>1 DEF world, work, local
  <2>2. /\ token[Bearer[k]] \in {"session", "revoked"}
        /\ token[Bearer[k]] = "session" /\ Scope[Bearer[k]] = "rw" => granted[k]
        /\ \A t \in Task : job[k][t] = "none"
        /\ k \in Worker /\ did[k] => granted[k]
    BY <1>1, <1>4 DEF Granted
  <2>3. QED
    BY <1>3, <1>5, <1>6, <2>1, <2>2 DEF Granted
<1>9. ASSUME k \in Lister
      PROVE  Listing(k)'
  <2>1. /\ got' = got /\ skipped' = skipped /\ listed' = listed /\ starved' = starved
        /\ steady' = steady /\ seen' = seen /\ job' = job /\ There' = There /\ Sound' = Sound
        /\ looked' = looked
    BY <1>1 DEF list, fanout, watch, world, There, Live, Sound, work, local
  <2>2. On(k) /\ answer[k] # "ok"
    BY <1>1, <1>4, <1>9 DEF On, Listing, Reads
  <2>3. QED
    BY <1>1, <1>3, <1>4, <1>9, <2>1, <2>2 DEF Listing, Reads, On
<1>10. QED
  <2>1. trouble' \in 0 .. MaxTrouble /\ FanoutOK'
    BY <1>1 DEF FanoutOK, TypeOK, WorldOK, ListOK, world, list, fanout
  <2>2. QED
    BY <1>2, <1>7, <1>8, <1>9, <2>1, QuietKeeps

LEMMA HandleKeeps ==
  ASSUME TypeOK, Promises, NEW k \in Call, Handle(k)
  PROVE  TypeOK' /\ Promises'
<1> DEFINE tasks == IF k \in Lister THEN Backend ELSE {"work"}
<1>1. stage[k] = "handle" /\ UNCHANGED <<world, method, flag, granted, work, list>>
  BY DEF Handle
<1>2. Granted(k) /\ (k \in Lister => Listing(k)) /\ "work" \in Task
  BY DEF Promises, Task
<1>3. \/ /\ stage' = [stage EXCEPT ![k] = "done"] /\ answer' = [answer EXCEPT ![k] = "denied"]
         /\ job' = job
      \/ /\ stage' = [stage EXCEPT ![k] = "wait"] /\ answer' = answer
         /\ flag[k] # "ro" \/ method[k] \in Ungated
         /\ job' = [job EXCEPT ![k] = [t \in Task |-> IF t \in tasks THEN "queued" ELSE job[k][t]]]
  BY DEF Handle, Goto, Answer, Queue
<1>4. CallOK'
  <2>1. stage' \in [Call -> {"idle", "auth", "scope", "handle", "wait", "count", "done", "gone"}]
    BY <1>3 DEF TypeOK, CallOK
  <2>2. answer' \in [Call -> {"none", "ok", "error", "refused", "denied", "unauthenticated"}]
    BY <1>3 DEF TypeOK, CallOK
  <2>3. job' \in [Call -> [Task -> {"none", "queued", "running", "ended"}]]
    BY <1>3 DEF TypeOK, CallOK
  <2>4. QED
    BY <1>1, <2>1, <2>2, <2>3 DEF TypeOK, CallOK
<1>5. Quiet(k)
  BY <1>1, <1>3 DEF Quiet, CallSame, world, work, local, list, fanout, TypeOK, CallOK
<1>6. /\ stage'[k] = "done" /\ answer'[k] = "denied" /\ job'[k] = job[k]
      \/ /\ stage'[k] = "wait" /\ answer'[k] = answer[k]
         /\ flag[k] # "ro" \/ method[k] \in Ungated
         /\ \A t \in Task : job'[k][t] \in {"queued", "none"}
  BY <1>1, <1>2, <1>3 DEF TypeOK, CallOK, Granted
<1>7. Granted(k)'
  <2>1. token' = token /\ granted' = granted /\ did' = did /\ flag' = flag /\ method' = method
    BY <1>1 DEF world, work, local
  <2>2. QED
    BY <1>1, <1>2, <1>6, <2>1 DEF Granted
<1>8. ASSUME k \in Lister
      PROVE  Listing(k)'
  <2>1. /\ got' = got /\ skipped' = skipped /\ listed' = listed /\ starved' = starved
        /\ steady' = steady /\ seen' = seen /\ There' = There /\ Sound' = Sound
        /\ looked' = looked /\ got[k] = {} /\ ~looked[k]
    BY <1>1, <1>2, <1>8 DEF list, fanout, watch, world, There, Live, Sound, work, local, Listing, Reads
  <2>2. On(k) /\ answer[k] # "ok"
    BY <1>1, <1>2, <1>8 DEF On, Listing, Reads
  <2>3. \A b \in Backend : b \in Task
    BY DEF Task
  <2>4. QED
    BY <1>2, <1>6, <1>8, <2>1, <2>2, <2>3 DEF Listing, Reads, On
<1>9. QED
  <2>1. trouble' \in 0 .. MaxTrouble /\ FanoutOK'
    BY <1>1 DEF FanoutOK, TypeOK, WorldOK, ListOK, world, list, fanout
  <2>2. QED
    BY <1>4, <1>5, <1>7, <1>8, <2>1, QuietKeeps

LEMMA CancelKeeps ==
  ASSUME TypeOK, Promises, NEW k \in Call, Cancel(k)
  PROVE  TypeOK' /\ Promises'
<1>1. /\ stage[k] \in {"wait", "count"} /\ stage' = [stage EXCEPT ![k] = "gone"]
      /\ UNCHANGED <<token, zellij, saved, starting, label, health, method, flag, answer, granted, job, work, list>>
  BY DEF Cancel, Goto
<1>2. CallOK' /\ stage'[k] = "gone"
  BY <1>1 DEF TypeOK, CallOK
<1>3. Quiet(k)
  BY <1>1 DEF Quiet, CallSame, work, local, list, fanout, TypeOK, CallOK
<1>4. Granted(k)'
  BY <1>1, <1>2 DEF Promises, Granted, work, local
<1>5. ASSUME k \in Lister
      PROVE  Listing(k)'
  BY <1>1, <1>2, <1>5 DEF Promises, Listing, Reads, On, list, fanout, watch, There, Live, Sound
<1>6. trouble' \in 0 .. MaxTrouble
  BY CallsAssumption DEF Cancel, TypeOK, WorldOK
<1>7. FanoutOK'
  BY <1>1 DEF FanoutOK, TypeOK, ListOK, list, fanout
<1>8. QED
  BY <1>2, <1>3, <1>4, <1>5, <1>6, <1>7, QuietKeeps

LEMMA StartKeeps ==
  ASSUME TypeOK, Promises, NEW k \in Call, NEW t \in Task, Start(k, t)
  PROVE  TypeOK' /\ Promises'
<1>1. /\ job[k][t] = "queued" /\ job' = [job EXCEPT ![k][t] = "running"]
      /\ UNCHANGED <<world, call, work, list>>
  BY DEF Start
<1>2. /\ \A x \in Task \ {t} : job'[k][x] = job[k][x]
      /\ job'[k][t] = "running"
      /\ \A c \in Call \ {k} : job'[c] = job[c]
      /\ job' \in [Call -> [Task -> {"none", "queued", "running", "ended"}]]
  BY <1>1 DEF TypeOK, CallOK
<1>3. CallOK'
  BY <1>1, <1>2 DEF TypeOK, CallOK, call
<1>4. Quiet(k)
  BY <1>1, <1>2 DEF Quiet, CallSame, world, call, work, local, list, fanout
<1>5. "work" \in Task /\ Backend \subseteq Task
  BY DEF Task
<1>6. Granted(k)'
  BY <1>1, <1>2, <1>5 DEF Promises, Granted, world, call, work, local
<1>7. ASSUME k \in Lister
      PROVE  Listing(k)'
  <2>1. looked' = looked /\ Listing(k) /\ "zellij" \in Task
    BY <1>1, <1>7 DEF work, local, Promises, Task, Backend
  <2>2. \A b \in Backend : job'[k][b] = "ended" => job[k][b] = "ended"
    BY <1>2, <1>5
  <2>3. job'[k]["zellij"] # "ended" => job[k]["zellij"] # "ended"
    BY <1>1, <1>2, <2>1
  <2>4. Reads(k)'
    BY <1>1, <2>1, <2>3 DEF Listing, Reads, list, fanout, watch, call
  <2>5. QED
    BY <1>1, <2>1, <2>2, <2>4 DEF Listing, On, list, fanout, watch, There, Live, Sound, world, call
<1>8. trouble' \in 0 .. MaxTrouble
  BY <1>1 DEF world, TypeOK, WorldOK
<1>9. FanoutOK'
  BY <1>1 DEF FanoutOK, TypeOK, ListOK, list, fanout
<1>10. QED
  BY <1>3, <1>4, <1>6, <1>7, <1>8, <1>9, QuietKeeps

----------------------------------------------------------------------------
(* Listings.                                                               *)

Started == {"wait", "count", "done", "gone"}

\* Of a listing under way only its token matters to what it may do.
LEMMA ListerGranted ==
  ASSUME NEW k \in Lister, Granted(k), stage[k] \in Started, stage'[k] \in Started,
         token' = token, flag'[k] = flag[k], granted'[k] = granted[k]
  PROVE  Granted(k)'
BY CallsAssumption DEF Granted, Started

\* A task of a listing ends, on a backend that answers or fails.
LEMMA TaskEnds ==
  ASSUME TypeOK, Promises, NEW k \in Lister, NEW t \in Task, Running(k, t), Ended(k, t),
         UNCHANGED call
  PROVE  /\ CallOK' /\ Granted(k) /\ stage[k] \in Started
         /\ \A x \in Task \ {t} : job'[k][x] = job[k][x]
         /\ \A c \in Call \ {k} : job'[c] = job[c]
<1>1. k \in Call
  BY DEF Call
<1>2. job' = [job EXCEPT ![k][t] = IF stage[k] \in {"wait", "count"} THEN "ended" ELSE "none"]
  BY DEF Ended
<1>3. /\ job' \in [Call -> [Task -> {"none", "queued", "running", "ended"}]]
      /\ \A x \in Task \ {t} : job'[k][x] = job[k][x]
      /\ \A c \in Call \ {k} : job'[c] = job[c]
  BY <1>1, <1>2 DEF TypeOK, CallOK
<1>4. CallOK'
  BY <1>3 DEF TypeOK, CallOK, call
<1>5. stage[k] \in Started
  BY <1>1 DEF Promises, Granted, Running, TypeOK, CallOK, Started
<1>6. QED
  BY <1>1, <1>3, <1>4, <1>5 DEF Promises

\* A task of a listing that has asked a backend touches nothing else.
LEMMA GivenKeeps ==
  ASSUME TypeOK, Promises, NEW k \in Lister, stage[k] \in Started, CallOK', Listing(k)',
         \A c \in Call \ {k} : job'[c] = job[c] /\ looked'[c] = looked[c],
         \A c \in Lister \ {k} : got'[c] = got[c],
         looked' \in [Call -> BOOLEAN], got' \in [Lister -> SUBSET Entry],
         zellij' = zellij \/ (zellij = "stale" /\ zellij' = "none"),
         UNCHANGED <<token, saved, starting, label, health, trouble, call, found, did>>,
         UNCHANGED <<skipped, listed, starved, watch>>
  PROVE  TypeOK' /\ Promises'
<1>1. k \in Call /\ Granted(k)
  BY DEF Call, Promises
<1>2. There' = There /\ Sound' = Sound
  BY DEF There, Live, Sound
<1>3. TypeOK'
  <2>1. WorldOK'
    BY DEF TypeOK, WorldOK
  <2>2. WorkOK' /\ ListOK'
    BY DEF TypeOK, WorkOK, ListOK, watch
  <2>3. QED
    BY <2>1, <2>2 DEF TypeOK
<1>4. TokensGoOn /\ Watched
  BY <1>2 DEF TokensGoOn, Watched
<1>5. \A c \in Call \ {k} : CallSame(c)
  BY DEF CallSame, call
<1>6. Granted(k)'
  BY <1>1, ListerGranted DEF call
<1>7. QED
  BY <1>1, <1>3, <1>4, <1>5, <1>6, PromisesKept DEF TypeOK

\* A session that is there all along is given to the listing that asks for it.
LEMMA HerdrKeeps ==
  ASSUME TypeOK, Promises, NEW k \in Lister, ListHerdr(k)
  PROVE  TypeOK' /\ Promises'
<1>1. /\ Running(k, "herdr") /\ Ended(k, "herdr")
      /\ UNCHANGED <<world, call, work, skipped, listed, starved, watch>>
      /\ got' = [got EXCEPT ![k] = IF stage[k] = "wait" /\ health["herdr"] = "up" THEN @ \cup {"herdr"} ELSE @]
  BY DEF ListHerdr
<1>2. "herdr" \in Task /\ "zellij" \in Task /\ Listing(k)
  BY DEF Task, Backend, Promises
<1>3. /\ CallOK' /\ stage[k] \in Started
      /\ \A x \in Task \ {"herdr"} : job'[k][x] = job[k][x]
      /\ \A c \in Call \ {k} : job'[c] = job[c]
  BY <1>1, <1>2, TaskEnds
<1>4. /\ got' \in [Lister -> SUBSET Entry]
      /\ \A c \in Lister \ {k} : got'[c] = got[c]
      /\ got'[k] = IF stage[k] = "wait" /\ health["herdr"] = "up" THEN got[k] \cup {"herdr"} ELSE got[k]
  BY <1>1 DEF TypeOK, ListOK, Entry, Backend
<1>5. There' = There /\ Sound' = Sound
  BY <1>1 DEF world, There, Live, Sound
<1>6. /\ stage' = stage /\ answer' = answer /\ skipped' = skipped /\ listed' = listed /\ looked' = looked
      /\ starved' = starved /\ steady' = steady /\ seen' = seen
  BY <1>1 DEF call, watch, work, local
<1>7. stage[k] = "wait" /\ health["herdr"] = "up" => "herdr" \in seen[k]
  BY <1>2 DEF Listing, On, There, Backend
<1>8. stage[k] = "wait" /\ "herdr" \in steady[k] => "herdr" \in got'[k]
  BY <1>2, <1>4 DEF Listing, On, Sound
<1>9. Reads(k)'
  BY <1>2, <1>3, <1>4, <1>6 DEF Listing, Reads, Started
<1>10. Listing(k)'
  <2>1. got'[k] \subseteq seen[k]
    BY <1>2, <1>4, <1>7 DEF Listing
  <2>2. stage[k] = "wait" => \A x \in Backend : job'[k][x] = "ended" /\ x \in steady[k] => x \in got'[k]
    <3>1. stage[k] = "wait" /\ job[k]["zellij"] = "ended" /\ "zellij" \in steady[k] => "zellij" \in got[k]
      BY <1>2 DEF Listing, Backend
    <3>2. QED
      BY <1>2, <1>3, <1>4, <1>8, <3>1 DEF Backend
  <2>3. QED
    BY <1>2, <1>3, <1>5, <1>6, <1>9, <2>1, <2>2 DEF Listing, On, Started
<1>11. QED
  <2>1. UNCHANGED <<token, zellij, saved, starting, label, health, trouble, call, found, did>>
    BY <1>1 DEF world, work, local
  <2>2. looked' \in [Call -> BOOLEAN] /\ \A c \in Call \ {k} : looked'[c] = looked[c]
    BY <1>6 DEF TypeOK, WorkOK
  <2>3. QED
    BY <1>1, <1>3, <1>4, <1>10, <2>1, <2>2, GivenKeeps

\* One of zellij that is not live when the sockets are tried is "dead" then, and
\* was not there all along.
LEMMA LiveKeeps ==
  ASSUME TypeOK, Promises, NEW k \in Lister, ReadLive(k)
  PROVE  TypeOK' /\ Promises'
<1>1. /\ Running(k, "zellij") /\ health["zellij"] = "up" /\ ~looked[k]
      /\ looked' = [looked EXCEPT ![k] = TRUE]
      /\ got' = [got EXCEPT ![k] = IF stage[k] = "wait" /\ Live THEN @ \cup {"zellij"} ELSE @]
      /\ zellij' = IF zellij = "stale" THEN "none" ELSE zellij
      /\ UNCHANGED <<token, saved, starting, label, health, trouble, call, job, found, did>>
      /\ UNCHANGED <<skipped, listed, starved, watch>>
  BY DEF ReadLive
<1>2. k \in Call /\ "zellij" \in Task /\ "zellij" \in Backend /\ Listing(k) /\ Granted(k)
  BY DEF Call, Task, Backend, Promises
<1>3. stage[k] \in Started /\ CallOK' /\ job[k]["zellij"] = "running"
  BY <1>1, <1>2 DEF Running, Granted, TypeOK, CallOK, Started, call
<1>4. /\ got' \in [Lister -> SUBSET Entry]
      /\ \A c \in Lister \ {k} : got'[c] = got[c]
      /\ got'[k] = IF stage[k] = "wait" /\ Live THEN got[k] \cup {"zellij"} ELSE got[k]
  BY <1>1 DEF TypeOK, ListOK, Entry, Backend
<1>5. looked' \in [Call -> BOOLEAN] /\ looked'[k] /\ \A c \in Call \ {k} : looked'[c] = looked[c]
  BY <1>1, <1>2 DEF TypeOK, WorkOK
<1>6. There' = There /\ Sound' = Sound
  BY <1>1 DEF There, Live, Sound
<1>7. /\ stage' = stage /\ answer' = answer /\ skipped' = skipped /\ listed' = listed /\ job' = job
      /\ starved' = starved /\ steady' = steady /\ seen' = seen
  BY <1>1 DEF call, watch
<1>8. /\ stage[k] = "wait" /\ Live => "zellij" \in seen[k]
      /\ stage[k] = "wait" /\ ~Live => "dead" \in seen[k] /\ "zellij" \notin steady[k]
  <2>1. stage[k] = "wait" => There \subseteq seen[k] /\ steady[k] \subseteq Sound
    BY <1>2 DEF Listing, On
  <2>2. Live => "zellij" \in There
    BY <1>1 DEF There, Backend
  <2>3. ~Live => "dead" \in There /\ "zellij" \notin Sound
    BY DEF There, Sound, Live
  <2>4. QED
    BY <2>1, <2>2, <2>3
<1>9. Reads(k)'
  <2>1. stage[k] = "wait" => "saved" \notin got'[k] /\ ("zellij" \in got'[k] \/ ("dead" \in seen[k] /\ "zellij" \notin steady[k]))
    BY <1>2, <1>3, <1>4, <1>8 DEF Listing, Reads
  <2>2. "saved" \in got'[k] => "dead" \in seen[k] /\ "zellij" \notin got'[k]
    BY <1>2, <1>4, <2>1 DEF Listing, Reads
  <2>3. QED
    BY <1>2, <1>3, <1>7, <2>1, <2>2 DEF Listing, Reads, Started
<1>10. Listing(k)'
  <2>1. got'[k] \subseteq seen[k] /\ got[k] \subseteq got'[k]
    BY <1>2, <1>4, <1>8 DEF Listing
  <2>2. QED
    BY <1>2, <1>3, <1>6, <1>7, <1>9, <2>1 DEF Listing, On, Started
<1>11. QED
  <2>1. zellij' = zellij \/ (zellij = "stale" /\ zellij' = "none")
    BY <1>1
  <2>2. QED
    BY <1>1, <1>3, <1>4, <1>5, <1>7, <1>10, <2>1, GivenKeeps

\* What is saved is added when that was so, and nothing else.
LEMMA SavedKeeps ==
  ASSUME TypeOK, Promises, NEW k \in Lister, ReadSaved(k)
  PROVE  TypeOK' /\ Promises'
<1>1. /\ Running(k, "zellij") /\ looked[k] /\ Ended(k, "zellij")
      /\ looked' = [looked EXCEPT ![k] = FALSE]
      /\ got' = [got EXCEPT ![k] =
           IF stage[k] = "wait" /\ saved /\ "zellij" \notin @ THEN @ \cup {"saved"} ELSE @]
      /\ UNCHANGED <<world, call, found, did, skipped, listed, starved, watch>>
  BY DEF ReadSaved
<1>2. k \in Call /\ "zellij" \in Task /\ "herdr" \in Task /\ Listing(k)
  BY DEF Call, Task, Backend, Promises
<1>3. /\ CallOK' /\ stage[k] \in Started
      /\ \A x \in Task \ {"zellij"} : job'[k][x] = job[k][x]
      /\ \A c \in Call \ {k} : job'[c] = job[c]
  BY <1>1, <1>2, TaskEnds
<1>4. /\ got' \in [Lister -> SUBSET Entry]
      /\ \A c \in Lister \ {k} : got'[c] = got[c]
      /\ got'[k] = IF stage[k] = "wait" /\ saved /\ "zellij" \notin got[k]
                   THEN got[k] \cup {"saved"} ELSE got[k]
  BY <1>1 DEF TypeOK, ListOK, Entry, Backend
<1>5. looked' \in [Call -> BOOLEAN] /\ ~looked'[k] /\ \A c \in Call \ {k} : looked'[c] = looked[c]
  BY <1>1, <1>2 DEF TypeOK, WorkOK
<1>6. There' = There /\ Sound' = Sound
  BY <1>1 DEF world, There, Live, Sound
<1>7. /\ stage' = stage /\ answer' = answer /\ skipped' = skipped /\ listed' = listed
      /\ starved' = starved /\ steady' = steady /\ seen' = seen
  BY <1>1 DEF call, watch
<1>8. /\ stage[k] = "wait" /\ saved => "saved" \in seen[k]
      /\ stage[k] = "wait" /\ "zellij" \notin got[k] => "dead" \in seen[k] /\ "zellij" \notin steady[k]
  <2>1. stage[k] = "wait" => There \subseteq seen[k]
    BY <1>2 DEF Listing, On
  <2>2. saved => "saved" \in There
    BY DEF There
  <2>3. QED
    BY <1>1, <1>2, <2>1, <2>2 DEF Listing, Reads
<1>9. job'[k]["zellij"] = "ended" \/ stage[k] # "wait"
  BY <1>1, <1>2 DEF Ended, TypeOK, CallOK
<1>10. Reads(k)'
  <2>1. "saved" \in got'[k] => "dead" \in seen[k] /\ "zellij" \notin got'[k]
    BY <1>2, <1>4, <1>8 DEF Listing, Reads
  <2>2. QED
    BY <1>2, <1>3, <1>5, <1>7, <1>9, <2>1 DEF Listing, Reads, Started
<1>11. Listing(k)'
  <2>1. got'[k] \subseteq seen[k] /\ got[k] \subseteq got'[k]
    BY <1>2, <1>4, <1>8 DEF Listing
  <2>2. stage[k] = "wait" => \A x \in Backend : job'[k][x] = "ended" /\ x \in steady[k] => x \in got'[k]
    <3>1. stage[k] = "wait" /\ job[k]["herdr"] = "ended" /\ "herdr" \in steady[k] => "herdr" \in got[k]
      BY <1>2 DEF Listing, Backend
    <3>2. stage[k] = "wait" /\ "zellij" \in steady[k] => "zellij" \in got[k]
      BY <1>8
    <3>3. QED
      BY <1>2, <1>3, <2>1, <3>1, <3>2 DEF Backend
  <2>3. QED
    BY <1>2, <1>3, <1>6, <1>7, <1>10, <2>1, <2>2 DEF Listing, On, Started
<1>12. QED
  <2>1. UNCHANGED <<token, zellij, saved, starting, label, health, trouble, call, found, did>>
    BY <1>1 DEF world
  <2>2. QED
    BY <1>1, <1>3, <1>4, <1>5, <1>11, <2>1, GivenKeeps

LEMMA CountKeeps ==
  ASSUME TypeOK, Promises, NEW k \in Lister, CountSpaces(k)
  PROVE  TypeOK' /\ Promises'
<1>1. Running(k, "count") /\ Ended(k, "count") /\ UNCHANGED <<world, call, work, list>>
  BY DEF CountSpaces
<1>2. k \in Call /\ "count" \in Task /\ Listing(k) /\ Backend \subseteq Task \ {"count"}
  BY DEF Call, Task, Backend, Promises
<1>3. /\ CallOK' /\ Granted(k) /\ stage[k] \in Started
      /\ \A x \in Task \ {"count"} : job'[k][x] = job[k][x]
      /\ \A c \in Call \ {k} : job'[c] = job[c]
  BY <1>1, <1>2, TaskEnds
<1>4. Quiet(k)
  BY <1>1, <1>3 DEF Quiet, CallSame, world, call, work, local, list, fanout
<1>5. Granted(k)'
  BY <1>1, <1>3, ListerGranted DEF call, world
<1>6. Listing(k)'
  <2>1. looked' = looked /\ job'[k]["zellij"] = job[k]["zellij"]
    BY <1>1, <1>2, <1>3 DEF work, local, Backend
  <2>2. Reads(k)'
    BY <1>1, <1>2, <2>1 DEF Listing, Reads, list, fanout, watch, call
  <2>3. QED
    BY <1>1, <1>2, <1>3, <2>2 DEF Listing, On, list, fanout, watch, There, Live, Sound, world, call
<1>7. trouble' \in 0 .. MaxTrouble /\ FanoutOK'
  BY <1>1 DEF FanoutOK, TypeOK, WorldOK, ListOK, world, list, fanout
<1>8. QED
  BY <1>2, <1>3, <1>4, <1>5, <1>6, <1>7, QuietKeeps

\* What is skipped was waiting for a thread, or was not all right.
LEMMA TimesOutKeeps ==
  ASSUME TypeOK, Promises, NEW k \in Lister, NEW b \in Backend, TimesOut(k, b)
  PROVE  TypeOK' /\ Promises'
<1>1. /\ stage[k] = "wait" /\ TooLong(k, b)
      /\ skipped' = [skipped EXCEPT ![k] = @ \cup {b}]
      /\ starved' = IF job[k][b] = "queued" THEN [starved EXCEPT ![k] = @ \cup {b}] ELSE starved
      /\ UNCHANGED <<world, call, job, work, got, listed, watch>>
  BY DEF TimesOut
<1>2. k \in Call /\ Granted(k) /\ Listing(k)
  BY DEF Call, Promises
<1>3. /\ skipped' \in [Lister -> SUBSET Backend] /\ starved' \in [Lister -> SUBSET Backend]
      /\ skipped'[k] = skipped[k] \cup {b}
      /\ starved[k] \subseteq starved'[k]
      /\ job[k][b] = "queued" => b \in starved'[k]
      /\ \A c \in Lister \ {k} : skipped'[c] = skipped[c] /\ starved'[c] = starved[c]
  BY <1>1 DEF TypeOK, ListOK
<1>4. Quiet(k)
  BY <1>1, <1>3 DEF Quiet, CallSame, world, call, work, local
<1>5. CallOK'
  BY <1>1 DEF TypeOK, CallOK, call
<1>6. Granted(k)'
  BY <1>1, <1>2, ListerGranted DEF call, world, Started
<1>7. skipped'[k] \cap steady[k] \subseteq starved'[k]
  <2>1. b \in steady[k] => b \in starved'[k]
    <3>1. job[k][b] = "queued" \/ (b = "zellij" /\ health["zellij"] = "stuck")
      BY <1>1 DEF TooLong
    <3>2. job[k][b] # "queued" => b \notin Sound
      BY <3>1 DEF Sound
    <3>3. QED
      BY <1>1, <1>2, <1>3, <3>2 DEF Listing, Reads, On
  <2>2. QED
    BY <1>2, <1>3, <2>1 DEF Listing, Reads
<1>8. Listing(k)'
  <2>1. Reads(k)'
    BY <1>1, <1>2 DEF Listing, Reads, watch, call, work, local
  <2>2. QED
    BY <1>1, <1>2, <1>7, <2>1 DEF Listing, On, watch, There, Live, Sound, world, call
<1>9. /\ trouble' \in 0 .. MaxTrouble
      /\ FanoutOK'
  BY <1>1, <1>3 DEF FanoutOK, TypeOK, WorldOK, ListOK, world
<1>10. QED
  BY <1>2, <1>4, <1>5, <1>6, <1>8, <1>9, QuietKeeps

\* A listing that is over has told what it had.
LEMMA ReturnKeeps ==
  ASSUME TypeOK, Promises, NEW k \in Lister, Return(k), stage[k] \in {"wait", "count"},
         UNCHANGED <<world, method, flag, granted, work, starved, watch>>,
         listed' \in [Lister -> SUBSET Entry],
         \A c \in Lister \ {k} : listed'[c] = listed[c],
         listed'[k] \subseteq got[k] \/ listed'[k] = listed[k],
         steady[k] \subseteq listed'[k] \cup starved[k]
  PROVE  TypeOK' /\ Promises'
<1>1. /\ stage' = [stage EXCEPT ![k] = "done"] /\ answer' = [answer EXCEPT ![k] = "ok"]
      /\ job' = [job EXCEPT ![k] = [t \in Task |-> IF job[k][t] = "ended" THEN "none" ELSE job[k][t]]]
      /\ got' = [got EXCEPT ![k] = {}] /\ skipped' = [skipped EXCEPT ![k] = {}]
  BY DEF Return, Goto, Answer
<1>2. k \in Call /\ Granted(k) /\ Listing(k)
  BY DEF Call, Promises
<1>3. /\ stage' \in [Call -> {"idle", "auth", "scope", "handle", "wait", "count", "done", "gone"}]
      /\ stage'[k] = "done" /\ \A c \in Call \ {k} : stage'[c] = stage[c]
  BY <1>1, <1>2 DEF TypeOK, CallOK
<1>4. /\ answer' \in [Call -> {"none", "ok", "error", "refused", "denied", "unauthenticated"}]
      /\ answer'[k] = "ok" /\ \A c \in Call \ {k} : answer'[c] = answer[c]
  BY <1>1, <1>2 DEF TypeOK, CallOK
<1>5. /\ job' \in [Call -> [Task -> {"none", "queued", "running", "ended"}]]
      /\ \A c \in Call \ {k} : job'[c] = job[c]
  BY <1>1, <1>2 DEF TypeOK, CallOK
<1>6. /\ got' \in [Lister -> SUBSET Entry] /\ skipped' \in [Lister -> SUBSET Backend]
      /\ got'[k] = {} /\ skipped'[k] = {}
      /\ \A c \in Lister \ {k} : got'[c] = got[c] /\ skipped'[c] = skipped[c]
  BY <1>1 DEF TypeOK, ListOK
<1>7. CallOK'
  BY <1>3, <1>4, <1>5 DEF TypeOK, CallOK
<1>8. Quiet(k)
  BY <1>3, <1>4, <1>5, <1>6 DEF Quiet, CallSame, world, work, local
<1>9. Granted(k)'
  BY <1>2, <1>3, ListerGranted DEF world, Started
<1>10. Listing(k)'
  <2>1. /\ listed'[k] \subseteq seen[k] /\ steady' = steady /\ seen' = seen /\ starved' = starved
        /\ "saved" \in listed'[k] => "dead" \in seen[k] /\ "zellij" \notin listed'[k]
    BY <1>2 DEF Listing, Reads, watch
  <2>2. QED
    BY <1>3, <1>4, <1>6, <2>1 DEF Listing, Reads, On
<1>11. trouble' \in 0 .. MaxTrouble /\ FanoutOK'
  BY <1>6 DEF FanoutOK, TypeOK, WorldOK, ListOK, world
<1>12. QED
  BY <1>2, <1>7, <1>8, <1>9, <1>10, <1>11, QuietKeeps

LEMMA MergeKeeps ==
  ASSUME TypeOK, Promises, NEW k \in Lister, Merge(k)
  PROVE  TypeOK' /\ Promises'
<1>1. /\ stage[k] = "wait" /\ \A b \in Backend : b \in skipped[k] \/ job[k][b] = "ended"
      /\ listed' = [listed EXCEPT ![k] = {e \in got[k] : Source(e) \notin skipped[k]}]
      /\ UNCHANGED <<world, method, flag, granted, work, starved, watch>>
  BY DEF Merge
<1>2. k \in Call /\ Granted(k) /\ Listing(k)
  BY DEF Call, Promises
<1>3. /\ listed' \in [Lister -> SUBSET Entry]
      /\ listed'[k] = {e \in got[k] : Source(e) \notin skipped[k]}
      /\ listed'[k] \subseteq got[k] /\ \A b \in Backend : b \in got[k] \ skipped[k] => b \in listed'[k]
      /\ \A c \in Lister \ {k} : listed'[c] = listed[c]
      /\ steady[k] \subseteq Backend
  BY <1>1 DEF TypeOK, ListOK, Source, Backend
<1>4. steady[k] \subseteq listed'[k] \cup starved[k]
  BY <1>1, <1>2, <1>3 DEF Listing, Reads
<1>5. CASE Return(k)
  BY <1>1, <1>3, <1>4, <1>5, ReturnKeeps
<1>6. CASE Goto(k, "count") /\ Queue(k, {"count"}) /\ UNCHANGED <<answer, got, skipped>>
  <2>1. /\ stage' = [stage EXCEPT ![k] = "count"]
        /\ job' = [job EXCEPT ![k] = [t \in Task |-> IF t \in {"count"} THEN "queued" ELSE job[k][t]]]
        /\ answer' = answer /\ got' = got /\ skipped' = skipped
    BY <1>6 DEF Goto, Queue
  <2>2. /\ stage' \in [Call -> {"idle", "auth", "scope", "handle", "wait", "count", "done", "gone"}]
        /\ stage'[k] = "count" /\ \A c \in Call \ {k} : stage'[c] = stage[c]
    BY <1>2, <2>1 DEF TypeOK, CallOK
  <2>3. /\ job' \in [Call -> [Task -> {"none", "queued", "running", "ended"}]]
        /\ \A c \in Call \ {k} : job'[c] = job[c]
    BY <1>2, <2>1 DEF TypeOK, CallOK
  <2>4. CallOK'
    BY <1>1, <2>1, <2>2, <2>3 DEF TypeOK, CallOK
  <2>5. Quiet(k)
    BY <1>1, <1>3, <2>1, <2>2, <2>3 DEF Quiet, CallSame, world, work, local
  <2>6. Granted(k)'
    BY <1>1, <1>2, <2>2, ListerGranted DEF world, Started
  <2>7. Listing(k)'
    BY <1>1, <1>2, <1>3, <1>4, <2>1, <2>2 DEF Listing, Reads, On, watch, There, Live, Sound, world
  <2>8. trouble' \in 0 .. MaxTrouble /\ FanoutOK'
    BY <1>1, <1>3, <2>1 DEF FanoutOK, TypeOK, WorldOK, ListOK, world
  <2>9. QED
    BY <1>2, <2>4, <2>5, <2>6, <2>7, <2>8, QuietKeeps
<1>7. QED
  BY <1>5, <1>6 DEF Merge

LEMMA CountedKeeps ==
  ASSUME TypeOK, Promises, NEW k \in Lister, Counted(k)
  PROVE  TypeOK' /\ Promises'
<1>1. /\ stage[k] = "count" /\ Return(k)
      /\ UNCHANGED <<world, method, flag, granted, work, listed, starved, watch>>
  BY DEF Counted
<1>2. steady[k] \subseteq listed[k] \cup starved[k]
  BY <1>1 DEF Promises, Listing, Reads
<1>3. listed' \in [Lister -> SUBSET Entry] /\ \A c \in Lister : listed'[c] = listed[c]
  BY <1>1 DEF TypeOK, ListOK
<1>4. QED
  BY <1>1, <1>2, <1>3, ReturnKeeps

----------------------------------------------------------------------------
(* Outside, and the theorems.                                              *)

LEMMA OutsideKeeps ==
  ASSUME TypeOK, Promises, (\E t \in Token : Login(t)) \/ Comes \/ Trouble
  PROVE  TypeOK' /\ Promises'
<1>1. Apart
  BY DEF Login, Comes, Trouble
<1>2. WorldOK' /\ TokensGoOn /\ Watched
  <2>1. CASE \E t \in Token : Login(t)
    <3>1. PICK t \in Token : Login(t)
      BY <2>1
    <3>2. UNCHANGED <<zellij, saved, starting, label, health, trouble, watch>>
      BY <3>1 DEF Login
    <3>3. token' \in [Token -> {"unused", "auth", "session", "revoked"}] /\ TokensGoOn
      BY <3>1 DEF Login, TypeOK, WorldOK, TokensGoOn
    <3>4. WorldOK'
      BY <3>2, <3>3 DEF TypeOK, WorldOK
    <3>5. QED
      BY <3>2, <3>3, <3>4, StaysWatched DEF Stays
  <2>2. CASE Comes
    <3>1. /\ zellij' \in {"none", "up", "dying", "stale"} /\ starting' \in BOOLEAN
          /\ UNCHANGED <<token, saved, label, health, trouble>> /\ Watch
      BY <2>2 DEF Comes, TypeOK, WorldOK
    <3>2. QED
      BY <3>1 DEF TypeOK, WorldOK, TokensGoOn, Watched
  <2>3. CASE Trouble
    <3>1. /\ zellij' \in {"none", "up", "dying", "stale"} /\ saved' \in BOOLEAN
          /\ UNCHANGED <<token, starting>> /\ Watch
      BY <2>3 DEF Trouble, TypeOK, WorldOK
    <3>2. trouble' \in 0 .. MaxTrouble
      BY <2>3, CallsAssumption DEF Trouble, TypeOK, WorldOK
    <3>3. label' \in [Space -> {"none", "name", "other"}] /\ health' \in [Backend -> {"up", "stuck", "down"}]
      BY <2>3 DEF Trouble, TypeOK, WorldOK
    <3>4. QED
      BY <3>1, <3>2, <3>3 DEF TypeOK, WorldOK, TokensGoOn, Watched
  <2>4. QED
    BY <2>1, <2>2, <2>3
<1>3. CallOK' /\ WorkOK' /\ ListOK'
  BY <1>1, <1>2, WatchedType DEF TypeOK, CallOK, WorkOK, Apart, call, work, local
<1>4. \A c \in Call : CallSame(c)
  BY <1>1 DEF Apart, CallSame, call, work, local, fanout
<1>5. ASSUME NEW c \in Call PROVE Granted(c)'
  BY <1>2, <1>4, GrantedKept DEF Promises, TypeOK, WorldOK
<1>6. ASSUME NEW c \in Lister PROVE Listing(c)'
  BY <1>2, <1>4, ListingKept DEF Promises, TypeOK, Call
<1>7. QED
  BY <1>2, <1>3, <1>5, <1>6 DEF TypeOK, Promises

LEMMA InitIInv == Init => IInv
<1> SUFFICES ASSUME Init PROVE IInv
  OBVIOUS
<1>1. ASSUME NEW k \in Call
      PROVE  Granted(k)
  BY DEF Init, Granted, Task
<1>2. ASSUME NEW k \in Lister
      PROVE  Listing(k)
  BY DEF Init, Listing, Reads, On, Call
<1>3. QED
  BY InitTypeOK, <1>1, <1>2 DEF IInv

LEMMA StepIInv == IInv /\ [Next]_vars => IInv'
<1> SUFFICES ASSUME IInv, [Next]_vars PROVE TypeOK' /\ Promises'
  BY DEF IInv, Promises
<1>1. TypeOK /\ Promises
  BY DEF IInv, Promises
<1>2. ASSUME NEW k \in Call, Auth(k) \/ Cancel(k) \/ \E t \in Task : Start(k, t)
      PROVE  TypeOK' /\ Promises'
  BY <1>1, <1>2, ArriveKeeps, AuthKeeps, HandleKeeps, CancelKeeps, StartKeeps DEF Auth
<1>3. ASSUME NEW k \in Lister, Asks(k) \/ Waits(k)
      PROVE  TypeOK' /\ Promises'
  BY <1>1, <1>3, HerdrKeeps, LiveKeeps, SavedKeeps, CountKeeps, TimesOutKeeps, MergeKeeps, CountedKeeps DEF Asks, Waits
<1>4. ASSUME NEW k \in Worker, Works(k)
      PROVE  TypeOK' /\ Promises'
  BY <1>1, <1>4, WorksKeepPromises
<1>5. CASE (\E t \in Token : Login(t)) \/ Comes \/ Trouble
  BY <1>1, <1>5, OutsideKeeps
<1>6. CASE UNCHANGED vars
  <2>1. TypeOK'
    BY <1>1, <1>6 DEF TypeOK, WorldOK, CallOK, WorkOK, ListOK, vars, world, call, work, local, list, fanout, watch
  <2>2. Promises'
    BY <1>1, <1>6 DEF Promises, Granted, Listing, Reads, On, There, Live, Sound, vars, world, call, work, local, list, fanout, watch
  <2>3. QED
    BY <2>1, <2>2
<1>7. QED
  BY <1>2, <1>3, <1>4, <1>5, <1>6 DEF Next

\* Every variable of the calls keeps its type, whatever is revoked, spawned,
\* cancelled or breaks down meanwhile.
THEOREM TypeCorrect == Spec => []TypeOK
<1>1. IInv => TypeOK
  BY DEF IInv
<1>2. QED
  BY InitIInv, StepIInv, <1>1, PTL DEF Spec

\* However many calls, tokens and threads there are: what only a writer may do
\* is done for nobody whose token was not valid and able to write on arrival.
THEOREM WritersOnly == Spec => []OnlyWritersDo
<1>1. IInv => OnlyWritersDo
  BY DEF IInv, Granted, OnlyWritersDo, Call
<1>2. QED
  BY InitIInv, StepIInv, <1>1, PTL DEF Spec

\* A listing shows as running only what ran at some moment of the call, as one to
\* resurrect only what was saved and what did not run, and no session as both.
THEOREM NoPhantomsEver == Spec => []NoPhantoms
<1>1. IInv => NoPhantoms
  BY DEF IInv, Listing, Reads, NoPhantoms
<1>2. QED
  BY InitIInv, StepIInv, <1>1, PTL DEF Spec

\* A listing that is answered shows every session that was there all along and
\* that a thread could be found to ask for.
THEOREM HealthyAreShown == Spec => []HealthyIsShown
<1>1. IInv => HealthyIsShown
  BY DEF IInv, Listing, Reads, HealthyIsShown
<1>2. QED
  BY InitIInv, StepIInv, <1>1, PTL DEF Spec

=============================================================================
