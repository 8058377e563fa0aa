----------------------------- MODULE UnaryCalls -----------------------------
(***************************************************************************)
(* The calls of muxrd that need no relay (muxrd/src/auth.rs, grpc/         *)
(* session_ops.rs, token_ops.rs, pane_ops.rs, multiplexer/herdr/           *)
(* backend.rs, actions.rs): the check of the bearer, the read-only gate,   *)
(* and then work on a thread of the blocking pool, which goes on when the  *)
(* call has given up on it.                                                *)
(*                                                                         *)
(* Names are one: "name" is the session the calls speak of, on either      *)
(* backend, and a herdr workspace may have another label, "other".  A      *)
(* token stands for an auth token and the session token its holder logged  *)
(* in with.  zellij, herdr and the token database are external.            *)
(***************************************************************************)
EXTENDS Naturals, FiniteSets

CONSTANTS
  Lister,    \* calls of ListSessions
  Worker,    \* the other calls
  Does,      \* what each of those may be a call of
  Token,
  Scope,     \* whether each is "rw" or "ro"
  Bearer,    \* the token each call comes with
  First,     \* the tokens there are at first
  Space,     \* the workspaces herdr may have
  Pool,      \* threads of tokio's blocking pool (512)
  MaxTrouble \* bound: events outside

Call == Lister \cup Worker
Backend == {"zellij", "herdr"}
\* What a listing may show: the session of each, and as "saved" the one of zellij
\* that does not run and can be resurrected.
Entry == Backend \cup {"saved"}
Task == Backend \cup {"count", "work"}
\* What is one acknowledged action at a backend when no relay takes it.
PaneChange == {"WriteToPane", "ClosePane", "NewPane", "RenamePane", "ResizePane",
               "TogglePaneFloating", "TogglePaneFullscreen"}
TabChange == {"NewTab", "CloseTab", "GoToTab", "RenameTab"}
PaneLook == {"FocusPane", "ScrollPane"}
Method == PaneChange \cup TabChange \cup PaneLook \cup
          {"CreateSession", "CreateOnHerdr", "KillSession", "RenameOnHerdr",
           "KillOnHerdr", "RenameSpace", "CreateToken", "ListTokens", "RevokeToken"}

ASSUME CallsAssumption ==
  /\ Lister \cap Worker = {} /\ Does \in [Worker -> SUBSET Method]
  /\ Scope \in [Token -> {"rw", "ro"}] /\ Bearer \in [Call -> Token] /\ First \subseteq Token
  /\ Pool \in Nat \ {0} /\ MaxTrouble \in Nat

VARIABLES
  token,    \* "unused", "auth", "session" once logged in with, or "revoked"
  zellij,   \* zellij's session: "none", "up", "dying", "stale" (only its socket is left)
  saved,    \* whether zellij has kept a layout of it, to resurrect it from
  starting, \* whether a zellij that was spawned has yet to come up
  label,    \* the label of each herdr workspace, "none" if there is none
  health,   \* of each backend: "up", "stuck" (it hangs), "down"
  trouble,  \* how much has happened
  stage, method,
  flag,     \* the SessionReadOnly extension of the call
  job,      \* where each task of a call is on the blocking pool
  looked,   \* whether a call's work has looked before it acts, or a listing for what runs
  found,    \* the workspaces that look found
  got,      \* the sessions a listing has been given, or has found so far
  skipped,  \* the backends it gave up waiting for
  listed,   \* the sessions it answers
  answer,
  granted,  \* whether its token was valid and could write when it came (history)
  did,      \* whether it did what a read-only token must not do (history)
  starved,  \* the backends skipped while waiting for a thread (history)
  steady,   \* the sessions there all through a listing (history)
  seen      \* and at some moment of it; "dead" if zellij's was not, then (history)

world == <<token, zellij, saved, starting, label, health, trouble>>
call == <<stage, method, flag, answer, granted>>
local == <<looked, found>>
work == <<local, did>>
watch == <<steady, seen>>
fanout == <<got, skipped, listed, starved>>
list == <<fanout, watch>>
vars == <<world, call, job, work, list>>

\* The sessions one could list and use, and those there is anything of.
Sound == {b \in Backend : health[b] = "up" /\ (b = "zellij" => zellij = "up")}
Live == zellij \in {"up", "dying"}
There == {b \in Backend : health[b] # "down" /\ (b = "zellij" => Live)}
         \cup {e \in {"saved"} : saved} \cup {e \in {"dead"} : ~Live}

\* What is there while a listing goes on.
Watch ==
  LET on == {k \in Lister : stage[k] \notin {"idle", "done", "gone"}}
  IN /\ steady' = [k \in Lister |-> IF k \in on THEN steady[k] \cap Sound' ELSE steady[k]]
     /\ seen' = [k \in Lister |-> IF k \in on THEN seen[k] \cup There' ELSE seen[k]]

Init ==
  /\ token = [t \in Token |-> IF t \in First THEN "session" ELSE "unused"]
  /\ zellij = "up" /\ saved \in BOOLEAN /\ starting = FALSE
  /\ label = [w \in Space |-> IF w = CHOOSE x \in Space : TRUE THEN "other" ELSE "none"]
  /\ health = [b \in Backend |-> "up"] /\ trouble = 0
  /\ stage = [k \in Call |-> "idle"] /\ answer = [k \in Call |-> "none"]
  /\ method = [k \in Call |-> IF k \in Lister THEN "ListSessions" ELSE "none"]
  /\ flag = [k \in Call |-> "none"] /\ granted = [k \in Call |-> FALSE]
  /\ job = [k \in Call |-> [t \in Task |-> "none"]]
  /\ looked = [k \in Call |-> FALSE] /\ found = [k \in Worker |-> {}]
  /\ did = [k \in Worker |-> FALSE]
  /\ got = [k \in Lister |-> {}] /\ skipped = [k \in Lister |-> {}]
  /\ listed = [k \in Lister |-> {}] /\ starved = [k \in Lister |-> {}]
  /\ steady = [k \in Lister |-> {}] /\ seen = [k \in Lister |-> {}]

----------------------------------------------------------------------------
(* auth.rs and the gate.                                                   *)

Goto(k, next) == stage' = [stage EXCEPT ![k] = next]
Answer(k, a) == answer' = [answer EXCEPT ![k] = a]
Queue(k, tasks) == job' = [job EXCEPT ![k] = [t \in Task |-> IF t \in tasks THEN "queued" ELSE @[t]]]

\* A request comes, from someone who was logged in once.
Arrive(k) ==
  /\ stage[k] = "idle" /\ token[Bearer[k]] \in {"session", "revoked"}
  /\ granted' = [granted EXCEPT ![k] = token[Bearer[k]] = "session" /\ Scope[Bearer[k]] = "rw"]
  /\ \/ /\ k \in Lister
        /\ steady' = [steady EXCEPT ![k] = Sound] /\ seen' = [seen EXCEPT ![k] = There]
        /\ UNCHANGED method
     \/ /\ k \in Worker
        /\ \E m \in Does[k] : method' = [method EXCEPT ![k] = m]
        /\ UNCHANGED watch
  /\ Goto(k, "auth")
  /\ UNCHANGED <<world, flag, answer, job, work, fanout>>

\* check_bearer, first half: the token is known, or the database fails.
Validate(k) ==
  /\ stage[k] = "auth"
  /\ \/ /\ token[Bearer[k]] = "session"
        /\ Goto(k, "scope")
        /\ UNCHANGED answer
     \/ Goto(k, "done") /\ Answer(k, "unauthenticated")
  /\ UNCHANGED <<world, method, flag, granted, job, work, list>>

\* A plausible bug: an error is taken for a token that may write.
ScopeFailsOpen(k) ==
  /\ stage[k] = "scope"
  /\ \/ token[Bearer[k]] = "session" /\ flag' = [flag EXCEPT ![k] = Scope[Bearer[k]]]
     \/ flag' = [flag EXCEPT ![k] = "rw"]
  /\ Goto(k, "handle")
  /\ UNCHANGED <<world, method, answer, granted, job, work, list>>

\* The other half: a token revoked in between, or an error, is read-only.
ReadScope(k) ==
  /\ stage[k] = "scope"
  /\ \/ token[Bearer[k]] = "session" /\ flag' = [flag EXCEPT ![k] = Scope[Bearer[k]]]
     \/ flag' = [flag EXCEPT ![k] = "ro"]
  /\ Goto(k, "handle")
  /\ UNCHANGED <<world, method, answer, granted, job, work, list>>

\* The handler: reject_if_read_only on all but these, then work for the pool.
Ungated == {"ListSessions"} \cup PaneLook

Handle(k) ==
  /\ stage[k] = "handle"
  /\ IF flag[k] = "ro" /\ method[k] \notin Ungated
     THEN /\ Goto(k, "done") /\ Answer(k, "denied")
          /\ UNCHANGED job
     ELSE /\ Goto(k, "wait")
          /\ Queue(k, IF k \in Lister THEN Backend ELSE {"work"})
          /\ UNCHANGED answer
  /\ UNCHANGED <<world, method, flag, granted, work, list>>

\* The client gives up: the handler is dropped, its tasks are not.
Cancel(k) ==
  /\ stage[k] \in {"wait", "count"} /\ trouble < MaxTrouble
  /\ trouble' = trouble + 1
  /\ Goto(k, "gone")
  /\ UNCHANGED <<token, zellij, saved, starting, label, health, method, flag, answer, granted, job, work, list>>

----------------------------------------------------------------------------
(* The blocking pool.                                                      *)

Busy == {x \in Call \X Task : job[x[1]][x[2]] = "running"}

Start(k, t) ==
  /\ job[k][t] = "queued" /\ Cardinality(Busy) < Pool
  /\ job' = [job EXCEPT ![k][t] = "running"]
  /\ UNCHANGED <<world, call, work, list>>

Running(k, t) == job[k][t] = "running"
Ended(k, t) ==
  job' = [job EXCEPT ![k][t] = IF stage[k] \in {"wait", "count"} THEN "ended" ELSE "none"]
\* The handler of a listing returns: its locals are gone, its tasks may not be.
Return(k) ==
  /\ Goto(k, "done") /\ Answer(k, "ok")
  /\ job' = [job EXCEPT ![k] = [t \in Task |-> IF @[t] = "ended" THEN "none" ELSE @[t]]]
  /\ got' = [got EXCEPT ![k] = {}] /\ skipped' = [skipped EXCEPT ![k] = {}]

----------------------------------------------------------------------------
(* ListSessions.                                                           *)

\* HerdrBackend::list_sessions_with_resurrectables: the sentinel, or an error.
ListHerdr(k) ==
  /\ Running(k, "herdr")
  /\ Ended(k, "herdr")
  /\ got' = [got EXCEPT ![k] = IF stage[k] = "wait" /\ health["herdr"] = "up" THEN @ \cup {"herdr"} ELSE @]
  /\ UNCHANGED <<world, call, work, skipped, listed, starved, watch>>

\* zellij's sockets are tried in turn, and one that nobody serves is removed.
ReadLive(k) ==
  /\ Running(k, "zellij") /\ health["zellij"] = "up" /\ ~looked[k]
  /\ looked' = [looked EXCEPT ![k] = TRUE]
  /\ got' = [got EXCEPT ![k] = IF stage[k] = "wait" /\ Live THEN @ \cup {"zellij"} ELSE @]
  /\ zellij' = IF zellij = "stale" THEN "none" ELSE zellij
  /\ UNCHANGED <<token, saved, starting, label, health, trouble, call, job, found, did>>
  /\ UNCHANGED <<skipped, listed, starved, watch>>

\* A plausible bug: what is saved is listed whether or not it runs.
LiveListedTwice(k) ==
  /\ Running(k, "zellij") /\ looked[k]
  /\ Ended(k, "zellij") /\ looked' = [looked EXCEPT ![k] = FALSE]
  /\ got' = [got EXCEPT ![k] = IF stage[k] = "wait" /\ saved THEN @ \cup {"saved"} ELSE @]
  /\ UNCHANGED <<world, call, found, did, skipped, listed, starved, watch>>

\* Then the saved sessions are read, and those added that were not live.
ReadSaved(k) ==
  /\ Running(k, "zellij") /\ looked[k]
  /\ Ended(k, "zellij") /\ looked' = [looked EXCEPT ![k] = FALSE]
  /\ got' = [got EXCEPT ![k] =
       IF stage[k] = "wait" /\ saved /\ "zellij" \notin @ THEN @ \cup {"saved"} ELSE @]
  /\ UNCHANGED <<world, call, found, did, skipped, listed, starved, watch>>

\* LIST_SESSIONS_BACKEND_TIMEOUT, which a backend in health does not reach.
TooLong(k, t) ==
  \/ job[k][t] = "queued" /\ Cardinality(Busy) >= Pool
  \/ job[k][t] = "running" /\ t = "zellij" /\ health["zellij"] = "stuck"

TimesOut(k, b) ==
  /\ stage[k] = "wait" /\ TooLong(k, b) /\ b \notin skipped[k]
  /\ skipped' = [skipped EXCEPT ![k] = @ \cup {b}]
  /\ starved' = IF job[k][b] = "queued" THEN [starved EXCEPT ![k] = @ \cup {b}] ELSE starved
  /\ UNCHANGED <<world, call, job, work, got, listed, watch>>

Source(e) == IF e = "saved" THEN "zellij" ELSE e

\* A plausible bug: one backend that fails fails the listing.
MergeAll(k) ==
  /\ stage[k] = "wait" /\ \A b \in Backend : b \in skipped[k] \/ job[k][b] = "ended"
  /\ listed' = [listed EXCEPT ![k] = IF skipped[k] = {} THEN got[k] ELSE {}]
  /\ Return(k)
  /\ UNCHANGED <<world, method, flag, granted, work, starved, watch>>

\* join_all is over: what did not answer in time is skipped.  herdr, if it
\* did, is asked again, for the number of its spaces.
Merge(k) ==
  /\ stage[k] = "wait" /\ \A b \in Backend : b \in skipped[k] \/ job[k][b] = "ended"
  /\ listed' = [listed EXCEPT ![k] = {e \in got[k] : Source(e) \notin skipped[k]}]
  /\ IF "herdr" \in listed'[k]
     THEN Goto(k, "count") /\ Queue(k, {"count"}) /\ UNCHANGED <<answer, got, skipped>>
     ELSE Return(k)
  /\ UNCHANGED <<world, method, flag, granted, work, starved, watch>>

CountSpaces(k) ==
  /\ Running(k, "count")
  /\ Ended(k, "count")
  /\ UNCHANGED <<world, call, work, list>>

\* A plausible bug: the second question to herdr is not bounded.
CountUntimed(k) ==
  /\ stage[k] = "count" /\ job[k]["count"] = "ended"
  /\ Return(k)
  /\ UNCHANGED <<world, method, flag, granted, work, listed, starved, watch>>

\* The count is there, or is 0 because it failed or took too long.
Counted(k) ==
  /\ stage[k] = "count" /\ (job[k]["count"] = "ended" \/ TooLong(k, "count"))
  /\ Return(k)
  /\ UNCHANGED <<world, method, flag, granted, work, listed, starved, watch>>

----------------------------------------------------------------------------
(* The work of the other calls.  It is done for a call that is gone, too.  *)

At(k, m) == Running(k, "work") /\ method[k] = m
End(k, a) ==
  /\ job' = [job EXCEPT ![k]["work"] = "none"]
  /\ IF stage[k] = "wait" THEN Goto(k, "done") /\ Answer(k, a) ELSE UNCHANGED <<stage, answer>>
  /\ method' = [method EXCEPT ![k] = "none"] /\ flag' = [flag EXCEPT ![k] = "none"]
  /\ looked' = [looked EXCEPT ![k] = FALSE] /\ found' = [found EXCEPT ![k] = {}]
  /\ UNCHANGED <<granted, fanout>>
\* A first step of two.
Look(k, ws) ==
  /\ ~looked[k]
  /\ looked' = [looked EXCEPT ![k] = TRUE] /\ found' = [found EXCEPT ![k] = ws]
  /\ UNCHANGED <<did, call, job, fanout>>
\* The effect a read-only token must not have.
Done(k) == did' = [did EXCEPT ![k] = TRUE]

Labelled(l) == {w \in Space : label[w] = l}

\* An action that zellij acknowledges: it waits for it without a bound.
PaneAction(k) ==
  /\ Running(k, "work") /\ method[k] \in PaneChange \cup TabChange \cup PaneLook
  /\ \/ /\ zellij = "up" /\ health["zellij"] = "up"
        /\ End(k, "ok")
        /\ IF method[k] \in PaneLook THEN UNCHANGED did ELSE Done(k)
     \/ zellij # "up" /\ End(k, "error") /\ UNCHANGED did
  /\ UNCHANGED <<world, watch>>

\* The same on herdr: what it has no request for is refused or does nothing; of
\* the rest, what is new goes to the active or first workspace, and a pane or a
\* tab may be unknown to the registry or to herdr.
Unsupported == {"WriteToPane", "ResizePane", "ScrollPane"}
NoOp == {"FocusPane", "TogglePaneFloating"}

HerdrAction(k) ==
  /\ Running(k, "work") /\ method[k] \in PaneChange \cup TabChange \cup PaneLook
  /\ \/ method[k] \in Unsupported /\ End(k, "refused") /\ UNCHANGED did
     \/ method[k] \in NoOp /\ End(k, "ok") /\ UNCHANGED did
     \/ /\ method[k] \notin Unsupported \cup NoOp
        /\ IF health["herdr"] = "down" \/ (method[k] \in {"NewPane", "NewTab"} /\ Labelled("none") = Space)
           THEN End(k, "error") /\ UNCHANGED did
           ELSE \/ End(k, "ok") /\ Done(k)
                \/ End(k, "refused") /\ UNCHANGED did
  /\ UNCHANGED <<world, watch>>

\* create_session: zellij is spawned, then its socket is waited for.
Spawn(k) ==
  /\ At(k, "CreateSession")
  /\ ~looked[k] /\ looked' = [looked EXCEPT ![k] = TRUE]
  /\ starting' = (starting \/ zellij \in {"none", "stale"})
  /\ did' = [did EXCEPT ![k] = TRUE]
  /\ UNCHANGED <<token, zellij, saved, label, health, trouble, found, call, job, list>>

Poll(k) ==
  /\ At(k, "CreateSession") /\ looked[k]
  /\ End(k, IF zellij = "none" THEN "error" ELSE "ok")
  /\ UNCHANGED <<world, watch, did>>

Kill(k) ==
  /\ At(k, "KillSession")
  /\ IF zellij \in {"up", "dying"}
     THEN zellij' = "dying" /\ End(k, "ok") /\ Done(k)
     ELSE End(k, "error") /\ UNCHANGED <<zellij, did>>
  /\ UNCHANGED <<token, saved, starting, label, health, trouble>>
  /\ Watch

HerdrFails(k) ==
  /\ \E m \in {"CreateOnHerdr", "RenameOnHerdr", "KillOnHerdr", "RenameSpace"} : At(k, m)
  /\ health["herdr"] = "down"
  /\ End(k, "error")
  /\ UNCHANGED <<world, watch, did>>

LookForLabel(k) ==
  /\ At(k, "CreateOnHerdr") /\ health["herdr"] = "up"
  /\ IF Labelled("name") # {} THEN ~looked[k] /\ End(k, "refused") /\ UNCHANGED did
     ELSE Look(k, {})
  /\ UNCHANGED <<world, watch>>

CreateWorkspace(k) ==
  /\ At(k, "CreateOnHerdr") /\ looked[k] /\ health["herdr"] = "up"
  /\ \E w \in Labelled("none") : label' = [label EXCEPT ![w] = "name"]
  /\ End(k, "ok") /\ Done(k)
  /\ UNCHANGED <<token, zellij, saved, starting, health, trouble, watch>>

\* workspace_id_for: the only workspace with that label, or none is meant.
LookForSpace(k) ==
  /\ At(k, "RenameOnHerdr") \/ At(k, "KillOnHerdr")
  /\ health["herdr"] = "up"
  /\ IF Cardinality(Labelled("other")) # 1 THEN ~looked[k] /\ End(k, "error") /\ UNCHANGED did
     ELSE Look(k, Labelled("other"))
  /\ UNCHANGED <<world, watch>>

RenameWorkspace(k) ==
  /\ At(k, "RenameOnHerdr") /\ looked[k] /\ health["herdr"] = "up"
  /\ \E w \in found[k] :
       IF label[w] = "none" THEN End(k, "refused") /\ UNCHANGED <<label, did>>
       ELSE label' = [label EXCEPT ![w] = "name"] /\ End(k, "ok") /\ Done(k)
  /\ UNCHANGED <<token, zellij, saved, starting, health, trouble, watch>>

\* kill_session: the workspace it found is closed, whatever its label is by now.
CloseWorkspace(k) ==
  /\ At(k, "KillOnHerdr") /\ looked[k] /\ health["herdr"] = "up"
  /\ \E w \in found[k] :
       IF label[w] = "none" THEN End(k, "error") /\ UNCHANGED <<label, did>>
       ELSE label' = [label EXCEPT ![w] = "none"] /\ End(k, "ok") /\ Done(k)
  /\ UNCHANGED <<token, zellij, saved, starting, health, trouble, watch>>

\* RenameSpace names a workspace by id, and asks nobody whether the label is taken.
RenameSpace(k) ==
  /\ At(k, "RenameSpace") /\ health["herdr"] = "up"
  /\ \E w \in Space :
       IF label[w] = "none" THEN End(k, "refused") /\ UNCHANGED <<label, did>>
       ELSE label' = [label EXCEPT ![w] = "name"] /\ End(k, "ok") /\ Done(k)
  /\ UNCHANGED <<token, zellij, saved, starting, health, trouble, watch>>

TokenWork(k) ==
  /\ \/ /\ At(k, "CreateToken")
        /\ \E t \in Token : token[t] = "unused" /\ token' = [token EXCEPT ![t] = "auth"]
     \/ /\ At(k, "RevokeToken")
        /\ \E t \in Token : /\ token[t] \in {"auth", "session"}
                            /\ token' = [token EXCEPT ![t] = "revoked"]
     \/ At(k, "ListTokens") /\ UNCHANGED token
  /\ End(k, "ok") /\ Done(k)
  /\ UNCHANGED <<zellij, saved, starting, label, health, trouble, watch>>

TokenFails(k) ==
  /\ At(k, "CreateToken") \/ At(k, "ListTokens") \/ At(k, "RevokeToken")
  /\ End(k, "error")
  /\ UNCHANGED <<world, watch, did>>

----------------------------------------------------------------------------
(* Outside.                                                                *)

Apart == UNCHANGED <<call, job, work, fanout>>

\* Login with a token that was created.
Login(t) ==
  /\ token[t] = "auth"
  /\ token' = [token EXCEPT ![t] = "session"]
  /\ UNCHANGED <<zellij, saved, starting, label, health, trouble, watch>> /\ Apart

\* What was spawned comes up, or does not; a killed session ends.
Comes ==
  /\ \/ /\ starting /\ starting' = FALSE
        /\ \/ zellij \in {"none", "stale"} /\ zellij' = "up"
           \/ zellij' = IF zellij = "stale" THEN "none" ELSE zellij
     \/ zellij = "dying" /\ zellij' = "none" /\ UNCHANGED starting
  /\ UNCHANGED <<token, saved, label, health, trouble>> /\ Apart
  /\ Watch

\* zellij crashes, saves the layout of a session that runs, or somebody deletes
\* it; a backend hangs, fails or is well again; a workspace of herdr is closed.
Trouble ==
  /\ trouble < MaxTrouble /\ trouble' = trouble + 1
  /\ \/ zellij = "up" /\ zellij' = "stale" /\ UNCHANGED <<saved, label, health>>
     \/ saved' = ~saved /\ (zellij = "up" \/ saved) /\ UNCHANGED <<zellij, label, health>>
     \/ /\ \E b \in Backend, h \in {"up", "stuck", "down"} :
             /\ h # health[b] /\ h # IF b = "zellij" THEN "down" ELSE "stuck"
             /\ health' = [health EXCEPT ![b] = h]
        /\ UNCHANGED <<zellij, saved, label>>
     \/ /\ \E w \in Space : label[w] # "none" /\ label' = [label EXCEPT ![w] = "none"]
        /\ UNCHANGED <<zellij, saved, health>>
  /\ UNCHANGED <<token, starting>> /\ Apart
  /\ Watch

----------------------------------------------------------------------------
Auth(k) == Arrive(k) \/ Validate(k) \/ ReadScope(k) \/ Handle(k)
Asks(k) == ListHerdr(k) \/ ReadLive(k) \/ ReadSaved(k) \/ CountSpaces(k)
Waits(k) == (\E b \in Backend : TimesOut(k, b)) \/ Merge(k) \/ Counted(k)
Works(k) ==
  \/ PaneAction(k) \/ HerdrAction(k) \/ Spawn(k) \/ Poll(k) \/ Kill(k)
  \/ HerdrFails(k) \/ LookForLabel(k) \/ CreateWorkspace(k) \/ LookForSpace(k) \/ RenameWorkspace(k)
  \/ CloseWorkspace(k) \/ RenameSpace(k) \/ TokenWork(k) \/ TokenFails(k)

Next ==
  \/ \E k \in Call : Auth(k) \/ Cancel(k) \/ \E t \in Task : Start(k, t)
  \/ \E k \in Lister : Asks(k) \/ Waits(k)
  \/ \E k \in Worker : Works(k)
  \/ \E t \in Token : Login(t)
  \/ Comes \/ Trouble

Spec == Init /\ [][Next]_vars

\* The runtime polls a handler that can go on, its timers included, and the
\* pool takes a task while it has a thread.  A task may hang for ever.  A listing
\* has finitely many steps, so it is enough that it takes some step it can take.
FairSpec ==
  /\ Spec
  /\ \A k \in Lister : WF_vars(Auth(k) \/ Waits(k) \/ Asks(k) \/ \E t \in Task : Start(k, t))

----------------------------------------------------------------------------
WorldOK ==
  /\ token \in [Token -> {"unused", "auth", "session", "revoked"}]
  /\ zellij \in {"none", "up", "dying", "stale"} /\ saved \in BOOLEAN /\ starting \in BOOLEAN
  /\ label \in [Space -> {"none", "name", "other"}]
  /\ health \in [Backend -> {"up", "stuck", "down"}] /\ trouble \in 0 .. MaxTrouble

CallOK ==
  /\ stage \in [Call -> {"idle", "auth", "scope", "handle", "wait", "count", "done", "gone"}]
  /\ method \in [Call -> Method \cup {"ListSessions", "none"}]
  /\ flag \in [Call -> {"none", "ro", "rw"}] /\ granted \in [Call -> BOOLEAN]
  /\ answer \in [Call -> {"none", "ok", "error", "refused", "denied", "unauthenticated"}]
  /\ job \in [Call -> [Task -> {"none", "queued", "running", "ended"}]]

WorkOK ==
  /\ looked \in [Call -> BOOLEAN] /\ found \in [Worker -> SUBSET Space]
  /\ did \in [Worker -> BOOLEAN]

ListOK ==
  /\ \A set \in {skipped, starved, steady} : set \in [Lister -> SUBSET Backend]
  /\ \A set \in {got, listed} : set \in [Lister -> SUBSET Entry]
  /\ seen \in [Lister -> SUBSET (Entry \cup {"dead"})]

TypeOK == WorldOK /\ CallOK /\ WorkOK /\ ListOK

\* What only a writer may do - change a session, a space or a token, or read
\* the tokens - is done for a call that came with a token valid and able to
\* write, whatever the database answers and whoever revokes it meanwhile
\* (check_bearer and reject_if_read_only).
OnlyWritersDo == \A k \in Worker : did[k] => granted[k]

\* A listing shows what is there: as running what ran at some moment of the
\* call, as one to resurrect what was saved at some moment and did not run at
\* some moment - not always the same, since sockets and layouts are read one
\* after the other - and a session of zellij as one of the two only
\* (list_sessions_with_resurrectables of either backend).
NoPhantoms ==
  \A k \in Lister : /\ listed[k] \subseteq seen[k]
                   /\ "saved" \in listed[k] => "dead" \in seen[k] /\ "zellij" \notin listed[k]

\* A backend that fails or hangs does not hide the session of the other, if
\* there was a thread to ask it (the degrading arms of list_sessions_impl).
HealthyIsShown ==
  \A k \in Lister : answer[k] = "ok" => steady[k] \subseteq listed[k] \cup starved[k]

\* A listing is answered though a backend hangs and every thread with it.
ListsEnd == \A k \in Lister : stage[k] = "wait" ~> stage[k] \in {"done", "gone"}
=============================================================================
