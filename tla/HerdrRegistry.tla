--------------------------- MODULE HerdrRegistry ---------------------------
(***************************************************************************)
(* The numeric ids of the herdr backend (muxrd/src/multiplexer/herdr:      *)
(* registry.rs, control.rs, relay.rs): herdr names its panes, tabs and     *)
(* terminals by strings, clients by numbers, and two registries shared by  *)
(* all layout queries and relays translate between them.                   *)
(*                                                                         *)
(* A layout query is several calls to the herdr daemon and then one call   *)
(* of a registry per pane and tab; the daemon and the other threads go on  *)
(* between any two of them.  Each call of a registry holds its lock.       *)
(***************************************************************************)
EXTENDS Naturals

CONSTANTS
  Space, Tab, Pane,       \* herdr's workspaces, and what they ever contain
  SpaceOf, TabOf,         \* the workspace of each tab, the tab of each pane
  NoSpace, NoTab, NoTerm, \* none; NoTerm is the empty terminal_id
  AtStart,                \* bound: the panes that are open from the start
  Closing,                \* bound: the panes that may be closed
  Query,                  \* threads that query a layout
  Relay,                  \* attached relays, which re-attach to other panes
  MaxPaneId, MaxTabId     \* u32::MAX and u64::MAX

ASSUME RegistryAssumption ==
  /\ SpaceOf \in [Tab -> Space] /\ TabOf \in [Pane -> Tab]
  /\ NoSpace \notin Space /\ NoTab \notin Tab /\ NoTerm \notin Pane
  /\ AtStart \subseteq Pane /\ Closing \subseteq Pane
  /\ Query \cap Relay = {}
  /\ MaxPaneId \in Nat \ {0} /\ MaxTabId \in Nat \ {0}

Worker == Query \cup Relay

VARIABLES
  daemon,    \* of each pane: "new", "open" or "closed" (external)
  nextPane, paneId, paneOf, termOf,   \* HerdrPaneRegistry
  nextTab, tabId, tabOf,              \* HerdrTabRegistry
  step,      \* where each thread is
  want,      \* the workspace, and the tab if one is named, it works on
  list,      \* the panes pane.list returned to it
  todo,      \* panes it has still to register
  left,      \* tabs it has still to ask the layout of, or to draw
  drawn,     \* panes of the layouts it was given
  space,     \* of each relay: the workspace it is on
  at,        \* the terminal its stream is attached to, and how it got there
  shown      \* pane ids handed to clients, with the pane each stood for (history)

paneVars   == <<nextPane, paneId, paneOf, termOf>>
tabVars    == <<nextTab, tabId, tabOf>>
workVars   == <<step, want, list, todo, left, drawn>>
relayVars  == <<space, at>>
vars == <<daemon, paneVars, tabVars, workVars, relayVars, shown>>

----------------------------------------------------------------------------
Open(p) == daemon[p] = "open"
PanesOf(s) == {p \in Pane : Open(p) /\ SpaceOf[TabOf[p]] = s}

Extend(f, x, y) == [z \in DOMAIN f \cup {x} |-> IF z = x THEN y ELSE f[z]]
Unattached == [term |-> NoTerm, by |-> "none"]
Nothing == [space |-> NoSpace, tab |-> NoTab]

Init ==
  /\ daemon = [p \in Pane |-> IF p \in AtStart THEN "open" ELSE "new"]
  /\ nextPane = 1 /\ paneId = <<>> /\ paneOf = <<>> /\ termOf = <<>>
  /\ nextTab = 1 /\ tabId = <<>> /\ tabOf = <<>>
  /\ step = [w \in Worker |-> "idle"]
  /\ want = [w \in Worker |-> Nothing]
  /\ list = [w \in Worker |-> {}] /\ todo = [w \in Worker |-> {}]
  /\ left = [w \in Worker |-> {}] /\ drawn = [w \in Worker |-> {}]
  /\ space = [r \in Relay |-> NoSpace] /\ at = [r \in Relay |-> Unattached]
  /\ shown = {}

----------------------------------------------------------------------------
(* registry.rs.                                                            *)

\* A plausible bug: wrapping_add.
WrappingAfter(n, max) == IF n < max THEN n + 1 ELSE 1

\* checked_add: the id after the last one is the last one.
After(n, max) == IF n < max THEN n + 1 ELSE n

AssignPane(p, t) ==
  IF p \in DOMAIN paneId
  THEN /\ termOf' = [termOf EXCEPT ![paneId[p]] = t]
       /\ UNCHANGED <<nextPane, paneId, paneOf>>
  ELSE /\ paneId' = Extend(paneId, p, nextPane)
       /\ paneOf' = Extend(paneOf, nextPane, p)
       /\ termOf' = Extend(termOf, nextPane, t)
       /\ nextPane' = After(nextPane, MaxPaneId)

AssignTab(t) ==
  IF t \in DOMAIN tabId THEN UNCHANGED tabVars
  ELSE /\ tabId' = Extend(tabId, t, nextTab)
       /\ tabOf' = Extend(tabOf, nextTab, t)
       /\ nextTab' = After(nextTab, MaxTabId)

\* The id the registry now has for a pane.
IdOf(p) == paneId'[p]

----------------------------------------------------------------------------
(* Layout queries: query_layout and transcode_layout.                      *)

Goto(w, s) == step' = [step EXCEPT ![w] = s]

\* The work of a thread is over, and what it held is dropped.
Finish(w) ==
  /\ Goto(w, "idle")
  /\ want' = [want EXCEPT ![w] = Nothing]
  /\ list' = [list EXCEPT ![w] = {}]
  /\ todo' = [todo EXCEPT ![w] = {}]
  /\ left' = [left EXCEPT ![w] = {}]
  /\ drawn' = [drawn EXCEPT ![w] = {}]

\* workspace.list, which tells the active tab only, and tab.list.
ListTabs(q) ==
  /\ step[q] = "idle"
  /\ Goto(q, "panes")
  /\ \E s \in Space :
       /\ want' = [want EXCEPT ![q] = [space |-> s, tab |-> NoTab]]
       /\ left' = [left EXCEPT ![q] = {TabOf[p] : p \in PanesOf(s)}]
  /\ UNCHANGED <<daemon, paneVars, tabVars, list, todo, drawn, relayVars, shown>>

\* pane.list, by a query, and by a relay that looks for a pane to attach to.
ListPanes(w) ==
  /\ step[w] = "panes"
  /\ Goto(w, "listed")
  /\ list' = [list EXCEPT ![w] = PanesOf(want[w].space)]
  /\ todo' = [todo EXCEPT ![w] = PanesOf(want[w].space)]
  /\ UNCHANGED <<daemon, paneVars, tabVars, want, left, drawn, relayVars, shown>>

\* pane.layout, by the first pane listed for each tab, if one was; it fails
\* when that pane is gone.
Listed(q, t) == {p \in list[q] : TabOf[p] = t}
Unasked(w) ==
  {t \in left[w] : Listed(w, t) # {} /\ Listed(w, t) \cap drawn[w] = {}}

PaneLayout(q) ==
  /\ step[q] = "listed"
  /\ \E t \in Unasked(q) : \E p \in Listed(q, t) :
       /\ Open(p)
       /\ drawn' = [drawn EXCEPT ![q] = @ \cup {x \in Pane : Open(x) /\ TabOf[x] = t}]
  /\ UNCHANGED <<daemon, paneVars, tabVars, step, want, list, todo, left,
                 relayVars, shown>>

\* Any call to the daemon may fail, or time out, and with it what it was for.
Fail(w) ==
  /\ step[w] = "panes" \/ (step[w] = "listed" /\ Unasked(w) # {})
  /\ Finish(w)
  /\ UNCHANGED <<daemon, paneVars, tabVars, relayVars, shown>>

\* When the calls are done: every listed pane, one after the other.
Register(w) ==
  /\ step[w] = "listed" /\ Unasked(w) = {}
  /\ \E p \in todo[w] :
       /\ AssignPane(p, p)
       /\ todo' = [todo EXCEPT ![w] = @ \ {p}]
  /\ UNCHANGED <<daemon, tabVars, step, want, list, left, drawn, relayVars, shown>>

Registered(w) ==
  /\ todo[w] = {}
  /\ step[w] = "draw" \/ (step[w] = "listed" /\ Unasked(w) = {})

\* Then every tab, and in it every pane of its layout.
DrawTab(q) ==
  /\ Registered(q)
  /\ Goto(q, "draw")
  /\ \E t \in left[q] :
       /\ AssignTab(t)
       /\ todo' = [todo EXCEPT ![q] = {p \in drawn[q] : TabOf[p] = t}]
       /\ left' = [left EXCEPT ![q] = @ \ {t}]
  /\ UNCHANGED <<daemon, paneVars, want, list, drawn, relayVars, shown>>

\* A pane of a layout that was not listed is registered without a terminal.
ListedTerm(q, p) == IF p \in list[q] THEN p ELSE NoTerm

DrawPane(q) ==
  /\ step[q] = "draw"
  /\ \E p \in todo[q] :
       /\ AssignPane(p, ListedTerm(q, p))
       /\ todo' = [todo EXCEPT ![q] = @ \ {p}]
       /\ shown' = shown \cup {<<IdOf(p), p>>}
  /\ UNCHANGED <<daemon, tabVars, step, want, list, left, drawn, relayVars>>

Drawn(q) ==
  /\ Registered(q) /\ left[q] = {}
  /\ Finish(q)
  /\ UNCHANGED <<daemon, paneVars, tabVars, relayVars, shown>>

----------------------------------------------------------------------------
(* The relay's control plane: HerdrMuxSender.                              *)

\* switch_space, and the attach itself, which is to the same effect.
SwitchSpace(r) ==
  /\ step[r] = "idle"
  /\ Goto(r, "panes")
  /\ \E s \in Space : want' = [want EXCEPT ![r] = [space |-> s, tab |-> NoTab]]
  /\ UNCHANGED <<daemon, paneVars, tabVars, list, todo, left, drawn,
                 relayVars, shown>>

\* go_to_tab, for any tab id that was assigned.
GoToTab(r) ==
  /\ step[r] = "idle" /\ at[r] # Unattached
  /\ Goto(r, "panes")
  /\ \E id \in DOMAIN tabOf :
       want' = [want EXCEPT ![r] = [space |-> space[r], tab |-> tabOf[id]]]
  /\ UNCHANGED <<daemon, paneVars, tabVars, list, todo, left, drawn,
                 relayVars, shown>>

\* resolve_focused_terminal, pick_tab_pane: the focused pane, or the first.
Candidates(r) ==
  {p \in list[r] : want[r].tab \in {NoTab, TabOf[p]}}

\* A plausible bug: the new space is recorded before the stream is re-pointed.
RecordThenReattach(r) ==
  /\ Registered(r)
  /\ Finish(r)
  /\ space' = [space EXCEPT ![r] = want[r].space]
  /\ \/ UNCHANGED at
     \/ \E p \in Candidates(r) : at' = [at EXCEPT ![r] = [term |-> p, by |-> "resolve"]]
  /\ UNCHANGED <<daemon, paneVars, tabVars, shown>>

\* reattach: nothing is recorded of one that has no pane or cannot be written.
Reattach(r) ==
  /\ Registered(r)
  /\ Finish(r)
  /\ \/ UNCHANGED relayVars
     \/ \E p \in Candidates(r) :
          /\ at' = [at EXCEPT ![r] = [term |-> p, by |-> "resolve"]]
          /\ space' = [space EXCEPT ![r] = want[r].space]
  /\ UNCHANGED <<daemon, paneVars, tabVars, shown>>

\* focus_pane: by an id a client was shown, on whatever terminal is registered.
FocusPane(r) ==
  /\ step[r] = "idle" /\ at[r] # Unattached
  /\ \E ref \in shown : at' = [at EXCEPT ![r] = [term |-> termOf[ref[1]], by |-> "focus"]]
  /\ UNCHANGED <<daemon, paneVars, tabVars, workVars, space, shown>>

----------------------------------------------------------------------------
(* The herdr daemon (external).                                            *)

OpenPane(p) ==
  /\ daemon[p] = "new"
  /\ daemon' = [daemon EXCEPT ![p] = "open"]
  /\ UNCHANGED <<paneVars, tabVars, workVars, relayVars, shown>>

ClosePane(p) ==
  /\ Open(p) /\ p \in Closing
  /\ daemon' = [daemon EXCEPT ![p] = "closed"]
  /\ UNCHANGED <<paneVars, tabVars, workVars, relayVars, shown>>

----------------------------------------------------------------------------
(* Calls of clients that are not through a relay: HerdrBackend.  What they *)
(* name they name by id; an id without a pane or tab is refused, and herdr *)
(* refuses what is closed.                                                 *)

Frame == UNCHANGED <<paneVars, tabVars, workVars, relayVars, shown>>
Close(panes) ==
  /\ panes # {} /\ panes \subseteq Closing
  /\ daemon' = [p \in Pane |-> IF p \in panes THEN "closed" ELSE daemon[p]]

\* close_pane, for an id the client was shown.
CloseRef ==
  /\ \E ref \in shown : Open(paneOf[ref[1]]) /\ Close({paneOf[ref[1]]})
  /\ Frame

\* close_tab: its panes go with it.
CloseTab ==
  /\ \E id \in DOMAIN tabOf :
       LET panes == {p \in Pane : Open(p) /\ TabOf[p] = tabOf[id]}
       IN Close(panes)
  /\ Frame

\* new_pane: a split, in a workspace that is looked up first.
NewPane ==
  /\ \E p, beside \in Pane :
       /\ daemon[p] = "new" /\ Open(beside) /\ TabOf[beside] = TabOf[p]
       /\ daemon' = [daemon EXCEPT ![p] = "open"]
  /\ Frame

----------------------------------------------------------------------------
Work(w) == Fail(w) \/ ListPanes(w) \/ Register(w)
Layout(q) == \/ ListTabs(q) \/ PaneLayout(q) \/ DrawTab(q) \/ DrawPane(q) \/ Drawn(q)
Control(r) == SwitchSpace(r) \/ GoToTab(r) \/ Reattach(r) \/ FocusPane(r)
Daemon == \E p \in Pane : OpenPane(p) \/ ClosePane(p)

Next == \/ \E w \in Worker : Work(w)
        \/ \E q \in Query : Layout(q)
        \/ \E r \in Relay : Control(r)
        \/ CloseRef \/ CloseTab \/ NewPane
        \/ Daemon

Spec == Init /\ [][Next]_vars

----------------------------------------------------------------------------
PaneTypeOK ==
  /\ nextPane \in 1 .. MaxPaneId
  /\ DOMAIN paneId \subseteq Pane
  /\ paneId \in [DOMAIN paneId -> 1 .. nextPane]
  /\ DOMAIN paneOf \subseteq 1 .. nextPane
  /\ paneOf \in [DOMAIN paneOf -> Pane]
  /\ DOMAIN termOf = DOMAIN paneOf
  /\ termOf \in [DOMAIN termOf -> Pane \cup {NoTerm}]

TabTypeOK ==
  /\ nextTab \in 1 .. MaxTabId
  /\ DOMAIN tabId \subseteq Tab
  /\ tabId \in [DOMAIN tabId -> 1 .. nextTab]
  /\ DOMAIN tabOf \subseteq 1 .. nextTab
  /\ tabOf \in [DOMAIN tabOf -> Tab]

WorkTypeOK ==
  /\ daemon \in [Pane -> {"new", "open", "closed"}]
  /\ step \in [Worker -> {"idle", "panes", "listed", "draw"}]
  /\ want \in [Worker -> [space : Space \cup {NoSpace}, tab : Tab \cup {NoTab}]]
  /\ list \in [Worker -> SUBSET Pane]
  /\ todo \in [Worker -> SUBSET Pane]
  /\ left \in [Worker -> SUBSET Tab] /\ drawn \in [Worker -> SUBSET Pane]
  /\ space \in [Relay -> Space \cup {NoSpace}]
  /\ at \in [Relay -> [term : Pane \cup {NoTerm}, by : {"none", "resolve", "focus"}]]
  /\ shown \subseteq (1 .. MaxPaneId) \X Pane

TypeOK == PaneTypeOK /\ TabTypeOK /\ WorkTypeOK

\* A pane id handed to a client resolves to the pane it stood for, however many
\* queries and relays assign ids at once and whatever was closed since: no id
\* is ever used again, but for the very last one, on which the registry stays
\* when it has run out (assign_or_get).  A FocusPane never attaches the stream
\* to another pane's terminal.
RefsResolve ==
  \A ref \in shown :
    ref[1] # MaxPaneId =>
      paneOf[ref[1]] = ref[2] /\ termOf[ref[1]] \in {ref[2], NoTerm}

\* A relay that was re-pointed at a tab or a space shows a pane of the space
\* its layouts are of: a switch that fails half way changes neither, and a tab
\* id from another space attaches to nothing (switch_space, go_to_tab).
ResolvedInItsSpace ==
  \A r \in Relay : at[r].by = "resolve" => SpaceOf[TabOf[at[r].term]] = space[r]

=============================================================================
