---------------------------- MODULE HerdrProofs ----------------------------
(* What HerdrRegistry promises, proved for any panes, tabs, workspaces,    *)
(* threads and widths of the ids; and what HerdrWire promises, for any     *)
(* terminals, sizes, bounds of the socket and number of frames.            *)
EXTENDS HerdrRegistry, HerdrWire, TLAPS

(***************************************************************************)
(* The registries by themselves.                                           *)
(***************************************************************************)

\* Every registered pane has an id below the next one, or the last one there
\* is; and an id that is not the last one leads back to its pane.
PaneIdsAreFresh ==
  \A p \in DOMAIN paneId : paneId[p] = nextPane => nextPane = MaxPaneId

PaneIdsLeadBack ==
  \A p \in DOMAIN paneId :
    /\ paneId[p] \in DOMAIN paneOf
    /\ paneId[p] # MaxPaneId =>
         paneOf[paneId[p]] = p /\ termOf[paneId[p]] \in {p, NoTerm}

\* The next id is one there is, and later than the one before unless that was
\* the last (checked_add).
LEMMA AfterInRange ==
  ASSUME NEW max \in Nat \ {0}, NEW n \in 1 .. max
  PROVE  /\ After(n, max) \in 1 .. max
         /\ n <= After(n, max)
         /\ After(n, max) = n => n = max
  BY DEF After

\* Adding an entry to a map keeps the others (HashMap::insert).
LEMMA ExtendIsFunction ==
  ASSUME NEW f, NEW x, NEW y
  PROVE  /\ DOMAIN Extend(f, x, y) = DOMAIN f \cup {x}
         /\ Extend(f, x, y)[x] = y
         /\ \A z \in DOMAIN f : z # x => Extend(f, x, y)[z] = f[z]
         /\ Extend(f, x, y) = [z \in DOMAIN Extend(f, x, y) |-> Extend(f, x, y)[z]]
  BY DEF Extend

\* assign_or_get keeps the pane registry well-formed.
LEMMA AssignPaneType ==
  ASSUME PaneTypeOK, NEW p \in Pane, NEW t \in Pane \cup {NoTerm}, AssignPane(p, t)
  PROVE  PaneTypeOK'
<1> USE RegistryAssumption
<1>1. CASE p \in DOMAIN paneId
  BY <1>1 DEF AssignPane, PaneTypeOK
<1>2. CASE p \notin DOMAIN paneId
  <2>1. /\ paneId' = Extend(paneId, p, nextPane)
        /\ paneOf' = Extend(paneOf, nextPane, p)
        /\ termOf' = Extend(termOf, nextPane, t)
        /\ nextPane' = After(nextPane, MaxPaneId)
    BY <1>2 DEF AssignPane
  <2>2. nextPane' \in 1 .. MaxPaneId /\ nextPane <= nextPane'
    BY <2>1, AfterInRange DEF PaneTypeOK
  <2>3. DOMAIN paneId' \subseteq Pane /\ paneId' \in [DOMAIN paneId' -> 1 .. nextPane']
    BY <2>1, <2>2 DEF PaneTypeOK, Extend
  <2>4. DOMAIN paneOf' \subseteq 1 .. nextPane' /\ paneOf' \in [DOMAIN paneOf' -> Pane]
    BY <2>1, <2>2 DEF PaneTypeOK, Extend
  <2>5. DOMAIN termOf' = DOMAIN paneOf'
    BY <2>1 DEF PaneTypeOK, Extend
  <2>6. termOf' \in [DOMAIN termOf' -> Pane \cup {NoTerm}]
    BY <2>1 DEF PaneTypeOK, Extend
  <2> QED BY <2>2, <2>3, <2>4, <2>5, <2>6 DEF PaneTypeOK
<1> QED BY <1>1, <1>2

\* assign_or_get gives a pane the id it has, or one nobody has, or the last;
\* and no other pane's id or entry changes with it, except the last entry's.
LEMMA AssignPaneKeeps ==
  ASSUME PaneTypeOK, PaneIdsAreFresh, PaneIdsLeadBack,
         NEW p \in Pane, NEW t \in {p, NoTerm}, AssignPane(p, t)
  PROVE  /\ PaneIdsAreFresh' /\ PaneIdsLeadBack'
         /\ p \in DOMAIN paneId'
         /\ \A x \in DOMAIN paneId : x \in DOMAIN paneId' /\ paneId'[x] = paneId[x]
<1> USE RegistryAssumption
<1>1. CASE p \in DOMAIN paneId
  <2>1. /\ termOf' = [termOf EXCEPT ![paneId[p]] = t]
        /\ nextPane' = nextPane /\ paneId' = paneId /\ paneOf' = paneOf
    BY <1>1 DEF AssignPane
  <2>2. ASSUME NEW x \in DOMAIN paneId, paneId[x] # MaxPaneId
        PROVE  termOf'[paneId[x]] \in {x, NoTerm}
    <3>1. CASE paneId[x] = paneId[p]
      <4>1. x = p
        BY <1>1, <2>2, <3>1 DEF PaneIdsLeadBack
      <4> QED BY <2>1, <4>1, <2>2 DEF PaneIdsLeadBack, PaneTypeOK
    <3>2. CASE paneId[x] # paneId[p]
      BY <2>1, <2>2, <3>2 DEF PaneIdsLeadBack, PaneTypeOK
    <3> QED BY <3>1, <3>2
  <2> QED BY <1>1, <2>1, <2>2 DEF PaneIdsAreFresh, PaneIdsLeadBack
<1>2. CASE p \notin DOMAIN paneId
  <2>1. /\ paneId' = Extend(paneId, p, nextPane)
        /\ paneOf' = Extend(paneOf, nextPane, p)
        /\ termOf' = Extend(termOf, nextPane, t)
        /\ nextPane' = After(nextPane, MaxPaneId)
    BY <1>2 DEF AssignPane
  <2>2. /\ nextPane' \in 1 .. MaxPaneId /\ nextPane <= nextPane'
        /\ nextPane' = nextPane => nextPane = MaxPaneId
    BY <2>1, AfterInRange DEF PaneTypeOK
  <2>3. /\ DOMAIN paneId' = DOMAIN paneId \cup {p} /\ paneId'[p] = nextPane
        /\ \A x \in DOMAIN paneId : paneId'[x] = paneId[x]
    BY <1>2, <2>1 DEF Extend
  <2>4. PaneIdsAreFresh'
    BY <2>2, <2>3 DEF PaneIdsAreFresh, PaneTypeOK
  <2>5. /\ DOMAIN paneOf' = DOMAIN paneOf \cup {nextPane}
        /\ paneOf'[nextPane] = p /\ termOf'[nextPane] = t
        /\ \A id \in DOMAIN paneOf :
             id # nextPane => paneOf'[id] = paneOf[id] /\ termOf'[id] = termOf[id]
    BY <2>1 DEF Extend, PaneTypeOK
  <2>6. ASSUME NEW x \in DOMAIN paneId, paneId[x] # MaxPaneId
        PROVE  /\ paneOf'[paneId[x]] = x
               /\ termOf'[paneId[x]] \in {x, NoTerm}
    <3>1. paneId[x] # nextPane
      BY <2>6 DEF PaneIdsAreFresh
    <3> QED BY <2>5, <2>6, <3>1 DEF PaneIdsLeadBack
  <2>7. PaneIdsLeadBack'
    BY <2>3, <2>5, <2>6 DEF PaneIdsLeadBack
  <2> QED BY <2>3, <2>4, <2>7
<1> QED BY <1>1, <1>2

\* assign_or_get keeps the tab registry well-formed.
LEMMA AssignTabType ==
  ASSUME TabTypeOK, NEW t \in Tab, AssignTab(t)
  PROVE  TabTypeOK'
<1> USE RegistryAssumption
<1>1. CASE t \in DOMAIN tabId
  BY <1>1 DEF AssignTab, TabTypeOK, tabVars
<1>2. CASE t \notin DOMAIN tabId
  <2>1. /\ tabId' = Extend(tabId, t, nextTab)
        /\ tabOf' = Extend(tabOf, nextTab, t)
        /\ nextTab' = After(nextTab, MaxTabId)
    BY <1>2 DEF AssignTab
  <2>2. nextTab' \in 1 .. MaxTabId /\ nextTab <= nextTab'
    BY <2>1, AfterInRange DEF TabTypeOK
  <2>3. DOMAIN tabId' \subseteq Tab /\ tabId' \in [DOMAIN tabId' -> 1 .. nextTab']
    BY <2>1, <2>2 DEF TabTypeOK, Extend
  <2>4. DOMAIN tabOf' \subseteq 1 .. nextTab' /\ tabOf' \in [DOMAIN tabOf' -> Tab]
    BY <2>1, <2>2 DEF TabTypeOK, Extend
  <2> QED BY <2>2, <2>3, <2>4 DEF TabTypeOK
<1> QED BY <1>1, <1>2

\* What a client was shown of a pane is still the id of that pane.
ShownIdsStand ==
  \A ref \in shown : ref[2] \in DOMAIN paneId /\ ref[1] = paneId[ref[2]]

\* The inductive invariant.  The type of `at' rests on the rest of it: a relay
\* takes the terminal of an id it was given, which has to be registered.
Inv == TypeOK /\ PaneIdsAreFresh /\ PaneIdsLeadBack /\ ShownIdsStand

(***************************************************************************)
(* Type correctness.                                                       *)
(***************************************************************************)

\* The types hold at the start.
LEMMA InitTypeOK == Init => TypeOK
<1> SUFFICES ASSUME Init PROVE TypeOK
  OBVIOUS
<1> USE RegistryAssumption DEF Init
<1>1. PaneTypeOK
  BY DEF PaneTypeOK
<1>2. TabTypeOK
  BY DEF TabTypeOK
<1>3. WorkTypeOK
  BY DEF WorkTypeOK, Nothing, Unattached
<1> QED BY <1>1, <1>2, <1>3 DEF TypeOK

\* The panes of a workspace are panes.
LEMMA PanesOfType == \A s : PanesOf(s) \subseteq Pane
  BY DEF PanesOf

\* A thread that is done keeps the types.
LEMMA FinishType ==
  ASSUME WorkTypeOK, NEW w \in Worker, Finish(w)
  PROVE  /\ step' \in [Worker -> {"idle", "panes", "listed", "draw"}]
         /\ want' \in [Worker -> [space : Space \cup {NoSpace}, tab : Tab \cup {NoTab}]]
         /\ list' \in [Worker -> SUBSET Pane] /\ todo' \in [Worker -> SUBSET Pane]
         /\ left' \in [Worker -> SUBSET Tab] /\ drawn' \in [Worker -> SUBSET Pane]
<1>1. step' \in [Worker -> {"idle", "panes", "listed", "draw"}]
  BY DEF WorkTypeOK, Finish, Goto
<1>2. want' \in [Worker -> [space : Space \cup {NoSpace}, tab : Tab \cup {NoTab}]]
  BY DEF WorkTypeOK, Finish, Nothing
<1>3. list' \in [Worker -> SUBSET Pane] /\ todo' \in [Worker -> SUBSET Pane]
  BY DEF WorkTypeOK, Finish
<1>4. left' \in [Worker -> SUBSET Tab] /\ drawn' \in [Worker -> SUBSET Pane]
  BY DEF WorkTypeOK, Finish
<1> QED BY <1>1, <1>2, <1>3, <1>4

\* What clients do by id, without a relay, changes the daemon only.
LEMMA OthersFrame ==
  ASSUME CloseRef \/ CloseTab \/ NewPane
  PROVE  UNCHANGED <<paneVars, tabVars, workVars, relayVars, shown>>
  BY DEF CloseRef, CloseTab, NewPane, Frame

\* Every step keeps the types.
LEMMA NextTypeOK == Inv /\ [Next]_vars => TypeOK'
<1> SUFFICES ASSUME Inv, [Next]_vars PROVE TypeOK'
  OBVIOUS
<1> USE RegistryAssumption DEF TypeOK, Inv
<1>1. ASSUME NEW w \in Worker, Fail(w) PROVE TypeOK'
  <2>1. PaneTypeOK' /\ TabTypeOK'
    BY <1>1 DEF Fail, paneVars, tabVars, PaneTypeOK, TabTypeOK
  <2>2. WorkTypeOK'
    BY <1>1, FinishType DEF Fail, relayVars, WorkTypeOK
  <2> QED BY <2>1, <2>2
<1>2. ASSUME NEW w \in Worker, ListPanes(w) PROVE TypeOK'
  <2>1. PaneTypeOK' /\ TabTypeOK'
    BY <1>2 DEF ListPanes, paneVars, tabVars, PaneTypeOK, TabTypeOK
  <2>2. WorkTypeOK'
    BY <1>2, PanesOfType DEF ListPanes, Goto, relayVars, WorkTypeOK
  <2> QED BY <2>1, <2>2
<1>3. ASSUME NEW w \in Worker, Register(w) PROVE TypeOK'
  <2>1. PICK p \in todo[w] : /\ AssignPane(p, p)
                             /\ todo' = [todo EXCEPT ![w] = @ \ {p}]
    BY <1>3 DEF Register
  <2>2. PaneTypeOK'
    BY <2>1, AssignPaneType DEF WorkTypeOK
  <2>3. TabTypeOK'
    BY <1>3 DEF Register, tabVars, TabTypeOK
  <2>4. WorkTypeOK'
    BY <1>3, <2>1 DEF Register, relayVars, WorkTypeOK
  <2> QED BY <2>2, <2>3, <2>4
<1>4. ASSUME NEW q \in Query, ListTabs(q) PROVE TypeOK'
  <2>1. PaneTypeOK' /\ TabTypeOK'
    BY <1>4 DEF ListTabs, paneVars, tabVars, PaneTypeOK, TabTypeOK
  <2>2. PICK s \in Space :
          /\ want' = [want EXCEPT ![q] = [space |-> s, tab |-> NoTab]]
          /\ left' = [left EXCEPT ![q] = {TabOf[p] : p \in PanesOf(s)}]
    BY <1>4 DEF ListTabs
  <2>3. {TabOf[p] : p \in PanesOf(s)} \subseteq Tab
    BY PanesOfType
  <2>4. WorkTypeOK'
    BY <1>4, <2>2, <2>3 DEF ListTabs, Goto, Worker, relayVars, WorkTypeOK
  <2> QED BY <2>1, <2>4
<1>5. ASSUME NEW q \in Query, PaneLayout(q) PROVE TypeOK'
  <2>1. PaneTypeOK' /\ TabTypeOK'
    BY <1>5 DEF PaneLayout, paneVars, tabVars, PaneTypeOK, TabTypeOK
  <2>2. WorkTypeOK'
    BY <1>5 DEF PaneLayout, Worker, relayVars, WorkTypeOK
  <2> QED BY <2>1, <2>2
<1>6. ASSUME NEW q \in Query, DrawTab(q) PROVE TypeOK'
  <2>1. PICK t \in left[q] :
          /\ AssignTab(t)
          /\ todo' = [todo EXCEPT ![q] = {p \in drawn[q] : TabOf[p] = t}]
          /\ left' = [left EXCEPT ![q] = @ \ {t}]
    BY <1>6 DEF DrawTab
  <2>2. TabTypeOK'
    BY <2>1, AssignTabType DEF WorkTypeOK, Worker
  <2>3. PaneTypeOK'
    BY <1>6 DEF DrawTab, paneVars, PaneTypeOK
  <2>4. WorkTypeOK'
    BY <1>6, <2>1 DEF DrawTab, Goto, Worker, relayVars, WorkTypeOK
  <2> QED BY <2>2, <2>3, <2>4
<1>7. ASSUME NEW q \in Query, DrawPane(q) PROVE TypeOK'
  <2>1. PICK p \in todo[q] : /\ AssignPane(p, ListedTerm(q, p))
                             /\ todo' = [todo EXCEPT ![q] = @ \ {p}]
                             /\ shown' = shown \cup {<<IdOf(p), p>>}
    BY <1>7 DEF DrawPane
  <2>2. p \in Pane /\ ListedTerm(q, p) \in Pane \cup {NoTerm}
    BY DEF WorkTypeOK, Worker, ListedTerm
  <2>3. PaneTypeOK'
    BY <2>1, <2>2, AssignPaneType
  <2>4. TabTypeOK'
    BY <1>7 DEF DrawPane, tabVars, TabTypeOK
  <2>5. IdOf(p) \in 1 .. MaxPaneId
    BY <2>1, <2>3 DEF AssignPane, IdOf, Extend, PaneTypeOK
  <2>6. shown' \subseteq (1 .. MaxPaneId) \X Pane
    BY <2>1, <2>2, <2>5 DEF WorkTypeOK
  <2>7. WorkTypeOK'
    BY <1>7, <2>1, <2>6 DEF DrawPane, Worker, relayVars, WorkTypeOK
  <2> QED BY <2>3, <2>4, <2>7
<1>8. ASSUME NEW q \in Query, Drawn(q) PROVE TypeOK'
  <2>1. PaneTypeOK' /\ TabTypeOK'
    BY <1>8 DEF Drawn, paneVars, tabVars, PaneTypeOK, TabTypeOK
  <2>2. WorkTypeOK'
    BY <1>8, FinishType DEF Drawn, Worker, relayVars, WorkTypeOK
  <2> QED BY <2>1, <2>2
<1>9. ASSUME NEW r \in Relay, SwitchSpace(r) PROVE TypeOK'
  <2>1. PaneTypeOK' /\ TabTypeOK'
    BY <1>9 DEF SwitchSpace, paneVars, tabVars, PaneTypeOK, TabTypeOK
  <2>2. WorkTypeOK'
    BY <1>9 DEF SwitchSpace, Goto, Worker, relayVars, WorkTypeOK
  <2> QED BY <2>1, <2>2
<1>10. ASSUME NEW r \in Relay, GoToTab(r) PROVE TypeOK'
  <2>1. PaneTypeOK' /\ TabTypeOK'
    BY <1>10 DEF GoToTab, paneVars, tabVars, PaneTypeOK, TabTypeOK
  <2>2. WorkTypeOK'
    BY <1>10 DEF GoToTab, Goto, Worker, relayVars, TabTypeOK, WorkTypeOK
  <2> QED BY <2>1, <2>2
<1>11. ASSUME NEW r \in Relay, Reattach(r) PROVE TypeOK'
  <2>1. PaneTypeOK' /\ TabTypeOK'
    BY <1>11 DEF Reattach, paneVars, tabVars, PaneTypeOK, TabTypeOK
  <2>2. /\ space' \in [Relay -> Space \cup {NoSpace}]
        /\ at' \in [Relay -> [term : Pane \cup {NoTerm}, by : {"none", "resolve", "focus"}]]
    <3>1. CASE UNCHANGED relayVars
      BY <3>1 DEF relayVars, WorkTypeOK
    <3>2. ASSUME NEW p \in Candidates(r),
                 at' = [at EXCEPT ![r] = [term |-> p, by |-> "resolve"]],
                 space' = [space EXCEPT ![r] = want[r].space]
          PROVE  /\ space' \in [Relay -> Space \cup {NoSpace}]
                 /\ at' \in [Relay -> [term : Pane \cup {NoTerm}, by : {"none", "resolve", "focus"}]]
      <4>1. p \in Pane
        BY DEF Candidates, Worker, WorkTypeOK
      <4>2. want[r].space \in Space \cup {NoSpace}
        BY DEF Worker, WorkTypeOK
      <4>3. at' \in [Relay -> [term : Pane \cup {NoTerm}, by : {"none", "resolve", "focus"}]]
        BY <3>2, <4>1 DEF WorkTypeOK
      <4> QED BY <3>2, <4>2, <4>3 DEF WorkTypeOK
    <3> QED BY <1>11, <3>1, <3>2 DEF Reattach
  <2>3. WorkTypeOK'
    BY <1>11, <2>2, FinishType DEF Reattach, Worker, WorkTypeOK
  <2> QED BY <2>1, <2>3
<1>12. ASSUME NEW r \in Relay, FocusPane(r) PROVE TypeOK'
  <2>1. PaneTypeOK' /\ TabTypeOK'
    BY <1>12 DEF FocusPane, paneVars, tabVars, PaneTypeOK, TabTypeOK
  <2>2. PICK ref \in shown :
          at' = [at EXCEPT ![r] = [term |-> termOf[ref[1]], by |-> "focus"]]
    BY <1>12 DEF FocusPane
  <2>3. ref[1] \in DOMAIN termOf
    BY <2>2 DEF ShownIdsStand, PaneIdsLeadBack, PaneTypeOK
  <2>4. termOf[ref[1]] \in Pane \cup {NoTerm}
    BY <2>3 DEF PaneTypeOK
  <2>5. at' \in [Relay -> [term : Pane \cup {NoTerm}, by : {"none", "resolve", "focus"}]]
    BY <2>2, <2>4 DEF WorkTypeOK
  <2>6. WorkTypeOK'
    BY <1>12, <2>5 DEF FocusPane, workVars, WorkTypeOK
  <2> QED BY <2>1, <2>6
<1>13. ASSUME NEW p \in Pane, OpenPane(p) \/ ClosePane(p) PROVE TypeOK'
  <2>1. PaneTypeOK' /\ TabTypeOK'
    BY <1>13 DEF OpenPane, ClosePane, paneVars, tabVars, PaneTypeOK, TabTypeOK
  <2>2. WorkTypeOK'
    BY <1>13 DEF OpenPane, ClosePane, workVars, relayVars, WorkTypeOK
  <2> QED BY <2>1, <2>2
<1>15. ASSUME CloseRef \/ CloseTab \/ NewPane PROVE TypeOK'
  <2>1. PaneTypeOK' /\ TabTypeOK'
    BY <1>15, OthersFrame DEF paneVars, tabVars, PaneTypeOK, TabTypeOK
  <2>2. daemon' \in [Pane -> {"new", "open", "closed"}]
    BY <1>15 DEF CloseRef, CloseTab, NewPane, Close, WorkTypeOK
  <2>3. WorkTypeOK'
    BY <1>15, <2>2, OthersFrame DEF workVars, relayVars, WorkTypeOK
  <2> QED BY <2>1, <2>3
<1>14. CASE UNCHANGED vars
  <2>1. PaneTypeOK' /\ TabTypeOK'
    BY <1>14 DEF vars, paneVars, tabVars, PaneTypeOK, TabTypeOK
  <2>2. WorkTypeOK'
    BY <1>14 DEF vars, workVars, relayVars, WorkTypeOK
  <2> QED BY <2>1, <2>2
<1> QED
  BY <1>1, <1>2, <1>3, <1>4, <1>5, <1>6, <1>7, <1>8, <1>9, <1>10, <1>11, <1>12,
     <1>13, <1>14, <1>15 DEF Next, Work, Layout, Control, Daemon

(***************************************************************************)
(* Ids lead back to their panes.                                           *)
(***************************************************************************)

\* A step that assigns no pane and shows none keeps the registry as it is.
LEMMA FramePanes ==
  ASSUME Inv, UNCHANGED <<paneVars, shown>>
  PROVE  PaneIdsAreFresh' /\ PaneIdsLeadBack' /\ ShownIdsStand'
  BY DEF Inv, paneVars, PaneIdsAreFresh, PaneIdsLeadBack, ShownIdsStand

\* Every step keeps the registry leading back.
LEMMA NextPanes ==
  Inv /\ [Next]_vars => PaneIdsAreFresh' /\ PaneIdsLeadBack' /\ ShownIdsStand'
<1> SUFFICES ASSUME Inv, [Next]_vars
             PROVE  PaneIdsAreFresh' /\ PaneIdsLeadBack' /\ ShownIdsStand'
  OBVIOUS
<1> USE RegistryAssumption
<1>1. ASSUME NEW w \in Worker, Register(w)
      PROVE  PaneIdsAreFresh' /\ PaneIdsLeadBack' /\ ShownIdsStand'
  <2>1. PICK p \in todo[w] : AssignPane(p, p)
    BY <1>1 DEF Register
  <2>2. p \in Pane
    BY <2>1 DEF Inv, TypeOK, WorkTypeOK
  <2>3. /\ PaneIdsAreFresh' /\ PaneIdsLeadBack'
        /\ \A x \in DOMAIN paneId : x \in DOMAIN paneId' /\ paneId'[x] = paneId[x]
    BY <2>1, <2>2, AssignPaneKeeps DEF Inv, TypeOK
  <2>4. ShownIdsStand'
    BY <1>1, <2>3 DEF Inv, ShownIdsStand, Register
  <2> QED BY <2>3, <2>4
<1>2. ASSUME NEW q \in Query, DrawPane(q)
      PROVE  PaneIdsAreFresh' /\ PaneIdsLeadBack' /\ ShownIdsStand'
  <2>1. PICK p \in todo[q] : /\ AssignPane(p, ListedTerm(q, p))
                             /\ shown' = shown \cup {<<IdOf(p), p>>}
    BY <1>2 DEF DrawPane
  <2>2. p \in Pane /\ ListedTerm(q, p) \in {p, NoTerm}
    BY <2>1 DEF Inv, TypeOK, WorkTypeOK, Worker, ListedTerm
  <2>3. /\ PaneIdsAreFresh' /\ PaneIdsLeadBack' /\ p \in DOMAIN paneId'
        /\ \A x \in DOMAIN paneId : x \in DOMAIN paneId' /\ paneId'[x] = paneId[x]
    BY <2>1, <2>2, AssignPaneKeeps DEF Inv, TypeOK
  <2>4. ShownIdsStand'
    BY <2>1, <2>3 DEF Inv, ShownIdsStand, IdOf
  <2> QED BY <2>3, <2>4
<1>3. ASSUME NEW w \in Worker, Fail(w) \/ ListPanes(w) PROVE UNCHANGED <<paneVars, shown>>
  BY <1>3 DEF Fail, ListPanes
<1>4. ASSUME NEW q \in Query, ListTabs(q) \/ PaneLayout(q) \/ DrawTab(q) \/ Drawn(q)
      PROVE  UNCHANGED <<paneVars, shown>>
  BY <1>4 DEF ListTabs, PaneLayout, DrawTab, Drawn
<1>5. ASSUME NEW r \in Relay, Control(r) PROVE UNCHANGED <<paneVars, shown>>
  BY <1>5 DEF Control, SwitchSpace, GoToTab, Reattach, FocusPane
<1>6. ASSUME Daemon PROVE UNCHANGED <<paneVars, shown>>
  BY <1>6 DEF Daemon, OpenPane, ClosePane
<1>7. CASE UNCHANGED vars
  BY <1>7, FramePanes DEF vars
<1> QED
  BY <1>1, <1>2, <1>3, <1>4, <1>5, <1>6, <1>7, FramePanes, OthersFrame
     DEF Next, Work, Layout

\* The invariant holds throughout.
LEMMA Invariance == Spec => []Inv
<1>1. Init => Inv
  BY InitTypeOK DEF Inv, Init, PaneIdsAreFresh, PaneIdsLeadBack, ShownIdsStand
<1>2. Inv /\ [Next]_vars => Inv'
  BY NextTypeOK, NextPanes DEF Inv
<1> QED BY <1>1, <1>2, PTL DEF Spec

\* The registries, the work in progress and the relays stay well-formed
\* (HerdrPaneRegistry, HerdrTabRegistry).
THEOREM TypeCorrect == Spec => []TypeOK
<1>1. Inv => TypeOK
  BY DEF Inv
<1> QED BY <1>1, Invariance, PTL

\* A pane id handed to a client resolves to the pane it stood for, and to its
\* terminal or to none, but for the id on which an exhausted registry stays
\* (assign_or_get, terminal_of).
THEOREM RefsAlwaysResolve == Spec => []RefsResolve
<1>1. Inv => RefsResolve
  BY DEF Inv, ShownIdsStand, PaneIdsLeadBack, RefsResolve
<1> QED BY <1>1, Invariance, PTL

(***************************************************************************)
(* Relays show the space they are on.                                      *)
(***************************************************************************)

\* What a thread has listed is of the workspace it works on, and it has listed
\* nothing when it sets out.
ListsAreOfTheirSpace ==
  \A w \in Worker :
    /\ \A p \in list[w] : SpaceOf[TabOf[p]] = want[w].space
    /\ step[w] \in {"idle", "panes"} => list[w] = {}

\* A step that keeps what threads work on and have listed keeps them agreed.
LEMMA FrameLists ==
  ASSUME ListsAreOfTheirSpace, UNCHANGED <<want, list>>,
         \A w \in Worker : step'[w] \in {"idle", "panes"} => step[w] \in {"idle", "panes"}
  PROVE  ListsAreOfTheirSpace'
  BY DEF ListsAreOfTheirSpace

\* A thread that is done has listed nothing.
LEMMA FinishLists ==
  ASSUME WorkTypeOK, ListsAreOfTheirSpace, NEW w \in Worker, Finish(w)
  PROVE  ListsAreOfTheirSpace'
  BY DEF WorkTypeOK, ListsAreOfTheirSpace, Finish, Goto
\* Every step keeps what threads have listed of their workspace.
LEMMA NextLists ==
  TypeOK /\ ListsAreOfTheirSpace /\ [Next]_vars => ListsAreOfTheirSpace'
<1> SUFFICES ASSUME WorkTypeOK, ListsAreOfTheirSpace, [Next]_vars
             PROVE  ListsAreOfTheirSpace'
  BY DEF TypeOK
<1>1. ASSUME NEW w \in Worker, Fail(w) PROVE ListsAreOfTheirSpace'
  BY <1>1, FinishLists DEF Fail
<1>2. ASSUME NEW w \in Worker, ListPanes(w) PROVE ListsAreOfTheirSpace'
  <2>1. /\ step' = [step EXCEPT ![w] = "listed"] /\ want' = want
        /\ list' = [list EXCEPT ![w] = PanesOf(want[w].space)]
    BY <1>2 DEF ListPanes, Goto
  <2>2. \A p \in PanesOf(want[w].space) : SpaceOf[TabOf[p]] = want[w].space
    BY DEF PanesOf
  <2> QED BY <2>1, <2>2 DEF WorkTypeOK, ListsAreOfTheirSpace
<1>3. ASSUME NEW w \in Worker, Register(w) PROVE ListsAreOfTheirSpace'
  BY <1>3, FrameLists DEF Register
<1>4. ASSUME NEW q \in Query, ListTabs(q) PROVE ListsAreOfTheirSpace'
  <2>1. step[q] = "idle" /\ step' = [step EXCEPT ![q] = "panes"] /\ list' = list
    BY <1>4 DEF ListTabs, Goto
  <2>2. \A w \in Worker \ {q} : want'[w] = want[w]
    BY <1>4 DEF ListTabs, WorkTypeOK
  <2> QED BY <2>1, <2>2 DEF WorkTypeOK, ListsAreOfTheirSpace
<1>5. ASSUME NEW q \in Query, PaneLayout(q) PROVE ListsAreOfTheirSpace'
  BY <1>5, FrameLists DEF PaneLayout
<1>6. ASSUME NEW q \in Query, DrawTab(q) PROVE ListsAreOfTheirSpace'
  <2>1. step' = [step EXCEPT ![q] = "draw"] /\ UNCHANGED <<want, list>>
    BY <1>6 DEF DrawTab, Goto
  <2> QED BY <2>1, FrameLists DEF WorkTypeOK
<1>7. ASSUME NEW q \in Query, DrawPane(q) PROVE ListsAreOfTheirSpace'
  BY <1>7, FrameLists DEF DrawPane
<1>8. ASSUME NEW q \in Query, Drawn(q) PROVE ListsAreOfTheirSpace'
  BY <1>8, FinishLists DEF Drawn, Worker
<1>9. ASSUME NEW r \in Relay, SwitchSpace(r) \/ GoToTab(r) PROVE ListsAreOfTheirSpace'
  <2>1. step[r] = "idle" /\ step' = [step EXCEPT ![r] = "panes"] /\ list' = list
    BY <1>9 DEF SwitchSpace, GoToTab, Goto
  <2>2. \A w \in Worker \ {r} : want'[w] = want[w]
    BY <1>9 DEF SwitchSpace, GoToTab, WorkTypeOK
  <2> QED BY <2>1, <2>2 DEF WorkTypeOK, ListsAreOfTheirSpace
<1>10. ASSUME NEW r \in Relay, Reattach(r) PROVE ListsAreOfTheirSpace'
  BY <1>10, FinishLists DEF Reattach, Worker
<1>11. ASSUME NEW r \in Relay, FocusPane(r) PROVE ListsAreOfTheirSpace'
  BY <1>11, FrameLists DEF FocusPane, workVars
<1>12. ASSUME Daemon PROVE ListsAreOfTheirSpace'
  BY <1>12, FrameLists DEF Daemon, OpenPane, ClosePane, workVars
<1>13. CASE UNCHANGED vars
  BY <1>13, FrameLists DEF vars, workVars
<1>14. ASSUME CloseRef \/ CloseTab \/ NewPane PROVE ListsAreOfTheirSpace'
  BY <1>14, FrameLists, OthersFrame DEF workVars
<1> QED
  BY <1>1, <1>2, <1>3, <1>4, <1>5, <1>6, <1>7, <1>8, <1>9, <1>10, <1>11, <1>12,
     <1>13, <1>14 DEF Next, Work, Layout, Control

\* A relay that is re-pointed is re-pointed at a pane of the space it records.
LEMMA NextResolved ==
  /\ TypeOK /\ ListsAreOfTheirSpace /\ ResolvedInItsSpace
  /\ [Next]_vars
  => ResolvedInItsSpace'
<1> SUFFICES ASSUME WorkTypeOK, ListsAreOfTheirSpace, ResolvedInItsSpace, [Next]_vars
             PROVE  ResolvedInItsSpace'
  BY DEF TypeOK
<1>1. ASSUME UNCHANGED relayVars PROVE ResolvedInItsSpace'
  BY <1>1 DEF ResolvedInItsSpace, relayVars
<1>2. ASSUME NEW r \in Relay, FocusPane(r) PROVE ResolvedInItsSpace'
  <2>1. PICK ref \in shown :
          at' = [at EXCEPT ![r] = [term |-> termOf[ref[1]], by |-> "focus"]]
    BY <1>2 DEF FocusPane
  <2>2. at'[r].by = "focus" /\ \A x \in Relay \ {r} : at'[x] = at[x]
    BY <2>1 DEF WorkTypeOK
  <2>3. space' = space
    BY <1>2 DEF FocusPane
  <2> QED BY <2>2, <2>3 DEF ResolvedInItsSpace
<1>3. ASSUME NEW r \in Relay, Reattach(r) PROVE ResolvedInItsSpace'
  <2>1. ASSUME NEW p \in Candidates(r),
               at' = [at EXCEPT ![r] = [term |-> p, by |-> "resolve"]],
               space' = [space EXCEPT ![r] = want[r].space]
        PROVE  ResolvedInItsSpace'
    <3>1. SpaceOf[TabOf[p]] = want[r].space
      BY DEF Candidates, ListsAreOfTheirSpace, Worker
    <3>2. at'[r].term = p /\ space'[r] = want[r].space
      BY <2>1 DEF WorkTypeOK
    <3>3. \A x \in Relay \ {r} : at'[x] = at[x] /\ space'[x] = space[x]
      BY <2>1 DEF WorkTypeOK
    <3> QED BY <3>1, <3>2, <3>3 DEF ResolvedInItsSpace
  <2> QED BY <1>1, <1>3, <2>1 DEF Reattach
<1>4. ASSUME NEW w \in Worker, Work(w) PROVE UNCHANGED relayVars
  BY <1>4 DEF Work, Fail, ListPanes, Register
<1>5. ASSUME NEW q \in Query, Layout(q) PROVE UNCHANGED relayVars
  BY <1>5 DEF Layout, ListTabs, PaneLayout, DrawTab, DrawPane, Drawn
<1>6. ASSUME NEW r \in Relay, SwitchSpace(r) \/ GoToTab(r) PROVE UNCHANGED relayVars
  BY <1>6 DEF SwitchSpace, GoToTab
<1>7. ASSUME Daemon PROVE UNCHANGED relayVars
  BY <1>7 DEF Daemon, OpenPane, ClosePane
<1>8. CASE UNCHANGED vars
  BY <1>8, <1>1 DEF vars
<1> QED
  BY <1>1, <1>2, <1>3, <1>4, <1>5, <1>6, <1>7, <1>8, OthersFrame DEF Next, Control

\* A relay re-pointed at a tab or a space shows a pane of the space it is on,
\* whatever failed on the way (switch_space, go_to_tab).
THEOREM ResolvedAlways == Spec => []ResolvedInItsSpace
<1>1. Init => ListsAreOfTheirSpace /\ ResolvedInItsSpace
  BY DEF Init, ListsAreOfTheirSpace, ResolvedInItsSpace, Unattached
<1>2. TypeOK /\ ListsAreOfTheirSpace /\ ResolvedInItsSpace /\ [Next]_vars
        => (ListsAreOfTheirSpace /\ ResolvedInItsSpace)'
  BY NextLists, NextResolved
<1> QED BY <1>1, <1>2, TypeCorrect, PTL DEF Spec

(***************************************************************************)
(* The relay socket: frames in pieces.                                     *)
(***************************************************************************)

\* Pieces alternate: a length, and its own payload.
Alternate ==
  \A i, j \in DOMAIN pipe : j = i + 1 =>
    IF pipe[i].part = 0 THEN pipe[j].part = 1 /\ pipe[j].of = pipe[i].of
    ELSE pipe[j].part = 0

\* They begin where herdr has read to.
BeginsWhole ==
  pipe # << >> => IF half = None THEN pipe[1].part = 0
                  ELSE pipe[1].part = 1 /\ pipe[1].of = half

\* They end where the frame being written has come to.
EndsWhole ==
  IF pieces = 1
  THEN IF pipe = << >> THEN half = frame
       ELSE pipe[Len(pipe)].part = 0 /\ pipe[Len(pipe)].of = frame
  ELSE IF pipe = << >> THEN half = None ELSE pipe[Len(pipe)].part = 1

\* All three, until a write ends in the middle of a frame; after the handshake has
\* failed nothing is written, and the end does not matter.
StreamIsWhole ==
  failed # "torn" => Alternate /\ BeginsWhole /\ (stage # "failed" => EndsWhole)

\* No frame, no pieces of it; and none after the relay is over.
FramesEnd ==
  /\ frame = None => pieces = 0
  /\ stage \in {"idle", "resolved", "welcome", "failed", "joining", "gone"} => frame = None

\* A length that says: show another terminal.
Turns(p) == p.part = 0 /\ p.of.op = "attach"

\* The terminal herdr will have been told to show by what is in the socket so far.
Target == IF frame # None /\ frame.op = "attach" /\ pieces > 0 THEN frame.arg ELSE current

\* During the handshake herdr is told of no terminal.
NoTurnYet ==
  stage \in {"idle", "resolved", "hello", "welcome"} =>
    /\ \A i \in DOMAIN pipe : pipe[i].of.op = "hello"
    /\ half # None => half.op = "hello"
    /\ frame # None => frame.op = "hello"
    /\ herdr # "attached"

\* Then the first it is told of is the one on record.
FirstTurn == stage = "attach" => frame = Attach(current)

\* What was last said to herdr is what it will come to show.
LeadsToTarget ==
  stage \in {"attach", "open"} /\ failed # "torn" =>
    /\ \A i \in DOMAIN pipe :
         Turns(pipe[i]) /\ (\A j \in DOMAIN pipe : j > i => ~Turns(pipe[j])) =>
           pipe[i].of.arg = Target
    /\ (\A i \in DOMAIN pipe : ~Turns(pipe[i])) =>
         /\ half # None /\ half.op = "attach" => half.arg = Target
         /\ (half = None \/ half.op # "attach") /\ herdr = "attached" => showing = Target

WireInv == /\ WireTypeOK /\ FramesEnd /\ StreamIsWhole
           /\ NoTurnYet /\ FirstTurn /\ LeadsToTarget

----------------------------------------------------------------------------
(* Messages, and the two ends of the socket.                               *)

Piece == [of : Message, part : {0, 1}]

\* What is in a message.
LEMMA MessageFacts ==
  /\ \A z \in Size : Hello(z) \in Message /\ Resize(z) \in Message
  /\ \A t \in Term : Attach(t) \in Message /\ Attach(t).op = "attach" /\ Attach(t).arg = t
  /\ Input \in Message /\ Detach \in Message
  /\ \A z : Hello(z).op = "hello" /\ Resize(z).op = "resize"
  /\ Input.op = "input" /\ Detach.op = "detach"
  /\ \A m \in Message : /\ m.op \in {"hello", "attach", "input", "resize", "detach"}
                        /\ m.op = "attach" => m.arg \in Term
                        /\ m.op \in {"hello", "resize"} => m.arg \in Size
  /\ None \notin Message
<1>1. /\ \A z \in Size : Hello(z) \in Message /\ Resize(z) \in Message
      /\ \A t \in Term : Attach(t) \in Message
      /\ Input \in Message /\ Detach \in Message
  BY DEF Message
<1>2. /\ \A t : Attach(t).op = "attach" /\ Attach(t).arg = t
      /\ \A z : Hello(z).op = "hello" /\ Hello(z).arg = z
      /\ \A z : Resize(z).op = "resize" /\ Resize(z).arg = z
      /\ Input.op = "input" /\ Detach.op = "detach"
  BY DEF Hello, Attach, Input, Resize, Detach
<1>3. \A m \in Message : \/ \E z \in Size : m = Hello(z) \/ m = Resize(z)
                         \/ \E t \in Term : m = Attach(t)
                         \/ m \in {Input, Detach}
  BY Zenon DEF Message
<1>4. None \notin Message BY WireAssumption
<1>5. ASSUME NEW m \in Message
      PROVE  /\ m.op \in {"hello", "attach", "input", "resize", "detach"}
             /\ m.op = "attach" => m.arg \in Term
             /\ m.op \in {"hello", "resize"} => m.arg \in Size
  BY <1>2, <1>3
<1> QED BY <1>1, <1>2, <1>4, <1>5

\* A sequence without its first element.
LEMMA TailFacts ==
  ASSUME NEW S, NEW q \in Seq(S), q # << >>
  PROVE  /\ Tail(q) \in Seq(S) /\ Head(q) = q[1] /\ Head(q) \in S
         /\ DOMAIN q = 1 .. Len(q) /\ Len(q) \in Nat \ {0}
         /\ DOMAIN Tail(q) = 1 .. (Len(q) - 1)
         /\ \A i \in 1 .. (Len(q) - 1) : Tail(q)[i] = q[i + 1]
         /\ Len(Tail(q)) = Len(q) - 1
         /\ Tail(q) = << >> <=> Len(q) = 1
<1>1. Len(q) \in Nat \ {0} /\ DOMAIN q = 1 .. Len(q) /\ Head(q) = q[1] OBVIOUS
<1>2. q[1] \in S BY <1>1
<1>3. Tail(q) \in Seq(S) /\ Len(Tail(q)) = Len(q) - 1 OBVIOUS
<1>4. DOMAIN Tail(q) = 1 .. (Len(q) - 1) BY <1>1, <1>3
<1>5. \A i \in 1 .. (Len(q) - 1) : Tail(q)[i] = q[i + 1] OBVIOUS
<1>6. Tail(q) = << >> <=> Len(q) = 1
  <2>1. \A r \in Seq(S) : r = << >> <=> Len(r) = 0 OBVIOUS
  <2>2. Tail(q) = << >> <=> Len(Tail(q)) = 0 BY <1>3, <2>1
  <2> QED BY <1>1, <1>3, <2>2
<1> QED BY <1>1, <1>2, <1>3, <1>4, <1>5, <1>6

\* A sequence with one element more.
LEMMA AppendFacts ==
  ASSUME NEW S, NEW q \in Seq(S), NEW x \in S
  PROVE  /\ Append(q, x) \in Seq(S)
         /\ DOMAIN q = 1 .. Len(q) /\ Len(q) \in Nat
         /\ DOMAIN Append(q, x) = 1 .. (Len(q) + 1) /\ Len(Append(q, x)) = Len(q) + 1
         /\ \A i \in 1 .. Len(q) : Append(q, x)[i] = q[i]
         /\ Append(q, x)[Len(q) + 1] = x
         /\ Append(q, x) # << >>
         /\ q = << >> <=> Len(q) = 0
OBVIOUS

\* The wire's own type, of what each action takes or leaves.
LEMMA WireTypeInit == ASSUME WireInit PROVE WireTypeOK
<1>1. << >> \in Seq(Piece) /\ << >> \in Seq(Welcomes \cup {"terminal", "other", "garbage", "exit"})
  OBVIOUS
<1>2. 0 \in 0 .. 2 /\ 0 \in 0 .. MaxTrouble /\ 0 \in 0 .. MaxWrites BY WireAssumption
<1> QED BY <1>1, <1>2 DEF WireInit, WireTypeOK, Piece

LEMMA OpeningType == ASSUME WireTypeOK, Opening PROVE WireTypeOK'
<1> USE WireAssumption, MessageFacts
<1>1. CASE Resolve BY <1>1 DEF WireTypeOK, Resolve, Rest, theirs
<1>2. CASE SendHello BY <1>2 DEF WireTypeOK, SendHello, Begin, Rest, theirs
<1>3. CASE SentHello BY <1>3 DEF WireTypeOK, SentHello, Rest, theirs
<1>4. CASE ReadWelcome
  <2>1. back' \in Seq(Welcomes \cup {"terminal", "other", "garbage", "exit"})
    BY <1>4, TailFacts DEF WireTypeOK, ReadWelcome
  <2>2. CASE Accepted(Head(back))
    BY <1>4, <2>1, <2>2 DEF WireTypeOK, ReadWelcome, Begin, Rest, theirs
  <2>3. CASE ~Accepted(Head(back))
    BY <1>4, <2>1, <2>3 DEF WireTypeOK, ReadWelcome, Rest, theirs
  <2> QED BY <2>2, <2>3
<1>5. CASE NoWelcome BY <1>5 DEF WireTypeOK, NoWelcome, WelcomeIsLate, Rest, theirs
<1>6. CASE Opened BY <1>6 DEF WireTypeOK, Opened, Rest, theirs
<1>7. CASE OpenFails BY <1>7 DEF WireTypeOK, OpenFails, Rest, theirs
<1> QED BY <1>1, <1>2, <1>3, <1>4, <1>5, <1>6, <1>7 DEF Opening

LEMMA PushType == ASSUME WireTypeOK, Push PROVE WireTypeOK'
<1>1. pieces \in {0, 1} /\ frame \in Message /\ pieces' \in 0 .. 2
  BY DEF WireTypeOK, Push
<1>2. [of |-> frame, part |-> pieces] \in Piece BY <1>1 DEF Piece
<1>3. pipe' \in Seq(Piece) BY <1>2, AppendFacts DEF WireTypeOK, Push, Piece
<1> QED BY <1>1, <1>3 DEF WireTypeOK, Push, Piece, theirs

LEMMA SendsType ==
  ASSUME WireTypeOK, NEW m \in Message, Sends(m), screen' \in Size,
         current' = current
  PROVE  WireTypeOK'
BY WireAssumption DEF WireTypeOK, Sends, Begin, theirs

LEMMA InboundType == ASSUME WireTypeOK, Inbound PROVE WireTypeOK'
<1> USE MessageFacts
<1>1. CASE SendInput BY <1>1, SendsType DEF WireTypeOK, SendInput
<1>2. CASE \E z \in Size : SendResize(z) BY <1>2, SendsType DEF SendResize
<1>3. CASE \E t \in Term : SendAttach(t) BY <1>3, SendsType DEF WireTypeOK, SendAttach
<1>4. CASE Sent
  <2>1. frame.op = "attach" => frame.arg \in Term BY <1>4 DEF WireTypeOK, Sent, Wrote
  <2> QED BY <1>4, <2>1 DEF WireTypeOK, Sent, Rest, theirs
<1>5. CASE SendFails BY <1>5 DEF WireTypeOK, SendFails, Worse, Rest, theirs
<1>6. CASE Shutdown BY <1>6 DEF WireTypeOK, Shutdown, Begin, Rest, theirs
<1>7. CASE Nudged BY <1>7 DEF WireTypeOK, Nudged, Worse, Rest, theirs
<1>8. CASE Join BY <1>8 DEF WireTypeOK, Join, Rest, theirs
<1> QED BY <1>1, <1>2, <1>3, <1>4, <1>5, <1>6, <1>7, <1>8 DEF Inbound

Answer == Welcomes \cup {"terminal", "other", "garbage", "exit"}

LEMMA ReadingType == ASSUME WireTypeOK, Reading PROVE WireTypeOK'
<1>1. CASE Recv
  <2>1. back' \in Seq(Answer) BY <1>1, TailFacts DEF WireTypeOK, Recv, Answer
  <2>2. reader' \in {"exited", "sending", "parked"} BY <1>1 DEF Recv
  <2> QED BY <1>1, <2>1, <2>2 DEF WireTypeOK, Recv, Rest, theirs, Answer
<1>2. CASE RecvEof BY <1>2 DEF WireTypeOK, RecvEof, Rest, theirs
<1>3. CASE Delivered BY <1>3 DEF WireTypeOK, Delivered, Rest, theirs
<1> QED BY <1>1, <1>2, <1>3 DEF Reading

\* What herdr reads, it reads from the front.
LEMMA ReadsEffect ==
  ASSUME WireTypeOK, Reads
  PROVE  /\ pipe # << >> /\ pipe \in Seq(Piece) /\ pipe' = Tail(pipe) /\ pipe' \in Seq(Piece)
         /\ Head(pipe) = pipe[1] /\ pipe[1] \in Piece
         /\ pipe[1].of \in Message /\ pipe[1].part \in {0, 1}
<1>1. pipe # << >> /\ pipe' = Tail(pipe) BY DEF Reads
<1>2. pipe \in Seq(Piece) BY DEF WireTypeOK, Piece
<1>3. pipe' \in Seq(Piece) /\ Head(pipe) = pipe[1] /\ pipe[1] \in Piece
  BY <1>1, <1>2, TailFacts
<1> QED BY <1>1, <1>2, <1>3 DEF Piece

LEMMA AnswersType ==
  ASSUME WireTypeOK, NEW m \in Answer, Answers(m)
  PROVE  back' \in Seq(Answer)
BY AppendFacts DEF WireTypeOK, Answers, Answer

\* What handling a message does, to what matters here.
LEMMA HandleEffect ==
  ASSUME WireTypeOK, Handle
  PROVE  /\ half' = None /\ half \in Message /\ Reads /\ pipe[1].part = 1
         /\ UNCHANGED ours
         /\ half.op = "attach" => showing' = half.arg
         /\ half.op # "attach" => showing' = showing /\ (herdr' = "attached" => herdr = "attached")
         /\ herdr' = "attached" => herdr = "attached" \/ half.op = "attach"
<1>1. /\ half' = None /\ half \in Message /\ Reads /\ pipe[1].part = 1
      /\ UNCHANGED ours
  BY ReadsEffect DEF Handle, WireTypeOK
<1>2. half.op \in {"hello", "attach", "input", "resize", "detach"} BY <1>1, MessageFacts
<1>3. CASE half.op = "hello"
  BY <1>1, <1>3 DEF Handle
<1>4. CASE half.op = "attach" BY <1>1, <1>4 DEF Handle
<1>5. CASE half.op = "resize" BY <1>1, <1>5 DEF Handle
<1>6. CASE half.op = "input" BY <1>1, <1>6 DEF Handle
<1>7. CASE half.op = "detach" BY <1>1, <1>7 DEF Handle
<1> QED BY <1>2, <1>3, <1>4, <1>5, <1>6, <1>7

LEMMA HandleType == ASSUME WireTypeOK, Handle PROVE WireTypeOK'
<1>1. /\ half' = None /\ half \in Message /\ pipe' \in Seq(Piece)
      /\ UNCHANGED ours /\ UNCHANGED <<focus, stuck, trouble>>
  BY HandleEffect, ReadsEffect DEF Handle
<1>2. half.op \in {"hello", "attach", "input", "resize", "detach"} BY <1>1, MessageFacts
<1>3. /\ herdr' \in {"new", "greeted", "refused", "attached", "deaf", "closed"}
      /\ showing' \in Term \cup {None} /\ given' \in Size \cup {None}
      /\ back' \in Seq(Answer)
  <2>1. CASE half.op = "hello"
    <3>1. half.arg \in Size BY <1>1, <2>1, MessageFacts
    <3>2. PICK w \in Welcomes : Answers(w) BY <2>1 DEF Handle
    <3>3. back' \in Seq(Answer) BY <3>2, AnswersType DEF Answer
    <3>4. herdr' \in {"greeted", "refused"} BY <2>1 DEF Handle
    <3> QED BY <2>1, <3>1, <3>3, <3>4 DEF Handle, WireTypeOK
  <2>2. CASE half.op = "attach"
    <3>1. half.arg \in Term BY <1>1, <2>2, MessageFacts
    <3>2. back' \in Seq(Answer) BY <2>2, AnswersType DEF Handle, Answer
    <3> QED BY <2>2, <3>1, <3>2 DEF Handle, WireTypeOK
  <2>3. CASE half.op = "resize"
    <3>1. half.arg \in Size BY <1>1, <2>3, MessageFacts
    <3>2. back' \in Seq(Answer) BY <2>3, AnswersType DEF Handle, Answer
    <3> QED BY <2>3, <3>1, <3>2 DEF Handle, WireTypeOK
  <2>4. CASE half.op = "input"
    <3>1. back' \in Seq(Answer) BY <2>4, AnswersType DEF Handle, Answer
    <3> QED BY <2>4, <3>1 DEF Handle, WireTypeOK
  <2>5. CASE half.op = "detach" BY <2>5 DEF Handle, WireTypeOK, Answer
  <2> QED BY <1>2, <2>1, <2>2, <2>3, <2>4, <2>5
<1> QED BY <1>1, <1>3 DEF WireTypeOK, ours, Piece, Answer

LEMMA TroubleType == ASSUME WireTypeOK, Trouble PROVE WireTypeOK'
<1>1. trouble' \in 0 .. MaxTrouble BY WireAssumption DEF WireTypeOK, Trouble
<1>2. focus' \in Term /\ stuck' \in BOOLEAN
  BY DEF WireTypeOK, Trouble
<1>3. herdr' \in {"new", "greeted", "refused", "attached", "deaf", "closed"}
  BY DEF WireTypeOK, Trouble
<1>4. back' \in Seq(Answer)
  <2>1. CASE UNCHANGED back BY <2>1 DEF WireTypeOK, Answer
  <2>2. CASE \E m \in {"other", "garbage", "exit"} : Answers(m)
    BY <2>2, AnswersType DEF Answer
  <2> QED BY <2>1, <2>2 DEF Trouble
<1> QED BY <1>1, <1>2, <1>3, <1>4 DEF WireTypeOK, Trouble, ours, Answer

LEMMA HerdrType == ASSUME WireTypeOK, Herdr PROVE WireTypeOK'
<1>1. CASE TakeLength
  BY <1>1, ReadsEffect DEF WireTypeOK, TakeLength, ours, Piece
<1>2. CASE Misread
  BY <1>2, ReadsEffect DEF WireTypeOK, Misread, ours, Piece
<1>3. CASE Handle BY <1>3, HandleType
<1>4. CASE Trouble BY <1>4, TroubleType
<1>5. CASE Resumes
  <2>1. stuck' \in BOOLEAN BY <1>5 DEF Resumes
  <2>2. UNCHANGED <<readOnly, stage, frame, pieces, current, screen, first, reader, written,
                    failed, pipe, back, herdr, half, showing, given, focus, trouble>>
    BY <1>5 DEF Resumes, ours
  <2> QED BY <2>1, <2>2 DEF WireTypeOK
<1> QED BY <1>1, <1>2, <1>3, <1>4, <1>5 DEF Herdr

LEMMA WireTypeStep == ASSUME WireTypeOK, [WireNext]_wireVars PROVE WireTypeOK'
<1>1. CASE UNCHANGED wireVars BY <1>1 DEF WireTypeOK, wireVars, ours, theirs
<1> QED BY <1>1, OpeningType, PushType, InboundType, ReadingType, HerdrType DEF WireNext

----------------------------------------------------------------------------
(* Frames stay whole.                                                      *)

LEMMA FramesEndStep ==
  ASSUME WireTypeOK, FramesEnd, [WireNext]_wireVars
  PROVE  FramesEnd'
<1> USE DEF FramesEnd, WireTypeOK
<1> USE MessageFacts
<1>1. CASE Opening
  <2>1. CASE Resolve BY <1>1, <2>1 DEF Resolve
  <2>2. CASE SendHello BY <1>1, <2>2 DEF SendHello, Begin
  <2>3. CASE SentHello BY <1>1, <2>3 DEF SentHello
  <2>4. CASE ReadWelcome BY <1>1, <2>4 DEF ReadWelcome, Begin
  <2>5. CASE NoWelcome BY <1>1, <2>5 DEF NoWelcome, WelcomeIsLate
  <2>6. CASE Opened BY <1>1, <2>6 DEF Opened
  <2>7. CASE OpenFails BY <1>1, <2>7 DEF OpenFails
  <2> QED BY <1>1, <2>1, <2>2, <2>3, <2>4, <2>5, <2>6, <2>7 DEF Opening
<1>2. CASE Push BY <1>2 DEF Push
<1>3. CASE Inbound
  <2>1. CASE \E m : Sends(m) BY <2>1 DEF Sends, Begin
  <2>2. CASE Sent BY <2>2 DEF Sent
  <2>3. CASE SendFails BY <2>3 DEF SendFails
  <2>4. CASE Shutdown BY <2>4 DEF Shutdown, Begin
  <2>5. CASE Nudged BY <2>5 DEF Nudged
  <2>6. CASE Join BY <2>6 DEF Join
  <2> QED BY <1>3, <2>1, <2>2, <2>3, <2>4, <2>5, <2>6
        DEF Inbound, SendInput, SendResize, SendAttach
<1>4. CASE Reading BY <1>4 DEF Reading, Recv, RecvEof, Delivered
<1>5. CASE Herdr
  BY <1>5, HandleEffect DEF Herdr, TakeLength, Misread, Trouble, Resumes, ours
<1>6. CASE UNCHANGED wireVars BY <1>6 DEF wireVars, ours
<1> QED BY <1>1, <1>2, <1>3, <1>4, <1>5, <1>6 DEF WireNext

\* One more piece in the socket continues what is there.
LEMMA PushKeepsStream ==
  ASSUME WireTypeOK, FramesEnd, StreamIsWhole, Push
  PROVE  StreamIsWhole'
<1>1. /\ pieces \in {0, 1} /\ frame \in Message /\ stage # "failed"
      /\ UNCHANGED <<stage, frame, failed, half>> /\ pieces' = pieces + 1
  BY DEF WireTypeOK, FramesEnd, Push, theirs
<1> DEFINE piece == [of |-> frame, part |-> pieces]
           n == Len(pipe)
<1>2. piece \in Piece /\ piece.of = frame /\ piece.part = pieces BY <1>1 DEF Piece
<1>3. pipe \in Seq(Piece) /\ pipe' = Append(pipe, piece) BY DEF WireTypeOK, Push, Piece
<1>4. /\ n \in Nat /\ DOMAIN pipe = 1 .. n /\ (pipe = << >> <=> n = 0)
      /\ DOMAIN pipe' = 1 .. (n + 1) /\ Len(pipe') = n + 1 /\ pipe' # << >>
      /\ \A i \in 1 .. n : pipe'[i] = pipe[i]
      /\ pipe'[n + 1] = piece
  BY <1>2, <1>3, AppendFacts
<1>5. SUFFICES ASSUME failed # "torn" PROVE Alternate' /\ BeginsWhole' /\ EndsWhole'
  BY <1>1 DEF StreamIsWhole
<1>6. Alternate /\ BeginsWhole /\ EndsWhole BY <1>1, <1>5 DEF StreamIsWhole
<1> HIDE DEF piece, n
<1>7. n > 0 /\ pieces = 1 => pipe[n].part = 0 /\ pipe[n].of = frame
  BY <1>4, <1>6 DEF EndsWhole, n
<1>8. n > 0 /\ pieces = 0 => pipe[n].part = 1
  BY <1>4, <1>6 DEF EndsWhole, n
<1>9. Alternate'
  <2>1. SUFFICES ASSUME NEW i \in 1 .. (n + 1), NEW j \in 1 .. (n + 1), j = i + 1
                 PROVE  IF pipe'[i].part = 0 THEN pipe'[j].part = 1 /\ pipe'[j].of = pipe'[i].of
                        ELSE pipe'[j].part = 0
    BY <1>4 DEF Alternate
  <2>2. CASE j \in 1 .. n
    <3>1. i \in 1 .. n /\ pipe'[i] = pipe[i] /\ pipe'[j] = pipe[j] BY <1>4, <2>1, <2>2
    <3>2. i \in DOMAIN pipe /\ j \in DOMAIN pipe BY <1>4, <2>2, <3>1
    <3>3. IF pipe[i].part = 0 THEN pipe[j].part = 1 /\ pipe[j].of = pipe[i].of
          ELSE pipe[j].part = 0
      BY <1>6, <2>1, <3>2 DEF Alternate
    <3> QED BY <3>1, <3>3
  <2>3. CASE j = n + 1
    <3>1. i = n /\ n > 0 /\ pipe'[i] = pipe[n] /\ pipe'[j] = piece BY <1>4, <2>1, <2>3
    <3> QED BY <1>1, <1>2, <1>7, <1>8, <3>1
  <2> QED BY <1>4, <2>1, <2>2, <2>3
<1>10. BeginsWhole'
  <2>1. CASE n = 0
    <3>1. pipe'[1] = piece BY <1>4, <2>1
    <3>2. IF pieces = 1 THEN half = frame ELSE half = None BY <1>4, <1>6, <2>1 DEF EndsWhole
    <3> QED BY <1>1, <1>2, <3>1, <3>2, MessageFacts DEF BeginsWhole
  <2>2. CASE n > 0
    <3>1. pipe'[1] = pipe[1] /\ pipe # << >> BY <1>4, <2>2
    <3> QED BY <1>1, <1>6, <3>1 DEF BeginsWhole
  <2> QED BY <1>4, <2>1, <2>2
<1>11. EndsWhole'
  <2>1. pipe'[Len(pipe')] = piece BY <1>4
  <2> QED BY <1>1, <1>2, <1>4, <2>1 DEF EndsWhole
<1> QED BY <1>9, <1>10, <1>11

\* herdr reads a piece from the front, and what is left goes on from there.
LEMMA ReadKeepsStream ==
  ASSUME WireTypeOK, StreamIsWhole, Reads, UNCHANGED <<stage, frame, pieces, failed>>,
         \/ half = None /\ pipe[1].part = 0 /\ half' = pipe[1].of
         \/ half # None /\ pipe[1].part = 1 /\ half' = None
  PROVE  StreamIsWhole'
<1> DEFINE n == Len(pipe)
<1>1. /\ pipe \in Seq(Piece) /\ pipe' = Tail(pipe) /\ pipe # << >>
      /\ pipe[1].of \in Message
  BY ReadsEffect
<1>2. /\ n \in Nat \ {0} /\ DOMAIN pipe = 1 .. n /\ DOMAIN pipe' = 1 .. (n - 1)
      /\ \A i \in 1 .. (n - 1) : pipe'[i] = pipe[i + 1]
      /\ Len(pipe') = n - 1 /\ (pipe' = << >> <=> n = 1)
  BY <1>1, TailFacts
<1>3. SUFFICES ASSUME failed # "torn"
               PROVE  Alternate' /\ BeginsWhole' /\ (stage # "failed" => EndsWhole')
  BY DEF StreamIsWhole
<1>4. Alternate /\ BeginsWhole /\ (stage # "failed" => EndsWhole)
  BY <1>3 DEF StreamIsWhole
<1>5. n > 1 => IF pipe[1].part = 0 THEN pipe[2].part = 1 /\ pipe[2].of = pipe[1].of
               ELSE pipe[2].part = 0
  <2>1. SUFFICES ASSUME n > 1 PROVE 1 \in DOMAIN pipe /\ 2 \in DOMAIN pipe /\ 2 = 1 + 1
    BY <1>4 DEF Alternate
  <2> QED BY <1>2, <2>1
<1> HIDE DEF n
<1>6. Alternate'
  <2>1. SUFFICES ASSUME NEW i \in 1 .. (n - 1), NEW j \in 1 .. (n - 1), j = i + 1
                 PROVE  IF pipe'[i].part = 0 THEN pipe'[j].part = 1 /\ pipe'[j].of = pipe'[i].of
                        ELSE pipe'[j].part = 0
    BY <1>2 DEF Alternate
  <2>2. /\ i + 1 \in DOMAIN pipe /\ j + 1 \in DOMAIN pipe /\ j + 1 = (i + 1) + 1
        /\ pipe'[i] = pipe[i + 1] /\ pipe'[j] = pipe[j + 1]
    BY <1>2, <2>1
  <2> QED BY <1>4, <2>2 DEF Alternate
<1>7. BeginsWhole'
  <2>1. SUFFICES ASSUME pipe' # << >>
                 PROVE  IF half' = None THEN pipe'[1].part = 0
                        ELSE pipe'[1].part = 1 /\ pipe'[1].of = half'
    BY DEF BeginsWhole
  <2>2. n > 1 /\ pipe'[1] = pipe[2] BY <1>2, <2>1
  <2>3. pipe[1].of # None BY <1>1, MessageFacts
  <2>4. CASE half = None BY <1>5, <2>2, <2>3, <2>4
  <2>5. CASE half # None BY <1>5, <2>2, <2>5
  <2> QED BY <2>4, <2>5
<1>8. ASSUME stage # "failed" PROVE EndsWhole'
  <2>1. EndsWhole BY <1>4, <1>8
  <2>2. IF pieces = 1 THEN pipe[n].part = 0 /\ pipe[n].of = frame ELSE pipe[n].part = 1
    BY <1>1, <2>1 DEF EndsWhole, n
  <2>3. CASE n = 1
    BY <1>1, <1>2, <2>2, <2>3 DEF EndsWhole
  <2>4. CASE n > 1
    <3>1. pipe' # << >> /\ pipe'[Len(pipe')] = pipe[n] BY <1>2, <2>4
    <3> QED BY <2>2, <3>1 DEF EndsWhole
  <2> QED BY <1>2, <2>3, <2>4
<1> QED BY <1>6, <1>7, <1>8

\* Where no piece moves, a frame may end or another one begin, but not in its middle.
LEMMA StreamStays ==
  ASSUME WireTypeOK, StreamIsWhole, UNCHANGED <<pipe, half>>,
         failed' # "torn" => failed # "torn",
         stage' # "failed" => stage # "failed",
         failed' # "torn" /\ stage' # "failed" =>
           \/ UNCHANGED <<frame, pieces>>
           \/ pieces # 1 /\ pieces' = 0
  PROVE  StreamIsWhole'
<1>1. SUFFICES ASSUME failed' # "torn"
               PROVE  Alternate' /\ BeginsWhole' /\ (stage' # "failed" => EndsWhole')
  BY DEF StreamIsWhole
<1>2. Alternate /\ BeginsWhole /\ (stage # "failed" => EndsWhole)
  BY <1>1 DEF StreamIsWhole
<1>3. Alternate' BY <1>2 DEF Alternate
<1>4. BeginsWhole' BY <1>2 DEF BeginsWhole
<1>5. ASSUME stage' # "failed" PROVE EndsWhole'
  <2>1. EndsWhole BY <1>2, <1>5
  <2> QED BY <1>1, <1>5, <2>1 DEF EndsWhole
<1> QED BY <1>3, <1>4, <1>5

LEMMA StreamStep ==
  ASSUME WireTypeOK, FramesEnd, StreamIsWhole, [WireNext]_wireVars
  PROVE  StreamIsWhole'
<1>0. frame = None => pieces = 0 BY DEF FramesEnd
<1>1. CASE Opening
  <2>1. CASE Resolve BY <2>1, StreamStays DEF Resolve, theirs
  <2>2. CASE SendHello BY <1>0, <2>2, StreamStays DEF SendHello, Begin, theirs
  <2>3. CASE SentHello BY <2>3, StreamStays DEF SentHello, Wrote, theirs
  <2>4. CASE ReadWelcome
    BY <1>0, <2>4, StreamStays DEF ReadWelcome, Begin, theirs
  <2>5. CASE NoWelcome BY <2>5, StreamStays DEF NoWelcome, WelcomeIsLate, theirs
  <2>6. CASE Opened BY <2>6, StreamStays DEF Opened, Wrote, theirs
  <2>7. CASE OpenFails BY <2>7, StreamStays DEF OpenFails, theirs
  <2> QED BY <1>1, <2>1, <2>2, <2>3, <2>4, <2>5, <2>6, <2>7 DEF Opening
<1>2. CASE Push BY <1>2, PushKeepsStream
<1>3. CASE Inbound
  <2>1. CASE \E m : Sends(m) BY <1>0, <2>1, StreamStays DEF Sends, Begin, theirs
  <2>2. CASE Sent BY <2>2, StreamStays DEF Sent, Wrote, Rest, theirs
  <2>3. CASE SendFails BY <2>3, StreamStays DEF SendFails, Worse, theirs
  <2>4. CASE Shutdown BY <1>0, <2>4, StreamStays DEF Shutdown, Begin, theirs
  <2>5. CASE Nudged BY <2>5, StreamStays DEF Nudged, Wrote, Worse, theirs
  <2>6. CASE Join BY <2>6, StreamStays DEF Join, theirs
  <2> QED BY <1>3, <2>1, <2>2, <2>3, <2>4, <2>5, <2>6
        DEF Inbound, SendInput, SendResize, SendAttach
<1>4. CASE Reading BY <1>4, StreamStays DEF Reading, Recv, RecvEof, Delivered, theirs
<1>5. CASE Herdr
  <2>1. CASE TakeLength
    BY <2>1, ReadsEffect, ReadKeepsStream DEF TakeLength, ours
  <2>2. CASE Misread
    <3>1. pipe # << >> /\ pipe[1].part = 0 /\ half # None
      BY <2>2, ReadsEffect DEF Misread
    <3>2. failed = "torn" BY <3>1 DEF StreamIsWhole, BeginsWhole
    <3> QED BY <2>2, <3>2 DEF StreamIsWhole, Misread, ours
  <2>3. CASE Handle
    BY <2>3, HandleEffect, ReadKeepsStream, MessageFacts DEF ours
  <2>4. CASE Trouble \/ Resumes
    BY <2>4, StreamStays DEF Trouble, Resumes, ours
  <2> QED BY <1>5, <2>1, <2>2, <2>3, <2>4 DEF Herdr
<1>6. CASE UNCHANGED wireVars BY <1>6, StreamStays DEF wireVars, ours, theirs
<1> QED BY <1>1, <1>2, <1>3, <1>4, <1>5, <1>6 DEF WireNext

----------------------------------------------------------------------------
(* What is shown is what is on record.                                     *)

LEMMA NoTurnStep ==
  ASSUME WireTypeOK, NoTurnYet, [WireNext]_wireVars
  PROVE  NoTurnYet'
<1> DEFINE Early == {"idle", "resolved", "hello", "welcome"}
<1>1. SUFFICES ASSUME stage' \in Early
               PROVE  /\ \A i \in DOMAIN pipe' : pipe'[i].of.op = "hello"
                      /\ half' # None => half'.op = "hello"
                      /\ frame' # None => frame'.op = "hello"
                      /\ herdr' # "attached"
  BY DEF NoTurnYet
<1>2. stage \in Early
  BY <1>1 DEF WireNext, Opening, Resolve, SendHello, SentHello, ReadWelcome, NoWelcome, Opened,
     OpenFails, Push, Inbound, SendInput, SendResize, SendAttach, Sends, Sent, SendFails,
     Shutdown, Nudged, Join, Reading, Recv, RecvEof, Delivered, Herdr, TakeLength, Misread,
     Handle, Trouble, Resumes, WelcomeIsLate, wireVars, ours
<1>3. /\ \A i \in DOMAIN pipe : pipe[i].of.op = "hello"
      /\ half # None => half.op = "hello"
      /\ frame # None => frame.op = "hello"
      /\ herdr # "attached"
  BY <1>2 DEF NoTurnYet
<1>4. CASE Opening
  <2>1. UNCHANGED <<pipe, half, herdr>>
    BY <1>4 DEF Opening, Resolve, SendHello, SentHello, ReadWelcome, NoWelcome, Opened,
       OpenFails, theirs
  <2>2. frame' = None \/ UNCHANGED frame \/ frame' = Hello(first)
    BY <1>1, <1>4 DEF Opening, Resolve, SendHello, SentHello, ReadWelcome, NoWelcome, Opened,
       OpenFails, Begin
  <2> QED BY <1>3, <2>1, <2>2, MessageFacts
<1>5. CASE Push
  <2> DEFINE piece == [of |-> frame, part |-> pieces]
  <2>1. piece \in Piece /\ piece.of = frame /\ frame # None
    BY <1>5 DEF WireTypeOK, Push, Piece
  <2>2. pipe' = Append(pipe, piece) /\ UNCHANGED <<half, herdr, frame>>
    BY <1>5 DEF Push, theirs
  <2>3. pipe \in Seq(Piece) BY DEF WireTypeOK, Piece
  <2> HIDE DEF piece
  <2>4. \A i \in DOMAIN pipe' : pipe'[i] = piece \/ (i \in DOMAIN pipe /\ pipe'[i] = pipe[i])
    BY <2>1, <2>2, <2>3, AppendFacts
  <2> QED BY <1>3, <2>1, <2>2, <2>4
<1>6. CASE Inbound \/ Reading
  <2>1. UNCHANGED <<pipe, half, herdr>> /\ (UNCHANGED frame \/ frame' = None)
    BY <1>2, <1>6 DEF Inbound, SendInput, SendResize, SendAttach, Sends, Sent, SendFails,
       Shutdown, Nudged, Join, Reading, Recv, RecvEof, Delivered, theirs
  <2> QED BY <1>3, <2>1
<1>7. CASE TakeLength \/ Misread \/ Handle
  <2>1. Reads /\ UNCHANGED frame
    BY <1>7, HandleEffect DEF TakeLength, Misread, ours
  <2>2. /\ pipe \in Seq(Piece) /\ pipe # << >> /\ pipe' = Tail(pipe)
        /\ Head(pipe) = pipe[1]
    BY <2>1, ReadsEffect
  <2>3. \A i \in DOMAIN pipe' : \E j \in DOMAIN pipe : pipe'[i] = pipe[j]
    BY <2>2, TailFacts
  <2>4. pipe[1].of.op = "hello" BY <1>3, <2>2, TailFacts
  <2>5. half' = None \/ half' = pipe[1].of
    BY <1>7, <2>2, HandleEffect DEF TakeLength, Misread
  <2>6. herdr' # "attached"
    <3>1. CASE TakeLength \/ Misread BY <1>3, <3>1 DEF TakeLength, Misread
    <3>2. CASE Handle BY <1>3, <3>2, HandleEffect, MessageFacts
    <3> QED BY <1>7, <3>1, <3>2
  <2> QED BY <1>3, <2>1, <2>3, <2>4, <2>5, <2>6
<1>8. CASE Trouble \/ Resumes
  <2>1. UNCHANGED <<pipe, half, frame>> /\ (herdr' = herdr \/ herdr' = "closed")
    BY <1>8 DEF Trouble, Resumes, ours
  <2> QED BY <1>3, <2>1
<1>9. CASE UNCHANGED wireVars BY <1>3, <1>9 DEF wireVars, ours, theirs
<1> QED BY <1>4, <1>5, <1>6, <1>7, <1>8, <1>9 DEF WireNext, Herdr

LEMMA FirstTurnStep ==
  ASSUME WireTypeOK, FirstTurn, [WireNext]_wireVars
  PROVE  FirstTurn'
<1>1. SUFFICES ASSUME stage' = "attach" PROVE frame' = Attach(current) /\ current' = current
  BY DEF FirstTurn, Attach
<1>2. CASE ReadWelcome BY <1>1, <1>2 DEF ReadWelcome, Begin
<1>3. CASE ~ReadWelcome
  <2>1. UNCHANGED <<stage, frame, current>>
    BY <1>1, <1>3 DEF WireNext, Opening, Resolve, SendHello, SentHello, NoWelcome, Opened,
       OpenFails, Push, Inbound, SendInput, SendResize, SendAttach, Sends, Sent, SendFails,
       Shutdown, Nudged, Join, Reading, Recv, RecvEof, Delivered, Herdr, TakeLength, Misread,
       Handle, Trouble, Resumes, WelcomeIsLate, wireVars, ours, Rest
  <2> QED BY <1>1, <2>1 DEF FirstTurn
<1> QED BY <1>2, <1>3

\* The part of LeadsToTarget that speaks of the pieces and what herdr has read of them.
Leads ==
  /\ \A i \in DOMAIN pipe :
       Turns(pipe[i]) /\ (\A j \in DOMAIN pipe : j > i => ~Turns(pipe[j])) =>
         pipe[i].of.arg = Target
  /\ (\A i \in DOMAIN pipe : ~Turns(pipe[i])) =>
       /\ half # None /\ half.op = "attach" => half.arg = Target
       /\ (half = None \/ half.op # "attach") /\ herdr = "attached" => showing = Target

\* Where no piece moves and the target stays, nothing changes.
LEMMA LeadsStays ==
  ASSUME Leads, UNCHANGED <<pipe, half, showing>>, Target' = Target,
         herdr' = "attached" => herdr = "attached"
  PROVE  Leads'
BY DEF Leads, Turns

\* The length of another terminal's frame turns the target with it.
LEMMA PushLeads ==
  ASSUME WireTypeOK, Leads, Push
  PROVE  Leads'
<1> DEFINE piece == [of |-> frame, part |-> pieces]
           n == Len(pipe)
<1>1. /\ pieces \in {0, 1} /\ frame \in Message /\ frame # None
      /\ UNCHANGED <<frame, half, showing, herdr, current>> /\ pieces' = pieces + 1
  BY DEF WireTypeOK, Push, theirs
<1>2. piece \in Piece /\ piece.of = frame /\ piece.part = pieces BY <1>1 DEF Piece
<1>3. pipe \in Seq(Piece) /\ pipe' = Append(pipe, piece) BY DEF WireTypeOK, Push, Piece
<1>4. /\ n \in Nat /\ DOMAIN pipe = 1 .. n /\ DOMAIN pipe' = 1 .. (n + 1)
      /\ \A i \in 1 .. n : pipe'[i] = pipe[i]
      /\ pipe'[n + 1] = piece
  BY <1>2, <1>3, AppendFacts
<1> HIDE DEF piece, n
<1>5. CASE Turns(piece)
  <2>1. pieces = 0 /\ frame.op = "attach" BY <1>2, <1>5 DEF Turns
  <2>2. Target' = frame.arg BY <1>1, <2>1 DEF Target
  <2>3. Turns(pipe'[n + 1]) /\ n + 1 \in DOMAIN pipe' BY <1>4, <1>5
  <2>4. ASSUME NEW i \in DOMAIN pipe', \A j \in DOMAIN pipe' : j > i => ~Turns(pipe'[j])
        PROVE  pipe'[i].of.arg = Target'
    <3>1. i = n + 1 BY <1>4, <2>3, <2>4
    <3> QED BY <1>2, <1>4, <2>2, <3>1
  <2>5. Leads' <=>
        /\ \A i \in DOMAIN pipe' :
             Turns(pipe'[i]) /\ (\A j \in DOMAIN pipe' : j > i => ~Turns(pipe'[j])) =>
               pipe'[i].of.arg = Target'
        /\ (\A i \in DOMAIN pipe' : ~Turns(pipe'[i])) =>
             /\ half' # None /\ half'.op = "attach" => half'.arg = Target'
             /\ (half' = None \/ half'.op # "attach") /\ herdr' = "attached" => showing' = Target'
    BY DEF Leads, Turns
  <2> QED BY <2>3, <2>4, <2>5
<1>6. CASE ~Turns(piece)
  <2>1. Target' = Target
    BY <1>1, <1>2, <1>6 DEF Target, Turns
  <2>2. ~Turns(pipe'[n + 1]) BY <1>4, <1>6
  <2>3. ASSUME NEW i \in DOMAIN pipe', Turns(pipe'[i]),
               \A j \in DOMAIN pipe' : j > i => ~Turns(pipe'[j])
        PROVE  pipe'[i].of.arg = Target'
    <3>1. i \in DOMAIN pipe /\ pipe'[i] = pipe[i] BY <1>4, <2>2, <2>3
    <3>2. \A j \in DOMAIN pipe : j > i => ~Turns(pipe[j]) BY <1>4, <2>3
    <3> QED BY <2>1, <2>3, <3>1, <3>2 DEF Leads
  <2>4. ASSUME \A i \in DOMAIN pipe' : ~Turns(pipe'[i])
        PROVE  \A i \in DOMAIN pipe : ~Turns(pipe[i])
    BY <1>4, <2>4
  <2>5. Leads' <=>
        /\ \A i \in DOMAIN pipe' :
             Turns(pipe'[i]) /\ (\A j \in DOMAIN pipe' : j > i => ~Turns(pipe'[j])) =>
               pipe'[i].of.arg = Target'
        /\ (\A i \in DOMAIN pipe' : ~Turns(pipe'[i])) =>
             /\ half' # None /\ half'.op = "attach" => half'.arg = Target'
             /\ (half' = None \/ half'.op # "attach") /\ herdr' = "attached" => showing' = Target'
    BY DEF Leads, Turns
  <2> QED BY <1>1, <2>1, <2>3, <2>4, <2>5 DEF Leads
<1> QED BY <1>5, <1>6

\* herdr reads on towards the target.
LEMMA ReadLeads ==
  ASSUME WireTypeOK, Leads, TakeLength \/ Handle
  PROVE  Leads'
<1> DEFINE n == Len(pipe)
<1>1. Reads /\ UNCHANGED <<frame, pieces, current>>
  BY HandleEffect DEF TakeLength, ours
<1>2. /\ pipe \in Seq(Piece) /\ pipe' = Tail(pipe) /\ pipe # << >>
      /\ Head(pipe) = pipe[1] /\ pipe[1].of \in Message /\ pipe[1].of # None
  BY <1>1, ReadsEffect, MessageFacts
<1>3. /\ n \in Nat \ {0} /\ DOMAIN pipe = 1 .. n /\ DOMAIN pipe' = 1 .. (n - 1)
      /\ \A i \in 1 .. (n - 1) : pipe'[i] = pipe[i + 1]
  BY <1>2, TailFacts
<1> HIDE DEF n
<1>4. Target' = Target BY <1>1 DEF Target
<1>5. ASSUME NEW i \in DOMAIN pipe', Turns(pipe'[i]),
             \A j \in DOMAIN pipe' : j > i => ~Turns(pipe'[j])
      PROVE  pipe'[i].of.arg = Target'
  <2>1. i + 1 \in DOMAIN pipe /\ pipe'[i] = pipe[i + 1] BY <1>3
  <2>2. ASSUME NEW j \in DOMAIN pipe, j > i + 1 PROVE ~Turns(pipe[j])
    <3>1. j - 1 \in DOMAIN pipe' /\ j - 1 > i /\ (j - 1) + 1 = j BY <1>3, <2>2
    <3>2. pipe'[j - 1] = pipe[j] BY <1>3, <3>1
    <3> QED BY <1>5, <3>1, <3>2
  <2> QED BY <1>4, <1>5, <2>1, <2>2 DEF Leads
<1>6. ASSUME \A i \in DOMAIN pipe' : ~Turns(pipe'[i])
      PROVE  /\ half' # None /\ half'.op = "attach" => half'.arg = Target'
             /\ (half' = None \/ half'.op # "attach") /\ herdr' = "attached" => showing' = Target'
  <2>1. ASSUME NEW j \in DOMAIN pipe, j > 1 PROVE ~Turns(pipe[j])
    <3>1. j - 1 \in DOMAIN pipe' /\ (j - 1) + 1 = j BY <1>3, <2>1
    <3>2. pipe'[j - 1] = pipe[j] BY <1>3, <3>1
    <3> QED BY <1>6, <3>1, <3>2
  <2>2. 1 \in DOMAIN pipe BY <1>3
  <2>3. Turns(pipe[1]) => pipe[1].of.arg = Target BY <2>1, <2>2 DEF Leads
  <2>4. ~Turns(pipe[1]) => \A j \in DOMAIN pipe : ~Turns(pipe[j])
    <3>1. \A j \in DOMAIN pipe : j = 1 \/ j > 1 BY <1>3
    <3> QED BY <2>1, <3>1
  <2>5. CASE TakeLength
    <3>1. /\ half = None /\ pipe[1].part = 0 /\ half' = pipe[1].of
          /\ UNCHANGED <<herdr, showing>>
      BY <1>2, <2>5 DEF TakeLength
    <3>2. CASE Turns(pipe[1]) BY <1>2, <1>4, <2>3, <3>1, <3>2 DEF Turns
    <3>3. CASE ~Turns(pipe[1])
      <4>1. herdr = "attached" => showing = Target BY <2>4, <3>1, <3>3 DEF Leads
      <4>2. half'.op # "attach" BY <3>1, <3>3 DEF Turns
      <4> QED BY <1>4, <3>1, <4>1, <4>2
    <3> QED BY <3>2, <3>3
  <2>6. CASE Handle
    <3>1. /\ half' = None /\ half \in Message /\ half # None /\ pipe[1].part = 1
          /\ half.op = "attach" => showing' = half.arg
          /\ half.op # "attach" => showing' = showing /\ (herdr' = "attached" => herdr = "attached")
      BY <2>6, HandleEffect, MessageFacts
    <3>2. \A j \in DOMAIN pipe : ~Turns(pipe[j]) BY <2>4, <3>1 DEF Turns
    <3>3. /\ half.op = "attach" => half.arg = Target
          /\ half.op # "attach" /\ herdr = "attached" => showing = Target
      BY <3>1, <3>2 DEF Leads
    <3> QED BY <1>4, <3>1, <3>3
  <2> QED BY <2>5, <2>6
<1>7. Leads' <=>
        /\ \A i \in DOMAIN pipe' :
             Turns(pipe'[i]) /\ (\A j \in DOMAIN pipe' : j > i => ~Turns(pipe'[j])) =>
               pipe'[i].of.arg = Target'
        /\ (\A i \in DOMAIN pipe' : ~Turns(pipe'[i])) =>
             /\ half' # None /\ half'.op = "attach" => half'.arg = Target'
             /\ (half' = None \/ half'.op # "attach") /\ herdr' = "attached" => showing' = Target'
  BY DEF Leads, Turns
<1> QED BY <1>5, <1>6, <1>7

LEMMA TargetStep ==
  ASSUME WireTypeOK, FramesEnd, StreamIsWhole, NoTurnYet, FirstTurn, LeadsToTarget,
         [WireNext]_wireVars
  PROVE  LeadsToTarget'
<1>0. frame = None => pieces = 0 BY DEF FramesEnd
<1>1. SUFFICES ASSUME stage' \in {"attach", "open"}, failed' # "torn" PROVE Leads'
  BY DEF LeadsToTarget, Leads
<1>2. CASE ReadWelcome
  <2>1. /\ stage = "welcome" /\ UNCHANGED <<pipe, half, showing, herdr, current>>
        /\ frame' = Attach(current) /\ pieces' = 0
    BY <1>1, <1>2 DEF ReadWelcome, Begin, theirs
  <2>2. /\ \A i \in DOMAIN pipe : pipe[i].of.op = "hello"
        /\ half # None => half.op = "hello"
        /\ herdr # "attached"
    BY <2>1 DEF NoTurnYet
  <2> QED BY <2>1, <2>2 DEF Leads, Turns
<1>3. CASE ~ReadWelcome
  <2>1. stage \in {"attach", "open"} /\ failed # "torn"
    BY <1>1, <1>3 DEF WireNext, Opening, Resolve, SendHello, SentHello, NoWelcome, Opened,
       OpenFails, Push, Inbound, SendInput, SendResize, SendAttach, Sends, Sent, SendFails,
       Shutdown, Nudged, Join, Reading, Recv, RecvEof, Delivered, Herdr, TakeLength, Misread,
       Handle, Trouble, Resumes, WelcomeIsLate, wireVars, ours, Rest, Worse
  <2>2. Leads BY <2>1 DEF LeadsToTarget, Leads
  <2>3. CASE Opening
    <3>1. Opened BY <1>1, <1>3, <2>1, <2>3 DEF Opening, Resolve, SendHello, SentHello,
                     NoWelcome, WelcomeIsLate, OpenFails
    <3>2. frame = Attach(current) /\ frame' = None /\ current' = current
      BY <3>1 DEF Opened, FirstTurn
    <3>3. Target' = Target BY <3>2, MessageFacts DEF Target, Attach
    <3> QED BY <2>2, <3>1, <3>3, LeadsStays DEF Opened, theirs
  <2>4. CASE Push BY <2>2, <2>4, PushLeads
  <2>5. CASE Inbound
    <3>1. CASE \E m : Sends(m) /\ UNCHANGED current
      <4>1. frame = None /\ pieces' = 0 /\ UNCHANGED current BY <3>1 DEF Sends, Begin
      <4>2. Target' = Target BY <4>1 DEF Target
      <4> QED BY <2>2, <3>1, <4>2, LeadsStays DEF Sends, theirs
    <3>2. CASE Sent
      <4>1. /\ frame # None /\ pieces = 2 /\ frame' = None
            /\ current' = IF frame.op = "attach" THEN frame.arg ELSE current
        BY <3>2 DEF Sent, Wrote
      <4>2. Target' = Target BY <4>1 DEF Target
      <4> QED BY <2>2, <3>2, <4>2, LeadsStays DEF Sent, theirs
    <3>3. CASE SendFails
      <4>1. frame' = None /\ current' = current /\ pieces # 1 /\ pieces < 2
        BY <1>1, <3>3 DEF SendFails, Worse, Stalled
      <4>2. pieces = 0 BY <4>1 DEF WireTypeOK
      <4>3. Target' = Target BY <4>1, <4>2 DEF Target
      <4> QED BY <2>2, <3>3, <4>3, LeadsStays DEF SendFails, theirs
    <3>4. ~(Shutdown \/ Nudged \/ Join)
      BY <1>1 DEF Shutdown, Nudged, Join
    <3> QED BY <2>5, <3>1, <3>2, <3>3, <3>4 DEF Inbound, SendInput, SendResize, SendAttach
  <2>6. CASE Reading \/ UNCHANGED wireVars
    <3>1. UNCHANGED <<frame, pieces, current, pipe, half, showing, herdr>>
      BY <2>6 DEF Reading, Recv, RecvEof, Delivered, wireVars, ours, theirs
    <3>2. Target' = Target BY <3>1 DEF Target
    <3> QED BY <2>2, <3>1, <3>2, LeadsStays
  <2>7. CASE TakeLength \/ Handle BY <2>2, <2>7, ReadLeads
  <2>8. CASE Misread
    <3>1. pipe # << >> /\ pipe[1].part = 0 /\ half # None
      BY <2>8, ReadsEffect DEF Misread
    <3> QED BY <2>1, <3>1 DEF StreamIsWhole, BeginsWhole
  <2>9. CASE Trouble \/ Resumes
    <3>1. /\ UNCHANGED <<frame, pieces, current, pipe, half, showing>>
          /\ herdr' = "attached" => herdr = "attached"
      BY <2>9 DEF Trouble, Resumes, ours
    <3>2. Target' = Target BY <3>1 DEF Target
    <3> QED BY <2>2, <3>1, <3>2, LeadsStays
  <2> QED BY <2>3, <2>4, <2>5, <2>6, <2>7, <2>8, <2>9 DEF WireNext, Herdr
<1> QED BY <1>2, <1>3

LEMMA WireInitInv == ASSUME WireInit PROVE WireInv
<1>1. WireTypeOK BY WireTypeInit
<1>2. pipe = << >> /\ DOMAIN pipe = {} /\ half = None /\ frame = None /\ pieces = 0
  BY DEF WireInit
<1>3. FramesEnd BY <1>2 DEF FramesEnd
<1>4. StreamIsWhole BY <1>2 DEF StreamIsWhole, Alternate, BeginsWhole, EndsWhole
<1>5. NoTurnYet BY <1>2 DEF NoTurnYet, WireInit
<1>6. FirstTurn /\ LeadsToTarget BY DEF FirstTurn, LeadsToTarget, WireInit
<1> QED BY <1>1, <1>3, <1>4, <1>5, <1>6 DEF WireInv

LEMMA WireInvariance == WireSpec => []WireInv
<1>1. WireInit => WireInv BY WireInitInv
<1>2. WireInv /\ [WireNext]_wireVars => WireInv'
  BY WireTypeStep, FramesEndStep, StreamStep, NoTurnStep, FirstTurnStep, TargetStep DEF WireInv
<1> QED BY <1>1, <1>2, PTL DEF WireSpec

\* Every variable of a relay's socket has its type.
THEOREM WireTypeCorrect == WireSpec => []WireTypeOK
<1>1. WireInv => WireTypeOK BY DEF WireInv
<1> QED BY <1>1, WireInvariance, PTL

\* herdr never takes the middle of one frame for the beginning of another, unless a write
\* timed out there, whatever the socket holds and whenever either end stops (write_message).
THEOREM WholeFrames == WireSpec => []FramesStayWhole
<1>1. WireInv => FramesStayWhole
  <2>1. SUFFICES ASSUME WireInv, half # None, pipe # << >>, Head(pipe).part = 0
                 PROVE  failed = "torn"
    BY DEF FramesStayWhole
  <2>2. Head(pipe) = pipe[1] BY <2>1, TailFacts DEF WireInv, WireTypeOK
  <2> QED BY <2>1, <2>2 DEF WireInv, StreamIsWhole, BeginsWhole
<1> QED BY <1>1, WireInvariance, PTL

\* The terminal a relay has on record is the one herdr shows its client, once nothing is on
\* its way, for any number of writes that time out before their first byte (reattach).
THEOREM RecordedIsShown == WireSpec => []ShowsWhatIsRecorded
<1>1. WireInv => ShowsWhatIsRecorded
  <2>1. SUFFICES ASSUME WireInv, stage = "open", frame = None, pipe = << >>, half = None,
                        failed # "torn", herdr = "attached"
                 PROVE  showing = current
    BY DEF ShowsWhatIsRecorded, AtRest
  <2>2. DOMAIN pipe = {} BY <2>1
  <2>3. showing = Target BY <2>1, <2>2 DEF WireInv, LeadsToTarget
  <2> QED BY <2>1, <2>3 DEF Target
<1> QED BY <1>1, WireInvariance, PTL
=============================================================================
