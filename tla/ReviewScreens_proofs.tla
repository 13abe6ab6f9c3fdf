------------------------- MODULE ReviewScreens_proofs -------------------------
(***************************************************************************)
(* Herdr's windows first: the popup record, the one popup and the one tab, *)
(* for any number of presses.  Then one Review Screen, for any requests,   *)
(* keys, waits and lengths: what a key counts for and what is asked.  Last *)
(* the waiting list and its picker, for any worktrees, branches, clones,   *)
(* sessions and heights: what is found by name, and what the marker is on. *)
(***************************************************************************)
EXTENDS ReviewScreens, Integers, Sequences, FiniteSetTheorems,
        WellFoundedInduction, TLAPS

ActPcs == {"idle", "open", "list", "rename", "focus", "done"}
Act == [pc : ActPcs, kind : {None, "popup", "tab"}, tab : Presses \cup {None}]
PopupPcs == {"none", "start", "pick", "review", "problem", "leave", "closed"}
Shown == {"pick", "review", "problem", "leave"}

\* What the types of the variables are.
DataOK ==
  /\ waiting \in BOOLEAN /\ act \in [Presses -> Act]
  /\ DOMAIN tabs \subseteq Presses /\ \A t \in DOMAIN tabs : tabs[t] \in {None, ReviewTabLabel}
  /\ focused \in DOMAIN tabs \cup {None}
  /\ popups \in [Presses -> PopupPcs]
  /\ record.pid \in Presses \cup {None}
  /\ told \subseteq Presses /\ amiss \subseteq Faults

OnePopup == \A p, q \in OpenPopup : p = q

\* A record without a popup is left only by one that was killed.
RecordShown ==
  "kill" \notin amiss => record = NoRecord \/ \E p \in Presses : popups[p] \in Shown

IInv == DataOK /\ OnePopup /\ RecordNamesPopup /\ RecordShown

-----------------------------------------------------------------------------

\* A step of the key's actions leaves the popups and their record alone.
LEMMA PopupsKept ==
  ASSUME IInv, DataOK', UNCHANGED <<popups, record>>, "kill" \in amiss => "kill" \in amiss'
  PROVE  IInv'
BY DEF IInv, OnePopup, OpenPopup, RecordNamesPopup, RecordShown

LEMMA GotoTyped ==
  ASSUME DataOK, NEW p \in Presses, NEW l \in ActPcs, Goto(p, l)
  PROVE  act' \in [Presses -> Act]
<1>1. act[p] \in Act /\ [act[p] EXCEPT !.pc = l] \in Act
  BY DEF DataOK, Act
<1>2. act' = [act EXCEPT ![p] = [act[p] EXCEPT !.pc = l]]
  BY DEF DataOK, Goto
<1> QED BY <1>1, <1>2 DEF DataOK

LEMMA NotOpenedStep ==
  ASSUME IInv, NEW p \in Presses, NotOpened(p), amiss \subseteq amiss', amiss' \subseteq Faults
  PROVE  IInv'
<1>1. act' \in [Presses -> Act]
  BY GotoTyped DEF NotOpened, IInv, ActPcs
<1>2. DataOK'
  BY <1>1 DEF NotOpened, IInv, DataOK
<1> QED BY <1>2, PopupsKept DEF NotOpened

LEMMA RequestFailsStep ==
  ASSUME IInv, NEW p \in Presses, RequestFails(p)
  PROVE  IInv'
<1>1. amiss \subseteq amiss' /\ amiss' \subseteq Faults
  BY DEF RequestFails, IInv, DataOK
<1> QED BY <1>1, NotOpenedStep DEF RequestFails

LEMMA PressStep ==
  ASSUME IInv, NEW p \in Presses, NEW kind \in {"popup", "tab"}, Press(p, kind)
  PROVE  IInv'
<1> DEFINE a == [pc |-> "done", kind |-> kind, tab |-> None]
           b == [pc |-> IF kind = "popup" THEN "open" ELSE "list", kind |-> kind, tab |-> None]
<1>1. a \in Act /\ b \in Act
  BY DEF Act, ActPcs
<1>2. act' \in [Presses -> Act]
  BY <1>1 DEF Press, IInv, DataOK
<1>3. /\ told' \subseteq Presses /\ UNCHANGED <<waiting, tabs, focused, popups, record>>
      /\ amiss \subseteq amiss' /\ amiss' \subseteq Faults
  BY DEF Press, IInv, DataOK
<1>4. DataOK'
  BY <1>2, <1>3 DEF IInv, DataOK
<1> QED BY <1>3, <1>4, PopupsKept

LEMMA OpenPopupPaneStep ==
  ASSUME IInv, NEW p \in Presses, OpenPopupPane(p)
  PROVE  IInv'
<1>1. CASE OpenPopup = {}
  <2>1. /\ popups' = [popups EXCEPT ![p] = "start"] /\ Goto(p, "done")
        /\ UNCHANGED <<waiting, tabs, focused, record, told, amiss>>
    BY <1>1 DEF OpenPopupPane
  <2>2. /\ popups' \in [Presses -> PopupPcs] /\ popups'[p] = "start"
        /\ \A q \in Presses \ {p} : popups'[q] = popups[q]
    BY <2>1 DEF IInv, DataOK, PopupPcs
  <2>3. act' \in [Presses -> Act]
    BY <2>1, GotoTyped DEF IInv, ActPcs
  <2>4. \A q \in Presses : popups[q] \in {"none", "closed"}
    BY <1>1 DEF OpenPopup
  <2>5. DataOK' /\ OnePopup' /\ RecordNamesPopup'
    BY <2>1, <2>2, <2>3, <2>4 DEF IInv, DataOK, OnePopup, OpenPopup, RecordNamesPopup
  <2>6. RecordShown'
    BY <2>1, <2>4 DEF IInv, RecordShown, Shown
  <2> QED BY <2>5, <2>6 DEF IInv
<1>2. CASE OpenPopup # {}
  BY <1>2, NotOpenedStep DEF OpenPopupPane, IInv, DataOK
<1> QED BY <1>1, <1>2

LEMMA ListTabsStep ==
  ASSUME IInv, NEW p \in Presses, ListTabs(p)
  PROVE  IInv'
<1>1. UNCHANGED <<waiting, tabs, focused, popups, record, told, amiss>>
  BY DEF ListTabs
<1>2. act' \in [Presses -> Act]
  <2>1. CASE Goto(p, "open")
    BY <2>1, GotoTyped DEF IInv, ActPcs
  <2>2. CASE \E t \in OpenTab : act' = [act EXCEPT ![p].pc = "focus", ![p].tab = t]
    <3>1. PICK t \in OpenTab : act' = [act EXCEPT ![p].pc = "focus", ![p].tab = t]
      BY <2>2
    <3>2. t \in Presses
      BY DEF OpenTab, IInv, DataOK
    <3>3. [act[p] EXCEPT !.pc = "focus", !.tab = t] \in Act
      <4>1. act[p] \in Act
        BY DEF IInv, DataOK
      <4> QED BY <3>2, <4>1 DEF Act, ActPcs
    <3>4. act' = [act EXCEPT ![p] = [act[p] EXCEPT !.pc = "focus", !.tab = t]]
      BY <3>1 DEF IInv, DataOK
    <3> QED BY <3>3, <3>4 DEF IInv, DataOK
  <2> QED BY <2>1, <2>2 DEF ListTabs
<1>3. DataOK'
  BY <1>1, <1>2 DEF IInv, DataOK
<1> QED BY <1>1, <1>3, PopupsKept

LEMMA OpenTabPaneStep ==
  ASSUME IInv, NEW p \in Presses, OpenTabPane(p)
  PROVE  IInv'
<1>1. /\ tabs' = [t \in DOMAIN tabs \cup {p} |-> IF t = p THEN None ELSE tabs[t]]
      /\ focused' = p /\ act' = [act EXCEPT ![p].pc = "rename", ![p].tab = p]
      /\ UNCHANGED <<waiting, popups, record, told, amiss>>
  BY DEF OpenTabPane
<1>2. act[p] \in Act /\ [act[p] EXCEPT !.pc = "rename", !.tab = p] \in Act
  BY DEF IInv, DataOK, Act, ActPcs
<1>3. act' = [act EXCEPT ![p] = [act[p] EXCEPT !.pc = "rename", !.tab = p]]
  BY <1>1 DEF IInv, DataOK
<1>4. act' \in [Presses -> Act]
  BY <1>2, <1>3 DEF IInv, DataOK
<1>5. /\ DOMAIN tabs' \subseteq Presses /\ focused' \in DOMAIN tabs'
      /\ \A t \in DOMAIN tabs' : tabs'[t] \in {None, ReviewTabLabel}
  BY <1>1 DEF IInv, DataOK
<1>6. DataOK'
  BY <1>1, <1>4, <1>5 DEF IInv, DataOK
<1> QED BY <1>1, <1>6, PopupsKept

LEMMA RenameStep ==
  ASSUME IInv, NEW p \in Presses, Rename(p)
  PROVE  IInv'
<1>1. CASE p \in DOMAIN tabs
  <2>1. /\ tabs' = [tabs EXCEPT ![p] = ReviewTabLabel] /\ Goto(p, "focus")
        /\ UNCHANGED <<waiting, focused, popups, record, told, amiss>>
    BY <1>1 DEF Rename
  <2>2. act' \in [Presses -> Act]
    BY <2>1, GotoTyped DEF IInv, ActPcs
  <2>3. DOMAIN tabs' = DOMAIN tabs /\ \A t \in DOMAIN tabs' : tabs'[t] \in {None, ReviewTabLabel}
    BY <2>1 DEF IInv, DataOK
  <2>4. DataOK'
    BY <2>1, <2>2, <2>3 DEF IInv, DataOK
  <2> QED BY <2>1, <2>4, PopupsKept
<1>2. CASE p \notin DOMAIN tabs
  BY <1>2, NotOpenedStep DEF Rename, IInv, DataOK
<1> QED BY <1>1, <1>2

LEMMA FocusStep ==
  ASSUME IInv, NEW p \in Presses, Focus(p)
  PROVE  IInv'
<1>1. CASE act[p].tab \in DOMAIN tabs
  <2>1. /\ focused' = act[p].tab /\ Goto(p, "done")
        /\ UNCHANGED <<waiting, tabs, popups, record, told, amiss>>
    BY <1>1 DEF Focus
  <2>2. act' \in [Presses -> Act]
    BY <2>1, GotoTyped DEF IInv, ActPcs
  <2>3. DataOK'
    BY <1>1, <2>1, <2>2 DEF IInv, DataOK
  <2> QED BY <2>1, <2>3, PopupsKept
<1>2. CASE act[p].tab \notin DOMAIN tabs
  BY <1>2, NotOpenedStep DEF Focus, IInv, DataOK
<1> QED BY <1>1, <1>2

LEMMA TabQuitsStep ==
  ASSUME IInv, NEW p \in Presses, TabQuits(p)
  PROVE  IInv'
<1>1. /\ tabs' = [u \in DOMAIN tabs \ {p} |-> tabs[u]]
      /\ focused' = IF focused = p THEN None ELSE focused
      /\ UNCHANGED <<waiting, act, popups, record, told, amiss>>
  BY DEF TabQuits
<1>2. DataOK'
  BY <1>1 DEF IInv, DataOK
<1> QED BY <1>1, <1>2, PopupsKept

-----------------------------------------------------------------------------
\* The popup's own steps: it is the only one.

\* One popup moves on, shown before and after, and the record stays.
LEMMA PopupMoves ==
  ASSUME IInv, NEW p \in Presses, NEW l \in Shown \ {"review"}, popups[p] \in Shown,
         popups' = [popups EXCEPT ![p] = l], UNCHANGED <<waiting, act, tabs, focused, record, told, amiss>>
  PROVE  IInv'
<1>1. /\ popups' \in [Presses -> PopupPcs] /\ popups'[p] = l
      /\ \A q \in Presses \ {p} : popups'[q] = popups[q]
  BY DEF IInv, DataOK, PopupPcs, Shown
<1>2. record.pid = p
  BY DEF IInv, RecordNamesPopup, Shown
<1>3. DataOK' /\ OnePopup'
  BY <1>1 DEF IInv, DataOK, OnePopup, OpenPopup, Shown
<1>4. RecordNamesPopup' /\ RecordShown'
  BY <1>1, <1>2 DEF IInv, RecordNamesPopup, RecordShown, Shown
<1> QED BY <1>3, <1>4 DEF IInv

\* One popup names itself in the record.
LEMMA PopupRecorded ==
  ASSUME IInv, NEW p \in Presses, NEW l \in {"pick", "review"}, p \in OpenPopup,
         NEW name, l = "review" => name = "Review",
         popups' = [popups EXCEPT ![p] = l], SaveRecord(p, name),
         UNCHANGED <<waiting, act, tabs, focused, told, amiss>>
  PROVE  IInv'
<1>1. /\ popups' \in [Presses -> PopupPcs] /\ popups'[p] = l
      /\ \A q \in Presses \ {p} : popups'[q] = popups[q]
  BY DEF IInv, DataOK, PopupPcs
<1>2. \A q \in Presses \ {p} : popups[q] \in {"none", "closed"}
  BY DEF IInv, OnePopup, OpenPopup
<1>3. record' = [pid |-> p, name |-> name]
  BY DEF SaveRecord
<1>4. record'.pid = p /\ record'.name = name
  BY <1>3
<1>5. DataOK' /\ OnePopup'
  BY <1>1, <1>2, <1>4 DEF IInv, DataOK, OnePopup, OpenPopup
<1>6. RecordNamesPopup' /\ RecordShown'
  BY <1>1, <1>2, <1>4 DEF RecordNamesPopup, RecordShown, Shown
<1> QED BY <1>5, <1>6 DEF IInv

LEMMA PopupStartsStep ==
  ASSUME IInv, NEW p \in Presses, PopupStarts(p)
  PROVE  IInv'
<1>1. p \in OpenPopup
  BY DEF PopupStarts, OpenPopup
<1> QED BY <1>1, PopupRecorded DEF PopupStarts

LEMMA PopupPicksStep ==
  ASSUME IInv, NEW p \in Presses, PopupPicks(p)
  PROVE  IInv'
<1>1. p \in OpenPopup /\ popups[p] \in Shown
  BY DEF PopupPicks, OpenPopup, Shown
<1>2. CASE popups' = [popups EXCEPT ![p] = "review"] /\ SaveRecord(p, "Review")
  BY <1>1, <1>2, PopupRecorded DEF PopupPicks
<1>3. CASE popups' = [popups EXCEPT ![p] = "problem"] /\ UNCHANGED record
  BY <1>1, <1>3, PopupMoves DEF PopupPicks, Shown
<1>4. CASE popups' = [popups EXCEPT ![p] = "leave"] /\ UNCHANGED record
  BY <1>1, <1>4, PopupMoves DEF PopupPicks, Shown
<1> QED BY <1>2, <1>3, <1>4 DEF PopupPicks

LEMMA PopupLeavesStep ==
  ASSUME IInv, NEW p \in Presses, PopupLeaves(p)
  PROVE  IInv'
BY PopupMoves DEF PopupLeaves, Shown

\* A popup that closes was the only one; killed, it leaves its record.
LEMMA PopupCloses ==
  ASSUME IInv, NEW p \in OpenPopup, popups' = [popups EXCEPT ![p] = "closed"],
         \/ record' = NoRecord /\ amiss' = amiss
         \/ UNCHANGED record /\ "kill" \in Faults /\ amiss' = amiss \cup {"kill"},
         UNCHANGED <<waiting, act, tabs, focused, told>>
  PROVE  IInv'
<1>1. p \in Presses
  BY DEF OpenPopup
<1>2. /\ popups' \in [Presses -> PopupPcs] /\ popups'[p] = "closed"
      /\ \A q \in Presses \ {p} : popups'[q] = popups[q]
  BY <1>1 DEF IInv, DataOK, PopupPcs
<1>3. \A q \in Presses : popups'[q] \in {"none", "closed"}
  BY <1>2 DEF IInv, OnePopup, OpenPopup
<1>4. record'.pid \in Presses \cup {None}
  BY DEF IInv, DataOK, NoRecord
<1>5. DataOK'
  BY <1>2, <1>4 DEF IInv, DataOK
<1>6. OnePopup' /\ RecordNamesPopup' /\ RecordShown'
  BY <1>3 DEF OnePopup, OpenPopup, RecordNamesPopup, RecordShown
<1> QED BY <1>5, <1>6 DEF IInv

LEMMA ClosePopupStep ==
  ASSUME IInv, NEW p \in Presses, ClosePopup(p)
  PROVE  IInv'
<1>1. p \in OpenPopup
  BY DEF ClosePopup, OpenPopup
<1> QED BY <1>1, PopupCloses DEF ClosePopup

LEMMA PopupKilledStep ==
  ASSUME IInv, NEW p \in Presses, PopupKilled(p)
  PROVE  IInv'
BY PopupCloses DEF PopupKilled

-----------------------------------------------------------------------------

LEMMA InitStep == Init => IInv
<1> SUFFICES ASSUME Init PROVE IInv
  OBVIOUS
<1>1. act \in [Presses -> Act]
  BY DEF Init, Idle, Act, ActPcs
<1>2. popups = [p \in Presses |-> "none"] /\ record = NoRecord /\ DOMAIN tabs = {}
  BY DEF Init
<1>3. DataOK
  BY <1>1, <1>2 DEF Init, DataOK, PopupPcs, NoRecord
<1>4. OnePopup /\ RecordNamesPopup /\ RecordShown
  BY <1>2 DEF OnePopup, OpenPopup, RecordNamesPopup, RecordShown
<1> QED BY <1>3, <1>4 DEF IInv

LEMMA StepKeeps == IInv /\ [Next]_vars => IInv'
<1> SUFFICES ASSUME IInv, [Next]_vars PROVE IInv'
  OBVIOUS
<1>1. CASE ReviewsChange
  <2>1. DataOK'
    BY <1>1 DEF ReviewsChange, IInv, DataOK
  <2> QED BY <1>1, <2>1, PopupsKept DEF ReviewsChange
<1>2. ASSUME NEW p \in Presses, NEW kind \in {"popup", "tab"}, Press(p, kind) PROVE IInv'
  BY <1>2, PressStep
<1>3. ASSUME NEW p \in Presses, RequestFails(p) \/ OpenPopupPane(p) \/ ListTabs(p) PROVE IInv'
  BY <1>3, RequestFailsStep, OpenPopupPaneStep, ListTabsStep
<1>4. ASSUME NEW p \in Presses, OpenTabPane(p) \/ Rename(p) \/ Focus(p) \/ TabQuits(p) PROVE IInv'
  BY <1>4, OpenTabPaneStep, RenameStep, FocusStep, TabQuitsStep
<1>5. ASSUME NEW p \in Presses, PopupStarts(p) \/ PopupPicks(p) \/ PopupLeaves(p) PROVE IInv'
  BY <1>5, PopupStartsStep, PopupPicksStep, PopupLeavesStep
<1>6. ASSUME NEW p \in Presses, ClosePopup(p) \/ PopupKilled(p) PROVE IInv'
  BY <1>6, ClosePopupStep, PopupKilledStep
<1>7. CASE UNCHANGED vars
  <2>1. DataOK' /\ UNCHANGED <<popups, record, amiss>>
    BY <1>7 DEF vars, IInv, DataOK
  <2> QED BY <2>1, PopupsKept
<1> QED BY <1>1, <1>2, <1>3, <1>4, <1>5, <1>6, <1>7 DEF Next

LEMMA InvHolds == Spec => []IInv
<1>1. Init => IInv
  BY InitStep
<1>2. IInv /\ [Next]_vars => IInv'
  BY StepKeeps
<1> QED BY <1>1, <1>2, PTL DEF Spec

\* Every reachable state is well formed, and Herdr shows one popup at most.
THEOREM TypeCorrect == Spec => []TypeOK
<1>1. IInv => TypeOK
  <2> SUFFICES ASSUME IInv PROVE TypeOK
    OBVIOUS
  <2>1. Cardinality(OpenPopup) <= 1
    <3>1. CASE OpenPopup = {}
      BY <3>1, FS_EmptySet
    <3>2. CASE OpenPopup # {}
      <4>1. PICK p \in OpenPopup : TRUE
        BY <3>2
      <4>2. OpenPopup = {p}
        BY <4>1 DEF IInv, OnePopup
      <4> QED BY <4>2, FS_Singleton
    <3> QED BY <3>1, <3>2
  <2> QED BY <2>1 DEF IInv, DataOK, TypeOK, Act, ActPcs, PopupPcs
<1> QED BY <1>1, InvHolds, PTL

\* The record the approval tool reads names the popup that is shown, whatever
\* popups were opened and killed before.
THEOREM RecordNamesIt == Spec => []RecordNamesPopup
<1>1. IInv => RecordNamesPopup
  BY DEF IInv
<1> QED BY <1>1, InvHolds, PTL

-----------------------------------------------------------------------------

\* One Review Tab.

Active(p) == act[p].pc \notin {"idle", "done"}

\* Only one press at a time is at work, and there is one tab at most, which has its
\* name unless its press is about to give it.  Without a tab only may a press be
\* about to open one.
TabOK ==
  /\ \A p, q \in Presses : Active(p) /\ Active(q) => p = q
  /\ \A t, u \in DOMAIN tabs : t = u
  /\ \A p \in Presses : act[p].pc = "open" /\ act[p].kind = "tab" => DOMAIN tabs = {}
  /\ \A p \in Presses : act[p].pc = "rename" => DOMAIN tabs \subseteq {p}
  /\ \A t \in DOMAIN tabs : tabs[t] = ReviewTabLabel \/ act[t].pc = "rename"

Calm == amiss \cap {"together", "herdr"} = {}
TabInv == Calm => TabOK

LEMMA NotOpenedTabs ==
  ASSUME IInv, TabOK, NEW p \in Presses, NotOpened(p), act[p].pc # "idle",
         act[p].pc = "rename" => p \notin DOMAIN tabs
  PROVE  TabOK'
<1>1. /\ act' = [act EXCEPT ![p] = [act[p] EXCEPT !.pc = "done"]] /\ act[p] \in Act
      /\ DOMAIN tabs \subseteq Presses
  BY DEF NotOpened, Goto, IInv, DataOK
<1>2. act'[p].pc = "done" /\ \A q \in Presses \ {p} : act'[q] = act[q]
  BY <1>1 DEF IInv, DataOK, Act
<1>3. UNCHANGED tabs
  BY DEF NotOpened
<1> QED BY <1>1, <1>2, <1>3 DEF TabOK, Active

LEMMA PressTabs ==
  ASSUME IInv, TabInv, NEW p \in Presses, NEW kind \in {"popup", "tab"}, Press(p, kind)
  PROVE  TabInv'
<1> SUFFICES ASSUME Calm' PROVE TabOK'
  BY DEF TabInv
<1>1. /\ \A q \in Presses : act[q].pc \in {"idle", "done"}
      /\ Calm /\ UNCHANGED tabs /\ act[p].pc = "idle"
  BY DEF Press, Calm
<1>2. /\ \A q \in Presses \ {p} : act'[q] = act[q]
      /\ act'[p].pc \in {"open", "list", "done"} /\ (act'[p].pc = "open" => act'[p].kind = "popup")
  BY DEF Press, IInv, DataOK
<1>3. TabOK
  BY <1>1 DEF TabInv
<1>4. DOMAIN tabs \subseteq Presses
  BY DEF IInv, DataOK
<1> QED BY <1>1, <1>2, <1>3, <1>4 DEF TabOK, Active

LEMMA ListTabsTabs ==
  ASSUME IInv, TabOK, NEW p \in Presses, ListTabs(p)
  PROVE  TabOK'
<1>1. act[p] \in Act /\ act[p].pc = "list" /\ UNCHANGED tabs /\ DOMAIN tabs \subseteq Presses
  BY DEF IInv, DataOK, ListTabs
<1>2. /\ \A q \in Presses \ {p} : act'[q] = act[q]
      /\ act'[p].pc = "focus" \/ (act'[p].pc = "open" /\ OpenTab = {})
  BY <1>1 DEF ListTabs, Goto, IInv, DataOK, Act
<1>3. Active(p) /\ \A q \in Presses : act[q].pc = "rename" => FALSE
  BY <1>1 DEF TabOK, Active
<1>4. OpenTab = {} => DOMAIN tabs = {}
  BY <1>1, <1>3 DEF TabOK, OpenTab
<1> QED BY <1>1, <1>2, <1>3, <1>4 DEF TabOK, Active

LEMMA OpenTabPaneTabs ==
  ASSUME IInv, TabOK, NEW p \in Presses, OpenTabPane(p)
  PROVE  TabOK'
<1>1. /\ act[p] \in Act /\ act[p].pc = "open" /\ act[p].kind = "tab"
      /\ tabs' = [t \in DOMAIN tabs \cup {p} |-> IF t = p THEN None ELSE tabs[t]]
  BY DEF IInv, DataOK, OpenTabPane
<1>2. \A q \in Presses \ {p} : act'[q] = act[q]
  BY DEF OpenTabPane, IInv, DataOK
<1>3. act'[p].pc = "rename"
  BY <1>1 DEF OpenTabPane, IInv, DataOK, Act
<1>4. DOMAIN tabs = {}
  BY <1>1 DEF TabOK
<1>5. DOMAIN tabs' = {p}
  BY <1>1, <1>4
<1>6. \A q \in Presses \ {p} : ~Active(q)
  BY <1>1 DEF TabOK, Active
<1> QED BY <1>2, <1>3, <1>5, <1>6 DEF TabOK, Active

LEMMA RenameTabs ==
  ASSUME IInv, TabOK, NEW p \in Presses, Rename(p)
  PROVE  TabOK'
<1>1. act[p] \in Act /\ act[p].pc = "rename" /\ DOMAIN tabs \subseteq Presses
  BY DEF IInv, DataOK, Rename
<1>2. CASE p \in DOMAIN tabs
  <2>1. /\ act' = [act EXCEPT ![p] = [act[p] EXCEPT !.pc = "focus"]]
        /\ tabs' = [tabs EXCEPT ![p] = ReviewTabLabel]
    BY <1>2 DEF Rename, Goto, IInv, DataOK
  <2>2. act'[p].pc = "focus" /\ \A q \in Presses \ {p} : act'[q] = act[q]
    BY <1>1, <2>1 DEF IInv, DataOK, Act
  <2>3. DOMAIN tabs' = {p} /\ tabs'[p] = ReviewTabLabel
    BY <1>1, <1>2, <2>1 DEF TabOK
  <2>4. \A q \in Presses \ {p} : ~Active(q)
    BY <1>1 DEF TabOK, Active
  <2> QED BY <2>2, <2>3, <2>4 DEF TabOK, Active
<1>3. CASE p \notin DOMAIN tabs
  BY <1>1, <1>3, NotOpenedTabs DEF Rename
<1> QED BY <1>2, <1>3

LEMMA DoneTabs ==
  ASSUME IInv, TabOK, NEW p \in Presses, Goto(p, "done"), UNCHANGED tabs, act[p].pc \in {"open", "focus"}
  PROVE  TabOK'
<1>1. /\ act' = [act EXCEPT ![p] = [act[p] EXCEPT !.pc = "done"]] /\ act[p] \in Act
      /\ DOMAIN tabs \subseteq Presses
  BY DEF Goto, IInv, DataOK
<1>2. act'[p].pc = "done" /\ \A q \in Presses \ {p} : act'[q] = act[q]
  BY <1>1 DEF IInv, DataOK, Act
<1> QED BY <1>1, <1>2 DEF TabOK, Active

LEMMA TabQuitsTabs ==
  ASSUME IInv, TabOK, NEW p \in Presses, TabQuits(p)
  PROVE  TabOK'
<1>1. tabs' = [u \in DOMAIN tabs \ {p} |-> tabs[u]] /\ UNCHANGED act
  BY DEF TabQuits
<1>2. DOMAIN tabs' \subseteq DOMAIN tabs /\ \A u \in DOMAIN tabs' : tabs'[u] = tabs[u]
  BY <1>1
<1> QED BY <1>1, <1>2 DEF TabOK, Active

LEMMA TabsStep == IInv /\ TabInv /\ [Next]_vars => TabInv'
<1> SUFFICES ASSUME IInv, TabInv, [Next]_vars PROVE TabInv'
  OBVIOUS
<1>1. ASSUME NEW p \in Presses, NEW kind \in {"popup", "tab"}, Press(p, kind) PROVE TabInv'
  BY <1>1, PressTabs
<1>2. ASSUME NEW p \in Presses, RequestFails(p) PROVE TabInv'
  BY <1>2 DEF RequestFails, TabInv, Calm
<1>3. ASSUME NEW p \in Presses, OpenPopupPane(p) \/ Focus(p) PROVE TabInv'
  <2>1. UNCHANGED <<tabs, amiss>> /\ act[p].pc \in {"open", "focus"} /\ (Goto(p, "done") \/ NotOpened(p))
    BY <1>3 DEF OpenPopupPane, Focus, NotOpened
  <2>2. Goto(p, "done")
    BY <2>1 DEF NotOpened
  <2> QED BY <2>1, <2>2, DoneTabs DEF TabInv, Calm
<1>4. ASSUME NEW p \in Presses, ListTabs(p) \/ OpenTabPane(p) \/ Rename(p) \/ TabQuits(p) PROVE TabInv'
  <2>1. UNCHANGED amiss
    BY <1>4 DEF ListTabs, OpenTabPane, Rename, TabQuits
  <2> QED BY <1>4, <2>1, ListTabsTabs, OpenTabPaneTabs, RenameTabs, TabQuitsTabs DEF TabInv, Calm
<1>5. ASSUME UNCHANGED <<act, tabs>>, Calm' => Calm PROVE TabInv'
  BY <1>5 DEF TabInv, TabOK, Active
<1>6. ASSUME NEW p \in Presses, PopupStarts(p) \/ PopupPicks(p) \/ PopupLeaves(p) PROVE TabInv'
  BY <1>5, <1>6 DEF PopupStarts, PopupPicks, PopupLeaves, Calm
<1>7. ASSUME NEW p \in Presses, ClosePopup(p) \/ PopupKilled(p) PROVE TabInv'
  BY <1>5, <1>7 DEF ClosePopup, PopupKilled, Calm
<1>8. CASE ReviewsChange \/ UNCHANGED vars
  BY <1>5, <1>8 DEF ReviewsChange, vars, Calm
<1> QED BY <1>1, <1>2, <1>3, <1>4, <1>6, <1>7, <1>8 DEF Next

\* A second Ctrl+b E opens no second Review Tab once the first was answered, and
\* no record is left of a popup that ended by itself (herdr.rs:130, start.rs:118).
THEOREM TurnsAreKept == Spec => []WindowsInTurn
<1>1. Init => TabInv
  BY DEF Init, TabInv, TabOK, Active, Idle
<1>2. IInv /\ TabInv => WindowsInTurn
  <2> SUFFICES ASSUME IInv, TabInv PROVE WindowsInTurn
    OBVIOUS
  <2>1. OneTab
    <3> SUFFICES ASSUME TabOK PROVE Cardinality(DOMAIN tabs) <= 1
      BY DEF OneTab, TabInv, Calm
    <3>1. CASE DOMAIN tabs = {}
      BY <3>1, FS_EmptySet
    <3>2. CASE DOMAIN tabs # {}
      <4>1. PICK t \in DOMAIN tabs : TRUE
        BY <3>2
      <4>2. DOMAIN tabs = {t}
        BY <4>1 DEF TabOK
      <4> QED BY <4>2, FS_Singleton
    <3> QED BY <3>1, <3>2
  <2>2. NoRecordLeft
    BY DEF IInv, RecordShown, Shown, OpenPopup, NoRecordLeft
  <2> QED BY <2>1, <2>2 DEF WindowsInTurn
<1> QED BY <1>1, <1>2, InvHolds, TabsStep, PTL DEF Spec

-----------------------------------------------------------------------------
\* The Review Screen.  First: a number that is least; positions and request IDs.

LEMMA LeastOf == ASSUME NEW T \in SUBSET Nat, T # {} PROVE Screen!Least(T) \in T
<1>1. PICK n \in T : \A m \in T : n <= m
  <2> DEFINE R == OpToRel(<, Nat)
  <2>1. IsWellFoundedOn(R, Nat)
    BY NatLessThanWellFounded
  <2>2. \A m, n \in Nat : <<m, n>> \in R <=> m < n
    BY DEF OpToRel
  <2> HIDE DEF R
  <2>3. PICK n \in T : \A m \in T : ~ (<<m, n>> \in R)
    BY <2>1, WFMin
  <2>4. \A m \in T : ~ (m < n)
    BY <2>2, <2>3
  <2>5. \A m \in T : n <= m
    BY <2>4
  <2> QED BY <2>5
<1> QED BY <1>1 DEF Screen!Least

\* How many of a set of numbers lie below one of them.
Below(R, d) == {e \in R : e < d}

LEMMA RankBounds ==
  ASSUME NEW R \in SUBSET Nat, IsFiniteSet(R), NEW d \in R
  PROVE  Cardinality(Below(R, d)) \in 0 .. (Cardinality(R) - 1)
<1>1. Below(R, d) \in SUBSET R /\ Below(R, d) # R
  BY DEF Below
<1>2. /\ Cardinality(Below(R, d)) <= Cardinality(R) /\ Cardinality(Below(R, d)) # Cardinality(R)
      /\ IsFiniteSet(Below(R, d))
  BY <1>1, FS_Subset
<1>3. Cardinality(R) \in Nat /\ Cardinality(Below(R, d)) \in Nat
  BY <1>2, FS_CardinalityType
<1> QED BY <1>2, <1>3

LEMMA RankGrows ==
  ASSUME NEW R \in SUBSET Nat, IsFiniteSet(R), NEW d \in R, NEW e \in R, d < e
  PROVE  Cardinality(Below(R, d)) < Cardinality(Below(R, e))
<1>1. Below(R, e) \in SUBSET Nat /\ IsFiniteSet(Below(R, e)) /\ d \in Below(R, e)
  <2>1. Below(R, e) \in SUBSET R
    BY DEF Below
  <2> QED BY <2>1, FS_Subset DEF Below
<1>2. Below(Below(R, e), d) = Below(R, d)
  <2>1. \A x \in R : x < d => x < e
    OBVIOUS
  <2>2. \A x : x \in Below(Below(R, e), d) <=> x \in R /\ x < e /\ x < d
    BY DEF Below
  <2>3. \A x : x \in Below(R, d) <=> x \in R /\ x < d
    BY DEF Below
  <2> QED BY <2>1, <2>2, <2>3
<1>3. Cardinality(Below(R, d)) \in 0 .. (Cardinality(Below(R, e)) - 1)
  BY <1>1, <1>2, RankBounds
<1>4. Cardinality(Below(R, e)) \in Nat
  BY <1>1, FS_CardinalityType
<1> QED BY <1>3, <1>4

\* Every position below the number of requests is that of exactly one request.
LEMMA Ranks ==
  ASSUME NEW R \in SUBSET Nat, IsFiniteSet(R)
  PROVE  /\ \A i \in 0 .. (Cardinality(R) - 1) : \E d \in R : Cardinality(Below(R, d)) = i
         /\ \A d, e \in R : Cardinality(Below(R, d)) = Cardinality(Below(R, e)) => d = e
<1>1. \A d, e \in R : Cardinality(Below(R, d)) = Cardinality(Below(R, e)) => d = e
  <2> SUFFICES ASSUME NEW d \in R, NEW e \in R, d # e
               PROVE  Cardinality(Below(R, d)) # Cardinality(Below(R, e))
    OBVIOUS
  <2>1. Cardinality(Below(R, d)) \in Int /\ Cardinality(Below(R, e)) \in Int
    BY RankBounds
  <2>2. CASE d < e
    BY <2>1, <2>2, RankGrows
  <2>3. CASE e < d
    BY <2>1, <2>3, RankGrows
  <2> QED BY <2>2, <2>3
<1>2. Cardinality(R) \in Nat
  BY FS_CardinalityType
<1> DEFINE P == 0 .. (Cardinality(R) - 1)
           rank == [d \in R |-> Cardinality(Below(R, d))]
<1>3. rank \in [R -> P]
  BY RankBounds
<1>4. rank \in Injection(R, P)
  BY <1>1, <1>3 DEF Injection, IsInjective
<1>5. IsFiniteSet(P) /\ Cardinality(P) = Cardinality(R)
  <2>1. /\ IsFiniteSet(0 .. (Cardinality(R) - 1))
        /\ Cardinality(0 .. (Cardinality(R) - 1))
             = IF 0 > Cardinality(R) - 1 THEN 0 ELSE (Cardinality(R) - 1) - 0 + 1
    BY <1>2, FS_Interval
  <2> QED BY <1>2, <2>1
<1>6. rank \in Surjection(R, P)
  <2> HIDE DEF P, rank
  <2> QED BY <1>4, <1>5, FS_Injection
<1>7. \A i \in P : \E d \in R : rank[d] = i
  BY <1>6 DEF Surjection
<1> QED BY <1>1, <1>7

-----------------------------------------------------------------------------
\* Reviews.

LEMMA ReviewFields ==
  ASSUME NEW s \in Screen!Reviews
  PROVE  /\ s = [status |-> s.status, reqs |-> s.reqs, fb |-> s.fb]
         /\ s.status \in {"waiting", "notes", "done", "dismissed"}
         /\ DOMAIN s.reqs \subseteq Ids /\ s.reqs \in [DOMAIN s.reqs -> 1 .. MaxVersion]
         /\ DOMAIN s.fb \subseteq DOMAIN s.reqs /\ s.fb \in [DOMAIN s.fb -> Screen!FeedbackSet]
<1>1. /\ s \in [status : {"waiting", "notes", "done", "dismissed"},
                reqs : UNION {[D -> 1 .. MaxVersion] : D \in SUBSET Ids},
                fb : UNION {[D -> Screen!FeedbackSet] : D \in SUBSET Ids}]
      /\ DOMAIN s.fb \subseteq DOMAIN s.reqs
  BY DEF Screen!Reviews
<1>2. PICK D \in SUBSET Ids : s.reqs \in [D -> 1 .. MaxVersion]
  BY <1>1
<1>3. PICK E \in SUBSET Ids : s.fb \in [E -> Screen!FeedbackSet]
  BY <1>1
<1> QED BY <1>1, <1>2, <1>3

LEMMA ReviewMade ==
  ASSUME NEW st \in {"waiting", "notes", "done", "dismissed"}, NEW D \in SUBSET Ids,
         NEW E \in SUBSET D, NEW r \in [D -> 1 .. MaxVersion], NEW f \in [E -> Screen!FeedbackSet]
  PROVE  [status |-> st, reqs |-> r, fb |-> f] \in Screen!Reviews
<1>1. r \in UNION {[DD -> 1 .. MaxVersion] : DD \in SUBSET Ids}
  OBVIOUS
<1>2. f \in UNION {[DD -> Screen!FeedbackSet] : DD \in SUBSET Ids}
  OBVIOUS
<1> QED BY <1>1, <1>2 DEF Screen!Reviews

\* Each change of a review keeps its requests.
SameList(t, s) == t.reqs = s.reqs /\ t.status = s.status

LEMMA WithFbReview ==
  ASSUME NEW s \in Screen!Reviews, NEW d \in DOMAIN s.reqs, NEW f \in Screen!FeedbackSet
  PROVE  /\ Screen!WithFb(s, d, f) \in Screen!Reviews /\ SameList(Screen!WithFb(s, d, f), s)
         /\ DOMAIN Screen!WithFb(s, d, f).fb = DOMAIN s.fb \cup {d}
<1> DEFINE fb == [e \in DOMAIN s.fb \cup {d} |-> IF e = d THEN f ELSE s.fb[e]]
<1>1. Screen!WithFb(s, d, f) = [status |-> s.status, reqs |-> s.reqs, fb |-> fb]
  BY ReviewFields DEF Screen!WithFb
<1>2. fb \in [DOMAIN s.fb \cup {d} -> Screen!FeedbackSet] /\ DOMAIN s.fb \cup {d} \subseteq DOMAIN s.reqs
  BY ReviewFields
<1>3. [status |-> s.status, reqs |-> s.reqs, fb |-> fb] \in Screen!Reviews
  <2> HIDE DEF fb
  <2> QED BY <1>2, ReviewFields, ReviewMade
<1> QED BY <1>1, <1>3 DEF SameList

LEMMA WithoutFbReview ==
  ASSUME NEW s \in Screen!Reviews, NEW S
  PROVE  /\ Screen!WithoutFb(s, S) \in Screen!Reviews /\ SameList(Screen!WithoutFb(s, S), s)
         /\ DOMAIN Screen!WithoutFb(s, S).fb = DOMAIN s.fb \ S
<1> DEFINE fb == [e \in DOMAIN s.fb \ S |-> s.fb[e]]
<1>1. Screen!WithoutFb(s, S) = [status |-> s.status, reqs |-> s.reqs, fb |-> fb]
  BY ReviewFields DEF Screen!WithoutFb
<1>2. fb \in [DOMAIN s.fb \ S -> Screen!FeedbackSet] /\ DOMAIN s.fb \ S \subseteq DOMAIN s.reqs
  BY ReviewFields
<1>3. [status |-> s.status, reqs |-> s.reqs, fb |-> fb] \in Screen!Reviews
  <2> HIDE DEF fb
  <2> QED BY <1>2, ReviewFields, ReviewMade
<1> QED BY <1>1, <1>3 DEF SameList

LEMMA StatusReview ==
  ASSUME NEW s \in Screen!Reviews, NEW st \in {"waiting", "notes", "done", "dismissed"}
  PROVE  [s EXCEPT !.status = st] \in Screen!Reviews /\ [s EXCEPT !.status = st].reqs = s.reqs
         /\ [s EXCEPT !.status = st].status = st
<1>1. [s EXCEPT !.status = st] = [status |-> st, reqs |-> s.reqs, fb |-> s.fb]
  BY ReviewFields
<1>2. [status |-> st, reqs |-> s.reqs, fb |-> s.fb] \in Screen!Reviews
  BY ReviewFields, ReviewMade
<1> QED BY <1>1, <1>2

LEMMA HandOverReview ==
  ASSUME NEW s \in Screen!Reviews
  PROVE  /\ Screen!HandOver(s) \in Screen!Reviews /\ Screen!HandOver(s).reqs = s.reqs
         /\ Screen!HandOver(s) = s \/ Screen!HandOver(s).status = "notes"
         /\ Screen!HandOver(s).status = "waiting" /\ Screen!AllFed(Screen!HandOver(s)) => Screen!AllAnswered(Screen!HandOver(s))
<1>1. CASE Screen!AllFed(s) /\ \E d \in DOMAIN s.fb : s.fb[d].kind = "note"
  <2>1. Screen!HandOver(s) = [s EXCEPT !.status = "notes"]
    BY <1>1 DEF Screen!HandOver
  <2>2. /\ [s EXCEPT !.status = "notes"] \in Screen!Reviews
        /\ [s EXCEPT !.status = "notes"].reqs = s.reqs
        /\ [s EXCEPT !.status = "notes"].status = "notes"
    BY StatusReview
  <2> QED BY <2>1, <2>2
<1>2. CASE ~(Screen!AllFed(s) /\ \E d \in DOMAIN s.fb : s.fb[d].kind = "note")
  <2>1. Screen!HandOver(s) = s
    BY <1>2 DEF Screen!HandOver
  <2>2. Screen!AllFed(s) => Screen!AllAnswered(s)
    <3> SUFFICES ASSUME Screen!AllFed(s), NEW d \in DOMAIN s.reqs
                 PROVE  d \in DOMAIN s.fb /\ s.fb[d].kind = "answer"
      BY DEF Screen!AllAnswered
    <3>1. d \in DOMAIN s.fb
      BY DEF Screen!AllFed
    <3>2. s.fb[d] \in Screen!FeedbackSet
      BY <3>1, ReviewFields
    <3>3. s.fb[d].kind # "note"
      BY <1>2, <3>1
    <3>4. s.fb[d].kind \in {"answer", "note"}
      BY <3>2 DEF Screen!FeedbackSet, Screen!Answer, Screen!Note
    <3> QED BY <3>1, <3>3, <3>4
  <2> QED BY <2>1, <2>2
<1> QED BY <1>1, <1>2

\* The instance counts as this module does.
LEMMA SameCount ==
  \A S : Screen!Cardinality(S) = Cardinality(S) /\ (Screen!IsFiniteSet(S) <=> IsFiniteSet(S))
<1>1. \A S : Screen!Cardinality(S) = Cardinality(S)
  BY DEF Screen!Cardinality, Cardinality
<1>2. \A S : Screen!IsFiniteSet(S) <=> IsFiniteSet(S)
  BY DEF Screen!IsFiniteSet, IsFiniteSet
<1> QED BY <1>1, <1>2

\* The shown request is one of the review, wherever its position is one.
LEMMA PositionOf ==
  ASSUME Screen!ScreenAssumption, NEW s \in Screen!Reviews
  PROVE  /\ Screen!Count(s) \in Nat
         /\ Screen!Positions(s) \subseteq 0 .. (Cardinality(Ids) - 1)
         /\ \A i \in Screen!Positions(s) : Screen!IdAt(s, i) \in DOMAIN s.reqs
         /\ \A d \in DOMAIN s.reqs : \E i \in Screen!Positions(s) : Screen!IdAt(s, i) = d
         /\ DOMAIN s.reqs # {} => 0 \in Screen!Positions(s)
<1> DEFINE R == DOMAIN s.reqs
<1>1. R \in SUBSET Ids /\ R \in SUBSET Nat
  BY ReviewFields, SameCount DEF Screen!ScreenAssumption
<1>2. IsFiniteSet(R) /\ Cardinality(R) \in Nat /\ Cardinality(Ids) \in Nat
      /\ Cardinality(R) <= Cardinality(Ids)
  BY <1>1, FS_Subset, FS_CardinalityType, SameCount DEF Screen!ScreenAssumption
<1>3. Screen!Count(s) = Cardinality(R) /\ Screen!Positions(s) = 0 .. (Cardinality(R) - 1)
  BY SameCount DEF Screen!Count, Screen!Positions
<1>4. \A i : Screen!IdAt(s, i) = CHOOSE d \in R : Cardinality(Below(R, d)) = i
  BY SameCount DEF Screen!IdAt, Below
<1>5. /\ \A i \in Screen!Positions(s) : \E d \in R : Cardinality(Below(R, d)) = i
      /\ \A d, e \in R : Cardinality(Below(R, d)) = Cardinality(Below(R, e)) => d = e
  <2> HIDE DEF R
  <2> QED BY <1>1, <1>2, <1>3, Ranks
<1>6. \A d \in R : Cardinality(Below(R, d)) \in Screen!Positions(s)
  <2> HIDE DEF R
  <2> QED BY <1>1, <1>2, <1>3, RankBounds
<1>7. \A i \in Screen!Positions(s) : Screen!IdAt(s, i) \in R /\ Cardinality(Below(R, Screen!IdAt(s, i))) = i
  <2> HIDE DEF R
  <2> QED BY <1>4, <1>5
<1>8. \A d \in R : \E i \in Screen!Positions(s) : Screen!IdAt(s, i) = d
  <2> HIDE DEF R
  <2> TAKE d \in R
  <2>1. Cardinality(Below(R, d)) \in Screen!Positions(s)
    BY <1>6
  <2>2. Screen!IdAt(s, Cardinality(Below(R, d))) = d
    BY <1>5, <1>7, <2>1
  <2> QED BY <2>1, <2>2
<1>9. R # {} => 0 \in Screen!Positions(s)
  <2> HIDE DEF R
  <2> QED BY <1>2, <1>3, <1>6
<1> QED BY <1>2, <1>3, <1>7, <1>8, <1>9

-----------------------------------------------------------------------------
\* The invariant of a screen.

KeyPresses == [key : Keys, saw : Screen!Displays, busy : BOOLEAN]
Savings == [id : Ids \cup {0},
            saved : {"none", "e", "v", "s", "d", "refused", "waiting", "notes", "done", "dismissed"}]
Reading == {"draw", "drop", "read"}

\* The screen shows requests, or will again.
Asking == pc \in Reading \/ (pc = "away" /\ saving.saved # "d")

\* The types, and that there is a request at the shown position.
ShapeInv ==
  /\ Screen!TypeOK /\ queue \in Seq(KeyPresses) /\ saving \in Savings
  /\ Asking \/ pc \in {"save", "load"} => index \in Screen!Positions(mem)

\* A note prompt is open only while its request is shown, long enough to count.
LoopInv ==
  /\ pc \in Reading => ~wasLeft
  /\ pc = "read" => drawnAt # Screen!NotDrawn
  /\ prompt.kind = "note" => pc \in {"draw", "read", "end"} /\ drawnAt >= Settle

\* Request d of a review was drawn.
Seen(v, s, d) == v.what = "request" /\ v.id = d /\ v.ver = s.reqs[d]

\* The drawn request is still the shown one: the keys that wait were pressed on it,
\* and those that may give feedback when it had been there long enough.  A save that
\* comes back to the request it left is of that request.  None of it holds once a
\* list came between that save and its load.
Live == drawnAt # Screen!NotDrawn /\ ~wasLeft /\ ~late /\ pc \in {"draw", "read", "save", "load"}
SeenInv ==
  /\ pc = "drop" => Seen(display, mem, Screen!ShownId)
  /\ Live => /\ Seen(display, mem, Screen!ShownId) /\ drawnAt <= display.age
             /\ \A i \in DOMAIN queue :
                  Seen(queue[i].saw, mem, Screen!ShownId) /\ (drawnAt >= Settle => queue[i].saw.age >= Settle)
             /\ pc \in {"save", "load"} => drawnAt >= Settle /\ saving.id = Screen!ShownId

\* A save that was done is of a request that is there as it was given, unless a list
\* came since.
SavedInv ==
  pc = "load" /\ saving.saved # "refused" /\ ~late =>
    saving.id \in DOMAIN disk.reqs /\ disk.reqs[saving.id] = mem.reqs[saving.id]

ResultInv == pc \in {"resultDraw", "resultRead"} => \A i \in DOMAIN queue : ~queue[i].busy

\* Until another screen or such a list joins, the review waits with a request open whenever the
\* screen asks; and after a save it is over, or goes on, as the load will find.
OpenInv == ~joined =>
  /\ Asking => mem = disk
  /\ Asking \/ pc = "save" => disk.status = "waiting" /\ ~Screen!AllFed(disk)
  /\ pc = "load" /\ disk.status = "waiting" =>
       /\ Screen!AllFed(disk) => Screen!AllAnswered(disk)
       /\ saving.saved = "refused" => ~Screen!AllFed(disk)

ScreenInv ==
  /\ ShapeInv /\ LoopInv /\ SeenInv /\ SavedInv /\ ResultInv /\ OpenInv
  /\ Screen!NoStrayAnswer /\ Screen!ResultIsRead

\* What the theorems assume.
ScreenAssumed == Screen!ScreenAssumption /\ Screen!ScreenBounds

-----------------------------------------------------------------------------
\* The queue.

Fewer == /\ queue' \in Seq(KeyPresses)
         /\ \A i \in DOMAIN queue' : \E j \in DOMAIN queue : queue'[i] = queue[j]

LEMMA TakenKey ==
  ASSUME ScreenInv, queue # <<>>, queue' = Tail(queue)
  PROVE  Fewer /\ Head(queue) \in KeyPresses /\ \E j \in DOMAIN queue : Head(queue) = queue[j]
<1>1. queue \in Seq(KeyPresses)
  BY DEF ScreenInv, ShapeInv
<1>2. Tail(queue) \in Seq(KeyPresses) /\ Head(queue) = queue[1] /\ 1 \in DOMAIN queue
      /\ Head(queue) \in KeyPresses
  BY <1>1
<1>3. \A i \in DOMAIN Tail(queue) : i + 1 \in DOMAIN queue /\ Tail(queue)[i] = queue[i + 1]
  BY <1>1
<1> QED BY <1>2, <1>3 DEF Fewer

LEMMA ReadKey ==
  ASSUME ScreenAssumed, ScreenInv, NEW k, Screen!Reads(k)
  PROVE  /\ pc = "read" /\ Fewer /\ Head(queue) \in KeyPresses
         /\ Live \/ late
         /\ Live => Seen(display, mem, Screen!ShownId) /\ Seen(Head(queue).saw, mem, Screen!ShownId)
         /\ Live /\ Screen!HasWaited => Head(queue).saw.age >= Settle
         /\ index \in Screen!Positions(mem) /\ drawnAt # Screen!NotDrawn /\ ~wasLeft
<1>1. pc = "read" /\ queue # <<>> /\ queue' = Tail(queue)
  BY DEF Screen!Reads
<1>2. (Live \/ late) /\ index \in Screen!Positions(mem) /\ drawnAt # Screen!NotDrawn /\ ~wasLeft
  BY <1>1 DEF ScreenInv, LoopInv, ShapeInv, Live, Reading, Asking
<1>3. Live => /\ Seen(display, mem, Screen!ShownId)
              /\ \A i \in DOMAIN queue :
                   Seen(queue[i].saw, mem, Screen!ShownId) /\ (drawnAt >= Settle => queue[i].saw.age >= Settle)
  BY DEF ScreenInv, SeenInv
<1> QED BY <1>1, <1>2, <1>3, TakenKey DEF Screen!HasWaited

\* The types of what a step may set, by field.
LEMMA ScreenTypes ==
  ASSUME ScreenInv
  PROVE  /\ disk \in Screen!Reviews /\ mem \in Screen!Reviews /\ index \in 0 .. (Cardinality(Ids) - 1)
         /\ drawnAt \in {Screen!NotDrawn} \cup 0 .. Settle
         /\ prompt \in [kind : {"none", "note", "search"}, typed : 0 .. MaxText]
         /\ display \in Screen!Displays /\ queue \in Seq(KeyPresses) /\ saving \in Savings
         /\ wasLeft \in BOOLEAN /\ joined \in BOOLEAN /\ late \in BOOLEAN
BY SameCount DEF ScreenInv, ShapeInv, Screen!TypeOK

LEMMA ShapeKept ==
  ASSUME disk' \in Screen!Reviews, mem' \in Screen!Reviews, index' \in 0 .. (Cardinality(Ids) - 1),
         drawnAt' \in {Screen!NotDrawn} \cup 0 .. Settle,
         prompt' \in [kind : {"none", "note", "search"}, typed : 0 .. MaxText],
         display' \in Screen!Displays, queue' \in Seq(KeyPresses), saving' \in Savings,
         wasLeft' \in BOOLEAN, joined' \in BOOLEAN, late' \in BOOLEAN,
         pc' \in {"draw", "drop", "read", "away", "save", "load", "step7", "resultDrop",
                  "resultDraw", "resultRead", "end", "panicked"},
         Asking' \/ pc' \in {"save", "load"} => index' \in Screen!Positions(mem')
  PROVE  ShapeInv'
<1>1. \A i \in DOMAIN queue' : queue'[i] \in [key : Keys, saw : Screen!Displays, busy : BOOLEAN]
  <2>1. \A i \in DOMAIN queue' : queue'[i] \in KeyPresses
    OBVIOUS
  <2> QED BY <2>1 DEF KeyPresses
<1> QED BY <1>1, SameCount DEF ShapeInv, Screen!TypeOK

\* A screen that is over, or shows its result, has little to keep.
LEMMA ResultKeeps ==
  ASSUME ScreenInv, ShapeInv',
         pc' \in {"step7", "resultDrop", "end", "panicked"},
         UNCHANGED <<given, joined, late>>, prompt'.kind = "note" => pc' = "end" /\ drawnAt' >= Settle
  PROVE  ScreenInv'
<1>1. Screen!NoStrayAnswer' /\ Screen!ResultIsRead'
  BY DEF ScreenInv, Screen!NoStrayAnswer, Screen!ResultIsRead
<1>2. LoopInv' /\ SeenInv' /\ SavedInv' /\ ResultInv' /\ OpenInv'
  BY DEF LoopInv, SeenInv, SavedInv, ResultInv, OpenInv, Asking, Reading, Live
<1> QED BY <1>1, <1>2 DEF ScreenInv

\* A key that only changes the prompt, or nothing.
LEMMA RoundKeeps ==
  ASSUME ScreenAssumed, ScreenInv, NEW k, Screen!Reads(k), Screen!NextRound(drawnAt),
         UNCHANGED <<disk, mem, index, display, saving, given, joined, late>>,
         prompt' \in [kind : {"none", "note", "search"}, typed : 0 .. MaxText],
         prompt'.kind = "note" => drawnAt >= Settle
  PROVE  ScreenInv'
<1>1. /\ pc = "read" /\ Fewer /\ (Live \/ late) /\ index \in Screen!Positions(mem) /\ drawnAt # Screen!NotDrawn /\ ~wasLeft
  BY ReadKey
<1>2. pc' = "draw" /\ wasLeft' = FALSE /\ drawnAt' = drawnAt
  BY <1>1 DEF Screen!NextRound
<1>3. ShapeInv'
  BY <1>1, <1>2, ScreenTypes, ShapeKept DEF Fewer
<1>4. LoopInv' /\ SavedInv' /\ ResultInv'
  BY <1>1, <1>2 DEF LoopInv, SavedInv, ResultInv, Reading
<1>5. Screen!ShownId' = Screen!ShownId 
  BY DEF Screen!ShownId
<1>6. Live => /\ Seen(display, mem, Screen!ShownId) /\ drawnAt <= display.age
              /\ \A i \in DOMAIN queue :
                   Seen(queue[i].saw, mem, Screen!ShownId) /\ (drawnAt >= Settle => queue[i].saw.age >= Settle)
  BY DEF ScreenInv, SeenInv
<1>7. SeenInv'
  <2>1. CASE Live
    <3>1. Seen(display', mem', Screen!ShownId') /\ drawnAt' <= display'.age
      BY <1>2, <1>5, <1>6, <2>1
    <3>2. \A i \in DOMAIN queue' :
            Seen(queue'[i].saw, mem', Screen!ShownId') /\ (drawnAt' >= Settle => queue'[i].saw.age >= Settle)
      BY <1>1, <1>2, <1>5, <1>6, <2>1 DEF Fewer
    <3> QED BY <1>2, <3>1, <3>2 DEF SeenInv
  <2>2. CASE late
    BY <1>2, <2>2 DEF SeenInv, Live
  <2> QED BY <1>1, <2>1, <2>2
<1>8. OpenInv' /\ Screen!NoStrayAnswer' /\ Screen!ResultIsRead'
  BY <1>1, <1>2 DEF ScreenInv, OpenInv, Asking, Reading, Screen!NoStrayAnswer, Screen!ResultIsRead
<1> QED BY <1>3, <1>4, <1>7, <1>8 DEF ScreenInv

-----------------------------------------------------------------------------
\* The steps: first the terminal and the drawing.

LEMMA PressKeeps ==
  ASSUME ScreenAssumed, ScreenInv, NEW k \in Keys, Screen!Press(k) PROVE ScreenInv'
<1> DEFINE e == [key |-> k, saw |-> display, busy |-> pc \in {"save", "load", "step7"}]
<1>1. queue' = Append(queue, e) /\ e \in KeyPresses /\ queue \in Seq(KeyPresses)
  BY ScreenTypes DEF Screen!Press, KeyPresses
<1>2. UNCHANGED <<disk, mem, index, drawnAt, prompt, display, pc, saving, wasLeft, given, joined, late>>
  BY DEF Screen!Press, Screen!shownVars
<1>3. e.saw = display /\ (pc \in {"resultDraw", "resultRead"} => ~e.busy)
  OBVIOUS
<1> HIDE DEF e
<1>4. /\ queue' \in Seq(KeyPresses)
      /\ \A i \in DOMAIN queue' : queue'[i] = e \/ \E j \in DOMAIN queue : queue'[i] = queue[j]
  BY <1>1
<1>5. ShapeInv'
  BY <1>2, <1>4, ScreenTypes, ShapeKept DEF ScreenInv, ShapeInv, Screen!TypeOK, Asking, Reading
<1>6. LoopInv' /\ SavedInv' /\ ResultInv' /\ OpenInv' /\ Screen!NoStrayAnswer' /\ Screen!ResultIsRead'
  BY <1>2, <1>3, <1>4 DEF ScreenInv, LoopInv, SavedInv, ResultInv, OpenInv, Screen!NoStrayAnswer,
     Screen!ResultIsRead,
     Asking, Reading
<1>7. Screen!ShownId' = Screen!ShownId /\ (Live' <=> Live)
  BY <1>2 DEF Screen!ShownId, Live
<1>8. SeenInv'
  <2>1. CASE Live
    <3>1. /\ Seen(display, mem, Screen!ShownId) /\ drawnAt <= display.age
          /\ \A i \in DOMAIN queue :
               Seen(queue[i].saw, mem, Screen!ShownId) /\ (drawnAt >= Settle => queue[i].saw.age >= Settle)
          /\ pc \in {"save", "load"} => drawnAt >= Settle /\ saving.id = Screen!ShownId
      BY <2>1 DEF ScreenInv, SeenInv
    <3>2. drawnAt >= Settle => display.age >= Settle
      BY <3>1, ScreenTypes DEF Screen!Displays, ScreenAssumed, Screen!ScreenBounds, Screen!NotDrawn
    <3>3. \A i \in DOMAIN queue' :
            Seen(queue'[i].saw, mem, Screen!ShownId) /\ (drawnAt >= Settle => queue'[i].saw.age >= Settle)
      BY <1>3, <1>4, <3>1, <3>2
    <3>4. pc \notin {"drop"}
      BY <2>1 DEF Live
    <3> QED BY <1>2, <1>7, <3>1, <3>3, <3>4 DEF SeenInv
  <2>2. CASE ~Live
    BY <1>2, <1>7, <2>2 DEF ScreenInv, SeenInv
  <2> QED BY <2>1, <2>2
<1> QED BY <1>5, <1>6, <1>8 DEF ScreenInv

LEMMA TickKeeps == ASSUME ScreenAssumed, ScreenInv, Screen!Tick PROVE ScreenInv'
<1>1. /\ UNCHANGED <<disk, mem, index, prompt, queue, pc, saving, wasLeft, given, joined, late>>
      /\ ~(queue # <<>> /\ (pc \in {"read", "resultRead"} \/ (pc = "draw" /\ drawnAt # Screen!NotDrawn)))
  BY DEF Screen!Tick
<1>2. /\ display' = [display EXCEPT !.age = IF @ < Settle THEN @ + 1 ELSE @]
      /\ drawnAt' = IF drawnAt = Screen!NotDrawn THEN drawnAt
                    ELSE IF drawnAt < Settle THEN drawnAt + 1 ELSE drawnAt
  BY DEF Screen!Tick
<1>3. Settle \in Nat /\ display.age \in 0 .. Settle /\ drawnAt \in {-1} \cup 0 .. Settle
  BY ScreenTypes DEF Screen!Displays, Screen!NotDrawn, ScreenAssumed, Screen!ScreenBounds
<1>4. /\ display'.what = display.what /\ display'.id = display.id /\ display'.ver = display.ver
      /\ display'.age \in 0 .. Settle /\ display'.age >= display.age /\ display' \in Screen!Displays
      /\ drawnAt <= display.age => drawnAt' <= display'.age
      /\ drawnAt' \in {Screen!NotDrawn} \cup 0 .. Settle /\ (drawnAt' = Screen!NotDrawn <=> drawnAt = Screen!NotDrawn)
      /\ drawnAt >= Settle => drawnAt' >= Settle
  <2>1. display \in [what : {"nothing", "request", "result"}, id : Ids \cup {0},
                     ver : 0 .. MaxVersion, age : 0 .. Settle]
    BY ScreenTypes DEF Screen!Displays
  <2>2. display'.age = IF display.age < Settle THEN display.age + 1 ELSE display.age
    BY <1>2, <2>1
  <2>3. display'.age \in 0 .. Settle /\ display'.age >= display.age
    BY <1>3, <2>2
  <2>4. /\ display'.what = display.what /\ display'.id = display.id /\ display'.ver = display.ver
        /\ display' \in Screen!Displays
    BY <1>2, <2>1, <2>3 DEF Screen!Displays
  <2>5. /\ drawnAt <= display.age => drawnAt' <= display'.age
        /\ drawnAt' \in {Screen!NotDrawn} \cup 0 .. Settle /\ (drawnAt' = Screen!NotDrawn <=> drawnAt = Screen!NotDrawn)
        /\ drawnAt >= Settle => drawnAt' >= Settle
    BY <1>2, <1>3, <2>2 DEF Screen!NotDrawn
  <2> QED BY <2>3, <2>4, <2>5
<1>5. ShapeInv'
  BY <1>1, <1>4, ScreenTypes, ShapeKept DEF ScreenInv, ShapeInv, Screen!TypeOK, Asking, Reading
<1>6. LoopInv' /\ SavedInv' /\ ResultInv' /\ OpenInv' /\ Screen!NoStrayAnswer' /\ Screen!ResultIsRead'
  BY <1>1, <1>4 DEF ScreenInv, LoopInv, SavedInv, ResultInv, OpenInv, Screen!NoStrayAnswer,
     Screen!ResultIsRead,
     Asking, Reading
<1>7. Screen!ShownId' = Screen!ShownId /\ (Live' <=> Live)
  BY <1>1, <1>4 DEF Screen!ShownId, Live
<1>8. SeenInv'
  <2>1. CASE Live
    <3>1. /\ Seen(display, mem, Screen!ShownId) /\ drawnAt <= display.age
          /\ \A i \in DOMAIN queue :
               Seen(queue[i].saw, mem, Screen!ShownId) /\ (drawnAt >= Settle => queue[i].saw.age >= Settle)
          /\ pc \in {"save", "load"} => drawnAt >= Settle /\ saving.id = Screen!ShownId
      BY <2>1 DEF ScreenInv, SeenInv
    <3>2. queue = <<>> \/ drawnAt >= Settle
      BY <1>1, <2>1, <3>1 DEF Live
    <3>3. \A i \in DOMAIN queue : Seen(queue[i].saw, mem, Screen!ShownId)
                                  /\ (drawnAt' >= Settle => queue[i].saw.age >= Settle)
      BY <3>1, <3>2
    <3>4. Seen(display', mem, Screen!ShownId)
      BY <1>4, <3>1 DEF Seen
    <3>5. pc \notin {"drop"}
      BY <2>1 DEF Live
    <3> QED BY <1>1, <1>4, <1>7, <3>1, <3>3, <3>4, <3>5 DEF SeenInv
  <2>2. CASE ~Live
    <3>1. pc = "drop" => Seen(display', mem, Screen!ShownId)
      BY <1>4 DEF ScreenInv, SeenInv, Seen
    <3> QED BY <1>1, <1>7, <2>2, <3>1 DEF SeenInv
  <2> QED BY <2>1, <2>2
<1> QED BY <1>5, <1>6, <1>8 DEF ScreenInv

\* The shown request has an ID and a version.
LEMMA ShownThere ==
  ASSUME ScreenAssumed, ScreenInv, Asking \/ pc \in {"save", "load"}
  PROVE  Screen!ShownId \in DOMAIN mem.reqs /\ Screen!ShownId \in Ids /\ mem.reqs[Screen!ShownId] \in 1 .. MaxVersion
<1>1. index \in Screen!Positions(mem) /\ mem \in Screen!Reviews
  BY ScreenTypes DEF ScreenInv, ShapeInv
<1>2. Screen!ShownId \in DOMAIN mem.reqs
  BY <1>1, PositionOf DEF Screen!ShownId, ScreenAssumed
<1> QED BY <1>1, <1>2, ReviewFields

LEMMA DrawKeeps == ASSUME ScreenAssumed, ScreenInv, Screen!Draw PROVE ScreenInv'
<1>1. /\ pc = "draw" /\ UNCHANGED <<disk, mem, index, drawnAt, prompt, queue, saving, wasLeft, given, joined, late>>
      /\ pc' = IF drawnAt = Screen!NotDrawn THEN "drop" ELSE "read"
      /\ display' = Screen!Drawn("request", Screen!ShownId, mem.reqs[Screen!ShownId])
  BY DEF Screen!Draw, Screen!shownVars
<1>2. Asking /\ Asking' /\ ~wasLeft /\ index \in Screen!Positions(mem)
  BY <1>1 DEF ScreenInv, LoopInv, ShapeInv, Asking, Reading
<1>3. Seen(display', mem, Screen!ShownId) /\ (Seen(display, mem, Screen!ShownId) => display' = display)
  BY <1>1 DEF Screen!Drawn, Seen
<1>4. display' \in Screen!Displays
  <2>1. display \in Screen!Displays /\ Screen!ShownId \in Ids /\ mem.reqs[Screen!ShownId] \in 0 .. MaxVersion
    BY <1>2, ShownThere, ScreenTypes DEF ScreenAssumed, Screen!ScreenBounds
  <2>2. 0 \in 0 .. Settle
    BY DEF ScreenAssumed, Screen!ScreenBounds
  <2> QED BY <1>1, <2>1, <2>2 DEF Screen!Drawn, Screen!Displays
<1>5. ShapeInv'
  BY <1>1, <1>2, <1>4, ScreenTypes, ShapeKept
<1>6. LoopInv' /\ SavedInv' /\ ResultInv' /\ OpenInv' /\ Screen!NoStrayAnswer' /\ Screen!ResultIsRead'
  BY <1>1, <1>2 DEF ScreenInv, LoopInv, SavedInv, ResultInv, OpenInv, Screen!NoStrayAnswer,
     Screen!ResultIsRead,
     Reading, Screen!NotDrawn, ScreenAssumed, Screen!ScreenBounds
<1>7. Screen!ShownId' = Screen!ShownId
  BY <1>1 DEF Screen!ShownId
<1>8. SeenInv'
  <2>1. CASE drawnAt = Screen!NotDrawn
    BY <1>1, <1>3, <1>7, <2>1 DEF SeenInv, Live
  <2>2. CASE drawnAt # Screen!NotDrawn /\ ~late
    <3>1. Live
      BY <1>1, <1>2, <2>2 DEF Live
    <3>2. /\ display' = display /\ drawnAt <= display.age
          /\ \A i \in DOMAIN queue :
               Seen(queue[i].saw, mem, Screen!ShownId) /\ (drawnAt >= Settle => queue[i].saw.age >= Settle)
      BY <1>3, <3>1 DEF ScreenInv, SeenInv
    <3> QED BY <1>1, <1>3, <1>7, <2>2, <3>2 DEF SeenInv
  <2>3. CASE late
    BY <1>1, <1>3, <1>7, <2>3 DEF SeenInv, Live
  <2> QED BY <2>1, <2>2, <2>3
<1> QED BY <1>5, <1>6, <1>8 DEF ScreenInv

LEMMA DropKeeps == ASSUME ScreenAssumed, ScreenInv, Screen!DropKeys PROVE ScreenInv'
<1>1. /\ pc = "drop" /\ UNCHANGED <<disk, mem, index, prompt, display, saving, wasLeft, given, joined>>
      /\ queue' = <<>> /\ pc' \in {"end", "read"} /\ late' = FALSE
      /\ drawnAt' = IF pc' = "end" THEN drawnAt ELSE 0
  BY DEF Screen!DropKeys, Screen!DropWaiting
<1>2. Asking /\ ~wasLeft /\ index \in Screen!Positions(mem) /\ prompt.kind # "note"
      /\ Seen(display, mem, Screen!ShownId)
  BY <1>1 DEF ScreenInv, LoopInv, ShapeInv, SeenInv, Asking, Reading
<1>3. queue' \in Seq(KeyPresses) /\ DOMAIN queue' = {}
  BY <1>1
<1>4. drawnAt' \in {Screen!NotDrawn} \cup 0 .. Settle /\ display.age >= 0
  BY <1>1, ScreenTypes DEF ScreenAssumed, Screen!ScreenBounds, Screen!Displays
<1>5. ShapeInv'
  BY <1>1, <1>2, <1>3, <1>4, ScreenTypes, ShapeKept
<1>6. LoopInv' /\ SavedInv' /\ ResultInv' /\ OpenInv' /\ Screen!NoStrayAnswer' /\ Screen!ResultIsRead'
  BY <1>1, <1>2, <1>3 DEF ScreenInv, LoopInv, SavedInv, ResultInv, OpenInv, Screen!NoStrayAnswer,
     Screen!ResultIsRead,
     Reading, Asking, Screen!NotDrawn
<1>7. SeenInv'
  BY <1>1, <1>2, <1>3, <1>4 DEF SeenInv, Live, Screen!ShownId
<1> QED BY <1>5, <1>6, <1>7 DEF ScreenInv

-----------------------------------------------------------------------------
\* Keys.

LEMMA QuitKeeps == ASSUME ScreenAssumed, ScreenInv, Screen!Quit PROVE ScreenInv'
<1>1. PICK k : Screen!Reads(k)
  BY DEF Screen!Quit
<1>2. pc' = "end" /\ UNCHANGED <<disk, mem, index, drawnAt, prompt, display, saving, wasLeft, given, joined, late>>
  BY DEF Screen!Quit, Screen!shownVars
<1>3. Fewer
  BY <1>1, ReadKey
<1>4. ShapeInv'
  BY <1>2, <1>3, ScreenTypes, ShapeKept DEF Fewer, Asking, Reading
<1> QED BY <1>2, <1>4, ResultKeeps DEF ScreenInv, LoopInv

\* The request a step shows is drawn anew, without a prompt.
LEMMA ShowKeeps ==
  ASSUME ScreenAssumed, ScreenInv, queue' \in Seq(KeyPresses), mem' \in Screen!Reviews, disk' \in Screen!Reviews,
         saving' \in Savings,
         NEW i, i \in 0 .. (Cardinality(Ids) - 1), Screen!Show(mem', i), UNCHANGED <<display, given, joined, late>>,
         ~joined => mem' = disk' /\ disk'.status = "waiting" /\ ~Screen!AllFed(disk')
  PROVE  ScreenInv'
<1>1. /\ index' = i /\ prompt' = Screen!NoPrompt /\ wasLeft' = FALSE /\ drawnAt' = Screen!NotDrawn
      /\ pc' = IF i \in Screen!Positions(mem') THEN "draw" ELSE "panicked"
  BY DEF Screen!Show
<1>2. prompt' \in [kind : {"none", "note", "search"}, typed : 0 .. MaxText]
  BY <1>1 DEF Screen!NoPrompt, ScreenAssumed, Screen!ScreenBounds
<1>3. ShapeInv'
  BY <1>1, <1>2, ScreenTypes, ShapeKept DEF Asking, Reading
<1>4. LoopInv' /\ SavedInv' /\ ResultInv' /\ OpenInv' /\ Screen!NoStrayAnswer' /\ Screen!ResultIsRead'
  BY <1>1 DEF ScreenInv, LoopInv, SavedInv, ResultInv, OpenInv, Screen!NoStrayAnswer,
     Screen!ResultIsRead,
     Reading, Asking, Screen!NoPrompt
<1>5. SeenInv'
  BY <1>1 DEF SeenInv, Live
<1> QED BY <1>3, <1>4, <1>5 DEF ScreenInv

LEMMA MoveKeeps == ASSUME ScreenAssumed, ScreenInv, NEW k, Screen!Move(k) PROVE ScreenInv'
<1>1. Screen!Reads(k) /\ Screen!Show(mem, Screen!Turn(k)) /\ UNCHANGED <<disk, mem, display, saving, given, joined, late>>
  BY DEF Screen!Move
<1>2. Fewer /\ index \in Screen!Positions(mem) /\ pc = "read"
  BY <1>1, ReadKey
<1>3. Screen!Count(mem) \in Nat /\ Screen!Positions(mem) = 0 .. (Screen!Count(mem) - 1)
      /\ Screen!Positions(mem) \subseteq 0 .. (Cardinality(Ids) - 1)
  BY ScreenTypes, PositionOf DEF Screen!Positions, ScreenAssumed
<1>4. Screen!Turn(k) \in Screen!Positions(mem)
  <2>1. index \in Nat /\ Screen!Count(mem) \in Nat \ {0}
    BY <1>2, <1>3
  <2>2. (index + 1) % Screen!Count(mem) \in 0 .. (Screen!Count(mem) - 1)
        /\ (index + Screen!Count(mem) - 1) % Screen!Count(mem) \in 0 .. (Screen!Count(mem) - 1)
    BY <2>1
  <2> QED BY <1>3, <2>2 DEF Screen!Turn
<1>5. Screen!Turn(k) \in 0 .. (Cardinality(Ids) - 1)
  BY <1>3, <1>4
<1>6. ~joined => mem = disk /\ disk.status = "waiting" /\ ~Screen!AllFed(disk)
  BY <1>2 DEF ScreenInv, OpenInv, Asking, Reading
<1>7. Screen!AllFed(disk') <=> Screen!AllFed(disk)
  BY <1>1 DEF Screen!AllFed
<1>8. Screen!Show(mem', Screen!Turn(k))
  BY <1>1 DEF Screen!Show, Screen!Positions, Screen!Count
<1> QED BY <1>1, <1>2, <1>5, <1>6, <1>7, <1>8, ScreenTypes, ShowKeeps DEF Fewer

\* Keys that answer nothing.
LEMMA PromptKeeps ==
  ASSUME ScreenAssumed, ScreenInv, NEW k, Screen!OpenPrompt(k) \/ Screen!OtherKey(k) \/ Screen!Type(k)
  PROVE  ScreenInv'
<1>1. Screen!Reads(k) /\ Screen!NextRound(drawnAt) /\ UNCHANGED <<disk, mem, index, display, saving, given, joined, late>>
  BY DEF Screen!OpenPrompt, Screen!OtherKey, Screen!Type
<1>2. pc = "read" /\ Screen!ShownId \in DOMAIN mem.reqs
  BY <1>1, ReadKey, ShownThere DEF Asking, Reading
<1>3. Screen!SavedNote \in 0 .. MaxText
  <2>1. Screen!ShownId \in DOMAIN mem.fb => mem.fb[Screen!ShownId] \in Screen!FeedbackSet
    BY ScreenTypes, ReviewFields
  <2>2. CASE Screen!ShownId \in DOMAIN mem.fb /\ mem.fb[Screen!ShownId].kind = "note"
    <3>1. mem.fb[Screen!ShownId].text \in 1 .. MaxText
      BY <2>1, <2>2 DEF Screen!FeedbackSet, Screen!Answer, Screen!Note
    <3> QED BY <2>2, <3>1 DEF Screen!SavedNote, ScreenAssumed, Screen!ScreenBounds
  <2>3. CASE ~(Screen!ShownId \in DOMAIN mem.fb /\ mem.fb[Screen!ShownId].kind = "note")
    BY <2>3 DEF Screen!SavedNote, ScreenAssumed, Screen!ScreenBounds
  <2> QED BY <2>2, <2>3
<1>4. /\ prompt' \in [kind : {"none", "note", "search"}, typed : 0 .. MaxText]
      /\ prompt'.kind = "note" => drawnAt >= Settle
  <2>1. prompt \in [kind : {"none", "note", "search"}, typed : 0 .. MaxText]
        /\ (prompt.kind = "note" => drawnAt >= Settle)
    BY ScreenTypes DEF ScreenInv, LoopInv
  <2>2. CASE Screen!OpenPrompt(k)
    <3>1. \/ prompt' \in {prompt, [kind |-> "search", typed |-> 0]}
          \/ Screen!HasWaited /\ prompt' = [kind |-> "note", typed |-> Screen!SavedNote]
      BY <2>2 DEF Screen!OpenPrompt
    <3>2. 0 \in 0 .. MaxText
      BY DEF ScreenAssumed, Screen!ScreenBounds
    <3> QED BY <1>3, <2>1, <3>1, <3>2 DEF Screen!HasWaited
  <2>3. CASE Screen!OtherKey(k)
    BY <2>1, <2>3 DEF Screen!OtherKey
  <2>4. CASE Screen!Type(k)
    <3>1. prompt' = [prompt EXCEPT !.typed = prompt'.typed]
      BY <2>1, <2>4 DEF Screen!Type
    <3>2. prompt'.typed =
            IF k = "Backspace" THEN IF prompt.typed > 0 THEN prompt.typed - 1 ELSE 0
            ELSE IF prompt.typed < MaxText THEN prompt.typed + 1 ELSE prompt.typed
      BY <2>1, <2>4 DEF Screen!Type
    <3>3. prompt.typed \in 0 .. MaxText /\ MaxText \in Nat
      BY <2>1 DEF ScreenAssumed, Screen!ScreenBounds
    <3>4. prompt'.typed \in 0 .. MaxText
      BY <3>2, <3>3
    <3> QED BY <2>1, <3>1, <3>4
  <2> QED BY <2>2, <2>3, <2>4
<1> QED BY <1>1, <1>4, RoundKeeps

\* Feedback that goes to a save: the shown request's, kept with the request drawn,
\* or another request shown next.
LEMMA GivenKeeps ==
  ASSUME ScreenAssumed, ScreenInv, pc \in {"read", "away"}, Asking, pc' = "save", UNCHANGED <<disk, joined, late>>,
         mem' \in Screen!Reviews, mem'.reqs = mem.reqs, queue' \in Seq(KeyPresses), display' \in Screen!Displays,
         saving' = [id |-> Screen!ShownId, saved |-> "none"], prompt'.kind # "note",
         prompt' \in [kind : {"none", "note", "search"}, typed : 0 .. MaxText],
         wasLeft' \in BOOLEAN,
         \/ drawnAt' = Screen!NotDrawn /\ index' \in Screen!Positions(mem)
         \/ wasLeft' /\ drawnAt' = drawnAt /\ index' = index
         \/ /\ Live \/ late
            /\ Screen!HasWaited /\ UNCHANGED <<index, drawnAt, display, wasLeft>>
            /\ \A i \in DOMAIN queue' : \E j \in DOMAIN queue : queue'[i] = queue[j],
         Screen!NoStrayAnswer' /\ Screen!ResultIsRead'
  PROVE  ScreenInv'
<1>1. Screen!ShownId \in DOMAIN mem.reqs /\ Screen!ShownId \in Ids /\ index \in Screen!Positions(mem)
  BY ShownThere DEF ScreenInv, ShapeInv
<1>2. Screen!Positions(mem') = Screen!Positions(mem) /\ index' \in Screen!Positions(mem')
      /\ Screen!Positions(mem) \subseteq 0 .. (Cardinality(Ids) - 1)
  BY <1>1, ScreenTypes, PositionOf DEF Screen!Positions, Screen!Count, ScreenAssumed
<1>3. ShapeInv'
  BY <1>1, <1>2, ScreenTypes, ShapeKept DEF Savings
<1>4. LoopInv' /\ SavedInv' /\ ResultInv'
  BY DEF LoopInv, SavedInv, ResultInv, Reading
<1>5. OpenInv'
  BY DEF ScreenInv, OpenInv, Asking, Reading, Screen!AllFed
<1>6. SeenInv'
  <2>1. CASE drawnAt' = Screen!NotDrawn \/ wasLeft' \/ late
    BY <2>1 DEF SeenInv, Live
  <2>2. CASE drawnAt' # Screen!NotDrawn /\ ~wasLeft' /\ ~late
    <3>1. /\ Live /\ Screen!HasWaited /\ UNCHANGED <<index, drawnAt, display, wasLeft>>
          /\ \A i \in DOMAIN queue' : \E j \in DOMAIN queue : queue'[i] = queue[j]
      BY <2>2
    <3>2. Screen!ShownId' = Screen!ShownId
      BY <3>1 DEF Screen!ShownId, Screen!IdAt
    <3>3. /\ Seen(display, mem, Screen!ShownId) /\ drawnAt <= display.age
          /\ \A i \in DOMAIN queue :
               Seen(queue[i].saw, mem, Screen!ShownId) /\ (drawnAt >= Settle => queue[i].saw.age >= Settle)
      BY <3>1 DEF ScreenInv, SeenInv
    <3>4. Seen(display', mem', Screen!ShownId') /\ drawnAt' <= display'.age
      BY <3>1, <3>2, <3>3 DEF Seen
    <3>5. \A i \in DOMAIN queue' : Seen(queue'[i].saw, mem', Screen!ShownId')
                                   /\ (drawnAt' >= Settle => queue'[i].saw.age >= Settle)
      BY <3>1, <3>2, <3>3 DEF Seen
    <3>6. drawnAt' >= Settle /\ saving'.id = Screen!ShownId'
      BY <3>1, <3>2 DEF Screen!HasWaited
    <3> QED BY <3>4, <3>5, <3>6 DEF SeenInv
  <2> QED BY <2>1, <2>2
<1> QED BY <1>3, <1>4, <1>5, <1>6 DEF ScreenInv

\* The next request without feedback is one of the review.
LEMMA NextThere ==
  ASSUME ScreenAssumed, NEW s \in Screen!Reviews, index \in Screen!Positions(s)
  PROVE  Screen!NextUnanswered(s) \in Screen!Positions(s)
<1> DEFINE steps == {n \in 1 .. Screen!Count(s) : (index + n) % Screen!Count(s) \in Screen!Unanswered(s)}
<1>1. CASE steps = {}
  BY <1>1 DEF Screen!NextUnanswered
<1>2. CASE steps # {}
  <2>1. steps \in SUBSET Nat
    OBVIOUS
  <2>2. Screen!Least(steps) \in steps
    <3> HIDE DEF steps
    <3> QED BY <1>2, <2>1, LeastOf
  <2>3. Screen!NextUnanswered(s) = (index + Screen!Least(steps)) % Screen!Count(s)
    BY <1>2 DEF Screen!NextUnanswered
  <2>4. (index + Screen!Least(steps)) % Screen!Count(s) \in Screen!Unanswered(s)
    BY <2>2
  <2> QED BY <2>3, <2>4 DEF Screen!Unanswered
<1> QED BY <1>1, <1>2

\* What an answer of the shown request does, after a key or on the edit page.
LEMMA AnswerGiven ==
  ASSUME ScreenAssumed, ScreenInv, pc \in {"read", "away"}, Asking, Screen!GiveAnswer
  PROVE  /\ pc' = "save" /\ saving' = [id |-> Screen!ShownId, saved |-> "none"]
         /\ mem' \in Screen!Reviews /\ mem'.reqs = mem.reqs
         /\ \/ UNCHANGED <<index, drawnAt, prompt>>
            \/ drawnAt' = Screen!NotDrawn /\ prompt' = Screen!NoPrompt /\ index' \in Screen!Positions(mem)
<1>1. Screen!ShownId \in DOMAIN mem.reqs /\ index \in Screen!Positions(mem) /\ mem \in Screen!Reviews
  BY ScreenTypes, ShownThere DEF ScreenInv, ShapeInv
<1>2. Screen!Answer \in Screen!FeedbackSet
  BY DEF Screen!FeedbackSet
<1>3. Screen!WithFb(mem, Screen!ShownId, Screen!Answer) \in Screen!Reviews /\ Screen!WithFb(mem, Screen!ShownId, Screen!Answer).reqs = mem.reqs
  BY <1>1, <1>2, WithFbReview DEF SameList
<1>4. Screen!Positions(Screen!WithFb(mem, Screen!ShownId, Screen!Answer)) = Screen!Positions(mem)
  BY <1>3 DEF Screen!Positions, Screen!Count
<1>5. Screen!NextUnanswered(Screen!WithFb(mem, Screen!ShownId, Screen!Answer)) \in Screen!Positions(mem)
  BY <1>1, <1>3, <1>4, NextThere
<1> QED BY <1>3, <1>5 DEF Screen!GiveAnswer

LEMMA AnswerKeeps == ASSUME ScreenAssumed, ScreenInv, Screen!AnswerKey PROVE ScreenInv'
<1>1. Screen!Reads("a") /\ prompt = Screen!NoPrompt
  BY DEF Screen!AnswerKey
<1>2. /\ pc = "read" /\ Fewer /\ Head(queue) \in KeyPresses
      /\ Live \/ late
      /\ Live => Seen(Head(queue).saw, mem, Screen!ShownId)
      /\ Live /\ Screen!HasWaited => Head(queue).saw.age >= Settle
  BY <1>1, ReadKey
<1>3. CASE /\ Screen!HasWaited /\ Screen!GiveAnswer /\ Screen!Gave("feedback", Screen!ShownId)
           /\ UNCHANGED <<disk, display, wasLeft, joined, late>>
  <2>1. Asking
    BY <1>2 DEF Asking, Reading
  <2>2. /\ pc' = "save" /\ saving' = [id |-> Screen!ShownId, saved |-> "none"]
        /\ mem' \in Screen!Reviews /\ mem'.reqs = mem.reqs
        /\ \/ UNCHANGED <<index, drawnAt, prompt>>
           \/ drawnAt' = Screen!NotDrawn /\ prompt' = Screen!NoPrompt /\ index' \in Screen!Positions(mem)
    BY <1>2, <1>3, <2>1, AnswerGiven
  <2>3. Screen!NoStrayAnswer' /\ Screen!ResultIsRead'
    BY <1>2, <1>3 DEF Screen!Gave, Seen, Screen!NoStrayAnswer, Screen!ResultIsRead
  <2>4. /\ prompt' \in [kind : {"none", "note", "search"}, typed : 0 .. MaxText]
        /\ prompt'.kind # "note"
    BY <1>1, <2>2 DEF Screen!NoPrompt, ScreenAssumed, Screen!ScreenBounds
  <2>5. display' \in Screen!Displays /\ wasLeft' \in BOOLEAN
    BY <1>3, ScreenTypes
  <2> QED BY <1>2, <1>3, <2>1, <2>2, <2>3, <2>4, <2>5, GivenKeeps DEF Fewer
<1>4. CASE Screen!NextRound(drawnAt) /\ UNCHANGED <<disk, mem, index, prompt, display, saving, given, joined, late>>
  BY <1>1, <1>4, ScreenTypes, RoundKeeps DEF Screen!NoPrompt
<1> QED BY <1>3, <1>4 DEF Screen!AnswerKey

LEMMA NoteKeeps == ASSUME ScreenAssumed, ScreenInv, Screen!EnterNote PROVE ScreenInv'
<1>1. /\ Screen!Reads("Enter") /\ prompt.kind = "note" /\ prompt' = Screen!NoPrompt
      /\ UNCHANGED <<disk, index, display, joined, late>>
  BY DEF Screen!EnterNote
<1>2. /\ pc = "read" /\ Fewer /\ Head(queue) \in KeyPresses
      /\ Live \/ late
      /\ Live => Seen(Head(queue).saw, mem, Screen!ShownId)
      /\ Live /\ Screen!HasWaited => Head(queue).saw.age >= Settle
  BY <1>1, ReadKey
<1>3. Screen!HasWaited
  BY <1>1 DEF ScreenInv, LoopInv, Screen!HasWaited
<1>4. /\ prompt' \in [kind : {"none", "note", "search"}, typed : 0 .. MaxText]
      /\ prompt'.kind # "note"
  BY <1>1 DEF Screen!NoPrompt, ScreenAssumed, Screen!ScreenBounds
<1>5. CASE Screen!NextRound(drawnAt) /\ UNCHANGED <<mem, saving, given>>
  BY <1>1, <1>4, <1>5, RoundKeeps
<1>6. CASE /\ mem' = IF prompt.typed > 0 THEN Screen!WithFb(mem, Screen!ShownId, Screen!Note(prompt.typed))
                     ELSE Screen!WithoutFb(mem, {Screen!ShownId})
           /\ saving' = [id |-> Screen!ShownId, saved |-> "none"]
           /\ Screen!Gave("feedback", Screen!ShownId) /\ pc' = "save" /\ UNCHANGED <<drawnAt, wasLeft>>
  <2>1. Asking
    BY <1>2 DEF Asking, Reading
  <2>2. mem' \in Screen!Reviews /\ mem'.reqs = mem.reqs
    <3>1. Screen!ShownId \in DOMAIN mem.reqs /\ mem \in Screen!Reviews /\ prompt.typed \in 0 .. MaxText
      BY <2>1, ScreenTypes, ShownThere
    <3>2. CASE prompt.typed > 0
      <4>1. Screen!Note(prompt.typed) \in Screen!FeedbackSet
        BY <3>1, <3>2 DEF Screen!FeedbackSet, ScreenAssumed, Screen!ScreenBounds
      <4> QED BY <1>6, <3>1, <3>2, <4>1, WithFbReview DEF SameList
    <3>3. CASE ~(prompt.typed > 0)
      BY <1>6, <3>1, <3>3, WithoutFbReview DEF SameList
    <3> QED BY <3>2, <3>3
  <2>3. Screen!NoStrayAnswer' /\ Screen!ResultIsRead'
    BY <1>2, <1>3, <1>6 DEF Screen!Gave, Seen, Screen!NoStrayAnswer, Screen!ResultIsRead
  <2>4. display' \in Screen!Displays /\ wasLeft' \in BOOLEAN
    BY <1>1, <1>6, ScreenTypes
  <2> QED BY <1>1, <1>2, <1>3, <1>4, <1>6, <2>1, <2>2, <2>3, <2>4, GivenKeeps DEF Fewer
<1> QED BY <1>5, <1>6 DEF Screen!EnterNote

\* nvim, less and rg get the terminal: the screen asks again when they end.
LEMMA AwayKeeps ==
  ASSUME ScreenAssumed, ScreenInv, NEW k, Screen!Reads(k), NEW program \in {"e", "v", "s"}, pc' = "away",
         saving' = [id |-> 0, saved |-> program], prompt' = Screen!NoPrompt,
         UNCHANGED <<disk, mem, index, drawnAt, display, wasLeft, given, joined, late>>
  PROVE  ScreenInv'
<1>1. pc = "read" /\ Fewer /\ index \in Screen!Positions(mem)
  BY ReadKey
<1>2. prompt' \in [kind : {"none", "note", "search"}, typed : 0 .. MaxText] /\ prompt'.kind # "note"
  BY DEF Screen!NoPrompt, ScreenAssumed, Screen!ScreenBounds
<1>3. ShapeInv'
  BY <1>1, <1>2, ScreenTypes, ShapeKept DEF Fewer, Savings
<1>4. LoopInv' /\ SavedInv' /\ ResultInv' /\ OpenInv' /\ Screen!NoStrayAnswer' /\ Screen!ResultIsRead' /\ SeenInv'
  BY <1>1, <1>2 DEF ScreenInv, LoopInv, SavedInv, ResultInv, OpenInv, Screen!NoStrayAnswer,
     Screen!ResultIsRead,
     Reading, Asking, SeenInv, Live
<1> QED BY <1>3, <1>4 DEF ScreenInv

LEMMA LeaveKeeps ==
  ASSUME ScreenAssumed, ScreenInv, NEW k \in {"e", "v"}, Screen!LeaveTerminal(k)
  PROVE  ScreenInv'
<1>1. /\ Screen!Reads(k) /\ prompt = Screen!NoPrompt /\ UNCHANGED <<disk, mem, index, prompt, display, given, joined, late>>
  BY DEF Screen!LeaveTerminal
<1>2. CASE pc' = "away" /\ saving' = [id |-> 0, saved |-> k] /\ UNCHANGED <<drawnAt, wasLeft>>
  BY <1>1, <1>2, AwayKeeps
<1>3. CASE Screen!NextRound(drawnAt) /\ UNCHANGED saving
  BY <1>1, <1>3, ScreenTypes, RoundKeeps DEF Screen!NoPrompt
<1> QED BY <1>2, <1>3 DEF Screen!LeaveTerminal

LEMMA SearchKeeps == ASSUME ScreenAssumed, ScreenInv, Screen!EnterSearch PROVE ScreenInv'
<1>1. /\ Screen!Reads("Enter") /\ prompt' = Screen!NoPrompt /\ UNCHANGED <<disk, mem, index, display, given, joined, late>>
  BY DEF Screen!EnterSearch
<1>2. CASE Screen!NextRound(drawnAt) /\ UNCHANGED saving
  <2>1. prompt' \in [kind : {"none", "note", "search"}, typed : 0 .. MaxText] /\ prompt'.kind # "note"
    BY <1>1 DEF Screen!NoPrompt, ScreenAssumed, Screen!ScreenBounds
  <2> QED BY <1>1, <1>2, <2>1, RoundKeeps
<1>3. CASE pc' = "away" /\ saving' = [id |-> 0, saved |-> "s"] /\ UNCHANGED <<drawnAt, wasLeft>>
  BY <1>1, <1>3, AwayKeeps
<1> QED BY <1>2, <1>3 DEF Screen!EnterSearch

LEMMA ComeBackKeeps == ASSUME ScreenAssumed, ScreenInv, Screen!ComeBack PROVE ScreenInv'
<1>1. /\ pc = "away" /\ saving.saved \in {"e", "v", "s"} /\ display' = Screen!Nothing
      /\ UNCHANGED <<disk, queue, given, joined, late>>
  BY DEF Screen!ComeBack
<1>2. Asking /\ index \in Screen!Positions(mem) /\ prompt.kind # "note"
  BY <1>1 DEF ScreenInv, ShapeInv, LoopInv, Asking
<1>3. display' \in Screen!Displays
  BY <1>1 DEF Screen!Nothing, Screen!Displays, ScreenAssumed, Screen!ScreenBounds
<1>4. Screen!NoStrayAnswer' /\ Screen!ResultIsRead'
  BY <1>1 DEF ScreenInv, Screen!NoStrayAnswer, Screen!ResultIsRead
<1>5. CASE Screen!GiveAnswer /\ wasLeft' = TRUE
  <2>1. /\ pc' = "save" /\ saving' = [id |-> Screen!ShownId, saved |-> "none"]
        /\ mem' \in Screen!Reviews /\ mem'.reqs = mem.reqs
        /\ \/ UNCHANGED <<index, drawnAt, prompt>>
           \/ drawnAt' = Screen!NotDrawn /\ prompt' = Screen!NoPrompt /\ index' \in Screen!Positions(mem)
    BY <1>1, <1>2, <1>5, AnswerGiven
  <2>2. /\ prompt' \in [kind : {"none", "note", "search"}, typed : 0 .. MaxText]
        /\ prompt'.kind # "note"
    BY <1>2, <2>1, ScreenTypes DEF Screen!NoPrompt, ScreenAssumed, Screen!ScreenBounds
  <2>3. queue' \in Seq(KeyPresses)
    BY <1>1, ScreenTypes
  <2> QED BY <1>1, <1>2, <1>3, <1>4, <1>5, <2>1, <2>2, <2>3, GivenKeeps
<1>6. CASE pc' = "draw" /\ saving' = Screen!NotSaving /\ drawnAt' = Screen!NotDrawn /\ wasLeft' = FALSE
           /\ UNCHANGED <<mem, index, prompt>>
  <2>1. saving' \in Savings
    BY <1>6 DEF Screen!NotSaving, Savings
  <2>2. ShapeInv'
    BY <1>1, <1>2, <1>3, <1>6, <2>1, ScreenTypes, ShapeKept
  <2>3. LoopInv' /\ SavedInv' /\ ResultInv' /\ OpenInv' /\ SeenInv'
    BY <1>1, <1>2, <1>6 DEF ScreenInv, LoopInv, SavedInv, ResultInv, OpenInv,
       Reading, Asking, SeenInv, Live
  <2> QED BY <1>4, <2>2, <2>3 DEF ScreenInv
<1> QED BY <1>5, <1>6 DEF Screen!ComeBack

-----------------------------------------------------------------------------
\* Saving and loading.

LEMMA SavedReview ==
  ASSUME NEW d, mem \in Screen!Reviews, disk \in Screen!Reviews, Screen!TakesFeedback(disk, d)
  PROVE  /\ Screen!Saved(d) \in Screen!Reviews /\ Screen!Saved(d).reqs = disk.reqs
         /\ ~Screen!AllFed(disk) /\ Screen!Saved(d).status = "waiting" /\ Screen!AllFed(Screen!Saved(d)) => Screen!AllAnswered(Screen!Saved(d))
<1>1. d \in DOMAIN disk.reqs
  BY DEF Screen!TakesFeedback
<1>2. CASE d \in DOMAIN mem.fb
  <2>1. mem.fb[d] \in Screen!FeedbackSet
    BY <1>2, ReviewFields
  <2>2. Screen!WithFb(disk, d, mem.fb[d]) \in Screen!Reviews /\ Screen!WithFb(disk, d, mem.fb[d]).reqs = disk.reqs
    BY <1>1, <2>1, WithFbReview DEF SameList
  <2>3. Screen!Saved(d) = Screen!HandOver(Screen!WithFb(disk, d, mem.fb[d]))
    BY <1>2 DEF Screen!Saved
  <2> QED BY <2>2, <2>3, HandOverReview
<1>3. CASE d \notin DOMAIN mem.fb /\ d \in DOMAIN disk.fb /\ disk.fb[d].kind = "note"
  <2>1. Screen!Saved(d) = Screen!WithoutFb(disk, {d})
    BY <1>3 DEF Screen!Saved
  <2>2. /\ Screen!WithoutFb(disk, {d}) \in Screen!Reviews /\ Screen!WithoutFb(disk, {d}).reqs = disk.reqs
        /\ DOMAIN Screen!WithoutFb(disk, {d}).fb = DOMAIN disk.fb \ {d}
    BY WithoutFbReview DEF SameList
  <2> QED BY <1>1, <2>1, <2>2 DEF Screen!AllFed
<1>4. CASE d \notin DOMAIN mem.fb /\ ~(d \in DOMAIN disk.fb /\ disk.fb[d].kind = "note")
  BY <1>4 DEF Screen!Saved
<1> QED BY <1>2, <1>3, <1>4

LEMMA SaveKeeps == ASSUME ScreenAssumed, ScreenInv, Screen!Save PROVE ScreenInv'
<1>1. /\ pc = "save" /\ pc' = "load"
      /\ UNCHANGED <<mem, index, drawnAt, prompt, display, queue, wasLeft, given, joined, late>>
  BY DEF Screen!Save, Screen!shownVars
<1> DEFINE done == Screen!TakesFeedback(disk, saving.id) /\ disk' = Screen!Saved(saving.id)
<1>2. \/ done /\ saving' = [saving EXCEPT !.saved = disk'.status]
      \/ done /\ disk'.status = "notes" /\ saving' = [saving EXCEPT !.saved = "refused"]
      \/ disk' = disk /\ saving' = [saving EXCEPT !.saved = "refused"]
  BY DEF Screen!Save
<1>3. done => /\ disk' \in Screen!Reviews /\ disk'.reqs = disk.reqs
              /\ saving.id \in DOMAIN disk.reqs /\ disk.reqs[saving.id] = mem.reqs[saving.id]
              /\ ~Screen!AllFed(disk) /\ disk'.status = "waiting" /\ Screen!AllFed(disk') => Screen!AllAnswered(disk')
  <2> SUFFICES ASSUME done
               PROVE  /\ disk' \in Screen!Reviews /\ disk'.reqs = disk.reqs
                      /\ saving.id \in DOMAIN disk.reqs /\ disk.reqs[saving.id] = mem.reqs[saving.id]
                      /\ ~Screen!AllFed(disk) /\ disk'.status = "waiting" /\ Screen!AllFed(disk') => Screen!AllAnswered(disk')
    OBVIOUS
  <2>1. PICK t : t = Screen!Saved(saving.id)
    OBVIOUS
  <2>2. /\ t \in Screen!Reviews /\ t.reqs = disk.reqs
        /\ ~Screen!AllFed(disk) /\ t.status = "waiting" /\ Screen!AllFed(t) => Screen!AllAnswered(t)
    BY <2>1, ScreenTypes, SavedReview
  <2>3. disk' = t
    BY <2>1
  <2>4. (Screen!AllFed(disk') <=> Screen!AllFed(t)) /\ (Screen!AllAnswered(disk') <=> Screen!AllAnswered(t))
    BY <2>3 DEF Screen!AllFed, Screen!AllAnswered
  <2> QED BY <2>2, <2>3, <2>4 DEF Screen!TakesFeedback
<1>4. disk' \in Screen!Reviews
  BY <1>2, <1>3, ScreenTypes
<1>5. disk'.status \in {"waiting", "notes", "done", "dismissed"}
  BY <1>4, ReviewFields
<1>6. /\ saving' \in Savings /\ saving'.id = saving.id
      /\ saving'.saved = "refused" \/ saving'.saved = disk'.status
      /\ saving'.saved # "refused" => done
      /\ saving'.saved = "refused" => (done /\ disk'.status = "notes") \/ disk' = disk
  <2>1. saving \in [id : Ids \cup {0}, saved : {"none", "e", "v", "s", "d", "refused", "waiting",
                                               "notes", "done", "dismissed"}]
    BY ScreenTypes DEF Savings
  <2> HIDE DEF done
  <2>2. CASE done /\ saving' = [saving EXCEPT !.saved = disk'.status]
    <3>1. saving'.id = saving.id /\ saving'.saved = disk'.status /\ saving' \in Savings
      BY <1>5, <2>1, <2>2 DEF Savings
    <3> QED BY <1>5, <2>2, <3>1
  <2>3. CASE /\ saving' = [saving EXCEPT !.saved = "refused"]
             /\ (done /\ disk'.status = "notes") \/ disk' = disk
    <3>1. saving'.id = saving.id /\ saving'.saved = "refused" /\ saving' \in Savings
      BY <2>1, <2>3 DEF Savings
    <3> QED BY <2>3, <3>1
  <2> QED BY <1>2, <2>2, <2>3
<1>7. index \in Screen!Positions(mem)
  BY <1>1 DEF ScreenInv, ShapeInv
<1>8. ShapeInv'
  <2>1. index' \in Screen!Positions(mem')
    BY <1>1, <1>7 DEF Screen!Positions, Screen!Count
  <2> HIDE DEF done
  <2> QED BY <1>1, <1>4, <1>6, <2>1, ScreenTypes, ShapeKept
<1>9. LoopInv' /\ ResultInv' /\ Screen!NoStrayAnswer' /\ Screen!ResultIsRead'
  BY <1>1 DEF ScreenInv, LoopInv, ResultInv, Screen!NoStrayAnswer, Screen!ResultIsRead, Reading
<1>10. SavedInv'
  <2> HIDE DEF done
  <2> QED BY <1>1, <1>3, <1>6 DEF SavedInv
<1>11. SeenInv'
  <2>1. (Live' <=> Live) /\ Screen!ShownId' = Screen!ShownId
    BY <1>1 DEF Live, Screen!ShownId
  <2>2. Live => /\ Seen(display, mem, Screen!ShownId) /\ drawnAt <= display.age
                /\ \A i \in DOMAIN queue :
                     Seen(queue[i].saw, mem, Screen!ShownId) /\ (drawnAt >= Settle => queue[i].saw.age >= Settle)
                /\ drawnAt >= Settle /\ saving.id = Screen!ShownId
    BY <1>1 DEF ScreenInv, SeenInv
  <2> HIDE DEF done
  <2> QED BY <1>1, <1>6, <2>1, <2>2 DEF SeenInv
<1>12. OpenInv'
  <2>1. ~joined => disk.status = "waiting" /\ ~Screen!AllFed(disk)
    BY <1>1 DEF ScreenInv, OpenInv
  <2>2. ~joined /\ disk'.status = "waiting" => (Screen!AllFed(disk') => Screen!AllAnswered(disk'))
    <3>1. disk' = disk /\ ~joined => ~Screen!AllFed(disk')
      BY <2>1 DEF Screen!AllFed
    <3> HIDE DEF done
    <3> QED BY <1>2, <1>3, <2>1, <3>1
  <2>3. ~joined /\ disk'.status = "waiting" /\ saving'.saved = "refused" => ~Screen!AllFed(disk')
    <3>1. disk' = disk /\ ~joined => ~Screen!AllFed(disk')
      BY <2>1 DEF Screen!AllFed
    <3> HIDE DEF done
    <3> QED BY <1>6, <3>1
  <2> QED BY <1>1, <2>2, <2>3 DEF OpenInv, Asking, Reading
<1> QED BY <1>8, <1>9, <1>10, <1>11, <1>12 DEF ScreenInv

\* Where the request is in the loaded review; the first position when it is gone
\* and nothing is open.
LEMMA FindsIndex ==
  ASSUME ScreenAssumed, NEW s \in Screen!Reviews, NEW d
  PROVE  /\ Screen!FindIndex(s, d) \in Screen!Positions(s) \/ Screen!FindIndex(s, d) = 0
         /\ DOMAIN s.reqs # {} => Screen!FindIndex(s, d) \in Screen!Positions(s)
         /\ d \in DOMAIN s.reqs => Screen!IdAt(s, Screen!FindIndex(s, d)) = d
<1>1. CASE d \in DOMAIN s.reqs
  <2>1. \E i \in Screen!Positions(s) : Screen!IdAt(s, i) = d
    BY <1>1, PositionOf DEF ScreenAssumed
  <2>2. Screen!FindIndex(s, d) = CHOOSE i \in Screen!Positions(s) : Screen!IdAt(s, i) = d
    BY <1>1 DEF Screen!FindIndex
  <2> QED BY <2>1, <2>2
<1>2. CASE d \notin DOMAIN s.reqs /\ Screen!Unanswered(s) # {}
  <2>1. Screen!Unanswered(s) \in SUBSET Nat
    BY PositionOf DEF Screen!Unanswered, Screen!Positions, ScreenAssumed
  <2>2. Screen!Least(Screen!Unanswered(s)) \in Screen!Unanswered(s)
    BY <1>2, <2>1, LeastOf
  <2> QED BY <1>2, <2>2 DEF Screen!FindIndex, Screen!Unanswered
<1>3. CASE d \notin DOMAIN s.reqs /\ Screen!Unanswered(s) = {}
  BY <1>3, PositionOf DEF Screen!FindIndex, ScreenAssumed
<1> QED BY <1>1, <1>2, <1>3

LEMMA EndKeeps ==
  ASSUME ScreenAssumed, ScreenInv, NEW next \in {"step7", "resultDrop", "end"}, Screen!ToResult(next),
         prompt.kind # "note", mem' \in Screen!Reviews, saving' \in Savings,
         UNCHANGED <<disk, display, queue, given, late>>
  PROVE  ScreenInv'
<1>1. pc' = next /\ UNCHANGED <<index, drawnAt, prompt, wasLeft, joined, late>>
  BY DEF Screen!ToResult
<1>2. ShapeInv'
  BY <1>1, ScreenTypes, ShapeKept DEF Asking, Reading
<1> QED BY <1>1, <1>2, ResultKeeps

LEMMA LoadKeeps == ASSUME ScreenAssumed, ScreenInv, Screen!Load PROVE ScreenInv'
<1>1. /\ pc = "load" /\ saving' = Screen!NotSaving /\ mem' = disk
      /\ UNCHANGED <<disk, display, queue, given, late>> /\ disk \in Screen!Reviews
  BY ScreenTypes DEF Screen!Load
<1>2. mem' \in Screen!Reviews /\ saving' \in Savings /\ queue' \in Seq(KeyPresses) /\ disk' \in Screen!Reviews
  BY <1>1, ScreenTypes DEF Screen!NotSaving, Savings
<1>3. prompt.kind # "note"
  BY <1>1 DEF ScreenInv, LoopInv
<1>4. ~joined /\ disk.status = "waiting" => /\ Screen!AllFed(disk) => Screen!AllAnswered(disk)
                                            /\ saving.saved = "refused" => ~Screen!AllFed(disk)
  BY <1>1 DEF ScreenInv, OpenInv
<1>5. Screen!AllFed(disk') <=> Screen!AllFed(disk)
  BY <1>1 DEF Screen!AllFed
<1>6. ASSUME NEW d, Screen!Show(disk, Screen!FindIndex(disk, d)), UNCHANGED <<joined, late>>,
             ~joined => disk.status = "waiting" /\ ~Screen!AllFed(disk)
      PROVE  ScreenInv'
  <2>1. PICK i : i = Screen!FindIndex(disk, d)
    OBVIOUS
  <2>2. Screen!Positions(disk) \subseteq 0 .. (Cardinality(Ids) - 1) /\ 0 \in 0 .. (Cardinality(Ids) - 1)
    <3>1. index \in 0 .. (Cardinality(Ids) - 1) /\ Cardinality(Ids) \in Nat
      BY ScreenTypes, FS_CardinalityType, SameCount DEF ScreenAssumed, Screen!ScreenAssumption
    <3> QED BY <1>1, <3>1, PositionOf DEF ScreenAssumed
  <2>3. i \in 0 .. (Cardinality(Ids) - 1)
    BY <1>1, <2>1, <2>2, FindsIndex
  <2>4. Screen!Show(mem', i)
    BY <1>1, <1>6, <2>1 DEF Screen!Show, Screen!Positions, Screen!Count
  <2> QED BY <1>1, <1>2, <1>5, <1>6, <2>3, <2>4, ShowKeeps
<1>7. CASE saving.saved = "notes" /\ disk.status = "notes"
  <2>1. Screen!ToResult("end")
    BY <1>7 DEF Screen!Load
  <2> QED BY <1>1, <1>2, <1>3, <2>1, EndKeeps
<1>8. CASE saving.saved = "refused" /\ disk.status # "waiting"
  <2>1. Screen!ToResult("resultDrop")
    BY <1>8 DEF Screen!Load
  <2> QED BY <1>1, <1>2, <1>3, <2>1, EndKeeps
<1>9. CASE saving.saved = "refused" /\ disk.status = "waiting"
  <2>1. Screen!Show(disk, Screen!FindIndex(disk, saving.id))
    BY <1>9 DEF Screen!Load
  <2>2. UNCHANGED <<joined, late>>
    BY DEF Screen!Load
  <2> QED BY <1>4, <1>6, <1>9, <2>1, <2>2
<1>10. CASE saving.saved # "refused" /\ ~(saving.saved = "notes" /\ disk.status = "notes")
  <2>1. Screen!ShowAfterSave(Screen!ShownId)
    BY <1>10 DEF Screen!Load
  <2>2. CASE disk.status # "waiting"
    <3>1. Screen!ToResult("resultDrop")
      BY <2>1, <2>2 DEF Screen!ShowAfterSave
    <3> QED BY <1>1, <1>2, <1>3, <3>1, EndKeeps
  <2>3. CASE disk.status = "waiting" /\ Screen!AllAnswered(disk)
    <3>1. Screen!ToResult("step7")
      BY <2>1, <2>3 DEF Screen!ShowAfterSave
    <3> QED BY <1>1, <1>2, <1>3, <3>1, EndKeeps
  <2>4. CASE disk.status = "waiting" /\ ~Screen!AllAnswered(disk) /\ Screen!FindIndex(disk, Screen!ShownId) # index
    <3>1. Screen!Show(disk, Screen!FindIndex(disk, Screen!ShownId))
      BY <2>1, <2>4 DEF Screen!ShowAfterSave
    <3>2. UNCHANGED <<joined, late>>
      BY DEF Screen!Load
    <3> QED BY <1>4, <1>6, <2>4, <3>1, <3>2
  <2>5. CASE disk.status = "waiting" /\ ~Screen!AllAnswered(disk) /\ Screen!FindIndex(disk, Screen!ShownId) = index
    <3>1. Screen!NextRound(drawnAt) /\ UNCHANGED <<index, prompt, joined, late>>
      BY <2>1, <2>5 DEF Screen!ShowAfterSave, Screen!Load
    <3>2. pc' = "draw" /\ wasLeft' = FALSE /\ drawnAt' = IF wasLeft THEN Screen!NotDrawn ELSE drawnAt
      BY <3>1 DEF Screen!NextRound
    <3>3. index \in Screen!Positions(disk)
      <4>1. DOMAIN disk.reqs # {}
        BY <2>5 DEF Screen!AllAnswered
      <4> QED BY <1>1, <2>5, <4>1, FindsIndex
    <3>4. ShapeInv'
      <4>1. index' \in Screen!Positions(mem')
        BY <1>1, <3>1, <3>3 DEF Screen!Positions, Screen!Count
      <4> QED BY <1>1, <1>2, <3>1, <3>2, <4>1, ScreenTypes, ShapeKept
    <3>5. LoopInv' /\ SavedInv' /\ ResultInv' /\ Screen!NoStrayAnswer' /\ Screen!ResultIsRead'
      BY <1>1, <1>3, <3>1, <3>2 DEF ScreenInv, LoopInv, SavedInv, ResultInv, Screen!NoStrayAnswer,
         Screen!ResultIsRead, Reading
    <3>6. OpenInv'
      BY <1>1, <1>4, <1>5, <2>5, <3>1, <3>2 DEF OpenInv
    <3>7. SeenInv'
      <4>1. CASE Live
        <5>1. /\ Seen(display, mem, Screen!ShownId) /\ drawnAt <= display.age
              /\ \A i \in DOMAIN queue :
                   Seen(queue[i].saw, mem, Screen!ShownId) /\ (drawnAt >= Settle => queue[i].saw.age >= Settle)
              /\ saving.id = Screen!ShownId
          BY <1>1, <4>1 DEF ScreenInv, SeenInv
        <5>2. Screen!ShownId \in DOMAIN disk.reqs /\ disk.reqs[Screen!ShownId] = mem.reqs[Screen!ShownId]
          BY <1>1, <1>10, <4>1, <5>1 DEF ScreenInv, SavedInv, Live
        <5>3. Screen!IdAt(disk, index) = Screen!ShownId
          BY <1>1, <2>5, <5>2, FindsIndex
        <5>4. Screen!ShownId' = Screen!ShownId
          BY <1>1, <3>1, <5>3 DEF Screen!ShownId, Screen!IdAt
        <5>5. Seen(display', mem', Screen!ShownId') /\ drawnAt' <= display'.age
          BY <1>1, <3>2, <4>1, <5>1, <5>2, <5>4 DEF Seen, Live
        <5>6. \A i \in DOMAIN queue' : Seen(queue'[i].saw, mem', Screen!ShownId')
                                       /\ (drawnAt' >= Settle => queue'[i].saw.age >= Settle)
          BY <1>1, <3>2, <4>1, <5>1, <5>2, <5>4 DEF Seen, Live
        <5> QED BY <3>2, <5>5, <5>6 DEF SeenInv
      <4>2. CASE ~Live
        BY <1>1, <3>2, <4>2 DEF SeenInv, Live
      <4> QED BY <4>1, <4>2
    <3> QED BY <3>4, <3>5, <3>6, <3>7 DEF ScreenInv
  <2> QED BY <2>2, <2>3, <2>4, <2>5
<1> QED BY <1>7, <1>8, <1>9, <1>10

LEMMA LoadFailsKeeps == ASSUME ScreenAssumed, ScreenInv, Screen!LoadFails PROVE ScreenInv'
<1>1. /\ pc = "load" /\ saving' = Screen!NotSaving /\ mem' = Screen!WithoutFb(mem, {saving.id})
      /\ Screen!ToResult("resultDrop") /\ UNCHANGED <<disk, display, queue, given, late>>
  BY DEF Screen!LoadFails
<1>2. mem' \in Screen!Reviews
  BY <1>1, ScreenTypes, WithoutFbReview
<1>3. saving' \in Savings /\ prompt.kind # "note"
  BY <1>1 DEF Screen!NotSaving, Savings, ScreenInv, LoopInv
<1> QED BY <1>1, <1>2, <1>3, EndKeeps

-----------------------------------------------------------------------------
\* The result, and what others do.

LEMMA WriteKeeps == ASSUME ScreenAssumed, ScreenInv, Screen!WriteAnswers PROVE ScreenInv'
<1>1. /\ pc = "step7" /\ pc' = "resultDrop"
      /\ disk' = disk \/ disk' = [disk EXCEPT !.status = "done"]
      /\ UNCHANGED <<mem, index, drawnAt, prompt, display, queue, saving, wasLeft, given, joined, late>>
  BY DEF Screen!WriteAnswers, Screen!shownVars
<1>2. disk' \in Screen!Reviews
  BY <1>1, ScreenTypes, StatusReview
<1>3. ShapeInv'
  BY <1>1, <1>2, ScreenTypes, ShapeKept DEF Asking, Reading
<1>4. prompt.kind # "note"
  BY <1>1 DEF ScreenInv, LoopInv
<1> QED BY <1>1, <1>3, <1>4, ResultKeeps

\* The steps of the Review Result Screen.
LEMMA ResultStep ==
  ASSUME ScreenAssumed, ScreenInv, pc \in {"resultDrop", "resultDraw", "resultRead"},
         pc' \in {"resultDraw", "resultRead", "away", "end"}, pc' = "away" => saving'.saved = "d",
         queue' \in Seq(KeyPresses), \A i \in DOMAIN queue' : ~queue'[i].busy,
         display' \in Screen!Displays, saving' \in Savings, UNCHANGED <<disk, mem, index, drawnAt, prompt, wasLeft, joined, late>>,
         Screen!NoStrayAnswer' /\ Screen!ResultIsRead'
  PROVE  ScreenInv'
<1>1. ShapeInv'
  BY ScreenTypes, ShapeKept DEF Asking, Reading
<1>2. LoopInv' /\ SavedInv' /\ ResultInv' /\ SeenInv' /\ OpenInv'
  BY DEF ScreenInv, LoopInv, SavedInv, ResultInv, SeenInv, OpenInv, Live, Asking, Reading
<1> QED BY <1>1, <1>2 DEF ScreenInv

LEMMA ResultDropKeeps == ASSUME ScreenAssumed, ScreenInv, Screen!ResultDrop PROVE ScreenInv'
<1>1. /\ pc = "resultDrop" /\ pc' \in {"end", "resultDraw"} /\ queue' = <<>>
      /\ UNCHANGED <<disk, mem, index, drawnAt, prompt, display, saving, wasLeft, given, joined, late>>
  BY DEF Screen!ResultDrop, Screen!DropWaiting, Screen!shownVars
<1>2. queue' \in Seq(KeyPresses) /\ DOMAIN queue' = {}
  BY <1>1
<1>3. Screen!NoStrayAnswer' /\ Screen!ResultIsRead'
  BY <1>1 DEF ScreenInv, Screen!NoStrayAnswer, Screen!ResultIsRead
<1> QED BY <1>1, <1>2, <1>3, ScreenTypes, ResultStep

LEMMA ResultDrawKeeps == ASSUME ScreenAssumed, ScreenInv, Screen!ResultDraw PROVE ScreenInv'
<1>1. /\ pc = "resultDraw" /\ pc' = "resultRead" /\ display' = Screen!Drawn("result", 0, 0)
      /\ UNCHANGED <<disk, mem, index, drawnAt, prompt, queue, saving, wasLeft, given, joined, late>>
  BY DEF Screen!ResultDraw, Screen!shownVars
<1>2. display' \in Screen!Displays
  <2>1. [what |-> "result", id |-> 0, ver |-> 0, age |-> 0] \in Screen!Displays
    BY DEF Screen!Displays, ScreenAssumed, Screen!ScreenBounds
  <2> QED BY <1>1, <2>1, ScreenTypes DEF Screen!Drawn
<1>3. \A i \in DOMAIN queue' : ~queue'[i].busy
  BY <1>1 DEF ScreenInv, ResultInv
<1>4. Screen!NoStrayAnswer' /\ Screen!ResultIsRead'
  BY <1>1 DEF ScreenInv, Screen!NoStrayAnswer, Screen!ResultIsRead
<1>5. queue' \in Seq(KeyPresses) /\ saving' \in Savings
  BY <1>1, ScreenTypes
<1> QED BY <1>1, <1>2, <1>3, <1>4, <1>5, ResultStep

LEMMA ResultKeyKeeps == ASSUME ScreenAssumed, ScreenInv, Screen!ResultKey PROVE ScreenInv'
<1>1. /\ pc = "resultRead" /\ queue # <<>> /\ queue' = Tail(queue)
      /\ UNCHANGED <<disk, mem, index, drawnAt, prompt, display, wasLeft, joined, late>>
  BY DEF Screen!ResultKey, Screen!shownVars
<1>2. Fewer /\ \E j \in DOMAIN queue : Head(queue) = queue[j]
  BY <1>1, TakenKey
<1>3. (\A i \in DOMAIN queue : ~queue[i].busy) /\ ~Head(queue).busy
  <2>1. \A i \in DOMAIN queue : ~queue[i].busy
    BY <1>1 DEF ScreenInv, ResultInv
  <2> QED BY <1>2, <2>1
<1>4. queue' \in Seq(KeyPresses) /\ \A i \in DOMAIN queue' : ~queue'[i].busy
  BY <1>2, <1>3 DEF Fewer
<1>5. display' \in Screen!Displays /\ saving \in Savings
  BY <1>1, ScreenTypes
<1>6. CASE /\ pc' = "end" /\ UNCHANGED saving
           /\ given' = [Screen!NotGiven EXCEPT !.what = "closed", !.busy = Head(queue).busy]
  <2>1. given'.what = "closed" /\ given'.busy = Head(queue).busy
    BY <1>6 DEF Screen!NotGiven
  <2>2. Screen!NoStrayAnswer' /\ Screen!ResultIsRead'
    BY <1>3, <2>1 DEF Screen!NoStrayAnswer, Screen!ResultIsRead
  <2> QED BY <1>1, <1>4, <1>5, <1>6, <2>2, ResultStep
<1>7. CASE pc' = "away" /\ saving' = [id |-> 0, saved |-> "d"] /\ UNCHANGED given
  <2>1. Screen!NoStrayAnswer' /\ Screen!ResultIsRead' /\ saving' \in Savings
    BY <1>7 DEF ScreenInv, Screen!NoStrayAnswer, Screen!ResultIsRead, Savings
  <2> QED BY <1>1, <1>4, <1>5, <1>7, <2>1, ResultStep
<1>8. CASE pc' = "resultDraw" /\ UNCHANGED <<saving, given>>
  <2>1. Screen!NoStrayAnswer' /\ Screen!ResultIsRead'
    BY <1>8 DEF ScreenInv, Screen!NoStrayAnswer, Screen!ResultIsRead
  <2> QED BY <1>1, <1>4, <1>5, <1>8, <2>1, ResultStep
<1> QED BY <1>6, <1>7, <1>8 DEF Screen!ResultKey

LEMMA DiffKeeps == ASSUME ScreenAssumed, ScreenInv, Screen!DiffEnds PROVE ScreenInv'
<1>1. /\ pc = "away" /\ saving' = Screen!NotSaving /\ pc' = "resultDrop" /\ display' = Screen!Nothing
      /\ UNCHANGED <<disk, mem, index, drawnAt, prompt, queue, wasLeft, given, joined, late>>
  BY DEF Screen!DiffEnds, Screen!shownVars
<1>2. display' \in Screen!Displays /\ saving' \in Savings
  BY <1>1 DEF Screen!Nothing, Screen!Displays, Screen!NotSaving, Savings, ScreenAssumed,
     Screen!ScreenBounds
<1>3. ShapeInv'
  BY <1>1, <1>2, ScreenTypes, ShapeKept DEF Asking, Reading
<1>4. prompt.kind # "note"
  BY <1>1 DEF ScreenInv, LoopInv
<1> QED BY <1>1, <1>3, <1>4, ResultKeeps

LEMMA DiskKeeps ==
  ASSUME ScreenAssumed, ScreenInv, disk' \in Screen!Reviews, joined' \in BOOLEAN, late' \in BOOLEAN,
         joined' \/ (~Asking /\ pc \notin {"save", "load"}), late => late',
         pc = "load" => disk'.reqs = disk.reqs \/ late',
         UNCHANGED <<mem, index, drawnAt, prompt, display, queue, pc, saving, wasLeft, given>>
  PROVE  ScreenInv'
<1>1. Asking' <=> Asking
  BY DEF Asking
<1>2. ShapeInv'
  <2>1. index \in Screen!Positions(mem) => index' \in Screen!Positions(mem')
    BY DEF Screen!Positions, Screen!Count
  <2>2. /\ (Asking \/ pc \in {"save", "load"} => index \in Screen!Positions(mem))
        /\ pc \in {"draw", "drop", "read", "away", "save", "load", "step7", "resultDrop",
                   "resultDraw", "resultRead", "end", "panicked"}
    BY SameCount DEF ScreenInv, ShapeInv, Screen!TypeOK
  <2> QED BY <1>1, <2>1, <2>2, ScreenTypes, ShapeKept
<1>3. LoopInv' /\ SavedInv' /\ ResultInv' /\ Screen!NoStrayAnswer' /\ Screen!ResultIsRead'
  BY DEF ScreenInv, LoopInv, SavedInv, ResultInv, Screen!NoStrayAnswer, Screen!ResultIsRead, Reading
<1>4. SeenInv'
  <2>1. Screen!ShownId' = Screen!ShownId /\ (Live' => Live)
    BY DEF Screen!ShownId, Live
  <2> QED BY <2>1 DEF ScreenInv, SeenInv
<1>5. OpenInv'
  BY <1>1 DEF OpenInv
<1> QED BY <1>2, <1>3, <1>4, <1>5 DEF ScreenInv

LEMMA OtherScreenDisk == ASSUME ScreenAssumed, disk \in Screen!Reviews, Screen!OtherScreen
                         PROVE  disk' \in Screen!Reviews /\ disk'.reqs = disk.reqs
<1>1. CASE \E d \in DOMAIN disk.reqs, f \in {Screen!Answer, Screen!Note(1)} : disk' = Screen!HandOver(Screen!WithFb(disk, d, f))
  <2>1. PICK d \in DOMAIN disk.reqs, f \in {Screen!Answer, Screen!Note(1)} : disk' = Screen!HandOver(Screen!WithFb(disk, d, f))
    BY <1>1
  <2>2. f \in Screen!FeedbackSet
    BY DEF Screen!FeedbackSet, ScreenAssumed, Screen!ScreenBounds
  <2>3. Screen!WithFb(disk, d, f) \in Screen!Reviews /\ Screen!WithFb(disk, d, f).reqs = disk.reqs
    BY <2>2, WithFbReview DEF SameList
  <2> QED BY <2>1, <2>3, HandOverReview
<1>2. CASE \E d \in DOMAIN disk.fb : disk' = Screen!WithoutFb(disk, {d})
  BY <1>2, WithoutFbReview DEF SameList
<1>3. CASE \E st \in {"done", "dismissed"} : disk' = [disk EXCEPT !.status = st]
  <2>1. PICK st \in {"done", "dismissed"} : disk' = [disk EXCEPT !.status = st]
    BY <1>3
  <2> QED BY <2>1, StatusReview
<1> QED BY <1>1, <1>2, <1>3 DEF Screen!OtherScreen

LEMMA AgentDisk ==
  ASSUME ScreenAssumed, disk \in Screen!Reviews, Screen!AgentSends
  PROVE  disk' \in Screen!Reviews
<1>1. PICK again \in SUBSET {d \in DOMAIN disk.fb : disk.fb[d].kind = "note"},
           kept \in SUBSET {d \in DOMAIN disk.fb : disk.fb[d].kind = "answer"},
           new \in SUBSET {d \in Ids : \A e \in DOMAIN disk.reqs : e < d} :
        disk' = [status |-> "waiting",
                 reqs |-> [d \in again \cup kept \cup new |->
                             IF d \in again THEN disk.reqs[d] + 1
                             ELSE IF d \in kept THEN disk.reqs[d] ELSE 1],
                 fb |-> [d \in kept |-> disk.fb[d]]]
  BY DEF Screen!AgentSends
<1> DEFINE r == [d \in again \cup kept \cup new |->
                   IF d \in again THEN disk.reqs[d] + 1
                   ELSE IF d \in kept THEN disk.reqs[d] ELSE 1]
           f == [d \in kept |-> disk.fb[d]]
<1>2. /\ DOMAIN disk.fb \subseteq DOMAIN disk.reqs /\ DOMAIN disk.reqs \subseteq Ids
      /\ \A d \in DOMAIN disk.reqs : disk.reqs[d] \in 1 .. MaxVersion
      /\ \A d \in DOMAIN disk.fb : disk.fb[d] \in Screen!FeedbackSet
  BY ReviewFields
<1>3. again \cup kept \cup new \in SUBSET Ids /\ kept \in SUBSET (again \cup kept \cup new)
  BY <1>2
<1>4. \A d \in DOMAIN disk.reqs : disk.reqs[d] < MaxVersion
  BY DEF Screen!AgentSends
<1>5. r \in [again \cup kept \cup new -> 1 .. MaxVersion]
  <2>1. \A d \in DOMAIN disk.reqs : disk.reqs[d] + 1 \in 1 .. MaxVersion
    BY <1>2, <1>4 DEF ScreenAssumed, Screen!ScreenBounds
  <2>2. 1 \in 1 .. MaxVersion
    BY DEF ScreenAssumed, Screen!ScreenBounds
  <2>3. again \subseteq DOMAIN disk.reqs /\ kept \subseteq DOMAIN disk.reqs
    BY <1>2
  <2> QED BY <1>2, <2>1, <2>2, <2>3
<1>6. f \in [kept -> Screen!FeedbackSet]
  BY <1>2
<1>7. [status |-> "waiting", reqs |-> r, fb |-> f] \in Screen!Reviews
  <2> HIDE DEF r, f
  <2> QED BY <1>3, <1>5, <1>6, ReviewMade
<1> QED BY <1>1, <1>7

LEMMA OthersKeep == ASSUME ScreenAssumed, ScreenInv, Screen!Others PROVE ScreenInv'
<1>1. UNCHANGED <<mem, index, drawnAt, prompt, display, queue, pc, saving, wasLeft, given>>
  BY DEF Screen!Others, Screen!shownVars
<1>2. CASE Screen!OtherScreen
  <2>1. disk' \in Screen!Reviews /\ disk'.reqs = disk.reqs
    BY <1>2, ScreenTypes, OtherScreenDisk
  <2>2. joined' = TRUE /\ late' = late /\ late \in BOOLEAN
    BY <1>2, ScreenTypes DEF Screen!OtherScreen
  <2> QED BY <1>1, <2>1, <2>2, DiskKeeps
<1>3. CASE Screen!AgentSends
  <2>1. /\ disk' \in Screen!Reviews
        /\ joined' = (joined \/ pc = "load") /\ joined' \in BOOLEAN
        /\ late' = (late \/ pc = "load") /\ late' \in BOOLEAN
    BY <1>3, ScreenTypes, AgentDisk DEF Screen!AgentSends
  <2>2. disk.status = "notes"
    BY <1>3 DEF Screen!AgentSends
  <2>3. ~joined' => ~Asking /\ pc \notin {"save", "load"}
    BY <2>1, <2>2 DEF ScreenInv, OpenInv
  <2> QED BY <1>1, <2>1, <2>2, <2>3, DiskKeeps
<1> QED BY <1>2, <1>3 DEF Screen!Others

-----------------------------------------------------------------------------
\* The theorems.

LEMMA InitKeeps == ASSUME ScreenAssumed, Screen!Init PROVE ScreenInv
<1>1. PICK fed \in SUBSET InitIds, n \in 1 .. MaxText :
        /\ InitIds \ fed # {}
        /\ \E kind \in [fed -> {"answer", "note"}] :
             disk = [status |-> "waiting", reqs |-> [d \in InitIds |-> 1],
                     fb |-> [d \in fed |-> IF kind[d] = "answer" THEN Screen!Answer ELSE Screen!Note(n)]]
  BY DEF Screen!Init
<1>2. PICK kind \in [fed -> {"answer", "note"}] :
        disk = [status |-> "waiting", reqs |-> [d \in InitIds |-> 1],
                fb |-> [d \in fed |-> IF kind[d] = "answer" THEN Screen!Answer ELSE Screen!Note(n)]]
  BY <1>1
<1>3. disk \in Screen!Reviews
  <2> DEFINE r == [d \in InitIds |-> 1]
             f == [d \in fed |-> IF kind[d] = "answer" THEN Screen!Answer ELSE Screen!Note(n)]
  <2>1. r \in [InitIds -> 1 .. MaxVersion]
    BY DEF ScreenAssumed, Screen!ScreenBounds
  <2>2. f \in [fed -> Screen!FeedbackSet]
    BY DEF Screen!FeedbackSet
  <2>3. InitIds \in SUBSET Ids /\ fed \in SUBSET InitIds
    BY DEF ScreenAssumed, Screen!ScreenAssumption
  <2>4. [status |-> "waiting", reqs |-> r, fb |-> f] \in Screen!Reviews
    <3> HIDE DEF r, f
    <3> QED BY <2>1, <2>2, <2>3, ReviewMade
  <2> QED BY <1>2, <2>4
<1>4. disk.status = "waiting" /\ DOMAIN disk.reqs = InitIds /\ DOMAIN disk.fb = fed
  BY <1>2
<1>5. ~Screen!AllFed(disk)
  BY <1>1, <1>4 DEF Screen!AllFed
<1>6. Screen!Least(Screen!Unanswered(disk)) \in Screen!Positions(disk) /\ Screen!Positions(disk) \subseteq 0 .. (Cardinality(Ids) - 1)
  <2>1. PICK d \in DOMAIN disk.reqs : d \notin DOMAIN disk.fb
    BY <1>1, <1>4
  <2>2. PICK i \in Screen!Positions(disk) : Screen!IdAt(disk, i) = d
    BY <1>3, PositionOf DEF ScreenAssumed
  <2>3. i \in Screen!Unanswered(disk)
    BY <2>1, <2>2 DEF Screen!Unanswered, Screen!HasFeedback
  <2>4. Screen!Unanswered(disk) \in SUBSET Nat
    BY DEF Screen!Unanswered, Screen!Positions
  <2>5. Screen!Least(Screen!Unanswered(disk)) \in Screen!Unanswered(disk)
    BY <2>3, <2>4, LeastOf
  <2> QED BY <1>3, <2>5, PositionOf DEF Screen!Unanswered, ScreenAssumed
<1>7. /\ mem = disk /\ index = Screen!Least(Screen!Unanswered(disk)) /\ drawnAt = Screen!NotDrawn /\ prompt = Screen!NoPrompt
      /\ display = Screen!Nothing /\ queue = <<>> /\ pc = "draw" /\ saving = Screen!NotSaving /\ wasLeft = FALSE
      /\ given = Screen!NotGiven /\ joined = FALSE /\ late = FALSE
  BY DEF Screen!Init
<1>8. ShapeInv
  <2>1. display \in Screen!Displays /\ saving \in Savings
        /\ prompt \in [kind : {"none", "note", "search"}, typed : 0 .. MaxText]
    BY <1>7 DEF Screen!Nothing, Screen!Displays, Screen!NotSaving, Savings, Screen!NoPrompt,
       ScreenAssumed, Screen!ScreenBounds
  <2>2. queue \in Seq(KeyPresses) /\ DOMAIN queue = {}
    BY <1>7
  <2>3. index \in 0 .. (Cardinality(Ids) - 1) /\ index \in Screen!Positions(mem)
    BY <1>6, <1>7
  <2> QED BY <1>3, <1>7, <2>1, <2>2, <2>3, SameCount DEF ShapeInv, Screen!TypeOK
<1>9. LoopInv /\ SeenInv /\ SavedInv /\ ResultInv
  BY <1>7 DEF LoopInv, SeenInv, SavedInv, ResultInv, Live, Reading, Screen!NoPrompt
<1>10. OpenInv /\ Screen!NoStrayAnswer /\ Screen!ResultIsRead
  BY <1>4, <1>5, <1>7 DEF OpenInv, Screen!NoStrayAnswer, Screen!ResultIsRead, Screen!NotGiven
<1> QED BY <1>8, <1>9, <1>10 DEF ScreenInv

LEMMA KeyKeeps == ASSUME ScreenAssumed, ScreenInv, Screen!Key PROVE ScreenInv'
<1>1. CASE Screen!Quit \/ Screen!AnswerKey \/ Screen!EnterNote \/ Screen!EnterSearch
  BY <1>1, QuitKeeps, AnswerKeeps, NoteKeeps, SearchKeeps
<1>2. CASE \E k \in {"l", "h"} : Screen!Move(k)
  BY <1>2, MoveKeeps
<1>3. CASE \E k \in {"e", "v"} : Screen!LeaveTerminal(k)
  BY <1>3, LeaveKeeps
<1>4. CASE \E k : Screen!OpenPrompt(k) \/ Screen!OtherKey(k) \/ Screen!Type(k)
  BY <1>4, PromptKeeps
<1> QED BY <1>1, <1>2, <1>3, <1>4 DEF Screen!Key

LEMMA ScreenStepKeeps == ASSUME ScreenAssumed, ScreenInv, [Screen!Next]_(Screen!vars) PROVE ScreenInv'
<1>1. CASE \E k \in Keys : Screen!Press(k)
  BY <1>1, PressKeeps
<1>2. CASE Screen!Tick \/ Screen!ComeBack \/ Screen!DiffEnds \/ Screen!Others
  BY <1>2, TickKeeps, ComeBackKeeps, DiffKeeps, OthersKeep
<1>3. CASE Screen!Draw \/ Screen!DropKeys \/ Screen!Key \/ Screen!Save \/ Screen!Load \/ Screen!LoadFails
  BY <1>3, DrawKeeps, DropKeeps, KeyKeeps, SaveKeeps, LoadKeeps, LoadFailsKeeps
<1>4. CASE Screen!WriteAnswers \/ Screen!ResultDrop \/ Screen!ResultDraw \/ Screen!ResultKey
  BY <1>4, WriteKeeps, ResultDropKeeps, ResultDrawKeeps, ResultKeyKeeps
<1>5. CASE UNCHANGED Screen!vars
  <2>1. UNCHANGED <<disk, mem, index, drawnAt, prompt, display, queue, pc, saving, wasLeft, given, joined, late>>
    BY <1>5 DEF Screen!vars
  <2>2. ShapeInv'
    <3>1. index \in Screen!Positions(mem) => index' \in Screen!Positions(mem')
      BY <2>1 DEF Screen!Positions, Screen!Count
    <3>2. (Asking' <=> Asking)
      BY <2>1 DEF Asking
    <3>3. /\ (Asking \/ pc \in {"save", "load"} => index \in Screen!Positions(mem))
          /\ pc \in {"draw", "drop", "read", "away", "save", "load", "step7", "resultDrop",
                     "resultDraw", "resultRead", "end", "panicked"}
      BY SameCount DEF ScreenInv, ShapeInv, Screen!TypeOK
    <3> QED BY <2>1, <3>1, <3>2, <3>3, ScreenTypes, ShapeKept
  <2>3. LoopInv' /\ SavedInv' /\ ResultInv' /\ Screen!NoStrayAnswer' /\ Screen!ResultIsRead'
    BY <2>1 DEF ScreenInv, LoopInv, SavedInv, ResultInv, Screen!NoStrayAnswer, Screen!ResultIsRead,
       Reading
  <2>4. SeenInv'
    BY <2>1 DEF ScreenInv, SeenInv, Live, Screen!ShownId
  <2>5. OpenInv'
    BY <2>1 DEF ScreenInv, OpenInv, Asking, Screen!AllFed, Screen!AllAnswered
  <2> QED BY <2>2, <2>3, <2>4, <2>5 DEF ScreenInv
<1> QED BY <1>1, <1>2, <1>3, <1>4, <1>5 DEF Screen!Next, Screen!Program

\* The invariant of a Review Screen, whatever keys, other screens and agents do.  What
\* it says of the shown request (SeenInv) and of a done save (SavedInv) is not said
\* from the moment a list comes between a save and its load until a request is drawn
\* anew: the code then shows new words with the old wait (saving.rs:82).
THEOREM ScreenInvariant == ASSUME ScreenAssumed PROVE Screen!Spec => []ScreenInv
<1>1. Screen!Init => ScreenInv
  BY InitKeeps
<1>2. ScreenInv /\ [Screen!Next]_(Screen!vars) => ScreenInv'
  BY ScreenStepKeeps
<1> QED BY <1>1, <1>2, PTL DEF Screen!Spec

\* No key answers what the user had not been shown for the wait: keys typed into
\* nvim, during a save or a slow check, or just as the request changed are dropped or
\* give no feedback (screen.rs:18, mod.rs:263).  Excepted are the keys after a list
\* that came between a save and its load, until a request is drawn anew: those may
\* answer words just drawn (saving.rs:82).
THEOREM KeysAreSeen == ASSUME ScreenAssumed PROVE Screen!Spec => []NoStrayAnswer
<1>1. ScreenInv => NoStrayAnswer
  BY DEF ScreenInv, NoStrayAnswer
<1> QED BY <1>1, ScreenInvariant, PTL

\* What the screen asks is what review.json leaves open, through saves and loads that
\* fail, until another screen answers or a list comes between a save and its load; and
\* no result is ever closed unread (saving.rs:2, mod.rs:183).
THEOREM AsksWhatIsOpen == ASSUME ScreenAssumed PROVE Screen!Spec => []AsksWhatIsSaved
<1>1. ScreenInv => AsksWhatIsSaved
  BY DEF ScreenInv, ShapeInv, OpenInv, AsksWhatIsSaved, Screen!AsksWhatIsSaved, Screen!ShowsSaved,
     Screen!StillAsks, Asking, Reading
<1> QED BY <1>1, ScreenInvariant, PTL

-----------------------------------------------------------------------------

\* The instance's copies of two operators are the library's.
LEMMA PickerCount ==
  \A S : Picker!Cardinality(S) = Cardinality(S) /\ (Picker!IsFiniteSet(S) <=> IsFiniteSet(S))
<1>1. \A S : Picker!Cardinality(S) = Cardinality(S)
  BY DEF Picker!Cardinality, Cardinality
<1>2. \A S : Picker!IsFiniteSet(S) <=> IsFiniteSet(S)
  BY DEF Picker!IsFiniteSet, IsFiniteSet
<1> QED BY <1>1, <1>2

\* Induction, for a property given as the set of the numbers that have it.
LEMMA SetInduction ==
  ASSUME NEW S, 0 \in S, \A n \in Nat : n \in S => n + 1 \in S
  PROVE  Nat \subseteq S
<1> DEFINE R == OpToRel(<, Nat)
           T == Nat \ S
<1>1. IsWellFoundedOn(R, Nat)
  BY NatLessThanWellFounded
<1>2. \A x, y \in Nat : <<x, y>> \in R <=> x < y
  BY DEF OpToRel
<1>3. T \subseteq Nat
  OBVIOUS
<1> HIDE DEF R
<1>4. SUFFICES ASSUME T # {} PROVE FALSE
  OBVIOUS
<1>5. PICK x \in T : \A y \in T : ~ (<<y, x>> \in R)
  <2> HIDE DEF T
  <2> QED BY <1>1, <1>3, <1>4, WFMin
<1>6. x \in Nat /\ x # 0 /\ x - 1 \in Nat
  BY <1>5
<1>7. x - 1 \notin T
  <2> DEFINE y == x - 1
  <2>1. y \in Nat /\ y < x
    BY <1>6
  <2> HIDE DEF y
  <2>2. <<y, x>> \in R
    BY <1>2, <1>6, <2>1
  <2>3. y \notin T
    BY <1>5, <2>2
  <2> QED BY <2>3 DEF y
<1>8. (x - 1) + 1 \in S /\ (x - 1) + 1 = x
  BY <1>6, <1>7
<1> QED BY <1>5, <1>8

\* t has the elements of s in S, at the positions p, each once.
Takes(t, s, S, n, p) ==
  /\ n \in Nat /\ p \in [1 .. n -> DOMAIN s]
  /\ t = [k \in 1 .. n |-> s[p[k]]]
  /\ \A k, l \in 1 .. n : p[k] = p[l] => k = l
  /\ \A i \in DOMAIN s : s[i] \in S <=> \E k \in 1 .. n : p[k] = i

\* Keep takes elements of a sequence at positions of its own, and all that are in S.
LEMMA KeepTakes ==
  ASSUME NEW T, NEW s \in Seq(T), NEW S
  PROVE  \E n, p : Takes(Picker!Keep(s, S), s, S, n, p)
<1> DEFINE at == {i \in DOMAIN s : s[i] \in S}
           n == Cardinality(at)
           rank == [i \in at |-> Cardinality(at \cap (1 .. i))]
<1>1. at \subseteq Nat \ {0} /\ DOMAIN s = 1 .. Len(s) /\ Len(s) \in Nat
  OBVIOUS
<1>2. IsFiniteSet(at) /\ n \in Nat
  <2>1. IsFiniteSet(1 .. Len(s))
    BY <1>1, FS_Interval
  <2>2. at \in SUBSET (1 .. Len(s))
    BY <1>1
  <2> QED BY <2>1, <2>2, FS_Subset, FS_CardinalityType
<1>3. \A i \in at : rank[i] \in 1 .. n
  <2> SUFFICES ASSUME NEW i \in at PROVE rank[i] \in 1 .. n
    OBVIOUS
  <2> DEFINE B == at \cap (1 .. i)
  <2>1. B \in SUBSET at /\ i \in B
    BY <1>1
  <2>2. rank[i] = Cardinality(B)
    OBVIOUS
  <2> HIDE DEF at, B, rank
  <2>3. IsFiniteSet(B) /\ Cardinality(B) <= n /\ Cardinality(B) \in Nat
    BY <1>2, <2>1, FS_Subset, FS_CardinalityType
  <2>4. Cardinality(B) # 0
    BY <2>1, <2>3, FS_EmptySet
  <2> QED BY <1>2, <2>2, <2>3, <2>4
<1>4. \A i, j \in at : i < j => rank[i] < rank[j]
  <2> SUFFICES ASSUME NEW i \in at, NEW j \in at, i < j PROVE rank[i] < rank[j]
    OBVIOUS
  <2> DEFINE B == at \cap (1 .. i)
             C == at \cap (1 .. j)
  <2>1. B \in SUBSET C /\ C \in SUBSET at /\ j \in C /\ j \notin B
    BY <1>1
  <2>2. rank[i] = Cardinality(B) /\ rank[j] = Cardinality(C)
    OBVIOUS
  <2> HIDE DEF at, B, C, rank
  <2>3. IsFiniteSet(C)
    BY <1>2, <2>1, FS_Subset
  <2>4. IsFiniteSet(B) /\ Cardinality(B) <= Cardinality(C) /\ Cardinality(B) # Cardinality(C)
    BY <2>1, <2>3, FS_Subset
  <2>5. Cardinality(B) \in Nat /\ Cardinality(C) \in Nat
    BY <2>3, <2>4, FS_CardinalityType
  <2> QED BY <2>2, <2>4, <2>5
<1>5. \A i, j \in at : rank[i] = rank[j] => i = j
  <2> SUFFICES ASSUME NEW i \in at, NEW j \in at, rank[i] = rank[j] PROVE i = j
    OBVIOUS
  <2>1. i \in Nat /\ j \in Nat /\ ~(rank[i] < rank[j]) /\ ~(rank[j] < rank[i])
    <3> HIDE DEF rank
    <3>1. rank[i] \in 1 .. n
      BY <1>3
    <3> QED BY <1>1, <1>2, <3>1
  <2> HIDE DEF rank, at
  <2>2. ~(i < j) /\ ~(j < i)
    BY <1>4, <2>1
  <2> QED BY <2>1, <2>2
<1>6. \A k \in 1 .. n : \E i \in at : rank[i] = k
  <2>1. rank \in Injection(at, 1 .. n)
    <3>1. rank \in [at -> 1 .. n]
      BY <1>3
    <3> HIDE DEF rank, at
    <3> QED BY <1>5, <3>1 DEF Injection, Picker!IsInjective, IsInjective
  <2>2. IsFiniteSet(1 .. n) /\ Cardinality(1 .. n) = n
    <3> HIDE DEF n
    <3>1. 0 \in Int /\ 1 \in Int /\ n \in Int
      BY <1>2
    <3>2. IsFiniteSet(1 .. n) /\ Cardinality(1 .. n) = IF 1 > n THEN 0 ELSE n - 1 + 1
      BY <3>1, FS_Interval
    <3> QED BY <1>2, <3>2
  <2> HIDE DEF rank, at
  <2>3. rank \in Surjection(at, 1 .. n)
    BY <2>1, <2>2, FS_Injection
  <2> QED BY <2>3 DEF Surjection
<1> DEFINE p == [k \in 1 .. n |-> CHOOSE i \in at : rank[i] = k]
<1>7. \A k \in 1 .. n : p[k] \in at /\ rank[p[k]] = k
  <2> HIDE DEF rank, at
  <2> QED BY <1>6
<1>8. Picker!Keep(s, S) = [k \in 1 .. n |-> s[p[k]]]
  <2> DEFINE q(k) == CHOOSE i \in at : Picker!Cardinality(at \cap (1 .. i)) = k
  <2>1. Picker!Keep(s, S) = [k \in 1 .. Picker!Cardinality(at) |-> s[q(k)]]
    BY DEF Picker!Keep
  <2>2. \A k \in 1 .. n : q(k) = p[k]
    <3>1. \A i \in at : rank[i] = Picker!Cardinality(at \cap (1 .. i))
      BY PickerCount
    <3> HIDE DEF rank, at, n
    <3> SUFFICES ASSUME NEW k \in 1 .. n PROVE q(k) = p[k]
      OBVIOUS
    <3>2. (CHOOSE i \in at : Picker!Cardinality(at \cap (1 .. i)) = k) = (CHOOSE i \in at : rank[i] = k)
      BY <3>1
    <3>3. p[k] = CHOOSE i \in at : rank[i] = k
      OBVIOUS
    <3>4. q(k) = CHOOSE i \in at : Picker!Cardinality(at \cap (1 .. i)) = k
      OBVIOUS
    <3> HIDE DEF p, q
    <3> QED BY <3>2, <3>3, <3>4
  <2>3. Picker!Cardinality(at) = n
    BY PickerCount
  <2> HIDE DEF rank, at, n, p, q
  <2> QED BY <2>1, <2>2, <2>3
<1>9. p \in [1 .. n -> DOMAIN s]
  BY <1>7
<1>10. \A k, l \in 1 .. n : p[k] = p[l] => k = l
  <2> HIDE DEF rank, at, n, p
  <2> QED BY <1>7
<1>11. \A i \in DOMAIN s : s[i] \in S <=> \E k \in 1 .. n : p[k] = i
  <2> SUFFICES ASSUME NEW i \in DOMAIN s PROVE s[i] \in S <=> \E k \in 1 .. n : p[k] = i
    OBVIOUS
  <2>1. s[i] \in S <=> i \in at
    OBVIOUS
  <2> HIDE DEF rank, at, n, p
  <2>2. ASSUME i \in at PROVE \E k \in 1 .. n : p[k] = i
    BY <1>3, <1>5, <1>7, <2>2
  <2> QED BY <1>7, <2>1, <2>2
<1> HIDE DEF at, rank, n, p
<1>12. Takes(Picker!Keep(s, S), s, S, n, p)
  BY <1>2, <1>8, <1>9, <1>10, <1>11 DEF Takes
<1> QED BY <1>12

\* What follows of the elements, and for a sequence without repetition.
LEMMA KeepSeq ==
  ASSUME NEW T, NEW s \in Seq(T), NEW S
  PROVE  /\ Picker!Keep(s, S) \in Seq(T)
         /\ Picker!Range(Picker!Keep(s, S)) = Picker!Range(s) \cap S
         /\ Picker!IsInjective(s) => Picker!IsInjective(Picker!Keep(s, S))
<1>1. PICK n, p : Takes(Picker!Keep(s, S), s, S, n, p)
  BY KeepTakes
<1>2. /\ n \in Nat /\ p \in [1 .. n -> DOMAIN s]
      /\ Picker!Keep(s, S) = [k \in 1 .. n |-> s[p[k]]]
      /\ \A k, l \in 1 .. n : p[k] = p[l] => k = l
      /\ \A i \in DOMAIN s : s[i] \in S <=> \E k \in 1 .. n : p[k] = i
  BY <1>1 DEF Takes
<1> DEFINE t == [k \in 1 .. n |-> s[p[k]]]
<1>3. t \in Seq(T) /\ DOMAIN t = 1 .. n /\ \A k \in 1 .. n : t[k] = s[p[k]] /\ p[k] \in DOMAIN s
  BY <1>2
<1>4. Picker!Keep(s, S) = t
  BY <1>2
<1> HIDE DEF t
<1>5. Picker!Range(t) = Picker!Range(s) \cap S
  <2>1. ASSUME NEW x \in Picker!Range(t) PROVE x \in Picker!Range(s) \cap S
    BY <1>2, <1>3 DEF Picker!Range
  <2>2. ASSUME NEW x \in Picker!Range(s) \cap S PROVE x \in Picker!Range(t)
    BY <1>2, <1>3 DEF Picker!Range
  <2> QED BY <2>1, <2>2
<1>6. Picker!IsInjective(s) => Picker!IsInjective(t)
  BY <1>2, <1>3 DEF Picker!IsInjective
<1> QED BY <1>3, <1>4, <1>5, <1>6

\* A sequence without repetition is no longer than there are elements.
LEMMA ShortList ==
  ASSUME NEW S, IsFiniteSet(S), NEW s \in Seq(S), Picker!IsInjective(s)
  PROVE  Len(s) <= Picker!Cardinality(S)
<1>1. s \in Injection(1 .. Len(s), S) /\ Len(s) \in Nat
  BY DEF Injection, Picker!IsInjective, IsInjective
<1>2. Cardinality(1 .. Len(s)) <= Cardinality(S)
  BY <1>1, FS_Injection
<1>3. Cardinality(1 .. Len(s)) = Len(s)
  <2>1. 1 \in Int /\ Len(s) \in Int
    BY <1>1
  <2>2. Cardinality(1 .. Len(s)) = IF 1 > Len(s) THEN 0 ELSE Len(s) - 1 + 1
    BY <2>1, FS_Interval
  <2> QED BY <1>1, <2>2
<1> QED BY <1>2, <1>3, PickerCount

\* One more in the list.
LEMMA AddedTo ==
  ASSUME NEW S, NEW s \in Seq(S), Picker!IsInjective(s), NEW w \in S
  PROVE  /\ Picker!Added(s, w) \in Seq(S)
         /\ Picker!Range(Picker!Added(s, w)) = Picker!Range(s) \cup {w}
         /\ Picker!IsInjective(Picker!Added(s, w))
<1>1. CASE w \in Picker!Range(s)
  BY <1>1 DEF Picker!Added, Picker!Range
<1>2. CASE w \notin Picker!Range(s)
  <2> DEFINE t == Append(s, w)
             n == Len(s)
  <2>1. /\ t \in Seq(S) /\ n \in Nat /\ DOMAIN t = 1 .. (n + 1) /\ DOMAIN s = 1 .. n
        /\ t[n + 1] = w /\ \A i \in 1 .. n : t[i] = s[i]
    OBVIOUS
  <2>2. Picker!Added(s, w) = t
    BY <1>2 DEF Picker!Added
  <2> HIDE DEF t, n
  <2>3. Picker!Range(t) = Picker!Range(s) \cup {w}
    <3>1. ASSUME NEW x \in Picker!Range(t) PROVE x \in Picker!Range(s) \cup {w}
      <4>1. PICK i \in 1 .. (n + 1) : x = t[i]
        BY <2>1 DEF Picker!Range
      <4> QED BY <2>1, <4>1 DEF Picker!Range
    <3>2. ASSUME NEW x \in Picker!Range(s) \cup {w} PROVE x \in Picker!Range(t)
      <4>1. n + 1 \in 1 .. (n + 1) /\ \A i \in 1 .. n : i \in 1 .. (n + 1)
        BY <2>1
      <4> QED BY <2>1, <4>1 DEF Picker!Range
    <3> QED BY <3>1, <3>2
  <2>4. Picker!IsInjective(t)
    <3> SUFFICES ASSUME NEW i \in 1 .. (n + 1), NEW j \in 1 .. (n + 1), t[i] = t[j] PROVE i = j
      BY <2>1 DEF Picker!IsInjective
    <3>1. ASSUME NEW k \in 1 .. n PROVE t[k] # w
      BY <1>2, <2>1, <3>1 DEF Picker!Range
    <3>2. CASE i = n + 1 \/ j = n + 1
      BY <2>1, <3>1, <3>2
    <3>3. CASE i \in 1 .. n /\ j \in 1 .. n
      BY <2>1, <3>3 DEF Picker!IsInjective
    <3> QED BY <2>1, <3>2, <3>3
  <2> QED BY <2>1, <2>2, <2>3, <2>4
<1> QED BY <1>1, <1>2

-----------------------------------------------------------------------------
\* How many reviews the groups hold.

\* What a group of the picker may be.
GroupSet == [session : Sessions, reviews : Seq(Worktrees)]

\* A group of a sequence of groups.
LEMMA GroupFields ==
  ASSUME NEW groups \in Seq(GroupSet), NEW n \in 1 .. Len(groups)
  PROVE  /\ groups[n] \in GroupSet
         /\ groups[n].reviews \in Seq(Worktrees) /\ groups[n].session \in Sessions
         /\ Len(groups[n].reviews) \in Nat
<1>1. groups[n] \in GroupSet
  OBVIOUS
<1> QED BY <1>1 DEF GroupSet

\* f sums the reviews of the first n groups.
Sums(groups, n, f) ==
  f = [i \in 0 .. n |-> IF i = 0 THEN 0 ELSE f[i - 1] + Len(groups[i].reviews)]

\* There is such a function, for any groups.
LEMMA SumsExist ==
  ASSUME NEW groups, NEW n \in Nat
  PROVE  \E f : Sums(groups, n, f)
<1> DEFINE S == {k \in Nat : \E f : Sums(groups, k, f)}
<1>1. 0 \in S
  <2>1. Sums(groups, 0, [i \in 0 .. 0 |-> 0])
    BY DEF Sums
  <2> QED BY <2>1
<1>2. ASSUME NEW k \in Nat, k \in S PROVE k + 1 \in S
  <2>1. PICK f : Sums(groups, k, f)
    BY <1>2
  <2> DEFINE last == f[k] + Len(groups[k + 1].reviews)
             g == [i \in 0 .. (k + 1) |-> IF i = k + 1 THEN last ELSE f[i]]
  <2>2. \A i \in 0 .. k : f[i] = IF i = 0 THEN 0 ELSE f[i - 1] + Len(groups[i].reviews)
    BY <2>1, Zenon DEF Sums
  <2>3. ASSUME NEW i \in 0 .. (k + 1)
        PROVE  g[i] = IF i = 0 THEN 0 ELSE g[i - 1] + Len(groups[i].reviews)
    <3>1. CASE i = 0
      BY <2>2, <3>1
    <3>2. CASE i = k + 1
      BY <3>2
    <3>3. CASE i \in 1 .. k
      BY <2>2, <3>3
    <3> QED BY <3>1, <3>2, <3>3
  <2>4. Sums(groups, k + 1, g)
    <3> HIDE DEF last
    <3>1. g = [i \in 0 .. (k + 1) |-> g[i]]
      OBVIOUS
    <3> HIDE DEF g
    <3> QED BY <2>3, <3>1 DEF Sums
  <2> HIDE DEF g
  <2> QED BY <2>4
<1> HIDE DEF S
<1>3. n \in S
  BY <1>1, <1>2, SetInduction
<1> QED BY <1>3 DEF S

LEMMA UpToSums ==
  ASSUME NEW groups \in Seq(GroupSet)
  PROVE  /\ Picker!UpTo(groups)[0] = 0
         /\ \A n \in 1 .. Len(groups) :
              Picker!UpTo(groups)[n] = Picker!UpTo(groups)[n - 1] + Len(groups[n].reviews)
<1> DEFINE f == CHOOSE f : Sums(groups, Len(groups), f)
<1>1. Len(groups) \in Nat
  OBVIOUS
<1>2. Sums(groups, Len(groups), f)
  BY <1>1, SumsExist
<1>3. Picker!UpTo(groups) = f
  BY DEF Picker!UpTo, Sums
<1> HIDE DEF f
<1>4. \A i \in 0 .. Len(groups) : f[i] = IF i = 0 THEN 0 ELSE f[i - 1] + Len(groups[i].reviews)
  BY <1>2, Zenon DEF Sums
<1> QED BY <1>1, <1>3, <1>4

\* The sums are numbers that grow.
LEMMA UpToGrows ==
  ASSUME NEW groups \in Seq(GroupSet)
  PROVE  /\ \A n \in 0 .. Len(groups) : Picker!UpTo(groups)[n] \in Nat
         /\ \A n \in 1 .. Len(groups) : Len(groups[n].reviews) \in Nat
         /\ \A m, n \in 0 .. Len(groups) : m <= n => Picker!UpTo(groups)[m] <= Picker!UpTo(groups)[n]
<1> DEFINE N == Len(groups)
           f == Picker!UpTo(groups)
           S == {n \in Nat : n <= N => \A m \in 0 .. n : f[m] \in Nat /\ f[m] <= f[n]}
<1>1. N \in Nat /\ \A n \in 1 .. N : Len(groups[n].reviews) \in Nat
  BY DEF GroupSet
<1>2. f[0] = 0 /\ \A n \in 1 .. N : f[n] = f[n - 1] + Len(groups[n].reviews)
  BY UpToSums
<1> HIDE DEF N, f
<1>3. 0 \in S
  BY <1>2
<1>4. ASSUME NEW k \in Nat, k \in S PROVE k + 1 \in S
  <2> SUFFICES ASSUME k + 1 <= N PROVE \A m \in 0 .. (k + 1) : f[m] \in Nat /\ f[m] <= f[k + 1]
    OBVIOUS
  <2>1. f[k] \in Nat /\ \A m \in 0 .. k : f[m] \in Nat /\ f[m] <= f[k]
    BY <1>1, <1>4
  <2>2. k + 1 \in 1 .. N /\ (k + 1) - 1 = k
    BY <1>1
  <2>3. f[k + 1] = f[k] + Len(groups[k + 1].reviews) /\ Len(groups[k + 1].reviews) \in Nat
    BY <1>1, <1>2, <2>2
  <2> SUFFICES ASSUME NEW m \in 0 .. (k + 1) PROVE f[m] \in Nat /\ f[m] <= f[k + 1]
    OBVIOUS
  <2>4. CASE m = k + 1
    BY <2>1, <2>3, <2>4
  <2>5. CASE m \in 0 .. k
    BY <2>1, <2>3, <2>5
  <2> QED BY <2>4, <2>5
<1>5. Nat \subseteq S
  <2> HIDE DEF S
  <2> QED BY <1>3, <1>4, SetInduction
<1> QED BY <1>1, <1>5 DEF N, f

-----------------------------------------------------------------------------
\* Sequences one after another.

\* f joins the first n of them.
Joined(seqs, n, f) ==
  f = [i \in 1 .. n |-> IF i = 1 THEN seqs[i] ELSE f[i - 1] \o seqs[i]]

\* There is such a function, for any sequences.
LEMMA JoinedExist ==
  ASSUME NEW seqs, NEW n \in Nat
  PROVE  \E f : Joined(seqs, n, f)
<1> DEFINE S == {k \in Nat : \E f : Joined(seqs, k, f)}
<1>1. 0 \in S
  <2>1. Joined(seqs, 0, [i \in 1 .. 0 |-> 0])
    <3>1. 1 .. 0 = {}
      OBVIOUS
    <3> QED BY <3>1 DEF Joined
  <2> QED BY <2>1
<1>2. ASSUME NEW k \in Nat, k \in S PROVE k + 1 \in S
  <2>1. PICK f : Joined(seqs, k, f)
    BY <1>2
  <2> DEFINE last == IF k = 0 THEN seqs[1] ELSE f[k] \o seqs[k + 1]
             g == [i \in 1 .. (k + 1) |-> IF i = k + 1 THEN last ELSE f[i]]
  <2>2. \A i \in 1 .. k : f[i] = IF i = 1 THEN seqs[i] ELSE f[i - 1] \o seqs[i]
    BY <2>1, Zenon DEF Joined
  <2>3. ASSUME NEW i \in 1 .. (k + 1)
        PROVE  g[i] = IF i = 1 THEN seqs[i] ELSE g[i - 1] \o seqs[i]
    <3>1. CASE i = k + 1 /\ k = 0
      BY <3>1
    <3>2. CASE i = k + 1 /\ k # 0
      <4>1. last = f[k] \o seqs[k + 1]
        BY <3>2
      <4>2. i - 1 = k /\ k \in 1 .. (k + 1) /\ k # k + 1 /\ i # 1
        BY <3>2
      <4>3. g[k] = f[k] /\ g[i] = last
        <5> HIDE DEF last
        <5> QED BY <3>2, <4>2
      <4> HIDE DEF last, g
      <4>4. g[i - 1] = f[k] /\ seqs[i] = seqs[k + 1]
        BY <3>2, <4>2, <4>3
      <4> QED BY <4>1, <4>2, <4>3, <4>4
    <3>3. CASE i \in 1 .. k
      <4>1. g[i] = f[i] /\ (i # 1 => g[i - 1] = f[i - 1])
        BY <3>3
      <4> QED BY <2>2, <3>3, <4>1
    <3> QED BY <3>1, <3>2, <3>3
  <2>4. Joined(seqs, k + 1, g)
    <3> HIDE DEF last
    <3>1. g = [i \in 1 .. (k + 1) |-> g[i]]
      OBVIOUS
    <3> HIDE DEF g
    <3> QED BY <2>3, <3>1 DEF Joined
  <2> HIDE DEF g
  <2> QED BY <2>4
<1> HIDE DEF S
<1>3. n \in S
  BY <1>1, <1>2, SetInduction
<1> QED BY <1>3 DEF S

\* FlattenSeq is the last of what they join to, one by one.
LEMMA FlattenJoins ==
  ASSUME NEW seqs, Len(seqs) \in Nat, Len(seqs) > 0
  PROVE  \E f : /\ Picker!FlattenSeq(seqs) = f[Len(seqs)]
                /\ f[1] = seqs[1]
                /\ \A i \in 1 .. Len(seqs) : i # 1 => f[i] = f[i - 1] \o seqs[i]
<1> DEFINE f == CHOOSE f : Joined(seqs, Len(seqs), f)
<1>2. Joined(seqs, Len(seqs), f)
  BY JoinedExist
<1>3. Picker!FlattenSeq(seqs) = f[Len(seqs)]
  BY DEF Picker!FlattenSeq, Joined
<1> HIDE DEF f
<1>4. \A i \in 1 .. Len(seqs) : f[i] = IF i = 1 THEN seqs[i] ELSE f[i - 1] \o seqs[i]
  BY <1>2, Zenon DEF Joined
<1>5. 1 \in 1 .. Len(seqs)
  OBVIOUS
<1> QED BY <1>3, <1>4, <1>5

-----------------------------------------------------------------------------
\* The rows of a picker, and the reviews they are of.

\* What an item of two sequences, one after the other, is.
LEMMA TwoJoined ==
  ASSUME NEW T, NEW s \in Seq(T), NEW t \in Seq(T)
  PROVE  /\ s \o t \in Seq(T) /\ Len(s \o t) = Len(s) + Len(t)
         /\ \A i \in 1 .. Len(s) : (s \o t)[i] = s[i]
         /\ \A i \in (Len(s) + 1) .. (Len(s) + Len(t)) : (s \o t)[i] = t[i - Len(s)]
OBVIOUS

\* The title of a group and then two rows for each review.
LEMMA GroupHasRows ==
  ASSUME NEW groups \in Seq(GroupSet), NEW n \in 1 .. Len(groups)
  PROVE  /\ Picker!GroupRows(groups, n) \in Seq([at : Int])
         /\ Len(Picker!GroupRows(groups, n)) = 1 + 2 * Len(groups[n].reviews)
         /\ Picker!GroupRows(groups, n)[1].at = -1
         /\ \A r \in 2 .. (1 + 2 * Len(groups[n].reviews)) :
              Picker!GroupRows(groups, n)[r].at = Picker!UpTo(groups)[n - 1] + (r - 2) \div 2
<1> DEFINE first == Picker!UpTo(groups)[n - 1]
           L == Len(groups[n].reviews)
           two == [r \in 1 .. (2 * L) |-> [at |-> first + (r - 1) \div 2]]
           one == <<[at |-> -1]>>
<1>1. first \in Nat /\ L \in Nat /\ 2 * L \in Nat
  <2>1. n - 1 \in 0 .. Len(groups)
    OBVIOUS
  <2> QED BY <2>1, UpToGrows
<1>2. Picker!GroupRows(groups, n) = one \o two
  BY DEF Picker!GroupRows
<1> HIDE DEF first, L
<1>3. two \in Seq([at : Int]) /\ Len(two) = 2 * L
  <2>1. \A r \in 1 .. (2 * L) : first + (r - 1) \div 2 \in Int
    BY <1>1
  <2> QED BY <1>1, <2>1
<1>4. one \in Seq([at : Int]) /\ Len(one) = 1 /\ one[1].at = -1
  OBVIOUS
<1>5. \A r \in 1 .. (2 * L) : two[r].at = first + (r - 1) \div 2
  OBVIOUS
<1> DEFINE all == one \o two
<1> HIDE DEF one, two
<1>6. /\ all \in Seq([at : Int]) /\ Len(all) = 1 + 2 * L
      /\ all[1] = one[1] /\ \A r \in 2 .. (1 + 2 * L) : all[r] = two[r - 1]
  <2> DEFINE T == [at : Int]
  <2>1. one \in Seq(T) /\ two \in Seq(T)
    BY <1>3, <1>4
  <2> HIDE DEF T
  <2>2. /\ all \in Seq(T) /\ Len(all) = Len(one) + Len(two)
        /\ \A i \in 1 .. Len(one) : all[i] = one[i]
        /\ \A i \in (Len(one) + 1) .. (Len(one) + Len(two)) : all[i] = two[i - Len(one)]
    BY <2>1, TwoJoined
  <2> HIDE DEF all
  <2>3. Len(one) = 1 /\ Len(two) = 2 * L /\ 2 * L \in Nat
    BY <1>1, <1>3, <1>4
  <2> QED BY <2>2, <2>3 DEF T
<1> HIDE DEF all
<1>7. ASSUME NEW r \in 2 .. (1 + 2 * L) PROVE all[r].at = first + (r - 2) \div 2
  <2>1. r - 1 \in 1 .. (2 * L) /\ (r - 1) - 1 = r - 2
    BY <1>1
  <2>2. two[r - 1].at = first + ((r - 1) - 1) \div 2
    BY <1>5, <2>1
  <2> QED BY <1>6, <2>1, <2>2
<1>8. Picker!GroupRows(groups, n) = all
  BY <1>2 DEF all
<1> QED BY <1>4, <1>6, <1>7, <1>8 DEF L, first

\* The rows of the first n groups: the next reviews are not among them, and each of
\* theirs has two, one below the other, under a title.
RowsSoFar(rows, count) ==
  /\ rows \in Seq([at : Int])
  /\ \A r \in 1 .. Len(rows) : rows[r].at < count
  /\ \A i \in 0 .. (count - 1) : \E c \in 1 .. (Len(rows) - 2) :
       \A r \in 1 .. Len(rows) : rows[r].at = i <=> r = c + 1 \/ r = c + 2

\* The first group's rows are so.
LEMMA FirstRows ==
  ASSUME NEW groups \in Seq(GroupSet), 1 <= Len(groups)
  PROVE  RowsSoFar(Picker!GroupRows(groups, 1), Picker!UpTo(groups)[1])
<1> DEFINE L == Len(groups[1].reviews)
           rows == Picker!GroupRows(groups, 1)
<1>1. 1 \in 1 .. Len(groups) /\ L \in Nat /\ Picker!UpTo(groups)[0] = 0 /\ Picker!UpTo(groups)[1] = L
  <2>1. 1 \in 1 .. Len(groups) /\ 1 - 1 = 0
    OBVIOUS
  <2> QED BY <2>1, UpToGrows, UpToSums
<1>2. /\ rows \in Seq([at : Int]) /\ Len(rows) = 1 + 2 * L /\ rows[1].at = -1
      /\ \A r \in 2 .. (1 + 2 * L) : rows[r].at = (r - 2) \div 2
  <2>1. \A r \in 2 .. (1 + 2 * L) : rows[r].at = Picker!UpTo(groups)[1 - 1] + (r - 2) \div 2
    BY <1>1, GroupHasRows
  <2>2. Picker!UpTo(groups)[1 - 1] = 0
    BY <1>1
  <2>3. \A r \in 2 .. (1 + 2 * L) : rows[r].at = (r - 2) \div 2
    <3> HIDE DEF rows, L
    <3> QED BY <1>1, <2>1, <2>2
  <2> QED BY <1>1, <2>3, GroupHasRows
<1> HIDE DEF rows, L
<1>3. \A r \in 1 .. (1 + 2 * L) : rows[r].at < L
  BY <1>1, <1>2
<1>4. ASSUME NEW i \in 0 .. (L - 1)
      PROVE  \E c \in 1 .. (Len(rows) - 2) :
               \A r \in 1 .. Len(rows) : rows[r].at = i <=> r = c + 1 \/ r = c + 2
  <2>1. 2 * i + 1 \in 1 .. (Len(rows) - 2)
    BY <1>1, <1>2
  <2>2. ASSUME NEW r \in 1 .. Len(rows)
        PROVE  rows[r].at = i <=> r = (2 * i + 1) + 1 \/ r = (2 * i + 1) + 2
    <3>1. CASE r = 1
      BY <1>2, <3>1
    <3>2. CASE r \in 2 .. (1 + 2 * L)
      <4>1. rows[r].at = (r - 2) \div 2
        BY <1>2, <3>2
      <4> QED BY <3>2, <4>1
    <3> QED BY <1>1, <1>2, <3>1, <3>2
  <2> QED BY <2>1, <2>2
<1> QED BY <1>1, <1>2, <1>3, <1>4 DEF RowsSoFar, rows

\* With the rows of one more group they are still so.
LEMMA NextRows ==
  ASSUME NEW groups \in Seq(GroupSet), NEW n \in 2 .. Len(groups), NEW old,
         RowsSoFar(old, Picker!UpTo(groups)[n - 1])
  PROVE  RowsSoFar(old \o Picker!GroupRows(groups, n), Picker!UpTo(groups)[n])
<1> DEFINE L == Len(groups[n].reviews)
           new == Picker!GroupRows(groups, n)
           m == Picker!UpTo(groups)[n - 1]
           k == Len(old)
           T == [at : Int]
           rows == old \o new
<1>1. n \in 1 .. Len(groups) /\ L \in Nat /\ m \in Nat /\ Picker!UpTo(groups)[n] = m + L
  <2>1. n \in 1 .. Len(groups) /\ n - 1 \in 0 .. Len(groups)
    OBVIOUS
  <2> QED BY <2>1, UpToGrows, UpToSums
<1>2. /\ new \in Seq(T) /\ Len(new) = 1 + 2 * L /\ new[1].at = -1
      /\ \A r \in 2 .. (1 + 2 * L) : new[r].at = m + (r - 2) \div 2
  BY <1>1, GroupHasRows
<1>3. /\ old \in Seq(T) /\ k \in Nat
      /\ \A r \in 1 .. k : old[r].at < m /\ old[r].at \in Int
      /\ \A i \in 0 .. (m - 1) : \E c \in 1 .. (k - 2) :
           \A r \in 1 .. k : old[r].at = i <=> r = c + 1 \/ r = c + 2
  <2>1. old \in Seq(T) /\ k \in Nat
    BY DEF RowsSoFar
  <2>2. \A r \in 1 .. k : old[r] \in T
    <3> HIDE DEF T
    <3> QED BY <2>1
  <2>3. \A r \in 1 .. k : old[r].at \in Int
    BY <2>2
  <2> HIDE DEF T
  <2> QED BY <2>1, <2>3 DEF RowsSoFar
<1> HIDE DEF T, L, m, k, new
<1>4. /\ rows \in Seq(T) /\ Len(rows) = k + 1 + 2 * L
      /\ \A i \in 1 .. k : rows[i] = old[i]
      /\ \A i \in (k + 1) .. (k + 1 + 2 * L) : rows[i] = new[i - k]
  <2>1. /\ rows \in Seq(T) /\ Len(rows) = Len(old) + Len(new)
        /\ \A i \in 1 .. Len(old) : rows[i] = old[i]
        /\ \A i \in (Len(old) + 1) .. (Len(old) + Len(new)) : rows[i] = new[i - Len(old)]
    <3>1. old \in Seq(T) /\ new \in Seq(T)
      BY <1>2, <1>3
    <3> QED BY <3>1, TwoJoined
  <2> HIDE DEF rows
  <2>2. Len(old) = k /\ Len(new) = 1 + 2 * L /\ k + (1 + 2 * L) = k + 1 + 2 * L
    BY <1>1, <1>2, <1>3 DEF k
  <2> QED BY <2>1, <2>2
<1> HIDE DEF rows
<1>5. rows[k + 1].at = -1
  <2>1. k + 1 \in (k + 1) .. (k + 1 + 2 * L) /\ (k + 1) - k = 1
    BY <1>1, <1>3
  <2>2. rows[k + 1] = new[(k + 1) - k]
    BY <1>4, <2>1
  <2> QED BY <1>2, <2>1, <2>2
<1>6. \A r \in (k + 2) .. (k + 1 + 2 * L) : rows[r].at = m + (r - k - 2) \div 2
  <2> SUFFICES ASSUME NEW r \in (k + 2) .. (k + 1 + 2 * L)
               PROVE  rows[r].at = m + (r - k - 2) \div 2
    OBVIOUS
  <2>1. r - k \in 2 .. (1 + 2 * L) /\ r \in (k + 1) .. (k + 1 + 2 * L) /\ (r - k) - 2 = r - k - 2
    BY <1>1, <1>3
  <2>2. rows[r] = new[r - k]
    BY <1>4, <2>1
  <2>3. new[r - k].at = m + ((r - k) - 2) \div 2
    BY <1>2, <2>1
  <2> QED BY <2>1, <2>2, <2>3
<1>7. ASSUME NEW r \in 1 .. Len(rows) PROVE rows[r].at < m + L
  <2>1. CASE r \in 1 .. k
    <3>1. rows[r].at = old[r].at /\ old[r].at < m /\ old[r].at \in Int
      BY <1>3, <1>4, <2>1
    <3> QED BY <1>1, <3>1
  <2>2. CASE r = k + 1
    BY <1>1, <1>5, <2>2
  <2>3. CASE r \in (k + 2) .. (k + 1 + 2 * L)
    <3>1. rows[r].at = m + (r - k - 2) \div 2
      BY <1>6, <2>3
    <3> QED BY <1>1, <1>3, <2>3, <3>1
  <2> QED BY <1>1, <1>3, <1>4, <2>1, <2>2, <2>3
<1>8. ASSUME NEW i \in 0 .. ((m + L) - 1)
      PROVE  \E c \in 1 .. (Len(rows) - 2) :
               \A r \in 1 .. Len(rows) : rows[r].at = i <=> r = c + 1 \/ r = c + 2
  <2>1. CASE i < m
    <3>1. PICK c \in 1 .. (k - 2) : \A r \in 1 .. k : old[r].at = i <=> r = c + 1 \/ r = c + 2
      <4>1. i \in 0 .. (m - 1)
        BY <1>1, <2>1
      <4> QED BY <1>3, <4>1
    <3>2. ASSUME NEW r \in 1 .. Len(rows)
          PROVE  rows[r].at = i <=> r = c + 1 \/ r = c + 2
      <4>1. CASE r \in 1 .. k
        BY <1>4, <3>1, <4>1
      <4>2. CASE r = k + 1
        BY <1>3, <1>5, <3>1, <4>2
      <4>3. CASE r \in (k + 2) .. (k + 1 + 2 * L)
        <5>1. rows[r].at = m + (r - k - 2) \div 2
          BY <1>6, <4>3
        <5> QED BY <1>1, <1>3, <2>1, <3>1, <4>3, <5>1
      <4> QED BY <1>1, <1>3, <1>4, <4>1, <4>2, <4>3
    <3>3. c \in 1 .. (Len(rows) - 2)
      BY <1>1, <1>3, <1>4, <3>1
    <3> QED BY <3>2, <3>3
  <2>2. CASE i >= m
    <3> DEFINE c == k + 2 * (i - m) + 1
    <3>1. c \in 1 .. (Len(rows) - 2)
      BY <1>1, <1>3, <1>4, <2>2
    <3>2. ASSUME NEW r \in 1 .. Len(rows)
          PROVE  rows[r].at = i <=> r = c + 1 \/ r = c + 2
      <4>1. CASE r \in 1 .. k
        <5>1. rows[r].at = old[r].at /\ old[r].at < m /\ old[r].at \in Int
          BY <1>3, <1>4, <4>1
        <5>2. rows[r].at # i
          BY <1>1, <2>2, <5>1
        <5>3. r # c + 1 /\ r # c + 2
          <6>1. k \in Nat /\ i - m \in Nat
            BY <1>1, <1>3, <2>2
          <6> QED BY <4>1, <6>1
        <5> QED BY <5>2, <5>3
      <4>2. CASE r = k + 1
        BY <1>1, <1>3, <1>5, <2>2, <4>2
      <4>3. CASE r \in (k + 2) .. (k + 1 + 2 * L)
        <5>1. rows[r].at = m + (r - k - 2) \div 2
          BY <1>6, <4>3
        <5> QED BY <1>1, <1>3, <2>2, <4>3, <5>1
      <4> QED BY <1>1, <1>3, <1>4, <4>1, <4>2, <4>3
    <3> QED BY <3>1, <3>2
  <2> QED BY <1>1, <2>1, <2>2
<1>9. RowsSoFar(rows, m + L)
  <2>1. rows \in Seq([at : Int])
    BY <1>4 DEF T
  <2>2. \A i \in 0 .. ((m + L) - 1) : \E c \in 1 .. (Len(rows) - 2) :
           \A r \in 1 .. Len(rows) : rows[r].at = i <=> r = c + 1 \/ r = c + 2
    BY <1>8
  <2>3. \A r \in 1 .. Len(rows) : rows[r].at < m + L
    BY <1>7
  <2> QED BY <2>1, <2>2, <2>3 DEF RowsSoFar
<1> QED BY <1>1, <1>9 DEF rows, new

\* The rows of a picker.
LEMMA RowsAre ==
  ASSUME NEW groups \in Seq(GroupSet), groups # <<>>
  PROVE  RowsSoFar(Picker!RowsOf(groups), Picker!CountOf(groups))
<1> DEFINE seqs == [n \in DOMAIN groups |-> Picker!GroupRows(groups, n)]
           N == Len(groups)
           u == Picker!UpTo(groups)
<1>1. /\ N \in Nat /\ N > 0 /\ Len(seqs) = N
      /\ \A n \in 1 .. N : seqs[n] = Picker!GroupRows(groups, n)
  OBVIOUS
<1>2. Picker!RowsOf(groups) = Picker!FlattenSeq(seqs)
  BY DEF Picker!RowsOf
<1> HIDE DEF seqs
<1>3. PICK f : /\ Picker!FlattenSeq(seqs) = f[N] /\ f[1] = seqs[1]
               /\ \A i \in 1 .. N : i # 1 => f[i] = f[i - 1] \o seqs[i]
  <2>1. PICK f : /\ Picker!FlattenSeq(seqs) = f[Len(seqs)] /\ f[1] = seqs[1]
                 /\ \A i \in 1 .. Len(seqs) : i # 1 => f[i] = f[i - 1] \o seqs[i]
    <3>1. Len(seqs) \in Nat /\ Len(seqs) > 0
      BY <1>1
    <3> QED BY <3>1, FlattenJoins
  <2>2. Len(seqs) = N
    BY <1>1
  <2> HIDE DEF N
  <2> QED BY <2>1, <2>2
<1> DEFINE S == {n \in Nat : n + 1 <= N => RowsSoFar(f[n + 1], u[n + 1])}
<1>4. 0 \in S
  <2>1. RowsSoFar(f[1], u[1])
    BY <1>1, <1>3, FirstRows
  <2> QED BY <2>1
<1>5. ASSUME NEW k \in Nat, k \in S PROVE k + 1 \in S
  <2> SUFFICES ASSUME (k + 1) + 1 <= N PROVE RowsSoFar(f[(k + 1) + 1], u[(k + 1) + 1])
    OBVIOUS
  <2> DEFINE n == (k + 1) + 1
  <2>1. n \in 2 .. N /\ n \in 1 .. N /\ n - 1 = k + 1 /\ n # 1
    BY <1>1
  <2>2. RowsSoFar(f[n - 1], u[n - 1])
    <3>1. RowsSoFar(f[k + 1], u[k + 1])
      BY <1>1, <1>5
    <3> HIDE DEF n, u
    <3> QED BY <2>1, <3>1
  <2> HIDE DEF n
  <2>3. f[n] = f[n - 1] \o Picker!GroupRows(groups, n)
    BY <1>1, <1>3, <2>1
  <2>4. RowsSoFar(f[n - 1] \o Picker!GroupRows(groups, n), u[n])
    BY <2>1, <2>2, NextRows
  <2>5. RowsSoFar(f[n], u[n])
    BY <2>3, <2>4
  <2> QED BY <2>5 DEF n
<1>6. N - 1 \in S
  <2> HIDE DEF S
  <2>1. Nat \subseteq S
    BY <1>4, <1>5, SetInduction
  <2> QED BY <1>1, <2>1
<1>7. RowsSoFar(f[N], u[N])
  <2>1. (N - 1) + 1 = N
    BY <1>1
  <2>2. RowsSoFar(f[(N - 1) + 1], u[(N - 1) + 1])
    BY <1>1, <1>6
  <2> HIDE DEF u, N
  <2> QED BY <2>1, <2>2
<1> QED BY <1>2, <1>3, <1>7 DEF Picker!CountOf

\* revs are the reviews of the first n groups, where a walk over them finds each.
ReviewsSoFar(revs, groups, n) ==
  /\ revs \in Seq(Worktrees) /\ Len(revs) = Picker!UpTo(groups)[n]
  /\ \A i \in 0 .. (Len(revs) - 1) : \E m \in 1 .. n :
       /\ Picker!UpTo(groups)[m - 1] <= i /\ i < Picker!UpTo(groups)[m]
       /\ revs[i + 1] = groups[m].reviews[i - Picker!UpTo(groups)[m - 1] + 1]

\* The first group's reviews are so.
LEMMA FirstReviews ==
  ASSUME NEW groups \in Seq(GroupSet), 1 <= Len(groups)
  PROVE  ReviewsSoFar(groups[1].reviews, groups, 1)
<1> DEFINE u == Picker!UpTo(groups)
           revs == groups[1].reviews
<1>1. 1 \in 1 .. Len(groups) /\ 1 - 1 = 0
  OBVIOUS
<1>2. revs \in Seq(Worktrees)
  BY <1>1, GroupFields
<1>3. u[0] = 0 /\ u[1] = Len(revs) /\ Len(revs) \in Nat
  BY <1>1, <1>2, UpToSums
<1> HIDE DEF u, revs
<1>4. ASSUME NEW i \in 0 .. (Len(revs) - 1)
      PROVE  \E m \in 1 .. 1 : u[m - 1] <= i /\ i < u[m] /\ revs[i + 1] = groups[m].reviews[i - u[m - 1] + 1]
  <2>1. u[1 - 1] <= i /\ i < u[1] /\ i - u[1 - 1] + 1 = i + 1
    BY <1>1, <1>3
  <2> QED BY <2>1 DEF revs
<1> QED BY <1>2, <1>3, <1>4 DEF ReviewsSoFar, u, revs

\* With the reviews of one more group they are still so.
LEMMA NextReviews ==
  ASSUME NEW groups \in Seq(GroupSet), NEW n \in 2 .. Len(groups), NEW old,
         ReviewsSoFar(old, groups, n - 1)
  PROVE  ReviewsSoFar(old \o groups[n].reviews, groups, n)
<1> DEFINE u == Picker!UpTo(groups)
           new == groups[n].reviews
           revs == old \o new
           k == Len(old)
           L == Len(new)
<1>1. n \in 1 .. Len(groups) /\ n - 1 \in 1 .. Len(groups) /\ n \in Nat
  OBVIOUS
<1>2. new \in Seq(Worktrees) /\ L \in Nat
  BY <1>1, GroupFields
<1>3. old \in Seq(Worktrees) /\ k \in Nat /\ k = u[n - 1]
  BY DEF ReviewsSoFar
<1>4. u[n] = k + L
  BY <1>1, <1>3, UpToSums
<1>5. \A i \in 0 .. (k - 1) : \E m \in 1 .. (n - 1) :
         u[m - 1] <= i /\ i < u[m] /\ old[i + 1] = groups[m].reviews[i - u[m - 1] + 1]
  BY DEF ReviewsSoFar
<1> HIDE DEF u, new
<1>6. /\ revs \in Seq(Worktrees) /\ Len(revs) = k + L
      /\ \A i \in 1 .. k : revs[i] = old[i]
      /\ \A i \in (k + 1) .. (k + L) : revs[i] = new[i - k]
  BY <1>2, <1>3, TwoJoined
<1> HIDE DEF revs, k, L
<1>7. ASSUME NEW i \in 0 .. (Len(revs) - 1)
      PROVE  \E m \in 1 .. n : u[m - 1] <= i /\ i < u[m] /\ revs[i + 1] = groups[m].reviews[i - u[m - 1] + 1]
  <2>1. CASE i < k
    <3>1. i \in 0 .. (k - 1) /\ i + 1 \in 1 .. k
      BY <1>3, <2>1
    <3>2. PICK m \in 1 .. (n - 1) :
             u[m - 1] <= i /\ i < u[m] /\ old[i + 1] = groups[m].reviews[i - u[m - 1] + 1]
      BY <1>5, <3>1
    <3>3. m \in 1 .. n /\ revs[i + 1] = old[i + 1]
      BY <1>1, <1>6, <3>1
    <3> QED BY <3>2, <3>3
  <2>2. CASE i >= k
    <3>1. i + 1 \in (k + 1) .. (k + L) /\ i - k + 1 = (i + 1) - k /\ i < k + L
      <4>1. Len(revs) = k + L /\ k \in Nat /\ L \in Nat
        BY <1>2, <1>3, <1>6
      <4> QED BY <2>2, <4>1
    <3>2. revs[i + 1] = new[i - k + 1]
      BY <1>6, <3>1
    <3>3. n \in 1 .. n /\ u[n - 1] <= i /\ i < u[n]
      BY <1>1, <1>3, <1>4, <2>2, <3>1
    <3> QED BY <1>3, <3>2, <3>3 DEF new
  <2> QED BY <1>2, <1>3, <1>6, <2>1, <2>2
<1>8. ReviewsSoFar(revs, groups, n)
  BY <1>4, <1>6, <1>7 DEF ReviewsSoFar, u
<1> QED BY <1>8 DEF revs, new

\* The reviews of a picker, group after group.
LEMMA ReviewsAre ==
  ASSUME NEW groups \in Seq(GroupSet), groups # <<>>
  PROVE  ReviewsSoFar(Picker!FlattenSeq([n \in DOMAIN groups |-> groups[n].reviews]), groups, Len(groups))
<1> DEFINE seqs == [n \in DOMAIN groups |-> groups[n].reviews]
           N == Len(groups)
<1>1. /\ N \in Nat /\ N > 0 /\ Len(seqs) = N
      /\ \A n \in 1 .. N : seqs[n] = groups[n].reviews
  OBVIOUS
<1> HIDE DEF seqs
<1>3. PICK f : /\ Picker!FlattenSeq(seqs) = f[N] /\ f[1] = seqs[1]
               /\ \A i \in 1 .. N : i # 1 => f[i] = f[i - 1] \o seqs[i]
  <2>1. PICK f : /\ Picker!FlattenSeq(seqs) = f[Len(seqs)] /\ f[1] = seqs[1]
                 /\ \A i \in 1 .. Len(seqs) : i # 1 => f[i] = f[i - 1] \o seqs[i]
    <3>1. Len(seqs) \in Nat /\ Len(seqs) > 0
      BY <1>1
    <3> QED BY <3>1, FlattenJoins
  <2>2. Len(seqs) = N
    BY <1>1
  <2> HIDE DEF N
  <2> QED BY <2>1, <2>2
<1> DEFINE S == {n \in Nat : n + 1 <= N => ReviewsSoFar(f[n + 1], groups, n + 1)}
<1>4. 0 \in S
  <2>1. ReviewsSoFar(f[1], groups, 1)
    BY <1>1, <1>3, FirstReviews
  <2> QED BY <2>1
<1>5. ASSUME NEW k \in Nat, k \in S PROVE k + 1 \in S
  <2> SUFFICES ASSUME (k + 1) + 1 <= N PROVE ReviewsSoFar(f[(k + 1) + 1], groups, (k + 1) + 1)
    OBVIOUS
  <2> DEFINE n == (k + 1) + 1
  <2>1. n \in 2 .. N /\ n \in 1 .. N /\ n - 1 = k + 1 /\ n # 1
    BY <1>1
  <2>2. ReviewsSoFar(f[n - 1], groups, n - 1)
    <3>1. ReviewsSoFar(f[k + 1], groups, k + 1)
      BY <1>1, <1>5
    <3> HIDE DEF n
    <3> QED BY <2>1, <3>1
  <2> HIDE DEF n
  <2>3. f[n] = f[n - 1] \o groups[n].reviews
    BY <1>1, <1>3, <2>1
  <2>4. ReviewsSoFar(f[n - 1] \o groups[n].reviews, groups, n)
    BY <2>1, <2>2, NextReviews
  <2>5. ReviewsSoFar(f[n], groups, n)
    BY <2>3, <2>4
  <2> QED BY <2>5 DEF n
<1>6. N - 1 \in S
  <2> HIDE DEF S
  <2>1. Nat \subseteq S
    BY <1>4, <1>5, SetInduction
  <2> QED BY <1>1, <2>1
<1>7. ReviewsSoFar(f[N], groups, N)
  <2>1. (N - 1) + 1 = N
    BY <1>1
  <2>2. ReviewsSoFar(f[(N - 1) + 1], groups, (N - 1) + 1)
    BY <1>1, <1>6
  <2> HIDE DEF N
  <2> QED BY <2>1, <2>2
<1> QED BY <1>3, <1>7 DEF seqs

\* A review is in one group, and the walk over the groups ends at it.
LEMMA ReviewFound ==
  ASSUME NEW groups \in Seq(GroupSet), NEW i \in 0 .. (Picker!CountOf(groups) - 1)
  PROVE  /\ Picker!ReviewAt(groups, i) = Picker!FlattenSeq([n \in DOMAIN groups |-> groups[n].reviews])[i + 1]
         /\ Picker!ReviewAt(groups, i) \in Worktrees
<1> DEFINE u == Picker!UpTo(groups)
           N == Len(groups)
           revs == Picker!FlattenSeq([n \in DOMAIN groups |-> groups[n].reviews])
           Has(n) == u[n - 1] <= i /\ i < u[n]
<1>1. groups # <<>> /\ N \in Nat /\ DOMAIN groups = 1 .. N
  <2>1. CASE groups = <<>>
    <3>1. Picker!CountOf(groups) = 0
      BY <2>1, UpToSums DEF Picker!CountOf
    <3> QED BY <3>1
  <2> QED BY <2>1
<1>2. ReviewsSoFar(revs, groups, N)
  BY <1>1, ReviewsAre
<1> HIDE DEF revs
<1>3. revs \in Seq(Worktrees) /\ Len(revs) = Picker!CountOf(groups)
  BY <1>2 DEF ReviewsSoFar, Picker!CountOf
<1>4. PICK m \in 1 .. N : Has(m) /\ revs[i + 1] = groups[m].reviews[i - u[m - 1] + 1]
  BY <1>2, <1>3 DEF ReviewsSoFar
<1>5. \A n \in 0 .. N : u[n] \in Nat /\ \A l \in 0 .. N : l <= n => u[l] <= u[n]
  BY UpToGrows
<1> HIDE DEF u, N
<1>6. ASSUME NEW n \in 1 .. N, Has(n) PROVE n = m
  <2>1. /\ n - 1 \in 0 .. N /\ m - 1 \in 0 .. N /\ n \in 0 .. N /\ m \in 0 .. N
        /\ u[n] \in Nat /\ u[m] \in Nat /\ u[n - 1] \in Nat /\ u[m - 1] \in Nat
    BY <1>1, <1>5
  <2>2. CASE n < m
    <3>1. n <= m - 1
      BY <1>1, <2>2
    <3>2. u[n] <= u[m - 1]
      BY <1>5, <2>1, <3>1
    <3> QED BY <1>4, <1>6, <2>1, <3>2
  <2>3. CASE m < n
    <3>1. m <= n - 1
      BY <1>1, <2>3
    <3>2. u[m] <= u[n - 1]
      BY <1>5, <2>1, <3>1
    <3> QED BY <1>4, <1>6, <2>1, <3>2
  <2> QED BY <1>1, <2>2, <2>3
<1>7. Picker!GroupAt(groups, i) = m
  <2>1. Picker!GroupAt(groups, i) = CHOOSE n \in 1 .. N : Has(n)
    BY <1>1 DEF Picker!GroupAt, u
  <2> HIDE DEF Has
  <2> QED BY <1>4, <1>6, <2>1
<1>8. Picker!ReviewAt(groups, i) = groups[m].reviews[i - u[m - 1] + 1]
  BY <1>7 DEF Picker!ReviewAt, u
<1>9. i + 1 \in 1 .. Len(revs) /\ Len(revs) \in Nat
  BY <1>3
<1>10. revs[i + 1] \in Worktrees
  BY <1>3, <1>9
<1> QED BY <1>4, <1>8, <1>10 DEF revs

-----------------------------------------------------------------------------
\* What can be seen and what a key acts on.

\* What the picker may be.
PickerSet == [open : BOOLEAN, groups : Seq(GroupSet), index : Nat, rows : Nat]

\* The smaller of two numbers.
LEMMA LeastOfTwo ==
  ASSUME NEW a \in Int, NEW b \in Int
  PROVE  Picker!Min({a, b}) = IF a <= b THEN a ELSE b
<1>1. PICK m \in {a, b} : \A y \in {a, b} : m <= y
  BY Z3
<1>2. Picker!Min({a, b}) \in {a, b} /\ \A y \in {a, b} : Picker!Min({a, b}) <= y
  BY <1>1 DEF Picker!Min
<1> QED BY <1>2

\* The marker is at the first row of the chosen review, below some title.
LEMMA RowOfChosen ==
  ASSUME NEW p \in PickerSet, p.index \in 0 .. (Picker!CountOf(p.groups) - 1)
  PROVE  LET rows == Picker!RowsOf(p.groups)
         IN  /\ rows \in Seq([at : Int])
             /\ Picker!ChosenRow(p) \in 1 .. (Len(rows) - 2)
             /\ \A r \in 1 .. Len(rows) :
                  rows[r].at = p.index <=> r = Picker!ChosenRow(p) + 1 \/ r = Picker!ChosenRow(p) + 2
<1> DEFINE rows == Picker!RowsOf(p.groups)
           at == {r \in DOMAIN rows : rows[r].at = p.index}
<1>1. p.groups \in Seq(GroupSet) /\ p.groups # <<>>
  <2>1. p.groups \in Seq(GroupSet) /\ p.index \in Nat
    BY DEF PickerSet
  <2>2. CASE p.groups = <<>>
    <3>1. Picker!CountOf(p.groups) = 0
      BY <2>1, <2>2, UpToSums DEF Picker!CountOf
    <3> QED BY <2>1, <3>1
  <2> QED BY <2>1, <2>2
<1>2. RowsSoFar(rows, Picker!CountOf(p.groups))
  BY <1>1, RowsAre
<1> HIDE DEF rows
<1>3. rows \in Seq([at : Int]) /\ DOMAIN rows = 1 .. Len(rows) /\ Len(rows) \in Nat
  BY <1>2 DEF RowsSoFar
<1>4. PICK c \in 1 .. (Len(rows) - 2) :
        \A r \in 1 .. Len(rows) : rows[r].at = p.index <=> r = c + 1 \/ r = c + 2
  BY <1>2 DEF RowsSoFar
<1>5. at = {c + 1, c + 2}
  <2>1. c + 1 \in 1 .. Len(rows) /\ c + 2 \in 1 .. Len(rows)
    BY <1>3
  <2> QED BY <1>3, <1>4, <2>1
<1>6. Picker!ChosenRow(p) = Picker!Min(at) - 1
  BY DEF Picker!ChosenRow, rows
<1> HIDE DEF at
<1>7. Picker!Min({c + 1, c + 2}) = c + 1
  <2>1. c + 1 \in Int /\ c + 2 \in Int /\ c + 1 <= c + 2
    BY <1>3
  <2> QED BY <2>1, LeastOfTwo
<1>8. Picker!ChosenRow(p) = c
  BY <1>3, <1>5, <1>6, <1>7
<1> QED BY <1>3, <1>4, <1>8 DEF rows

\* A part of a sequence.
LEMMA PartOf ==
  ASSUME NEW T, NEW s \in Seq(T), NEW m \in Nat, NEW n \in Nat,
         m >= 1, n <= Len(s), m <= n + 1
  PROVE  /\ DOMAIN SubSeq(s, m, n) = 1 .. (n - m + 1)
         /\ \A r \in 1 .. (n - m + 1) : SubSeq(s, m, n)[r] = s[m + r - 1]
OBVIOUS

\* Both its rows are on the screen, whatever its height.
LEMMA ChosenSeen ==
  ASSUME NEW p \in PickerSet, p.index \in 0 .. (Picker!CountOf(p.groups) - 1)
  PROVE  LET view == Picker!View(p)
         IN  Picker!Cardinality({r \in DOMAIN view : view[r].at = p.index}) = 2
<1> DEFINE rows == Picker!RowsOf(p.groups)
           c == Picker!ChosenRow(p)
           R == Picker!Room(p)
           F == Picker!FirstRow(p)
           E == Picker!Min({F + R, Len(rows)})
           view == Picker!View(p)
           at == {r \in DOMAIN view : view[r].at = p.index}
<1>1. /\ rows \in Seq([at : Int]) /\ c \in 1 .. (Len(rows) - 2) /\ Len(rows) \in Nat
      /\ \A r \in 1 .. Len(rows) : rows[r].at = p.index <=> r = c + 1 \/ r = c + 2
  <2>1. /\ rows \in Seq([at : Int]) /\ c \in 1 .. (Len(rows) - 2)
        /\ \A r \in 1 .. Len(rows) : rows[r].at = p.index <=> r = c + 1 \/ r = c + 2
    BY RowOfChosen, Zenon
  <2> QED BY <2>1
<1>2. R \in Nat /\ R >= 2
  BY DEF Picker!Room, Picker!Most, PickerSet
<1>3. F \in Nat /\ F <= c /\ c + 2 <= F + R
  BY <1>1, <1>2 DEF Picker!FirstRow, Picker!Most
<1>4. E \in Nat /\ E <= Len(rows) /\ c + 2 <= E /\ E >= F
  <2>1. F + R \in Int /\ Len(rows) \in Int
    BY <1>1, <1>2, <1>3
  <2>2. E = IF F + R <= Len(rows) THEN F + R ELSE Len(rows)
    BY <2>1, LeastOfTwo
  <2> HIDE DEF E, F, R, rows, c
  <2> QED BY <1>1, <1>2, <1>3, <2>2
<1>5. view = SubSeq(rows, F + 1, E)
  BY DEF Picker!View
<1> HIDE DEF rows, c, R, F, E, view
<1>6. /\ DOMAIN view = 1 .. (E - F)
      /\ \A r \in 1 .. (E - F) : view[r] = rows[r + F]
  <2> DEFINE m == F + 1
  <2>1. m \in Nat /\ m >= 1 /\ E \in Nat /\ E <= Len(rows) /\ m <= E + 1
    BY <1>3, <1>4
  <2> HIDE DEF m
  <2>2. /\ DOMAIN view = 1 .. (E - m + 1)
        /\ \A r \in 1 .. (E - m + 1) : view[r] = rows[m + r - 1]
    BY <1>1, <1>5, <2>1, PartOf DEF m
  <2>3. E - m + 1 = E - F /\ \A r \in 1 .. (E - F) : m + r - 1 = r + F
    BY <1>3, <1>4 DEF m
  <2> QED BY <2>2, <2>3
<1>7. at = {c + 1 - F, c + 2 - F}
  <2>1. ASSUME NEW r \in at PROVE r \in {c + 1 - F, c + 2 - F}
    <3>1. r \in 1 .. (E - F) /\ r + F \in 1 .. Len(rows) /\ rows[r + F].at = p.index
      BY <1>3, <1>4, <1>6
    <3> QED BY <1>1, <1>3, <3>1
  <2>2. ASSUME NEW r \in {c + 1 - F, c + 2 - F} PROVE r \in at
    <3>1. r \in 1 .. (E - F) /\ r + F \in 1 .. Len(rows) /\ (r + F = c + 1 \/ r + F = c + 2)
      BY <1>1, <1>3, <1>4
    <3>2. rows[r + F].at = p.index
      BY <1>1, <3>1
    <3> QED BY <1>6, <3>1, <3>2
  <2> QED BY <2>1, <2>2
<1>8. Cardinality({c + 1 - F, c + 2 - F}) = 2
  <2>1. c + 1 - F # c + 2 - F
    BY <1>1, <1>3
  <2>2. IsFiniteSet({c + 1 - F}) /\ Cardinality({c + 1 - F}) = 1
    BY FS_Singleton
  <2>3. Cardinality({c + 1 - F} \cup {c + 2 - F}) = 2
    BY <2>1, <2>2, FS_AddElement
  <2>4. {c + 1 - F} \cup {c + 2 - F} = {c + 1 - F, c + 2 - F}
    OBVIOUS
  <2> QED BY <2>3, <2>4
<1> QED BY <1>7, <1>8, PickerCount DEF view

-----------------------------------------------------------------------------
\* The list and the picker as the actions change them.

\* The list without one review (review_session.rs:785).
LEMMA PartsOfList ==
  ASSUME NEW s \in Seq(Worktrees), Picker!IsInjective(s), NEW w \in Worktrees
  PROVE  /\ Picker!Taken(s, w) \in Seq(Worktrees) /\ Picker!IsInjective(Picker!Taken(s, w))
         /\ Picker!Range(Picker!Taken(s, w)) = Picker!Range(s) \ {w}
<1>1. Picker!Range(s) \subseteq Worktrees
  BY DEF Picker!Range
<1> QED BY <1>1, KeepSeq DEF Picker!Taken

\* The list a change begins from: all but what is removed.
LEMMA ListedIs ==
  ASSUME list \in Seq(Worktrees), Picker!IsInjective(list)
  PROVE  /\ Picker!Listed \in Seq(Worktrees) /\ Picker!IsInjective(Picker!Listed)
         /\ Picker!Range(Picker!Listed) = {w \in Picker!Range(list) : place[w] # "removed"}
<1> DEFINE S == {w \in Worktrees : ~Picker!IsRemoved(w)}
<1>1. Picker!Listed = Picker!Keep(list, S)
  BY DEF Picker!Listed
<1>2. Picker!Range(list) \cap S = {w \in Picker!Range(list) : place[w] # "removed"}
  BY DEF Picker!IsRemoved, Picker!Range
<1> HIDE DEF S
<1> QED BY <1>1, <1>2, KeepSeq

\* The list as it is read: what is here.
LEMMA ReadListIs ==
  ASSUME list \in Seq(Worktrees)
  PROVE  /\ Picker!ReadList \in Seq(Worktrees)
         /\ Picker!Range(Picker!ReadList) = {w \in Picker!Range(list) : place[w] = "here"}
<1> DEFINE S == {w \in Worktrees : place[w] = "here"}
<1>1. Picker!ReadList = Picker!Keep(list, S)
  BY DEF Picker!ReadList
<1>2. Picker!Range(list) \cap S = {w \in Picker!Range(list) : place[w] = "here"}
  BY DEF Picker!Range
<1> HIDE DEF S
<1> QED BY <1>1, <1>2, KeepSeq

\* What the picker is given, newest first.
LEMMA WaitingIs ==
  ASSUME NEW s \in Seq(Worktrees)
  PROVE  Picker!WaitingReviews(s) \in Seq(Worktrees)
<1> DEFINE t == Picker!Keep(s, {w \in Worktrees : status[w] \in {"waiting", "writing", "newer"}})
<1>1. t \in Seq(Worktrees)
  BY KeepSeq
<1>2. Picker!WaitingReviews(s) = [i \in 1 .. Len(t) |-> t[(Len(t) - i) + 1]]
  BY DEF Picker!WaitingReviews, Picker!Reverse
<1> HIDE DEF t
<1>3. Len(t) \in Nat /\ \A i \in 1 .. Len(t) : t[(Len(t) - i) + 1] \in Worktrees
  <2>1. \A i \in 1 .. Len(t) : (Len(t) - i) + 1 \in 1 .. Len(t)
    BY <1>1
  <2> QED BY <1>1, <2>1
<1>4. [i \in 1 .. Len(t) |-> t[(Len(t) - i) + 1]] \in Seq(Worktrees)
  BY <1>3
<1> QED BY <1>2, <1>4

\* Groups of which one has a review hold some.
LEMMA SomeReviews ==
  ASSUME NEW groups \in Seq(GroupSet)
  PROVE  /\ Picker!CountOf(groups) \in Nat
         /\ \A n \in 1 .. Len(groups) : groups[n].reviews # <<>> => Picker!CountOf(groups) > 0
<1> DEFINE u == Picker!UpTo(groups)
<1>1. Len(groups) \in Nat /\ Picker!CountOf(groups) = u[Len(groups)]
  BY DEF Picker!CountOf
<1>2. Picker!CountOf(groups) \in Nat
  BY <1>1, UpToGrows
<1>3. ASSUME NEW n \in 1 .. Len(groups), groups[n].reviews # <<>> PROVE Picker!CountOf(groups) > 0
  <2>1. Len(groups[n].reviews) \in Nat /\ Len(groups[n].reviews) > 0
    <3>1. groups[n].reviews \in Seq(Worktrees)
      BY GroupFields
    <3> QED BY <1>3, <3>1
  <2>2. n - 1 \in 0 .. Len(groups) /\ n \in 0 .. Len(groups) /\ Len(groups) \in 0 .. Len(groups)
    BY <1>1
  <2>3. u[n - 1] \in Nat /\ u[n] = u[n - 1] + Len(groups[n].reviews) /\ u[n] <= u[Len(groups)]
    BY <1>1, <2>2, UpToGrows, UpToSums
  <2> HIDE DEF u
  <2> QED BY <1>1, <1>2, <2>1, <2>3
<1> QED BY <1>2, <1>3

\* A group has every review of its session.
LEMMA GroupIs ==
  ASSUME NEW reviews \in Seq(Worktrees), NEW s \in Sessions
  PROVE  /\ Picker!Group(reviews, s) \in GroupSet
         /\ \A i \in DOMAIN reviews : Picker!GroupOf(reviews[i]) = s => Picker!Group(reviews, s).reviews # <<>>
<1> DEFINE t == Picker!Keep(reviews, {w \in Worktrees : Picker!GroupOf(w) = s})
<1>1. t \in Seq(Worktrees) /\ Picker!Range(t) = Picker!Range(reviews) \cap {w \in Worktrees : Picker!GroupOf(w) = s}
  BY KeepSeq
<1>2. Picker!Group(reviews, s) = [session |-> s, reviews |-> t]
  BY DEF Picker!Group
<1> HIDE DEF t
<1>3. ASSUME NEW i \in DOMAIN reviews, Picker!GroupOf(reviews[i]) = s PROVE t # <<>>
  <2>1. reviews[i] \in Worktrees
    OBVIOUS
  <2>2. reviews[i] \in Picker!Range(t)
    BY <1>1, <1>3, <2>1 DEF Picker!Range
  <2> QED BY <2>2 DEF Picker!Range
<1> QED BY <1>1, <1>2, <1>3 DEF GroupSet

\* What an opening picker shows is not empty.
LEMMA GroupedIs ==
  ASSUME NoSession \in Sessions, session \in [Worktrees -> Sessions],
         NEW reviews \in Seq(Worktrees), Len(reviews) > 1
  PROVE  Picker!Grouped(reviews) \in Seq(GroupSet) /\ Picker!CountOf(Picker!Grouped(reviews)) > 0
<1> DEFINE D == DOMAIN reviews
           ids == [i \in D |-> i]
           order == Picker!Keep(ids, Picker!Heads(reviews))
           named == [n \in DOMAIN order |-> Picker!Group(reviews, Picker!GroupOf(reviews[order[n]]))]
           unnamed == Picker!Group(reviews, NoSession)
<1>1. D = 1 .. Len(reviews) /\ Len(reviews) \in Nat /\ 1 \in D /\ \A i \in D : reviews[i] \in Worktrees
  OBVIOUS
<1>2. \A w \in Worktrees : Picker!GroupOf(w) \in Sessions
  BY DEF Picker!GroupOf
<1>3. ids \in Seq(D) /\ Picker!Range(ids) = D
  BY <1>1 DEF Picker!Range
<1>4. order \in Seq(D) /\ Picker!Range(order) = D \cap Picker!Heads(reviews)
  <2> HIDE DEF ids, D
  <2> QED BY <1>3, KeepSeq
<1>5. Picker!Grouped(reviews) = IF unnamed.reviews = <<>> THEN named ELSE Append(named, unnamed)
  BY DEF Picker!Grouped
<1> HIDE DEF order, ids
<1>6. \A n \in DOMAIN order : Picker!Group(reviews, Picker!GroupOf(reviews[order[n]])) \in GroupSet
  <2> SUFFICES ASSUME NEW n \in DOMAIN order
               PROVE  Picker!Group(reviews, Picker!GroupOf(reviews[order[n]])) \in GroupSet
    OBVIOUS
  <2>1. order[n] \in D
    <3> HIDE DEF D
    <3> QED BY <1>4
  <2>2. Picker!GroupOf(reviews[order[n]]) \in Sessions
    BY <1>1, <1>2, <2>1
  <2> QED BY <2>2, GroupIs
<1>7. named \in Seq(GroupSet) /\ Len(named) = Len(order) /\ DOMAIN order = 1 .. Len(order)
  BY <1>4, <1>6
<1>8. unnamed \in GroupSet
  BY GroupIs
<1>9. CASE Picker!GroupOf(reviews[1]) = NoSession
  <2>1. unnamed.reviews # <<>>
    BY <1>1, <1>9, GroupIs
  <2> DEFINE all == Append(named, unnamed)
  <2>2. Picker!Grouped(reviews) = all
    BY <1>5, <2>1
  <2> HIDE DEF named, unnamed
  <2>3. all \in Seq(GroupSet) /\ Len(all) \in 1 .. Len(all) /\ all[Len(all)] = unnamed
    BY <1>7, <1>8
  <2> HIDE DEF all
  <2>4. Picker!CountOf(all) > 0
    BY <2>1, <2>3, SomeReviews
  <2> QED BY <2>2, <2>3, <2>4
<1>10. CASE Picker!GroupOf(reviews[1]) # NoSession
  <2>1. 1 \in Picker!Heads(reviews)
    BY <1>1, <1>10 DEF Picker!Heads
  <2>2. PICK n \in DOMAIN order : order[n] = 1
    BY <1>1, <1>4, <2>1 DEF Picker!Range
  <2>3. named[n] = Picker!Group(reviews, Picker!GroupOf(reviews[1]))
    BY <2>2
  <2>4. named[n].reviews # <<>>
    BY <1>1, <1>2, <2>3, GroupIs
  <2> DEFINE all == Picker!Grouped(reviews)
  <2> HIDE DEF named, unnamed
  <2>5. /\ all \in Seq(GroupSet) /\ n \in 1 .. Len(all) /\ all[n] = named[n]
    <3>1. n \in 1 .. Len(named)
      BY <1>7
    <3>2. CASE all = named
      BY <1>7, <3>1, <3>2
    <3>3. CASE all = Append(named, unnamed)
      BY <1>7, <1>8, <3>1, <3>3
    <3> QED BY <1>5, <3>2, <3>3
  <2> HIDE DEF all
  <2>6. Picker!CountOf(all) > 0
    BY <2>4, <2>5, SomeReviews
  <2> QED BY <2>5, <2>6 DEF all
<1> QED BY <1>9, <1>10

\* Without the dismissed review, the index stays at one of those left.
LEMMA WithoutIs ==
  ASSUME NEW p \in PickerSet, NEW w \in Worktrees
  PROVE  LET rest == Picker!WithoutReview(p, w)
         IN  /\ rest \in PickerSet /\ rest.open = p.open /\ rest.rows = p.rows
             /\ rest.groups # <<>> => rest.index \in 0 .. (Picker!CountOf(rest.groups) - 1)
<1> DEFINE left == [n \in DOMAIN p.groups |-> [p.groups[n] EXCEPT !.reviews = Picker!Taken(@, w)]]
           some == {g \in Picker!Range(left) : g.reviews # <<>>}
           groups == Picker!Keep(left, some)
           rest == Picker!WithoutReview(p, w)
           k == Picker!CountOf(groups)
<1>1. rest = [p EXCEPT !.groups = groups, !.index = Picker!Min({p.index, Picker!Most(k - 1, 0)})]
  BY DEF Picker!WithoutReview
<1>2. left \in Seq(GroupSet)
  <2>1. p.groups \in Seq(GroupSet)
    BY DEF PickerSet
  <2>2. ASSUME NEW n \in DOMAIN p.groups
        PROVE  [p.groups[n] EXCEPT !.reviews = Picker!Taken(@, w)] \in GroupSet
    <3>1. n \in 1 .. Len(p.groups)
      BY <2>1
    <3>2. p.groups[n] \in GroupSet /\ p.groups[n].reviews \in Seq(Worktrees)
      BY <2>1, <3>1, GroupFields
    <3>3. Picker!Taken(p.groups[n].reviews, w) \in Seq(Worktrees)
      BY <3>2, KeepSeq DEF Picker!Taken
    <3> QED BY <3>2, <3>3 DEF GroupSet
  <2>3. DOMAIN p.groups = 1 .. Len(p.groups) /\ Len(p.groups) \in Nat
    BY <2>1
  <2> QED BY <2>2, <2>3
<1> HIDE DEF left
<1>3. groups \in Seq(GroupSet) /\ Picker!Range(groups) = Picker!Range(left) \cap some
  BY <1>2, KeepSeq
<1> HIDE DEF groups
<1>4. k \in Nat /\ (groups # <<>> => k > 0)
  <2>1. k \in Nat
    BY <1>3, SomeReviews
  <2>2. ASSUME groups # <<>> PROVE k > 0
    <3>1. 1 \in 1 .. Len(groups) /\ groups[1] \in Picker!Range(groups)
      BY <1>3, <2>2 DEF Picker!Range
    <3>2. groups[1].reviews # <<>>
      BY <1>3, <3>1
    <3> QED BY <1>3, <3>1, <3>2, SomeReviews
  <2> QED BY <2>1, <2>2
<1> HIDE DEF k, some
<1>5. p.index \in Nat /\ Picker!Most(k - 1, 0) \in Nat /\ (k > 0 => Picker!Most(k - 1, 0) = k - 1)
  BY <1>4 DEF PickerSet, Picker!Most
<1> DEFINE i == Picker!Min({p.index, Picker!Most(k - 1, 0)})
<1>6. i = IF p.index <= Picker!Most(k - 1, 0) THEN p.index ELSE Picker!Most(k - 1, 0)
  BY <1>5, LeastOfTwo
<1>7. i \in Nat /\ (k > 0 => i \in 0 .. (k - 1))
  <2> HIDE DEF i
  <2> QED BY <1>4, <1>5, <1>6
<1> HIDE DEF i
<1>8. rest \in PickerSet /\ rest.open = p.open /\ rest.rows = p.rows /\ rest.groups = groups /\ rest.index = i
  BY <1>1, <1>3, <1>7 DEF PickerSet, i
<1> QED BY <1>4, <1>7, <1>8 DEF k

-----------------------------------------------------------------------------
\* The invariant of the list and its picker.

\* The statuses in which a review still counts.
WaitStatuses == {"waiting", "dismissed", "writing", "newer"}

\* The waiting list holds no review twice.
ListInv == list \in Seq(Worktrees) /\ Picker!IsInjective(list)

\* Whatever still counts is on the list, unless its worktree is removed.
AllListed ==
  \A w \in Worktrees : status[w] \in WaitStatuses /\ place[w] # "removed" => w \in Picker!Range(list)

\* An open picker's marker is within the reviews it shows.
OpenOK ==
  /\ picker \in PickerSet
  /\ picker.open => picker.index \in 0 .. (Picker!CountOf(picker.groups) - 1) /\ picker.rows \in RowCounts

PickerInv ==
  /\ status \in [Worktrees -> Picker!Statuses] /\ session \in [Worktrees -> Sessions]
  /\ place \in [Worktrees -> {"here", "away", "removed"}]
  /\ sends \in 0 .. MaxSends
  /\ ListInv /\ AllListed /\ OpenOK

\* It is enough for the properties.
LEMMA PickerInvEnough ==
  ASSUME Picker!PickerAssumption, PickerInv
  PROVE  PickerKeepsReviews
<1>1. IsFiniteSet(Worktrees)
  BY PickerCount DEF Picker!PickerAssumption
<1>2. Picker!TypeOK
  <2>1. Picker!Range(list) \subseteq Worktrees
    BY DEF PickerInv, ListInv, Picker!Range
  <2>2. Len(list) <= Picker!Cardinality(Worktrees)
    BY <1>1, ShortList DEF PickerInv, ListInv
  <2> QED BY <2>1, <2>2 DEF PickerInv, OpenOK, Picker!TypeOK
<1>3. Picker!ChosenInView
  BY ChosenSeen DEF PickerInv, OpenOK, Picker!ChosenInView
<1>4. Picker!ActsOnMarked
  <2> SUFFICES ASSUME picker.open PROVE Picker!ReviewAt(picker.groups, picker.index) = Picker!Marked(picker)
    BY DEF Picker!ActsOnMarked
  <2>1. picker.groups \in Seq(GroupSet) /\ picker.index \in 0 .. (Picker!CountOf(picker.groups) - 1)
    BY DEF PickerInv, OpenOK, PickerSet
  <2> QED BY <2>1, ReviewFound DEF Picker!Marked
<1>5. Picker!FoundFromAnywhere
  <2> SUFFICES ASSUME NEW w \in Worktrees, NEW v \in Worktrees,
                      place[w] = "here" /\ status[w] \in WaitStatuses
               PROVE  w \in Picker!FindByBranch(BranchOf[w], CloneOf[v])
    BY DEF Picker!FoundFromAnywhere, WaitStatuses
  <2>1. w \in Picker!Range(list)
    BY DEF PickerInv, AllListed
  <2>2. w \in Picker!Range(Picker!ReadList)
    BY <2>1, ReadListIs DEF PickerInv, ListInv
  <2> QED BY <2>2 DEF Picker!FindByBranch
<1> QED BY <1>2, <1>3, <1>4, <1>5 DEF PickerKeepsReviews, Picker!MarksChosen

\* The invariant holds before anything was sent.
LEMMA PickerInit ==
  ASSUME Picker!PickerAssumption, Picker!Init
  PROVE  PickerInv
<1>1. Picker!Closed \in PickerSet /\ ~Picker!Closed.open
  BY DEF Picker!Closed, PickerSet
<1>2. ListInv
  BY DEF Picker!Init, ListInv, Picker!IsInjective
<1>3. AllListed
  BY DEF Picker!Init, AllListed, WaitStatuses
<1>4. status \in [Worktrees -> Picker!Statuses]
  BY DEF Picker!Init, Picker!Statuses
<1>5. OpenOK
  BY <1>1 DEF Picker!Init, OpenOK
<1> QED BY <1>2, <1>3, <1>4, <1>5 DEF Picker!Init, PickerInv, Picker!PickerAssumption

\* A review changes, with the list or without.
LEMMA ListKept ==
  ASSUME PickerInv, NEW w \in Worktrees, NEW st \in Picker!Statuses,
         status' = [status EXCEPT ![w] = st], UNCHANGED place,
         \/ list' = Picker!Added(Picker!Listed, w)
         \/ list' = Picker!Taken(Picker!Listed, w) /\ st \notin WaitStatuses
         \/ list' \in {Picker!Listed, list} /\ status[w] \in WaitStatuses
  PROVE  status' \in [Worktrees -> Picker!Statuses] /\ ListInv' /\ AllListed'
<1>1. /\ status \in [Worktrees -> Picker!Statuses] /\ list \in Seq(Worktrees) /\ Picker!IsInjective(list)
      /\ \A v \in Worktrees : status[v] \in WaitStatuses /\ place[v] # "removed" => v \in Picker!Range(list)
  BY DEF PickerInv, ListInv, AllListed
<1>2. /\ Picker!Listed \in Seq(Worktrees) /\ Picker!IsInjective(Picker!Listed)
      /\ Picker!Range(Picker!Listed) = {v \in Picker!Range(list) : place[v] # "removed"}
  BY <1>1, ListedIs
<1>3. /\ status' \in [Worktrees -> Picker!Statuses] /\ status'[w] = st
      /\ \A v \in Worktrees : v # w => status'[v] = status[v]
  BY <1>1
<1>4. ListInv'
  <2>1. list' \in Seq(Worktrees) /\ Picker!IsInjective(list')
    <3>1. CASE list' = Picker!Added(Picker!Listed, w)
      BY <1>2, <3>1, AddedTo
    <3>2. CASE list' = Picker!Taken(Picker!Listed, w)
      BY <1>2, <3>2, PartsOfList
    <3>3. CASE list' \in {Picker!Listed, list}
      BY <1>1, <1>2, <3>3
    <3> QED BY <3>1, <3>2, <3>3
  <2> QED BY <2>1 DEF ListInv, Picker!IsInjective
<1>5. \A v \in Worktrees : status'[v] \in WaitStatuses /\ place[v] # "removed" => v \in Picker!Range(list')
  <2> SUFFICES ASSUME NEW v \in Worktrees, status'[v] \in WaitStatuses, place[v] # "removed"
               PROVE  v \in Picker!Range(list')
    OBVIOUS
  <2>1. CASE list' = Picker!Added(Picker!Listed, w)
    <3>1. Picker!Range(list') = Picker!Range(Picker!Listed) \cup {w}
      BY <1>2, <2>1, AddedTo
    <3> QED BY <1>1, <1>2, <1>3, <3>1
  <2>2. CASE list' = Picker!Taken(Picker!Listed, w) /\ st \notin WaitStatuses
    <3>1. Picker!Range(list') = Picker!Range(Picker!Listed) \ {w}
      BY <1>2, <2>2, PartsOfList
    <3> QED BY <1>1, <1>2, <1>3, <2>2, <3>1
  <2>3. CASE list' \in {Picker!Listed, list} /\ status[w] \in WaitStatuses
    BY <1>1, <1>2, <1>3, <2>3
  <2> QED BY <2>1, <2>2, <2>3
<1>6. AllListed'
  BY <1>5 DEF AllListed, Picker!Range
<1> QED BY <1>3, <1>4, <1>6

\* Sending an Edit Set puts its worktree on the list, once.
LEMMA SendKeepsList ==
  ASSUME Picker!PickerAssumption, PickerInv, NEW w \in Worktrees, NEW s \in Sessions, Picker!Send(w, s)
  PROVE  PickerInv'
<1>1. status' \in [Worktrees -> Picker!Statuses] /\ ListInv' /\ AllListed'
  <2>1. /\ status' = [status EXCEPT ![w] = "waiting"] /\ UNCHANGED place
        /\ list' = Picker!Added(Picker!Listed, w)
    BY DEF Picker!Send, Picker!AddToList
  <2>2. "waiting" \in Picker!Statuses
    BY DEF Picker!Statuses
  <2> QED BY <2>1, <2>2, ListKept
<1>2. session' \in [Worktrees -> Sessions] /\ sends' \in 0 .. MaxSends
  BY DEF Picker!Send, PickerInv, Picker!PickerAssumption
<1>3. UNCHANGED <<place, picker>>
  BY DEF Picker!Send
<1> QED BY <1>1, <1>2, <1>3 DEF PickerInv, OpenOK

\* Taking off the list what is finished.
LEMMA FinishKeepsList ==
  ASSUME PickerInv, NEW w \in Worktrees, Picker!Finish(w)
  PROVE  PickerInv'
<1>1. \E st \in Picker!Statuses :
        /\ status' = [status EXCEPT ![w] = st]
        /\ \/ list' = Picker!Taken(Picker!Listed, w) /\ st \notin WaitStatuses
           \/ list' \in {Picker!Listed, list} /\ status[w] \in WaitStatuses
  <2>1. "notes" \in Picker!Statuses \ WaitStatuses /\ "done" \in Picker!Statuses \ WaitStatuses
    BY DEF Picker!Statuses, WaitStatuses
  <2>2. "writing" \in Picker!Statuses /\ "waiting" \in WaitStatuses
    BY DEF Picker!Statuses, WaitStatuses
  <2>3. \/ status' = [status EXCEPT ![w] = "notes"] /\ list' = Picker!Taken(Picker!Listed, w)
        \/ status' = [status EXCEPT ![w] = "done"] /\ list' = Picker!Taken(Picker!Listed, w)
        \/ status' = [status EXCEPT ![w] = "writing"] /\ list' = list /\ status[w] = "waiting"
    BY DEF Picker!Finish, Picker!TakeOffList
  <2> QED BY <2>1, <2>2, <2>3
<1>2. UNCHANGED <<session, place, sends, picker>>
  BY DEF Picker!Finish
<1>3. status' \in [Worktrees -> Picker!Statuses] /\ ListInv' /\ AllListed'
  BY <1>1, <1>2, ListKept
<1> QED BY <1>2, <1>3 DEF PickerInv, OpenOK

\* A newer Edit Set comes while the answers are written.
LEMMA NewerKeepsList ==
  ASSUME PickerInv, NEW w \in Worktrees, Picker!SavedByNewer(w)
  PROVE  PickerInv'
<1>1. /\ status' = [status EXCEPT ![w] = "newer"] /\ status[w] \in WaitStatuses
      /\ "newer" \in Picker!Statuses /\ UNCHANGED <<session, place, list, sends, picker>>
  BY DEF Picker!SavedByNewer, Picker!Statuses, WaitStatuses
<1>2. status' \in [Worktrees -> Picker!Statuses] /\ ListInv' /\ AllListed'
  BY <1>1, ListKept
<1> QED BY <1>1, <1>2 DEF PickerInv, OpenOK

\* A worktree goes or comes back.
LEMMA RelocateKeepsList ==
  ASSUME PickerInv, NEW w \in Worktrees, Picker!Relocate(w)
  PROVE  PickerInv'
<1>1. UNCHANGED <<session, list, sends, picker>>
  BY DEF Picker!Relocate
<1>2. status \in [Worktrees -> Picker!Statuses] /\ place \in [Worktrees -> {"here", "away", "removed"}]
  BY DEF PickerInv
<1>3. ASSUME NEW v \in Worktrees, status'[v] \in WaitStatuses, place'[v] # "removed"
      PROVE  v \in Picker!Range(list)
  <2>1. status[v] \in WaitStatuses /\ place[v] # "removed"
    <3>1. CASE place' = [place EXCEPT ![w] = "removed"] /\ status' = [status EXCEPT ![w] = "none"]
      BY <1>2, <1>3, <3>1
    <3>2. CASE /\ place[w] # "removed"
               /\ place' = [place EXCEPT ![w] = IF @ = "here" THEN "away" ELSE "here"]
               /\ UNCHANGED status
      BY <1>2, <1>3, <3>2
    <3> QED BY <3>1, <3>2 DEF Picker!Relocate
  <2> QED BY <2>1 DEF PickerInv, AllListed
<1>4. AllListed'
  BY <1>1, <1>3 DEF AllListed, Picker!Range
<1>5. status' \in [Worktrees -> Picker!Statuses] /\ place' \in [Worktrees -> {"here", "away", "removed"}]
  BY <1>2 DEF Picker!Relocate, Picker!Statuses
<1> QED BY <1>1, <1>4, <1>5 DEF PickerInv, ListInv, OpenOK, Picker!IsInjective

\* Dismissing and restoring a review, as the commands and the picker do.
LEMMA DismissedKept ==
  ASSUME PickerInv, NEW w \in Worktrees, Picker!Dismissed(w) \/ Picker!Restored(w), UNCHANGED place
  PROVE  status' \in [Worktrees -> Picker!Statuses] /\ ListInv' /\ AllListed'
<1>1. "waiting" \in WaitStatuses \cap Picker!Statuses /\ "dismissed" \in WaitStatuses \cap Picker!Statuses
  BY DEF WaitStatuses, Picker!Statuses
<1>2. CASE Picker!Dismissed(w)
  <2>1. /\ status' = [status EXCEPT ![w] = "dismissed"] /\ status[w] = "waiting"
        /\ list' = Picker!Listed
    BY <1>2 DEF Picker!Dismissed, Picker!KeepOnList
  <2> QED BY <1>1, <2>1, ListKept
<1>3. CASE Picker!Restored(w)
  <2>1. status' = [status EXCEPT ![w] = "waiting"] /\ list' = Picker!Added(Picker!Listed, w)
    BY <1>3 DEF Picker!Restored, Picker!AddToList
  <2> QED BY <1>1, <2>1, ListKept
<1> QED BY <1>2, <1>3

\* A dismissal by name.
LEMMA ByNameKeepsList ==
  ASSUME PickerInv, NEW b, NEW c, Picker!ByName(b, c)
  PROVE  PickerInv'
<1>1. PICK w \in Picker!FindByBranch(b, c) : Picker!Dismissed(w) \/ Picker!Restored(w)
  BY DEF Picker!ByName
<1>2. w \in Worktrees
  <2>1. Picker!Range(Picker!ReadList) \subseteq Worktrees
    BY ReadListIs DEF PickerInv, ListInv, Picker!Range
  <2> QED BY <1>1, <2>1 DEF Picker!FindByBranch, Picker!OnBranch
<1>3. UNCHANGED <<session, place, sends, picker>>
  BY DEF Picker!ByName
<1>4. status' \in [Worktrees -> Picker!Statuses] /\ ListInv' /\ AllListed'
  BY <1>1, <1>2, <1>3, DismissedKept
<1> QED BY <1>3, <1>4 DEF PickerInv, OpenOK

\* The picker's steps, which leave the reviews and the list.
LEMMA OthersKept ==
  ASSUME PickerInv, UNCHANGED <<status, session, place, list, sends>>, OpenOK'
  PROVE  PickerInv'
BY DEF PickerInv, ListInv, AllListed, Picker!IsInjective, Picker!Range

\* The picker opens only on two reviews or more.
LEMMA OpenKeeps ==
  ASSUME Picker!PickerAssumption, PickerInv, NEW reviews \in Seq(Worktrees), NEW rows \in RowCounts,
         Picker!OpenPicker(reviews, rows)
  PROVE  PickerInv'
<1>1. /\ Picker!Grouped(reviews) \in Seq(GroupSet) /\ Picker!CountOf(Picker!Grouped(reviews)) > 0
      /\ Picker!CountOf(Picker!Grouped(reviews)) \in Nat
  BY GroupedIs, SomeReviews DEF Picker!PickerAssumption, PickerInv, Picker!OpenPicker
<1>2. /\ picker' = [open |-> TRUE, groups |-> Picker!Grouped(reviews), index |-> 0, rows |-> rows]
      /\ UNCHANGED <<status, session, place, list, sends>>
  BY DEF Picker!OpenPicker
<1>3. rows \in Nat
  BY DEF Picker!PickerAssumption
<1>4. picker' \in PickerSet
  BY <1>1, <1>2, <1>3 DEF PickerSet
<1>5. picker'.index \in 0 .. (Picker!CountOf(picker'.groups) - 1) /\ picker'.rows \in RowCounts
  BY <1>1, <1>2
<1>6. OpenOK'
  BY <1>4, <1>5 DEF OpenOK, Picker!CountOf, Picker!UpTo
<1> QED BY <1>2, <1>6, OthersKept

\* The picker opened by a branch that several clones have.
LEMMA OpenNamedKeeps ==
  ASSUME Picker!PickerAssumption, PickerInv, NEW b, NEW c, NEW rows \in RowCounts,
         Picker!OpenNamed(b, c, rows)
  PROVE  PickerInv'
<1> DEFINE found == Picker!FindByBranch(b, c)
           order == IF found \subseteq Picker!Range(list) THEN Picker!Keep(Picker!ReadList, found)
                    ELSE Picker!SetToSeq(found)
<1>1. Picker!ReadList \in Seq(Worktrees)
  BY ReadListIs DEF PickerInv, ListInv
<1>2. found \subseteq Worktrees
  <2>1. Picker!Range(Picker!ReadList) \subseteq Worktrees
    BY <1>1 DEF Picker!Range
  <2> QED BY <2>1 DEF Picker!FindByBranch, Picker!OnBranch
<1>3. Picker!OpenPicker(Picker!WaitingReviews(order), rows)
  BY DEF Picker!OpenNamed
<1> HIDE DEF found
<1>4. order \in Seq(Worktrees)
  <2>1. CASE found \subseteq Picker!Range(list)
    BY <1>1, <2>1, KeepSeq
  <2>2. CASE ~(found \subseteq Picker!Range(list))
    <3>1. IsFiniteSet(Worktrees)
      BY PickerCount DEF Picker!PickerAssumption
    <3>2. IsFiniteSet(found)
      BY <1>2, <3>1, FS_Subset
    <3> DEFINE n == Cardinality(found)
    <3>3. n \in Nat /\ ExistsBijection(1 .. n, found)
      BY <3>2, FS_CardinalityType
    <3>4. \E f \in [1 .. n -> found] : Picker!IsInjective(f)
      BY <3>3 DEF ExistsBijection, Bijection, Injection, Picker!IsInjective, IsInjective
    <3>5. Picker!SetToSeq(found) = CHOOSE f \in [1 .. n -> found] : Picker!IsInjective(f)
      BY PickerCount DEF Picker!SetToSeq
    <3> HIDE DEF n
    <3>6. Picker!SetToSeq(found) \in [1 .. n -> found]
      BY <3>4, <3>5
    <3>7. Picker!SetToSeq(found) \in Seq(Worktrees)
      BY <1>2, <3>3, <3>6
    <3> QED BY <2>2, <3>7
  <2> QED BY <2>1, <2>2
<1> HIDE DEF order
<1>5. Picker!WaitingReviews(order) \in Seq(Worktrees)
  BY <1>4, WaitingIs
<1> QED BY <1>3, <1>5, OpenKeeps

\* The picker opened on what waits.
LEMMA OpenWaitingKeeps ==
  ASSUME Picker!PickerAssumption, PickerInv, NEW rows \in RowCounts, Picker!OpenWaiting(rows)
  PROVE  PickerInv'
<1>1. Picker!WaitingReviews(Picker!ReadList) \in Seq(Worktrees)
  BY ReadListIs, WaitingIs DEF PickerInv, ListInv
<1> QED BY <1>1, OpenKeeps DEF Picker!OpenWaiting

\* The window gets another height.
LEMMA ResizeKeeps ==
  ASSUME Picker!PickerAssumption, PickerInv, NEW rows \in RowCounts, Picker!Resize(rows)
  PROVE  PickerInv'
<1>1. /\ picker.open /\ picker' = [picker EXCEPT !.rows = rows]
      /\ UNCHANGED <<status, session, place, list, sends>>
  BY DEF Picker!Resize
<1>2. /\ picker \in PickerSet /\ rows \in Nat
      /\ picker.index \in 0 .. (Picker!CountOf(picker.groups) - 1)
  BY <1>1 DEF PickerInv, OpenOK, Picker!PickerAssumption
<1>3. /\ picker' \in PickerSet /\ picker'.groups = picker.groups /\ picker'.index = picker.index
      /\ picker'.rows = rows
  BY <1>1, <1>2 DEF PickerSet
<1>4. OpenOK'
  BY <1>2, <1>3 DEF OpenOK, Picker!CountOf, Picker!UpTo
<1> QED BY <1>1, <1>4, OthersKept

\* The marker stays among the reviews.
LEMMA MarkerMoves ==
  ASSUME PickerInv, Picker!Move
  PROVE  PickerInv'
<1> DEFINE k == Picker!CountOf(picker.groups)
           i == Picker!Min({picker.index + 1, Picker!LastIndex(picker)})
           j == Picker!Most(picker.index - 1, 0)
<1>1. picker.open /\ UNCHANGED <<status, session, place, list, sends>>
  BY DEF Picker!Move
<1>2. /\ picker \in PickerSet /\ picker.index \in 0 .. (k - 1) /\ picker.rows \in RowCounts
      /\ k \in Nat
  <2>1. picker \in PickerSet /\ picker.index \in 0 .. (k - 1) /\ picker.rows \in RowCounts
    BY <1>1 DEF PickerInv, OpenOK
  <2>2. picker.groups \in Seq(GroupSet)
    BY <2>1 DEF PickerSet
  <2> QED BY <2>1, <2>2, SomeReviews
<1>3. picker' = [picker EXCEPT !.index = i] \/ picker' = [picker EXCEPT !.index = j]
  BY DEF Picker!Move
<1>4. i \in 0 .. (k - 1)
  <2>1. Picker!LastIndex(picker) = k - 1
    <3> DEFINE l == Picker!CountOf(picker.groups)
    <3>1. Picker!LastIndex(picker) = Picker!Most(l - 1, 0)
      BY DEF Picker!LastIndex
    <3> HIDE DEF l
    <3>2. l = k
      BY DEF l
    <3> HIDE DEF k
    <3> QED BY <1>2, <3>1, <3>2 DEF Picker!Most
  <2> HIDE DEF k
  <2>2. picker.index + 1 \in Int /\ Picker!LastIndex(picker) \in Int
    BY <1>2, <2>1
  <2>3. i = IF picker.index + 1 <= Picker!LastIndex(picker) THEN picker.index + 1 ELSE Picker!LastIndex(picker)
    BY <2>2, LeastOfTwo
  <2> HIDE DEF i
  <2> QED BY <1>2, <2>1, <2>3
<1>5. j \in 0 .. (k - 1)
  <2> HIDE DEF k
  <2> QED BY <1>2 DEF Picker!Most
<1>6. PICK n \in 0 .. (k - 1) : picker' = [picker EXCEPT !.index = n]
  <2> HIDE DEF i, j, k
  <2> QED BY <1>3, <1>4, <1>5
<1>7. n \in Nat
  <2> HIDE DEF k
  <2> QED BY <1>2
<1>8. /\ picker' \in PickerSet /\ picker'.groups = picker.groups /\ picker'.index = n
      /\ picker'.rows = picker.rows
  BY <1>2, <1>6, <1>7 DEF PickerSet
<1>9. OpenOK'
  BY <1>2, <1>6, <1>8 DEF OpenOK, Picker!CountOf, Picker!UpTo
<1> QED BY <1>1, <1>9, OthersKept

\* The picker closes.
LEMMA CloseKeeps ==
  ASSUME PickerInv, Picker!Enter \/ Picker!QuitPicker
  PROVE  PickerInv'
<1>1. picker' = Picker!Closed /\ UNCHANGED <<status, session, place, list, sends>>
  BY DEF Picker!Enter, Picker!QuitPicker
<1>2. picker' \in PickerSet /\ ~picker'.open
  BY <1>1 DEF Picker!Closed, PickerSet
<1>3. OpenOK'
  BY <1>2 DEF OpenOK
<1> QED BY <1>1, <1>3, OthersKept

\* The chosen review is dismissed: it leaves its group, an emptied group the picker.
LEMMA DismissKeeps ==
  ASSUME PickerInv, Picker!DismissChosen
  PROVE  PickerInv'
<1> DEFINE w == Picker!ReviewAt(picker.groups, picker.index)
           rest == Picker!WithoutReview(picker, w)
<1>1. picker.open /\ UNCHANGED <<session, place, sends>>
  BY DEF Picker!DismissChosen
<1>2. picker \in PickerSet /\ picker.index \in 0 .. (Picker!CountOf(picker.groups) - 1) /\ picker.rows \in RowCounts
  BY <1>1 DEF PickerInv, OpenOK
<1>3. w \in Worktrees
  <2>1. picker.groups \in Seq(GroupSet)
    BY <1>2 DEF PickerSet
  <2> QED BY <1>2, <2>1, ReviewFound
<1>4. CASE Picker!Dismissed(w) /\ picker' = IF rest.groups = <<>> THEN Picker!Closed ELSE rest
  <2>1. status' \in [Worktrees -> Picker!Statuses] /\ ListInv' /\ AllListed'
    BY <1>1, <1>3, <1>4, DismissedKept
  <2>2. /\ rest \in PickerSet /\ rest.rows = picker.rows
        /\ rest.groups # <<>> => rest.index \in 0 .. (Picker!CountOf(rest.groups) - 1)
    BY <1>2, <1>3, WithoutIs, Zenon
  <2> HIDE DEF rest
  <2>3. OpenOK'
    <3>1. CASE rest.groups = <<>>
      BY <1>4, <3>1 DEF OpenOK, Picker!Closed, PickerSet
    <3>2. CASE rest.groups # <<>>
      BY <1>2, <1>4, <2>2, <3>2 DEF OpenOK, Picker!CountOf, Picker!UpTo
    <3> QED BY <3>1, <3>2
  <2> QED BY <1>1, <2>1, <2>3 DEF PickerInv
<1>5. CASE UNCHANGED <<status, list, picker>>
  <2>1. OpenOK'
    BY <1>5 DEF PickerInv, OpenOK, Picker!CountOf, Picker!UpTo
  <2> QED BY <1>1, <1>5, <2>1, OthersKept
<1> QED BY <1>4, <1>5 DEF Picker!DismissChosen

\* Every step keeps the invariant.
LEMMA PickerStepKeeps ==
  ASSUME Picker!PickerAssumption, PickerInv, [Picker!Next]_(Picker!vars)
  PROVE  PickerInv'
<1>1. CASE \E w \in Worktrees : Picker!Finish(w) \/ Picker!SavedByNewer(w) \/ Picker!Relocate(w)
  BY <1>1, FinishKeepsList, NewerKeepsList, RelocateKeepsList
<1>2. CASE \E w \in Worktrees, s \in Sessions : Picker!Send(w, s)
  BY <1>2, SendKeepsList
<1>3. CASE \E w \in Worktrees, v \in Worktrees : Picker!ByName(BranchOf[w], CloneOf[v])
  BY <1>3, ByNameKeepsList
<1>4. CASE \E rows \in RowCounts : Picker!OpenWaiting(rows) \/ Picker!Resize(rows)
  BY <1>4, OpenWaitingKeeps, ResizeKeeps
<1>5. CASE \E w \in Worktrees, v \in Worktrees, rows \in RowCounts :
             Picker!OpenNamed(BranchOf[w], CloneOf[v], rows)
  BY <1>5, OpenNamedKeeps
<1>6. CASE Picker!PickerKey
  BY <1>6, MarkerMoves, CloseKeeps, DismissKeeps DEF Picker!PickerKey
<1>7. CASE UNCHANGED Picker!vars
  <2>1. UNCHANGED <<status, session, place, list, sends, picker>>
    BY <1>7 DEF Picker!vars
  <2>2. OpenOK'
    BY <2>1 DEF PickerInv, OpenOK, Picker!CountOf, Picker!UpTo
  <2> QED BY <2>1, <2>2, OthersKept
<1> QED BY <1>1, <1>2, <1>3, <1>4, <1>5, <1>6, <1>7 DEF Picker!Next

\* The invariant of the waiting list and its picker, for any worktrees, branches,
\* clones, sessions and heights.
THEOREM PickerInvariant == ASSUME Picker!PickerAssumption PROVE Picker!Spec => []PickerInv
<1>1. Picker!Init => PickerInv
  BY PickerInit
<1>2. PickerInv /\ [Picker!Next]_(Picker!vars) => PickerInv'
  BY PickerStepKeeps
<1> QED BY <1>1, <1>2, PTL DEF Picker!Spec

\* What the picker marks can be seen and is what its keys act on, after every
\* dismissal, and no review gets off the waiting list while its worktree comes and
\* goes (picker.rs:213, 187, review_session.rs:746).
THEOREM PickerActsOnMarked == ASSUME Picker!PickerAssumption PROVE Picker!Spec => []PickerKeepsReviews
<1>1. PickerInv => PickerKeepsReviews
  BY PickerInvEnough
<1> QED BY <1>1, PickerInvariant, PTL

=============================================================================
