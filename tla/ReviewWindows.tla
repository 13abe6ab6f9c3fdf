---------------------------- MODULE ReviewWindows ----------------------------
(***************************************************************************)
(* How Ctrl+b e and Ctrl+b E show a review in Herdr: each press runs       *)
(* glimmer as the key's action, which asks Herdr, one request at a time,   *)
(* for a popup or a tab; glimmer runs again in it, keeps the popup record  *)
(* that the approval tool reads, and closes its tab.  Herdr serves many    *)
(* presses and windows at once, and holds one popup at a time.             *)
(***************************************************************************)
EXTENDS Naturals, FiniteSets

CONSTANTS
  Presses,   \* presses of the two keys
  Faults     \* subset of {"herdr", "kill", "together"}: a request fails, a popup
             \* is killed, a key is pressed before the last press is done

ASSUME WindowsAssumption == Faults \subseteq {"herdr", "kill", "together"} /\ IsFiniteSet(Presses)

VARIABLES
  waiting,   \* does a review wait
  act,       \* each press: where its action is, its kind and the tab it acts on
  tabs,      \* Herdr's tabs by the press that opened each: the label, or absent
  focused,   \* the tab Herdr shows
  popups,    \* the processes started in a popup: where each is
  record,    \* the popup record: the process it names and what it says of it
  told,      \* the presses that ended in a Herdr Notification
  amiss      \* history: the faults that happened

vars == <<waiting, act, tabs, focused, popups, record, told, amiss>>

None == "none"
NoRecord == [pid |-> None, name |-> None]
Idle == [pc |-> "idle", kind |-> None, tab |-> None]
ReviewTabLabel == "comment review"

Init ==
  /\ waiting \in BOOLEAN
  /\ act = [p \in Presses |-> Idle]
  /\ tabs = [p \in {} |-> None]
  /\ focused = None
  /\ popups = [p \in Presses |-> "none"]
  /\ record = NoRecord
  /\ told = {}
  /\ amiss = {}

Goto(p, pc) == act' = [act EXCEPT ![p].pc = pc]
OpenPopup == {p \in Presses : popups[p] \notin {"none", "closed"}}
OpenTab == {t \in DOMAIN tabs : tabs[t] = ReviewTabLabel}

-----------------------------------------------------------------------------
\* The key's action.

\* A press counts the waiting reviews; without one, or with a list it cannot
\* read, it only says so.
Press(p, kind) ==
  /\ act[p].pc = "idle"
  /\ \/ (\A q \in Presses : act[q].pc \in {"idle", "done"}) /\ UNCHANGED amiss
     \/ /\ "together" \in Faults /\ \E q \in Presses : act[q].pc \notin {"idle", "done"}
        /\ amiss' = amiss \cup {"together"}
  /\ IF waiting
     THEN /\ act' = [act EXCEPT ![p] = [pc |-> IF kind = "popup" THEN "open" ELSE "list",
                                        kind |-> kind, tab |-> None]]
          /\ UNCHANGED told
     ELSE /\ act' = [act EXCEPT ![p] = [pc |-> "done", kind |-> kind, tab |-> None]]
          /\ told' = told \cup {p}
  /\ UNCHANGED <<waiting, tabs, focused, popups, record>>

\* Every failure also notifies, since Herdr keeps the action's errors out of sight.
NotOpened(p) ==
  /\ Goto(p, "done")
  /\ told' = told \cup {p}
  /\ UNCHANGED <<waiting, tabs, focused, popups, record>>

RequestFails(p) ==
  /\ "herdr" \in Faults
  /\ act[p].pc \in {"open", "list", "rename", "focus"}
  /\ NotOpened(p)
  /\ amiss' = amiss \cup {"herdr"}

OpenPopupPane(p) ==
  /\ act[p].pc = "open" /\ act[p].kind = "popup"
  /\ IF OpenPopup = {}
     THEN /\ popups' = [popups EXCEPT ![p] = "start"]
          /\ Goto(p, "done")
          /\ UNCHANGED <<waiting, tabs, focused, record, told, amiss>>
     ELSE NotOpened(p) /\ UNCHANGED amiss

\* Mutant: any labelled tab is left alone and another opened.
ListTabsNever(p) ==
  /\ act[p].pc = "list"
  /\ Goto(p, "open")
  /\ UNCHANGED <<waiting, tabs, focused, popups, record, told, amiss>>
\* The Review Tab is the one with the label; another is opened without it.
ListTabs(p) ==
  /\ act[p].pc = "list"
  /\ \/ /\ OpenTab = {}
        /\ Goto(p, "open")
     \/ \E t \in OpenTab : act' = [act EXCEPT ![p].pc = "focus", ![p].tab = t]
  /\ UNCHANGED <<waiting, tabs, focused, popups, record, told, amiss>>

OpenTabPane(p) ==
  /\ act[p].pc = "open" /\ act[p].kind = "tab"
  /\ tabs' = [t \in DOMAIN tabs \cup {p} |-> IF t = p THEN None ELSE tabs[t]]
  /\ focused' = p
  /\ act' = [act EXCEPT ![p].pc = "rename", ![p].tab = p]
  /\ UNCHANGED <<waiting, popups, record, told, amiss>>

\* The tab may be closed before it is named or focused.
Rename(p) ==
  /\ act[p].pc = "rename"
  /\ IF p \in DOMAIN tabs
     THEN /\ tabs' = [tabs EXCEPT ![p] = ReviewTabLabel]
          /\ Goto(p, "focus")
          /\ UNCHANGED <<waiting, focused, popups, record, told, amiss>>
     ELSE NotOpened(p) /\ UNCHANGED amiss

Focus(p) ==
  /\ act[p].pc = "focus"
  /\ IF act[p].tab \in DOMAIN tabs
     THEN /\ focused' = act[p].tab
          /\ Goto(p, "done")
          /\ UNCHANGED <<waiting, tabs, popups, record, told, amiss>>
     ELSE NotOpened(p) /\ UNCHANGED amiss

-----------------------------------------------------------------------------
\* Inside the windows.

\* Leaving the review, the Review Tab closes itself.
TabQuits(t) ==
  /\ t \in DOMAIN tabs
  /\ tabs' = [u \in DOMAIN tabs \ {t} |-> tabs[u]]
  /\ focused' = IF focused = t THEN None ELSE focused
  /\ UNCHANGED <<waiting, act, popups, record, told, amiss>>

SaveRecord(p, name) == record' = [pid |-> p, name |-> name]

\* The popup saves its record, then shows the picker, or no review at all, and
\* names the picked review in the record before it shows it; a worktree whose
\* review cannot be shown has no name.
PopupStarts(p) ==
  /\ popups[p] = "start"
  /\ popups' = [popups EXCEPT ![p] = "pick"]
  /\ SaveRecord(p, "Comment review")
  /\ UNCHANGED <<waiting, act, tabs, focused, told, amiss>>

PopupPicks(p) ==
  /\ popups[p] = "pick"
  /\ \/ /\ waiting
        /\ popups' = [popups EXCEPT ![p] = "review"]
        /\ SaveRecord(p, "Review")
     \/ /\ waiting
        /\ popups' = [popups EXCEPT ![p] = "problem"]
        /\ UNCHANGED record
     \/ /\ popups' = [popups EXCEPT ![p] = "leave"]
        /\ UNCHANGED record
  /\ UNCHANGED <<waiting, act, tabs, focused, told, amiss>>

PopupLeaves(p) ==
  /\ popups[p] \in {"review", "problem"}
  /\ popups' = [popups EXCEPT ![p] = "leave"]
  /\ UNCHANGED <<waiting, act, tabs, focused, record, told, amiss>>

\* Mutant: the popup is closed before its record is removed.
ClosePopupFirst(p) ==
  \/ /\ popups[p] = "leave"
     /\ popups' = [popups EXCEPT ![p] = "closed"]
     /\ UNCHANGED <<waiting, act, tabs, focused, record, told, amiss>>
  \/ /\ popups[p] = "closed" /\ record # NoRecord
     /\ record' = NoRecord
     /\ UNCHANGED <<waiting, act, tabs, focused, popups, told, amiss>>
\* The record goes before the process ends, and Herdr closes the popup with it.
ClosePopup(p) ==
  /\ popups[p] = "leave"
  /\ record' = NoRecord
  /\ popups' = [popups EXCEPT ![p] = "closed"]
  /\ UNCHANGED <<waiting, act, tabs, focused, told, amiss>>

\* Herdr ends the process when the user closes the popup from outside.
PopupKilled(p) ==
  /\ "kill" \in Faults
  /\ p \in OpenPopup
  /\ popups' = [popups EXCEPT ![p] = "closed"]
  /\ amiss' = amiss \cup {"kill"}
  /\ UNCHANGED <<waiting, act, tabs, focused, record, told>>

ReviewsChange ==
  /\ waiting' = ~waiting
  /\ UNCHANGED <<act, tabs, focused, popups, record, told, amiss>>

Next ==
  \/ ReviewsChange
  \/ \E p \in Presses :
       \/ \E kind \in {"popup", "tab"} : Press(p, kind)
       \/ RequestFails(p) \/ OpenPopupPane(p) \/ ListTabs(p) \/ OpenTabPane(p)
       \/ Rename(p) \/ Focus(p)
       \/ TabQuits(p) \/ PopupStarts(p) \/ PopupPicks(p) \/ PopupLeaves(p)
       \/ ClosePopup(p) \/ PopupKilled(p)

\* Herdr answers within its time limit, so an action goes on.
Acts(p) == OpenPopupPane(p) \/ ListTabs(p) \/ OpenTabPane(p) \/ Rename(p) \/ Focus(p)
Spec == Init /\ [][Next]_vars /\ \A p \in Presses : WF_vars(Acts(p))

-----------------------------------------------------------------------------
\* Properties: what the two keys promise the user and the approval tool.

\* The shape of every variable, and one popup at most.
TypeOK ==
  /\ waiting \in BOOLEAN
  /\ act \in [Presses -> [pc : {"idle", "open", "list", "rename", "focus", "done"},
                          kind : {None, "popup", "tab"}, tab : Presses \cup {None}]]
  /\ DOMAIN tabs \subseteq Presses /\ \A t \in DOMAIN tabs : tabs[t] \in {None, ReviewTabLabel}
  /\ focused \in DOMAIN tabs \cup {None}
  /\ popups \in [Presses -> {"none", "start", "pick", "review", "problem", "leave", "closed"}]
  /\ Cardinality(OpenPopup) <= 1
  /\ record.pid \in Presses \cup {None}
  /\ told \subseteq Presses /\ amiss \subseteq Faults

\* While a popup shows reviews, the record names its process, and the picked
\* review once there is one, whatever popups were open or killed before it: the
\* approval tool tells the user to close that one (start.rs:103, herdr.rs:214).
RecordNamesPopup ==
  \A p \in Presses :
    /\ popups[p] \in {"pick", "review", "problem", "leave"} => record.pid = p
    /\ popups[p] = "review" => record.name = "Review"

\* A popup that ended by itself leaves no record behind (start.rs:118).
NoRecordLeft == "kill" \notin amiss /\ OpenPopup = {} => record = NoRecord

\* A second Ctrl+b E opens no second Review Tab, unless it is pressed before the
\* first is answered or Herdr fails, which may leave a tab without its name
\* (herdr.rs:130).
OneTab == amiss \cap {"together", "herdr"} = {} => Cardinality(DOMAIN tabs) <= 1

\* For a user who waits for Herdr, no window is opened twice and none leaves
\* anything behind.
WindowsInTurn == OneTab /\ NoRecordLeft

\* Every press ends: with a window, or with a word to the user (herdr.rs:161).
PressEnds == \A p \in Presses : act[p].pc # "idle" ~> act[p].pc = "done"
=============================================================================
