---------------------------- MODULE ReviewPicker ----------------------------
(***************************************************************************)
(* The waiting list of all worktrees, the Review Session Picker that shows *)
(* it, and the commands open, dismiss and restore, which find a review by  *)
(* its branch.  Each change of the list is made under its lock, so it is   *)
(* one action with the change of the session it follows; a picker keeps    *)
(* what it read when it opened.                                            *)
(***************************************************************************)
EXTENDS Integers, Sequences, FiniteSets, SequencesExt, FiniteSetsExt

CONSTANTS
  Worktrees,
  BranchOf,    \* the branch each has checked out
  CloneOf,     \* the clone each belongs to
  Sessions,    \* agent sessions; NoSession is the empty one
  NoSession,
  RowCounts,   \* the terminal's possible heights
  MaxSends,    \* bound: lists sent
  Events       \* what else happens: subset of {"relocate", "finish"}

PickerAssumption ==
  /\ IsFiniteSet(Worktrees)
  /\ NoSession \in Sessions
  /\ BranchOf \in [Worktrees -> STRING]
  /\ CloneOf \in [Worktrees -> STRING]
  /\ RowCounts \subseteq Nat
  /\ MaxSends \in Nat
  /\ Events \subseteq {"relocate", "finish"}

VARIABLES
  status,   \* of each worktree's Review Session
  session,  \* the agent session in its origin
  place,    \* "here", "away" as on a drive that is not mounted, or "removed"
  list,     \* waiting-list.json
  sends,    \* history: lists sent
  picker    \* the open picker: its groups, index and terminal rows

vars == <<status, session, place, list, sends, picker>>

Statuses == {"none", "waiting", "notes", "writing", "done", "dismissed", "newer"}
Closed == [open |-> FALSE, groups |-> <<>>, index |-> 0, rows |-> 0]

Init ==
  /\ status = [w \in Worktrees |-> "none"]
  /\ session = [w \in Worktrees |-> NoSession]
  /\ place = [w \in Worktrees |-> "here"]
  /\ list = <<>>
  /\ sends = 0
  /\ picker = Closed

-----------------------------------------------------------------------------
\* The waiting list.

\* Mutant: a worktree that cannot be reached now counts as removed.
IsRemovedAway(w) == place[w] # "here"
\* A worktree is removed when the folder that held it is still there.
IsRemoved(w) == place[w] = "removed"

\* What s holds of S, in its order.
Keep(s, S) ==
  LET at == {i \in DOMAIN s : s[i] \in S}
  IN  [k \in 1 .. Cardinality(at) |-> s[CHOOSE i \in at : Cardinality(at \cap (1 .. i)) = k]]

Added(s, w) == IF w \in Range(s) THEN s ELSE Append(s, w)
Taken(s, w) == Keep(s, Worktrees \ {w})

\* Every change drops the removed worktrees.  (ReviewSession has changes that fail.)
Listed == Keep(list, {w \in Worktrees : ~IsRemoved(w)})
AddToList(w) == list' = Added(Listed, w)
TakeOffList(w) == list' = Taken(Listed, w)
KeepOnList == list' = Listed

\* Reading skips the worktrees that are not there.
ReadList == Keep(list, {w \in Worktrees : place[w] = "here"})

\* The reviews a picker shows, newest first: those that wait for the user, whose
\* write did not finish, or that cannot be read.
WaitingReviews(worktrees) ==
  Reverse(Keep(worktrees, {w \in Worktrees : status[w] \in {"waiting", "writing", "newer"}}))

\* The worktrees Git knows in a clone, which still names one whose folder is away.
OnBranch(branch, clone) ==
  {w \in Worktrees : CloneOf[w] = clone /\ place[w] # "removed" /\ BranchOf[w] = branch}

\* The listed worktrees on the branch, else those of the clone.
FindByBranch(branch, clone) ==
  LET listed == {w \in Range(ReadList) : BranchOf[w] = branch}
  IN  IF listed # {} THEN listed ELSE OnBranch(branch, clone)

-----------------------------------------------------------------------------
\* The reviews themselves, each as far as the list sees it.

\* A list after notes keeps the session's origin, any other starts a new one.
Send(w, agentSession) ==
  /\ sends < MaxSends
  /\ place[w] = "here"
  /\ status[w] \in {"none", "done", "dismissed", "notes"}
  /\ status' = [status EXCEPT ![w] = "waiting"]
  /\ session' = IF status[w] = "notes" THEN session ELSE [session EXCEPT ![w] = agentSession]
  /\ AddToList(w)
  /\ sends' = sends + 1
  /\ UNCHANGED <<place, picker>>

\* A screen hands notes to the agent, finishes the write, or dies writing.
Finish(w) ==
  /\ "finish" \in Events
  /\ place[w] = "here"
  /\ \/ /\ status[w] = "waiting"
        /\ \/ status' = [status EXCEPT ![w] = "notes"] /\ TakeOffList(w)
           \/ status' = [status EXCEPT ![w] = "done"] /\ TakeOffList(w)
           \/ status' = [status EXCEPT ![w] = "writing"] /\ UNCHANGED list
     \/ status[w] = "writing" /\ status' = [status EXCEPT ![w] = "done"] /\ TakeOffList(w)
  /\ UNCHANGED <<session, place, sends, picker>>

\* A newer glimmer saves the review in a form this one cannot read.
SavedByNewer(w) ==
  /\ "finish" \in Events
  /\ status[w] = "waiting"
  /\ status' = [status EXCEPT ![w] = "newer"]
  /\ UNCHANGED <<session, place, list, sends, picker>>

\* git worktree remove takes the session with it; a drive comes and goes.
Relocate(w) ==
  /\ "relocate" \in Events
  /\ \/ /\ place[w] = "here"
        /\ place' = [place EXCEPT ![w] = "removed"]
        /\ status' = [status EXCEPT ![w] = "none"]
     \/ /\ place[w] # "removed"
        /\ place' = [place EXCEPT ![w] = IF @ = "here" THEN "away" ELSE "here"]
        /\ UNCHANGED status
  /\ UNCHANGED <<session, list, sends, picker>>

\* The status is saved first; the list's own failure does not undo it.
Dismissed(w) ==
  /\ place[w] = "here"
  /\ status[w] = "waiting"
  /\ status' = [status EXCEPT ![w] = "dismissed"]
  /\ KeepOnList
CannotDismiss(w) == place[w] # "here" \/ status[w] # "waiting"

Restored(w) ==
  /\ place[w] = "here"
  /\ status[w] = "dismissed"
  /\ status' = [status EXCEPT ![w] = "waiting"]
  /\ AddToList(w)

\* dismiss NAME and restore NAME, from a folder of some clone: exactly one
\* worktree must have the branch.
ByName(branch, clone) ==
  /\ \E w \in FindByBranch(branch, clone) :
       /\ FindByBranch(branch, clone) = {w}
       /\ Dismissed(w) \/ Restored(w)
  /\ UNCHANGED <<session, place, sends, picker>>

-----------------------------------------------------------------------------
\* The picker.

\* The group a review is listed under; what cannot be read names no session.
GroupOf(w) == IF status[w] = "newer" THEN NoSession ELSE session[w]

Group(reviews, s) ==
  [session |-> s, reviews |-> Keep(reviews, {w \in Worktrees : GroupOf(w) = s})]

\* The newest review of each agent session.
Heads(reviews) ==
  {i \in DOMAIN reviews : /\ GroupOf(reviews[i]) # NoSession
                          /\ \A j \in 1 .. (i - 1) : GroupOf(reviews[j]) # GroupOf(reviews[i])}

\* A group sits where its newest review would, those with no session last.
Grouped(reviews) ==
  LET order == Keep([i \in DOMAIN reviews |-> i], Heads(reviews))
      named == [n \in DOMAIN order |-> Group(reviews, GroupOf(reviews[order[n]]))]
      unnamed == Group(reviews, NoSession)
  IN  IF unnamed.reviews = <<>> THEN named ELSE Append(named, unnamed)

\* How many reviews the first n groups hold.
UpTo(groups) == LET upTo[n \in 0 .. Len(groups)] ==
                      IF n = 0 THEN 0 ELSE upTo[n - 1] + Len(groups[n].reviews)
                IN  upTo
CountOf(groups) == UpTo(groups)[Len(groups)]

\* The group of the i-th review, from 0.
GroupAt(groups, i) ==
  CHOOSE n \in DOMAIN groups : UpTo(groups)[n - 1] <= i /\ i < UpTo(groups)[n]
\* The review found by walking the groups.
ReviewAt(groups, i) ==
  LET n == GroupAt(groups, i) IN groups[n].reviews[i - UpTo(groups)[n - 1] + 1]

\* The rows of the list: a title for each group and two rows for each review, with
\* the position of the review among all.
GroupRows(groups, n) ==
  LET first == UpTo(groups)[n - 1]
  IN  <<[at |-> -1]>> \o
      [r \in 1 .. (2 * Len(groups[n].reviews)) |-> [at |-> first + (r - 1) \div 2]]
RowsOf(groups) == FlattenSeq([n \in DOMAIN groups |-> GroupRows(groups, n)])

\* The row of the marker, from 0, and the review it stands at.
ChosenRow(p) ==
  LET rows == RowsOf(p.groups) IN Min({r \in DOMAIN rows : rows[r].at = p.index}) - 1
Marked(p) == FlattenSeq([n \in DOMAIN p.groups |-> p.groups[n].reviews])[p.index + 1]

Most(i, j) == IF i > j THEN i ELSE j
Room(p) == Most(p.rows - 2, 2)
FirstRow(p) == Most(ChosenRow(p) + 2 - Room(p), 0)
\* The list's rows on the screen.
View(p) ==
  LET rows == RowsOf(p.groups)
      first == FirstRow(p)
  IN  SubSeq(rows, first + 1, Min({first + Room(p), Len(rows)}))

\* One review opens at once, more show the picker.
OpenPicker(reviews, rows) ==
  /\ ~picker.open
  /\ Len(reviews) > 1
  /\ picker' = [open |-> TRUE, groups |-> Grouped(reviews), index |-> 0, rows |-> rows]
  /\ UNCHANGED <<status, session, place, list, sends>>

OpenWaiting(rows) == OpenPicker(WaitingReviews(ReadList), rows)
OpenNamed(branch, clone, rows) ==
  LET found == FindByBranch(branch, clone)
      order == IF found \subseteq Range(list) THEN Keep(ReadList, found)
               ELSE SetToSeq(found)
  IN  /\ Cardinality(found) > 1
      /\ OpenPicker(WaitingReviews(order), rows)

Resize(rows) ==
  /\ picker.open
  /\ picker' = [picker EXCEPT !.rows = rows]
  /\ UNCHANGED <<status, session, place, list, sends>>

LastIndex(p) == Most(CountOf(p.groups) - 1, 0)

Move ==
  /\ picker.open
  /\ \/ picker' = [picker EXCEPT !.index = Min({@ + 1, LastIndex(picker)})]
     \/ picker' = [picker EXCEPT !.index = Most(@ - 1, 0)]
  /\ UNCHANGED <<status, session, place, list, sends>>

Enter ==
  /\ picker.open
  /\ picker' = Closed
  /\ UNCHANGED <<status, session, place, list, sends>>

QuitPicker ==
  /\ picker.open
  /\ picker' = Closed
  /\ UNCHANGED <<status, session, place, list, sends>>

WithoutReview(p, w) ==
  LET left == [n \in DOMAIN p.groups |-> [p.groups[n] EXCEPT !.reviews = Taken(@, w)]]
      groups == Keep(left, {g \in Range(left) : g.reviews # <<>>})
  IN  [p EXCEPT !.groups = groups,
                !.index = Min({@, Most(CountOf(groups) - 1, 0)})]

\* x dismisses the marked review and takes it off, or only says why it cannot.
DismissChosen ==
  /\ picker.open
  /\ LET w == ReviewAt(picker.groups, picker.index)
     IN  \/ /\ Dismissed(w)
            /\ LET rest == WithoutReview(picker, w)
               IN  picker' = IF rest.groups = <<>> THEN Closed ELSE rest
         \/ /\ CannotDismiss(w)
            /\ UNCHANGED <<status, list, picker>>
  /\ UNCHANGED <<session, place, sends>>

PickerKey == Move \/ Enter \/ QuitPicker \/ DismissChosen

Next ==
  \/ \E w \in Worktrees : Finish(w) \/ SavedByNewer(w) \/ Relocate(w)
  \/ \E w \in Worktrees, s \in Sessions : Send(w, s)
  \/ \E w \in Worktrees, v \in Worktrees : ByName(BranchOf[w], CloneOf[v])
  \/ \E rows \in RowCounts : OpenWaiting(rows) \/ Resize(rows)
  \/ \E w \in Worktrees, v \in Worktrees, rows \in RowCounts : OpenNamed(BranchOf[w], CloneOf[v], rows)
  \/ PickerKey

Spec == Init /\ [][Next]_vars

-----------------------------------------------------------------------------
\* Properties.

\* The shape of every variable.  An open picker holds a review at its index,
\* which Enter relies on (picker.rs:160).
TypeOK ==
  /\ status \in [Worktrees -> Statuses]
  /\ session \in [Worktrees -> Sessions]
  /\ place \in [Worktrees -> {"here", "away", "removed"}]
  /\ Range(list) \subseteq Worktrees /\ Len(list) <= Cardinality(Worktrees)
  /\ sends \in 0 .. MaxSends
  /\ picker.open => picker.index \in 0 .. (CountOf(picker.groups) - 1) /\ picker.rows \in RowCounts

\* Both rows of the chosen review are on the screen, for every height, every
\* grouping and after every dismissal (picker.rs:213).
ChosenInView ==
  picker.open =>
    LET view == View(picker)
    IN  Cardinality({r \in DOMAIN view : view[r].at = picker.index}) = 2

\* What Enter opens and x dismisses is the review the marker stands at, which is
\* found by walking the groups, not by the rows (picker.rs:155, 187).
ActsOnMarked == picker.open => ReviewAt(picker.groups, picker.index) = Marked(picker)

\* A review that waits, that was dismissed or whose write did not finish is found by
\* its branch from any folder once its worktree is there, also after its drive was
\* away during other changes (review_session.rs:118, 746).
FoundFromAnywhere ==
  \A w \in Worktrees, v \in Worktrees :
    place[w] = "here" /\ status[w] \in {"waiting", "dismissed", "writing", "newer"} =>
      w \in FindByBranch(BranchOf[w], CloneOf[v])

\* What the picker marks is what its keys act on, and can be seen.
MarksChosen == TypeOK /\ ChosenInView /\ ActsOnMarked
=============================================================================
