--------------------------- MODULE ReviewScreens ---------------------------
(***************************************************************************)
(* What the user has in front of him: one Review Screen, in ReviewScreen,  *)
(* the picker over the reviews of all worktrees, in ReviewPicker, and      *)
(* Herdr's windows, in ReviewWindows.  The three share no state.           *)
(***************************************************************************)
EXTENDS ReviewWindows

CONSTANTS
  Ids, InitIds, Keys, Env, Settle, MaxQueue, MaxText, MaxVersion,
  Worktrees, BranchOf, CloneOf, Sessions, NoSession, RowCounts, MaxSends, Events
VARIABLES
  disk, mem, index, drawnAt, prompt, display, queue, pc, saving, wasLeft, given, joined, late,
  status, session, place, list, sends, picker

screen == <<disk, mem, index, drawnAt, prompt, display, queue, pc, saving, wasLeft, given, joined, late>>

Screen == INSTANCE ReviewScreen
Picker == INSTANCE ReviewPicker

\* No key answers words the user had not been shown for a while, whatever was queued
\* while a save, nvim or a slow answer check ran, and whoever changes the review
\* meanwhile (screen.rs:18, mod.rs:263); but for a list that comes between a save and
\* its load, whose words take over the wait of the old ones (saving.rs:82).
NoStrayAnswer == Screen!NoStrayAnswer

\* Until another screen answers, or a list comes between a save and its load, a
\* screen that waits for a key asks what review.json leaves open, also after refused
\* and failing saves; and its result is never closed unread (saving.rs:2, mod.rs:183).
AsksWhatIsSaved == Screen!AsksWhatIsSaved

\* ReviewPicker's ChosenInView and ActsOnMarked: the marked review can be seen,
\* and is the one a key opens or dismisses.  And FoundFromAnywhere: no review gets
\* off the waiting list while its worktree is unmounted, mounted or removed between
\* two changes of the list (picker.rs:213, 187, review_session.rs:746).
PickerKeepsReviews == Picker!MarksChosen /\ Picker!FoundFromAnywhere
=============================================================================
