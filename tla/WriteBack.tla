----------------------------- MODULE WriteBack -----------------------------
(***************************************************************************)
(* Step 7 of a review in glimmer, call by call: the answers are written    *)
(* into the files, the decisions saved and the session marked done, or     *)
(* every file is put back.  Editors change the files all the while, a stop *)
(* signal waits until the files have settled, any call may fail, and the   *)
(* program may be killed between any two of them.                          *)
(*                                                                         *)
(* The session's lock is held from Begin to Release, so no other program   *)
(* changes the status meanwhile.  Each file is read alone in the code; here *)
(* a pass over the files is one step, since each file is compared with what *)
(* was read before it is replaced.                                         *)
(***************************************************************************)
EXTENDS Naturals, Sequences

CONSTANTS
  NumFiles,    \* files the answered requests are in, written in path order
  Kept,        \* those in which the user kept every text, which are left alone
  MaxEdits,    \* bound: edits by others
  MaxFaults,   \* bound: calls that fail
  MaxReviews,  \* bound: reviews of this worktree
  Kills,       \* may the program be killed?
  Signals      \* may a stop signal arrive?

ASSUME WriteBackAssumption ==
  /\ NumFiles \in Nat /\ Kept \subseteq 1 .. NumFiles
  /\ MaxEdits \in Nat /\ MaxFaults \in Nat /\ MaxReviews \in Nat
  /\ Kills \in BOOLEAN /\ Signals \in BOOLEAN

Files == 1 .. NumFiles

VARIABLES
  disk,     \* each file: its answered comment's text, and the edits it holds
  temp,     \* files whose temporary file lies beside them
  backup,   \* the backup folder: is it there, and the originals in it
  status,   \* of the saved session
  werr,     \* does it say why the last write failed?
  decided,  \* are this review's decisions saved?
  listed,   \* is the worktree on the waiting list?
  pc, read, written, current, left,  \* the program: where it is, what it read, its files
  caught,   \* a stop signal waits
  put,      \* history: files that hold the answers now
  orig,     \* history: what each of them held before
  owed,     \* history: the same, of a write that stopped short and was given up
  lost,     \* history: edits a rename overwrote
  gap,      \* history: edits made between a file's last comparison and its rename
  edits, faults, reviews

program == <<pc, read, written, current, left>>
history == <<put, orig, owed, lost, gap>>
bounds == <<edits, faults, reviews>>
session == <<status, werr, decided, listed>>
vars == <<disk, temp, backup, session, program, caught, history, bounds>>

Contents == [text : {"asked", "answered", "other"}, edits : SUBSET (1 .. MaxEdits)]
NoFolder == [made |-> FALSE, has |-> <<>>]
Changed == Files \ Kept

Init ==
  /\ disk = [f \in Files |-> [text |-> "asked", edits |-> {}]]
  /\ temp = {}
  /\ backup = NoFolder
  /\ status = "waiting" /\ werr = FALSE /\ decided = FALSE /\ listed = TRUE
  /\ pc = "idle" /\ read = <<>> /\ written = {} /\ current = 0 /\ left = {}
  /\ caught = FALSE
  /\ put = {} /\ orig = <<>> /\ owed = <<>> /\ lost = {} /\ gap = {}
  /\ edits = 0 /\ faults = 0 /\ reviews = 1

-----------------------------------------------------------------------------
\* A call fails; the step says what the program does about it.
Fails == faults < MaxFaults /\ faults' = faults + 1
Works == UNCHANGED faults

Goto(l) == pc' = l
Quiet == UNCHANGED <<edits, reviews, caught>>
NewContents(f) == [read[f] EXCEPT !.text = "answered"]

\* The next of `S` in path order after file `f`, or 0.
NextIn(S, f) ==
  IF \E g \in S : g > f THEN CHOOSE g \in S : g > f /\ \A h \in S : h > f => g <= h ELSE 0

\* Mutant: a write that failed once is not tried again.
BeginOnce ==
  /\ pc = "idle"
  /\ status = "waiting" /\ ~werr
  /\ Goto("matched")
  /\ UNCHANGED <<disk, temp, backup, session, read, written, current, left, history, faults>> /\ Quiet

\* The session stands for others only while it waits; every other status ends
\* the call with no change.
Begin ==
  /\ pc = "idle"
  /\ status = "waiting"
  /\ IF \A f \in Files : disk[f].text = "asked" THEN Goto("matched") ELSE Goto("return")
  /\ UNCHANGED <<disk, temp, backup, session, read, written, current, left, history, faults>> /\ Quiet

\* An answered comment is gone or reads differently: its file's requests get the
\* program's note and the session goes to the agent.
Return ==
  /\ pc = "return"
  /\ \/ Works /\ status' = "notes" /\ werr' = FALSE /\ Goto("unlist")
     \/ Fails /\ UNCHANGED <<status, werr>> /\ Goto("release")
  /\ UNCHANGED <<disk, temp, backup, decided, listed, read, written, current, left, history>> /\ Quiet

\* Reads the files again and rewrites them in memory.  A comment that moved in
\* between fails the write before anything is written.
Rewrite ==
  /\ pc = "matched"
  /\ IF \A f \in Files : disk[f].text = "asked"
     THEN read' = [f \in Changed |-> disk[f]] /\ Goto("mark")
     ELSE UNCHANGED read /\ Goto("refuse")
  /\ UNCHANGED <<disk, temp, backup, session, written, current, left, history, faults>> /\ Quiet

\* A file cannot be read: the session is left as it is.
CannotRead ==
  /\ pc \in {"matched", "return"}
  /\ Fails
  /\ Goto("release")
  /\ UNCHANGED <<disk, temp, backup, session, read, written, current, left, history>> /\ Quiet

\* Stop signals wait from here to Release.
Mark ==
  /\ pc = "mark"
  /\ \/ Works /\ status' = "writing" /\ werr' = FALSE /\ Goto("folder")
     \/ Fails /\ UNCHANGED <<status, werr>> /\ Goto("release")
  /\ UNCHANGED <<disk, temp, backup, decided, listed, read, written, current, left, history>> /\ Quiet

\* Mutant: a folder already there is used.
MakeFolderOver ==
  /\ pc = "folder"
  /\ backup' = [made |-> TRUE, has |-> <<>>] /\ Goto("save") /\ Works
  /\ current' = NextIn(Changed, 0)
  /\ UNCHANGED <<disk, temp, session, read, written, left, history>> /\ Quiet

\* A folder already there may hold the only copy of an earlier write's originals.
MakeFolder ==
  /\ pc = "folder"
  /\ \/ Works /\ ~backup.made /\ backup' = [made |-> TRUE, has |-> <<>>] /\ Goto("save")
     \/ Works /\ backup.made /\ UNCHANGED backup /\ Goto("refuse")
     \/ Fails /\ ~backup.made /\ UNCHANGED backup /\ Goto("refuse")
  /\ current' = NextIn(Changed, 0)
  /\ UNCHANGED <<disk, temp, session, read, written, left, history>> /\ Quiet

\* Removing the folder is a best effort.
RemoveFolder ==
  \/ Works /\ backup' = NoFolder
  \/ Fails /\ UNCHANGED backup

SaveOriginal ==
  /\ pc = "save"
  /\ IF current = 0 THEN Goto("write") /\ current' = NextIn(Changed, 0) /\ UNCHANGED backup /\ Works
     ELSE \/ /\ Works
             /\ backup' = [backup EXCEPT !.has = [f \in DOMAIN @ \cup {current} |-> read[f]]]
             /\ current' = NextIn(Changed, current)
             /\ UNCHANGED pc
          \/ Fails /\ Goto("discard") /\ UNCHANGED <<backup, current>>
  /\ UNCHANGED <<disk, temp, session, read, written, left, history>> /\ Quiet

\* Nothing is written yet, so the folder goes and the write is refused.
Discard ==
  /\ pc = "discard"
  /\ RemoveFolder
  /\ Goto("refuse")
  /\ UNCHANGED <<disk, temp, session, read, written, current, left, history>> /\ Quiet

-----------------------------------------------------------------------------
\* Replacing one file, when writing (`write`, `check`, `swap`) and when putting
\* back (`undo`, `recheck`, `swapback`).  Where a step leads when it does not work
\* differs: a write is undone, a put-back goes on past the file.

CreateTemp(here, next) ==
  /\ pc = here /\ current # 0
  /\ Works /\ current \notin temp
  /\ temp' = temp \cup {current}
  /\ Goto(next)
  /\ UNCHANGED <<disk, backup, session, read, written, current, left, history>> /\ Quiet

Undone == Goto("undo") /\ current' = NextIn(written, 0) /\ UNCHANGED left
LeftBehind == Goto("undo") /\ current' = NextIn(written, current) /\ left' = left \cup {current}

\* The temporary file is in the way, or cannot be made.
NoTemp(here, Otherwise) ==
  /\ pc = here /\ current # 0
  /\ IF current \in temp THEN Works ELSE Fails
  /\ Otherwise
  /\ UNCHANGED <<disk, temp, backup, session, read, written, history>> /\ Quiet

\* The comparison comes after the slow sync of the temporary file.
Matches(here, expected, next) ==
  /\ pc = here /\ disk[current] = expected
  /\ Goto(next) /\ Works
  /\ UNCHANGED <<disk, temp, backup, session, read, written, current, left, history>> /\ Quiet

\* The file holds something else, which writing over it would lose.
Differs(here, expected, Otherwise) ==
  /\ pc = here /\ disk[current] # expected
  /\ \/ Works /\ temp' = temp \ {current}
     \/ Fails /\ UNCHANGED temp
  /\ Otherwise
  /\ UNCHANGED <<disk, backup, session, read, written, history>> /\ Quiet

RenameFails(here, Otherwise) ==
  /\ pc = here
  /\ Fails
  /\ temp' = temp \ {current}
  /\ Otherwise
  /\ UNCHANGED <<disk, backup, session, read, written, history>> /\ Quiet

Replace(contents) ==
  /\ disk' = [disk EXCEPT ![current] = contents]
  /\ temp' = temp \ {current}
  /\ lost' = lost \cup (disk[current].edits \ contents.edits)
  /\ UNCHANGED <<owed, gap>>

\* Mutant: a stop signal ends the write where it is.
SwapStops ==
  /\ pc = "swap"
  /\ Works
  /\ Replace(NewContents(current))
  /\ put' = put \cup {current}
  /\ orig' = [f \in DOMAIN orig \cup {current} |-> IF f = current THEN disk[f] ELSE orig[f]]
  /\ written' = written \cup {current}
  /\ IF caught THEN Goto("refuse") /\ current' = 0
               ELSE Goto("write") /\ current' = NextIn(Changed, current)
  /\ UNCHANGED <<backup, session, read, left>> /\ Quiet

\* A stop signal that came meanwhile undoes the write, also after its last file.
Swap ==
  /\ pc = "swap"
  /\ Works
  /\ Replace(NewContents(current))
  /\ put' = put \cup {current}
  /\ orig' = [f \in DOMAIN orig \cup {current} |-> IF f = current THEN disk[f] ELSE orig[f]]
  /\ written' = written \cup {current}
  /\ IF caught THEN Goto("undo") /\ current' = NextIn(written', 0)
               ELSE Goto("write") /\ current' = NextIn(Changed, current)
  /\ UNCHANGED <<backup, session, read, left>> /\ Quiet

SwapBack ==
  /\ pc = "swapback"
  /\ Works
  /\ Replace(read[current])
  /\ put' = put \ {current}
  /\ UNCHANGED orig
  /\ Goto("undo") /\ current' = NextIn(written, current)
  /\ UNCHANGED <<backup, session, read, written, left>> /\ Quiet

WriteFile ==
  \/ CreateTemp("write", "check") \/ NoTemp("write", Undone)
  \/ Matches("check", read[current], "swap") \/ Differs("check", read[current], Undone)
  \/ Swap \/ RenameFails("swap", Undone)

\* Mutant: a put-back does not look at the file.
PutBackBlindly ==
  \/ CreateTemp("undo", "swapback") \/ NoTemp("undo", LeftBehind)
  \/ SwapBack \/ RenameFails("swapback", LeftBehind)

PutBack ==
  \/ CreateTemp("undo", "recheck") \/ NoTemp("undo", LeftBehind)
  \/ Matches("recheck", NewContents(current), "swapback")
  \/ Differs("recheck", NewContents(current), LeftBehind)
  \/ SwapBack \/ RenameFails("swapback", LeftBehind)

\* The originals go only when every file went back, and only then is the session
\* waiting again.
UndoEnds ==
  /\ pc = "undo" /\ current = 0
  /\ IF left = {} THEN RemoveFolder /\ Goto("refuse")
                  ELSE Works /\ UNCHANGED backup /\ Goto("release")
  /\ UNCHANGED <<disk, temp, session, read, written, current, left, history>> /\ Quiet

-----------------------------------------------------------------------------
\* Mutant: the decisions are saved before the files are written out.
DecideEarly ==
  /\ pc = "write"
  /\ Works /\ decided' = TRUE /\ Goto("done")
  /\ UNCHANGED <<disk, temp, backup, status, werr, listed, read, written, current, left, history>> /\ Quiet

Decide ==
  /\ pc = "write" /\ current = 0
  /\ \/ Works /\ decided' = TRUE /\ Goto("done") /\ UNCHANGED <<current, left>>
     \/ Fails /\ UNCHANGED decided /\ Undone
  /\ UNCHANGED <<disk, temp, backup, status, werr, listed, read, written, history>> /\ Quiet

Done ==
  /\ pc = "done"
  /\ \/ Works /\ status' = "done" /\ werr' = FALSE /\ Goto("remove")
     \/ Fails /\ UNCHANGED <<status, werr>> /\ Goto("release")
  /\ UNCHANGED <<disk, temp, backup, decided, listed, read, written, current, left, history>> /\ Quiet

Remove ==
  /\ pc = "remove"
  /\ RemoveFolder
  /\ Goto("unlist")
  /\ UNCHANGED <<disk, temp, session, read, written, current, left, history>> /\ Quiet

Unlist ==
  /\ pc = "unlist"
  /\ \/ Works /\ listed' = FALSE
     \/ Fails /\ UNCHANGED listed
  /\ Goto("release")
  /\ UNCHANGED <<disk, temp, backup, status, werr, decided, read, written, current, left, history>> /\ Quiet

\* Every file is as it was: the session waits again and says why.
Refuse ==
  /\ pc = "refuse"
  /\ \/ Works /\ status' = "waiting" /\ werr' = TRUE
     \/ Fails /\ UNCHANGED <<status, werr>>
  /\ Goto("release")
  /\ UNCHANGED <<disk, temp, backup, decided, listed, read, written, current, left, history>> /\ Quiet

Ended == pc' = "idle" /\ read' = <<>> /\ written' = {} /\ current' = 0 /\ left' = {} /\ caught' = FALSE

\* The lock goes with the call, and a signal that waited ends the program.
Release ==
  /\ pc = "release"
  /\ Ended
  /\ UNCHANGED <<disk, temp, backup, session, history, bounds>>

Step ==
  \/ Return \/ Rewrite \/ CannotRead \/ Mark \/ MakeFolder \/ SaveOriginal \/ Discard
  \/ WriteFile \/ PutBack \/ UndoEnds
  \/ Decide \/ Done \/ Remove \/ Unlist \/ Refuse \/ Release

-----------------------------------------------------------------------------
\* What happens around the program.

Signal ==
  /\ Signals
  /\ pc \notin {"idle", "matched", "return"}
  /\ ~caught
  /\ caught' = TRUE
  /\ UNCHANGED <<disk, temp, backup, session, program, history, bounds>>

\* Also a stop signal that comes before signals are held.
Killed ==
  /\ Kills
  /\ pc # "idle"
  /\ Ended
  /\ UNCHANGED <<disk, temp, backup, session, history, bounds>>

Edit(f) ==
  /\ edits < MaxEdits
  /\ edits' = edits + 1
  /\ \E text \in {disk[f].text, "asked", "other"} :
       disk' = [disk EXCEPT ![f] = [text |-> text, edits |-> @.edits \cup {edits + 1}]]
  /\ gap' = IF pc \in {"swap", "swapback"} /\ current = f THEN gap \cup {edits + 1} ELSE gap
  /\ UNCHANGED <<temp, backup, session, program, caught, put, orig, owed, lost, faults, reviews>>

\* The user looks at git status and removes what a write left behind, as its
\* message asks.
CleanUp ==
  /\ pc = "idle" /\ status # "writing"
  /\ temp # {} \/ backup.made
  /\ temp' = {} /\ backup' = NoFolder /\ owed' = <<>>
  /\ UNCHANGED <<disk, session, program, caught, put, orig, lost, gap, bounds>>

\* The agent sends another list and the user answers it.  After a write that did
\* not finish, the user has removed the saved session first: nothing else ends it.
NextReview ==
  /\ pc = "idle" /\ status # "waiting"
  /\ reviews < MaxReviews
  /\ reviews' = reviews + 1
  /\ disk' = [f \in Files |-> [disk[f] EXCEPT !.text = "asked"]]
  /\ status' = "waiting" /\ werr' = FALSE /\ decided' = FALSE /\ listed' = TRUE
  /\ put' = {} /\ orig' = <<>>
  /\ owed' = IF status = "writing" /\ put # {} THEN [f \in put |-> orig[f]] ELSE owed
  /\ UNCHANGED <<temp, backup, program, caught, lost, gap, edits, faults>>

Next ==
  \/ Begin \/ Step \/ Signal \/ Killed \/ CleanUp \/ NextReview
  \/ \E f \in Files : Edit(f)

Spec == Init /\ [][Next]_vars
=============================================================================
