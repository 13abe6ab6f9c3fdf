----------------------------- MODULE FsJournal ------------------------------
(***************************************************************************)
(* One installer process at a time (installer.lock) that recovers old      *)
(* journals, runs its managers, and commits or rolls back.  Manager m of   *)
(* 1..N owns journal m.  Every action is one system call, or one durable   *)
(* write of a journal file, so that Crash can fall between any two.        *)
(*                                                                         *)
(* The durable state is fs, side, files, disk and group; the rest is the   *)
(* memory of the process and is lost when it exits.                        *)
(***************************************************************************)
EXTENDS JournalRecords, FiniteSets

CONSTANTS
  N,          \* managers that take part in an install
  Recorders,  \* managers that back up and record (chezmoi); others activate
  Shared,     \* destinations that more than one manager changes
  MaxFaults   \* bound: system calls that fail in one process

Journal == 1..N

ASSUME NAssumption == N \in Nat \ {0}
ASSUME RecordersAssumption == Recorders \subseteq Journal
ASSUME SharedAssumption == Shared \subseteq Dest
ASSUME MaxFaultsAssumption == MaxFaults \in Nat

VARIABLES
  fs,      \* what is at each destination
  side,    \* what is at the stage or backup path of a journal for a destination
  files,   \* journals whose file exists
  disk,    \* what the journal files hold
  group,   \* members named by the commit-group file, {} when there is none
  pc,      \* where the process is
  cur,     \* the journal in hand
  todo,    \* journals the current loop has left
  ret,     \* where finishCommit or rollback returns to
  open,    \* journals of this process that have a path
  mem,     \* Journal.state of this process
  faults   \* system calls that failed in this process

durable == <<fs, side, files, disk, group>>
vars == <<fs, side, files, disk, group, pc, cur, todo, ret, open, mem, faults>>

InstallPcs == {"run", "swap", "swapped", "back", "backDrop", "failed", "callFailed",
               "untracked", "discard", "fail", "commit", "mark", "finishNext"}
RecoverPcs == {"groupLoad", "scan"}
Pcs == {"off", "undo", "finish"} \cup InstallPcs \cup RecoverPcs
Rets == {"none", "scan", "fail", "revert", "untracked", "commit"}

\* Where a Revert returns to: the manager's deferred calls.
Reverts == {"revert", "untracked"}

TypeOK ==
  /\ fs \in [Dest -> Place]
  /\ side \in [Journal \X Dest -> Place]
  /\ files \in SUBSET Journal
  /\ disk \in [Journal -> JournalState]
  /\ group \in SUBSET Journal
  /\ pc \in Pcs
  /\ cur \in Journal
  /\ todo \in SUBSET Journal
  /\ ret \in Rets
  /\ open \in SUBSET Journal
  /\ mem \in [Journal -> JournalState]
  /\ faults \in 0..MaxFaults

\* A home no installer has touched: no journals, one inode per path.
Init ==
  /\ fs \in [Dest -> Place]
  /\ \A d, e \in Dest : d # e /\ fs[d] # NoFile => IdentityOf(fs[d]) # IdentityOf(fs[e])
  /\ side = [p \in Journal \X Dest |-> NoFile]
  /\ files = {}
  /\ disk = [j \in Journal |-> EmptyState]
  /\ group = {}
  /\ pc = "off" /\ cur = 1 /\ todo = {} /\ ret = "none"
  /\ open = {} /\ mem = [j \in Journal |-> EmptyState] /\ faults = 0

-----------------------------------------------------------------------------
\* Steps the actions are made of.

Used == {IdentityOf(fs[d]) : d \in Dest} \cup {IdentityOf(side[p]) : p \in Journal \X Dest}

NewObject == [ino : Ino \ Used, data : Data]

Firsts(S) == {j \in S : \A k \in S : j <= k}
Latests(S) == {j \in S : \A k \in S : k <= j}

\* persist: an atomic rename over the journal file, then a directory sync.
Persist(j, state) ==
  /\ disk' = [disk EXCEPT ![j] = state]
  /\ files' = files \cup {j}

\* A journal write that returns an error may or may not have landed.
MayPersist(j, state) == Persist(j, state) \/ UNCHANGED <<files, disk>>

Fault ==
  /\ faults < MaxFaults
  /\ faults' = faults + 1

\* The process ends and its memory is gone; the lock is released.
Exit ==
  /\ pc' = "off" /\ cur' = 1 /\ todo' = {} /\ ret' = "none"
  /\ open' = {} /\ mem' = [j \in Journal |-> EmptyState]

Remember(j, state) == mem' = [mem EXCEPT ![j] = state]

\* No more I/O for the moment: control passes to label l.
Goto(l) == pc' = l /\ UNCHANGED <<cur, todo, ret>>

\* rollback or finishCommit of the journal in hand returns nil.
ReturnOk ==
  /\ \/ ret = "scan" /\ pc' = "scan"
     \/ ret = "fail" /\ pc' = "fail"
     \/ ret \in Reverts /\ pc' = "discard"
     \/ ret = "commit" /\ pc' = "finishNext"
  /\ UNCHANGED <<cur, todo, ret>>

\* ... returns an error: fail() goes on with the next journal, the deferred
\* calls of a failing manager still run, recovery and commit give up.
ReturnError ==
  \/ ret \in {"scan", "commit"} /\ Exit
  \/ /\ \/ ret = "fail" /\ pc' = "fail"
        \/ ret \in Reverts /\ pc' = "discard"
     /\ UNCHANGED <<cur, todo, ret, open, mem>>

-----------------------------------------------------------------------------
\* Starting, recovering and crashing.

\* install, doctor or list takes the lock; RecoverJournals reads the directory.
Start ==
  /\ pc = "off"
  /\ pc' = IF group # {} THEN "groupLoad" ELSE "scan"
  /\ todo' = group
  /\ faults' = 0
  /\ UNCHANGED <<durable, cur, ret, open, mem>>

Crash ==
  /\ pc # "off"
  /\ Exit
  /\ UNCHANGED <<durable, faults>>

\* Mutant: a member is taken off the list without being marked committed.
RecoverMemberUnmarked ==
  /\ pc = "groupLoad" /\ todo # {}
  /\ \E j \in Firsts(todo) : todo' = todo \ {j}
  /\ UNCHANGED <<durable, pc, cur, ret, open, mem, faults>>

\* recoverCommitGroup marks one member; a missing member ends the command.
RecoverMember ==
  /\ pc = "groupLoad" /\ todo # {}
  /\ \E j \in Firsts(todo) :
       \/ /\ j \in files
          /\ Persist(j, [disk[j] EXCEPT !.committed = TRUE])
          /\ todo' = todo \ {j}
          /\ UNCHANGED <<pc, cur, ret, open, mem, faults>>
       \/ /\ Exit
          /\ IF j \in files
             THEN Fault /\ MayPersist(j, [disk[j] EXCEPT !.committed = TRUE])
             ELSE UNCHANGED <<files, disk, faults>>
  /\ UNCHANGED <<fs, side, group>>

\* ... and then removes the group file.
RecoverGroupDone ==
  /\ pc = "groupLoad" /\ todo = {}
  /\ \/ /\ group' = {}
        /\ Goto("scan")
        /\ UNCHANGED <<open, mem, faults>>
     \/ /\ Fault
        /\ group' \in {{}, group}
        /\ Exit
  /\ UNCHANGED <<fs, side, files, disk>>

\* RecoverJournals loads the next journal; file names are random, so any order.
RecoverNext ==
  /\ pc = "scan"
  /\ \E j \in files :
       /\ cur' = j
       /\ Remember(j, disk[j])
       /\ open' = open \cup {j}
       /\ pc' = IF disk[j].committed THEN "finish" ELSE "undo"
  /\ ret' = "scan"
  /\ UNCHANGED <<durable, todo, faults>>

\* Recovery is over: install runs its managers, doctor and list only report.
\* A new install stages under fresh names, so what earlier ones left at
\* unjournaled side paths plays no further part.
RecoverDone ==
  /\ pc = "scan" /\ files = {}
  /\ \/ /\ pc' = "run" /\ cur' = 1 /\ ret' = "none"
        /\ side' = [p \in Journal \X Dest |-> NoFile]
        /\ UNCHANGED <<todo, open, mem>>
     \/ /\ Exit
        /\ UNCHANGED side
  /\ UNCHANGED <<fs, files, disk, group, faults>>

-----------------------------------------------------------------------------
\* A manager at work on its own journal.

\* No two managers change one destination, except the shared ones.
MayTouch(d) ==
  /\ ~Touches(mem[cur], d)
  /\ d \in Shared \/ \A j \in Journal : ~Touches(mem[j], d)

\* Managers prepare one path at a time.
Prepared(d) == side[<<cur, d>>] # NoFile /\ ~Touches(mem[cur], d)
NonePrepared == \A d \in Dest : ~Prepared(d)

\* A manager builds a new version in its workspace below HOME.
Stage(d) ==
  /\ pc = "run" /\ cur \notin Recorders
  /\ NonePrepared /\ MayTouch(d) /\ side[<<cur, d>>] = NoFile
  /\ \E o \in NewObject : side' = [side EXCEPT ![<<cur, d>>] = o]
  /\ UNCHANGED <<fs, files, disk, group, pc, cur, todo, ret, open, mem, faults>>

\* CopyPath: the same content under a new inode.
CopyBackup(d) ==
  /\ pc = "run" /\ cur \in Recorders
  /\ NonePrepared /\ MayTouch(d) /\ side[<<cur, d>>] = NoFile
  /\ fs[d] # NoFile
  /\ \E o \in NewObject :
       /\ o.data = fs[d].data
       /\ side' = [side EXCEPT ![<<cur, d>>] = o]
  /\ UNCHANGED <<fs, files, disk, group, pc, cur, todo, ret, open, mem, faults>>

\* ready() names the journal on its first use.
Ready == open' = open \cup {cur}

Intent(d) ==
  [dest |-> d, activated |-> TRUE, existed |-> fs[d] # NoFile, complete |-> FALSE,
   stageID |-> IdentityOf(side[<<cur, d>>]), keepID |-> IdentityOf(fs[d])]

\* Where a failing journal call leads.  Not every caller reverts its first one
\* ("callFailed").  A manager notes in `tracked` that AddCleanup returned; some do so
\* only after the first Activate that follows.  Until then its deferred RemoveAll
\* takes the workspace, whatever the journal says ("untracked").
FirstActivation(n) == Len(mem[cur].changes) = n /\ ~mem[cur].cleanup
ActivateFails(n) ==
  \/ Goto(IF FirstActivation(n) THEN "callFailed" ELSE "failed")
  \/ Len(mem[cur].changes) = n /\ mem[cur].cleanup /\ Goto("untracked")

WithChange(state, c) == [state EXCEPT !.changes = Append(@, c)]

\* Activate, up to the write of the intent; the change is popped on an error.
ActivateIntent(d) ==
  /\ pc = "run" /\ cur \notin Recorders /\ Prepared(d)
  /\ Ready
  /\ LET state == WithChange(mem[cur], Intent(d)) IN
       \/ /\ Persist(cur, state) /\ Remember(cur, state)
          /\ Goto("swap")
          /\ UNCHANGED faults
       \/ /\ Fault /\ MayPersist(cur, state)
          /\ ActivateFails(0)
          /\ UNCHANGED mem
  /\ UNCHANGED <<fs, side, group>>

\* fsutil.Activate: exchange with what is there, or rename into place.
Exchange(j, d) ==
  /\ fs' = [fs EXCEPT ![d] = side[<<j, d>>]]
  /\ side' = [side EXCEPT ![<<j, d>>] = fs[d]]

ActivateSwap ==
  /\ pc = "swap"
  /\ \/ /\ Exchange(cur, Last(mem[cur].changes).dest)
        /\ Goto("swapped")
        /\ UNCHANGED faults
     \/ /\ Fault
        /\ ActivateFails(1)
        /\ UNCHANGED <<fs, side>>
  /\ UNCHANGED <<files, disk, group, open, mem>>

Completed(state) ==
  [state EXCEPT !.changes = Front(@) \o <<[Last(@) EXCEPT !.complete = TRUE]>>]

\* Directory sync, then the change is recorded as complete.
ActivateEnd ==
  /\ pc = "swapped"
  /\ LET state == Completed(mem[cur]) IN
       \/ /\ Persist(cur, state) /\ Remember(cur, state)
          /\ Goto("run")
          /\ UNCHANGED faults
       \/ /\ Fault
          /\ \/ UNCHANGED <<files, disk, mem>>
             \/ MayPersist(cur, state) /\ Remember(cur, state)
          /\ Goto("back")
  /\ UNCHANGED <<fs, side, group, open>>

\* Rollback(destination, backup) inside a failing Activate: put back ...
ActivateBack ==
  /\ pc = "back"
  /\ LET c == Last(mem[cur].changes) IN
       \/ /\ c.existed
          /\ Exchange(cur, c.dest)
          /\ Goto("backDrop")
          /\ UNCHANGED faults
       \/ /\ ~c.existed
          /\ fs' = [fs EXCEPT ![c.dest] = NoFile]
          /\ ActivateFails(1)
          /\ UNCHANGED <<side, faults>>
       \/ /\ Fault
          /\ ActivateFails(1)
          /\ UNCHANGED <<fs, side>>
  /\ UNCHANGED <<files, disk, group, open, mem>>

\* ... and remove the stage.
ActivateBackDrop ==
  /\ pc = "backDrop"
  /\ \/ /\ side' = [side EXCEPT ![<<cur, Last(mem[cur].changes).dest>>] = NoFile]
        /\ UNCHANGED faults
     \/ Fault /\ UNCHANGED side
  /\ ActivateFails(1)
  /\ UNCHANGED <<fs, files, disk, group, open, mem>>

\* Mutant: the destination is identified instead of the backup.
RecordedDestination(d) ==
  [dest |-> d, activated |-> FALSE, existed |-> fs[d] # NoFile, complete |-> TRUE,
   stageID |-> NoIno, keepID |-> IdentityOf(fs[d])]

Recorded(d) ==
  [dest |-> d, activated |-> FALSE, existed |-> fs[d] # NoFile, complete |-> TRUE,
   stageID |-> NoIno, keepID |-> IdentityOf(side[<<cur, d>>])]

\* RecordReplaced after the copy, RecordCreated where nothing is; the change
\* stays in memory when the write fails.
Record(d) ==
  /\ pc = "run" /\ cur \in Recorders
  /\ Prepared(d) \/ (NonePrepared /\ MayTouch(d) /\ fs[d] = NoFile)
  /\ Ready
  /\ LET state == WithChange(mem[cur], Recorded(d)) IN
       /\ Remember(cur, state)
       /\ \/ /\ Persist(cur, state)
             /\ Goto("run")
             /\ UNCHANGED faults
          \/ /\ Fault /\ MayPersist(cur, state)
             /\ Goto("failed")
  /\ UNCHANGED <<fs, side, group>>

\* chezmoi removes, replaces or rewrites in place what has been recorded.
Mutate(d) ==
  /\ pc = "run" /\ cur \in Recorders
  /\ Touches(mem[cur], d)
  /\ \/ fs' = [fs EXCEPT ![d] = NoFile]
     \/ \E o \in NewObject : fs' = [fs EXCEPT ![d] = o]
     \/ fs[d] # NoFile /\ \E v \in Data : fs' = [fs EXCEPT ![d].data = v]
  /\ UNCHANGED <<side, files, disk, group, pc, cur, todo, ret, open, mem, faults>>

\* AddCleanup(workspace), which holds the stages.
AddCleanup ==
  /\ pc = "run" /\ cur \notin Recorders /\ ~mem[cur].cleanup
  /\ Ready
  /\ LET state == [mem[cur] EXCEPT !.cleanup = TRUE] IN
       /\ Remember(cur, state)
       /\ \/ /\ Persist(cur, state)
             /\ Goto("run")
             /\ UNCHANGED faults
          \/ /\ Fault /\ MayPersist(cur, state)
             /\ Goto(IF mem[cur].changes = <<>> THEN "callFailed" ELSE "untracked")
  /\ UNCHANGED <<fs, side, group>>

\* The manager returned its journal; the next one runs, or all commit.
ManagerDone ==
  /\ pc = "run" /\ NonePrepared
  /\ \/ cur < N /\ cur' = cur + 1 /\ UNCHANGED pc
     \/ cur = N /\ pc' = "commit" /\ UNCHANGED cur
  /\ UNCHANGED <<durable, todo, ret, open, mem, faults>>

\* A download, build, verification or chezmoi run of the manager fails; no
\* manager runs any between its first activation and AddCleanup.
ManagerFails ==
  /\ pc = "run"
  /\ cur \in Recorders \/ mem[cur].changes = <<>> \/ mem[cur].cleanup
  /\ Goto("failed")
  /\ UNCHANGED <<durable, open, mem, faults>>

-----------------------------------------------------------------------------
\* A failed manager: Revert, deferred calls, then fail() over the others.

\* Most managers return journal.Revert(err); some return the error of their
\* first journal call as it is and leave the journal to the next recovery.
Revert ==
  /\ pc \in {"failed", "callFailed", "untracked"}
  /\ \/ /\ cur \in open /\ pc' = "undo"
        /\ ret' = IF pc = "failed" THEN "revert" ELSE "untracked"
     \/ (cur \in open => pc = "callFailed") /\ pc' = "discard" /\ UNCHANGED ret
  /\ UNCHANGED <<durable, cur, todo, open, mem, faults>>

\* Mutant: the deferred removal ignores that the journal tracks the workspace.
DiscardTracked ==
  /\ pc = "discard"
  /\ side' = [p \in Journal \X Dest |-> IF p[1] = cur THEN NoFile ELSE side[p]]
  /\ pc' = "fail"
  /\ todo' = {j \in open : j < cur}
  /\ UNCHANGED <<fs, files, disk, group, cur, ret, open, mem, faults>>

\* The deferred RemoveAll of a workspace that is not `tracked`.
Discard ==
  /\ pc = "discard"
  /\ side' = IF cur \in Recorders \/ (ret = "revert" /\ mem[cur].cleanup) THEN side
             ELSE [p \in Journal \X Dest |-> IF p[1] = cur THEN NoFile ELSE side[p]]
  /\ pc' = "fail"
  /\ todo' = {j \in open : j < cur}
  /\ UNCHANGED <<fs, files, disk, group, cur, ret, open, mem, faults>>

\* fail(): the journals of finished managers, last first, errors joined.
FailNext ==
  /\ pc = "fail" /\ todo # {}
  /\ \E j \in Latests(todo) : cur' = j /\ todo' = todo \ {j}
  /\ pc' = "undo" /\ ret' = "fail"
  /\ UNCHANGED <<durable, open, mem, faults>>

FailDone ==
  /\ pc = "fail" /\ todo = {}
  /\ Exit
  /\ UNCHANGED <<durable, faults>>

-----------------------------------------------------------------------------
\* rollback of the journal in hand: changes last to first.

Undoing == pc = "undo" /\ mem[cur].changes # <<>>
Subject == IF pc = "undo" THEN Last(mem[cur].changes) ELSE Head(mem[cur].changes)
AtDest == fs[Subject.dest]
AtSide == side[<<cur, Subject.dest>>]

\* A system call of rollbackChange fails.
UndoFault ==
  /\ pc \in {"undo", "finish"}
  /\ Fault
  /\ ReturnError
  /\ UNCHANGED durable

UndoSwap ==
  /\ Undoing /\ NeedsSwap(Subject, AtDest, AtSide)
  /\ Exchange(cur, Subject.dest)
  /\ UNCHANGED <<files, disk, group, pc, cur, todo, ret, open, mem, faults>>

UndoDropDest ==
  /\ Undoing /\ NeedsDropDest(Subject, AtDest)
  /\ fs' = [fs EXCEPT ![Subject.dest] = NoFile]
  /\ UNCHANGED <<side, files, disk, group, pc, cur, todo, ret, open, mem, faults>>

UndoDropAlt ==
  /\ Undoing /\ NeedsDropAlt(Subject, AtDest, AtSide)
  /\ side' = [side EXCEPT ![<<cur, Subject.dest>>] = NoFile]
  /\ UNCHANGED <<fs, files, disk, group, pc, cur, todo, ret, open, mem, faults>>

\* Rewrite the journal in hand while its file goes on existing.
Rewrite(state) ==
  /\ Remember(cur, state)
  /\ Persist(cur, state)
  /\ UNCHANGED <<fs, side, group, pc, cur, todo, ret, open, faults>>

RewriteFault(state) ==
  /\ Fault
  /\ MayPersist(cur, state)
  /\ ReturnError
  /\ UNCHANGED <<fs, side, group>>

UndoPop ==
  /\ Undoing /\ Undone(Subject, AtDest, AtSide)
  /\ LET state == [mem[cur] EXCEPT !.changes = Front(@)] IN
       Rewrite(state) \/ RewriteFault(state)

UndoConflict ==
  /\ Undoing /\ Conflict(Subject, AtDest, AtSide)
  /\ ReturnError
  /\ UNCHANGED <<durable, faults>>

-----------------------------------------------------------------------------
\* finishCommit of the journal in hand: backups of its changes first to last.

Finishing == pc = "finish" /\ mem[cur].changes # <<>>

FinishDrop ==
  /\ Finishing /\ HasBackup(Subject) /\ AtSide # NoFile
  /\ side' = [side EXCEPT ![<<cur, Subject.dest>>] = NoFile]
  /\ UNCHANGED <<fs, files, disk, group, pc, cur, todo, ret, open, mem, faults>>

FinishPop ==
  /\ Finishing /\ (HasBackup(Subject) => AtSide = NoFile)
  /\ LET state == [mem[cur] EXCEPT !.changes = Tail(@)] IN
       Rewrite(state) \/ RewriteFault(state)

-----------------------------------------------------------------------------
\* The common end of rollback and finishCommit.

Ending == pc \in {"undo", "finish"} /\ mem[cur].changes = <<>>

WorkspaceGone == cur \in Recorders \/ \A d \in Dest : side[<<cur, d>>] = NoFile

\* cleanTracked removes the workspace and everything staged in it ...
CleanDrop ==
  /\ Ending /\ mem[cur].cleanup /\ ~WorkspaceGone
  /\ side' = [p \in Journal \X Dest |-> IF p[1] = cur THEN NoFile ELSE side[p]]
  /\ UNCHANGED <<fs, files, disk, group, pc, cur, todo, ret, open, mem, faults>>

\* ... and forgets it.
CleanPop ==
  /\ Ending /\ mem[cur].cleanup /\ WorkspaceGone
  /\ LET state == [mem[cur] EXCEPT !.cleanup = FALSE] IN
       Rewrite(state) \/ RewriteFault(state)

\* removeJournal.
RemoveJournal ==
  /\ Ending /\ ~mem[cur].cleanup
  /\ \/ /\ files' = files \ {cur}
        /\ disk' = [disk EXCEPT ![cur] = EmptyState]
        /\ open' = open \ {cur}
        /\ Remember(cur, EmptyState)
        /\ ReturnOk
        /\ UNCHANGED faults
     \/ /\ Fault
        /\ \/ UNCHANGED <<files, disk>>
           \/ files' = files \ {cur} /\ disk' = [disk EXCEPT ![cur] = EmptyState]
        /\ ReturnError
  /\ UNCHANGED <<fs, side, group>>

-----------------------------------------------------------------------------
\* CommitJournals.

\* The commit point: one file names every journal that has a path.
WriteGroup ==
  /\ pc = "commit"
  /\ \/ open = {} /\ Exit /\ UNCHANGED <<group, faults>>
     \/ /\ open # {}
        /\ group' = open
        /\ pc' = "mark" /\ todo' = open
        /\ UNCHANGED <<cur, ret, open, mem, faults>>
     \/ /\ open # {} /\ Fault
        /\ group' \in {group, open}
        /\ Exit
  /\ UNCHANGED <<fs, side, files, disk>>

\* Mutant: only the first member is marked.
MarkFirst ==
  /\ pc = "mark" /\ todo # {}
  /\ \E j \in Firsts(todo) :
       LET state == [mem[j] EXCEPT !.committed = TRUE]
       IN Persist(j, state) /\ Remember(j, state)
  /\ todo' = {}
  /\ UNCHANGED <<fs, side, group, pc, cur, ret, open, faults>>

MarkCommitted ==
  /\ pc = "mark" /\ todo # {}
  /\ \E j \in Firsts(todo) :
       LET state == [mem[j] EXCEPT !.committed = TRUE] IN
       \/ /\ Persist(j, state) /\ Remember(j, state)
          /\ todo' = todo \ {j}
          /\ UNCHANGED <<pc, cur, ret, open, faults>>
       \/ /\ Fault /\ MayPersist(j, state)
          /\ Exit
  /\ UNCHANGED <<fs, side, group>>

RemoveGroup ==
  /\ pc = "mark" /\ todo = {}
  /\ \/ /\ group' = {}
        /\ pc' = "finishNext" /\ ret' = "commit"
        /\ UNCHANGED <<cur, todo, open, mem, faults>>
     \/ /\ Fault
        /\ group' \in {{}, group}
        /\ Exit
  /\ UNCHANGED <<fs, side, files, disk>>

FinishNext ==
  /\ pc = "finishNext" /\ open # {}
  /\ cur' \in Firsts(open)
  /\ pc' = "finish"
  /\ UNCHANGED <<durable, todo, ret, open, mem, faults>>

FinishDone ==
  /\ pc = "finishNext" /\ open = {}
  /\ Exit
  /\ UNCHANGED <<durable, faults>>

-----------------------------------------------------------------------------
Recover ==
  \/ RecoverMember \/ RecoverGroupDone \/ RecoverNext \/ RecoverDone

Manage ==
  \/ \E d \in Dest : Stage(d) \/ CopyBackup(d) \/ ActivateIntent(d) \/ Record(d) \/ Mutate(d)
  \/ ActivateSwap \/ ActivateEnd \/ ActivateBack \/ ActivateBackDrop
  \/ AddCleanup \/ ManagerDone \/ ManagerFails
  \/ Revert \/ Discard \/ FailNext \/ FailDone

Settle ==
  \/ UndoSwap \/ UndoDropDest \/ UndoDropAlt \/ UndoPop \/ UndoConflict
  \/ FinishDrop \/ FinishPop
  \/ UndoFault \/ CleanDrop \/ CleanPop \/ RemoveJournal

Commit ==
  \/ WriteGroup \/ MarkCommitted \/ RemoveGroup \/ FinishNext \/ FinishDone

Next == Start \/ Crash \/ Recover \/ Manage \/ Settle \/ Commit

Spec == Init /\ [][Next]_vars
=============================================================================
