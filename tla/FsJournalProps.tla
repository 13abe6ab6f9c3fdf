--------------------------- MODULE FsJournalProps ---------------------------
(***************************************************************************)
(* What the journals of pde-installer are for: properties of FsJournal and *)
(* the mapping under which it implements InstallTxn.                       *)
(***************************************************************************)
EXTENDS FsJournal

\* The next recovery finishes journal j instead of rolling it back.
Committing(j) == j \in group \/ disk[j].committed

\* The change a rollback is about to undo is in one of the states that
\* rollbackChange knows; "changed unexpectedly" never stops a rollback, in the
\* failing process or in a later one.
NoRollbackConflict ==
  Undoing => ~Conflict(Subject, AtDest, AtSide)

\* fail() rolls back the finished stages in reverse order, and none of those
\* rollbacks stops on a path that changed.
FailRollsBack == ret = "fail" => NoRollbackConflict

\* recoverCommitGroup fails on a member without a file, and would then fail on
\* every later command: a group never outlives a member.
GroupMembersOnDisk == group \subseteq files

\* CommitJournals commits every journal before it cleans any backup: there is
\* no crash point after which some journals would finish and others roll back.
CommitIsAtomic == \A i, j \in files : Committing(i) <=> Committing(j)

\* The object that undoing a change must bring back is at the destination or at
\* the side path for as long as the change is not durably committed.
OriginalKept ==
  \A j \in files :
    \A i \in 1..Len(disk[j].changes) :
      LET c == disk[j].changes[i]
      IN ~Committing(j) /\ c.existed =>
           c.keepID \in {IdentityOf(fs[c.dest]), IdentityOf(side[<<j, c.dest>>])}

\* A rollback never works on a journal that is durably committed.
NoCommittedRollback == pc = "undo" => ~Committing(cur)

\* Recovery, and fail() for a finished manager, forget a change only when
\* neither its stage nor its backup is left behind.  (A manager's own Revert
\* may forget an intent whose write failed after it landed; its deferred
\* RemoveAll then takes the stage.)
UndoLeavesNothing ==
  [][pc = "undo" /\ ret \notin Reverts =>
       \A i \in 1..Len(disk[cur].changes) :
         LET d == disk[cur].changes[i].dest
         IN Touches(disk'[cur], d) \/ side'[<<cur, d>>] = NoFile]_vars

-----------------------------------------------------------------------------
\* Where the commit stands at each point of the process.

NothingCommitted ==
  /\ group = {}
  /\ \A j \in files : ~disk[j].committed

EverythingCommitted ==
  /\ group = {}
  /\ \A j \in files : disk[j].committed

\* The process carries on, or is failing, before the commit point.
WorkingPcs == {"run", "swap", "swapped", "commit"}
FailingPcs == {"back", "backDrop", "failed", "callFailed", "untracked", "discard", "fail"}
BetweenPcs == {"off", "groupLoad", "scan"}

\* What is committed is on disk, and what is remembered as committed is in use.
CommitsLive ==
  /\ \A j \in Journal \ files : ~disk[j].committed
  /\ \A j \in Journal \ open : ~mem[j].committed

\* Before and during recovery.
RecoveryPart ==
  /\ pc = "groupLoad" =>
       /\ todo \subseteq group
       /\ \A j \in group \ todo : disk[j].committed
  /\ pc \in BetweenPcs => open = {}
  /\ pc = "scan" => group = {}

\* From the first manager to the commit point or to the end of fail().
WorkPart ==
  /\ pc \in WorkingPcs => open = files
  /\ pc \in {"swap", "swapped"} => cur \in open
  /\ pc \in WorkingPcs \cup FailingPcs \cup {"undo"} =>
       NothingCommitted /\ \A j \in Journal : ~mem[j].committed

\* While the journal in hand is rolled back or finished.
SettlePart ==
  /\ pc \in {"finish", "finishNext"} =>
       EverythingCommitted /\ \A j \in open : mem[j].committed
  /\ pc = "finish" => cur \in open
  /\ pc \in {"undo", "finish"} /\ ret = "scan" => open = {cur}
  /\ pc = "undo" => ret \in {"scan", "fail"} \cup Reverts
  /\ pc = "finish" => ret \in {"scan", "commit"}
  /\ pc = "finishNext" => ret = "commit"

\* Between the commit point and the removal of the group file.
MarkPart ==
  pc = "mark" =>
    /\ group = open /\ open = files /\ todo \subseteq open
    /\ \A j \in open \ todo : mem[j].committed /\ disk[j].committed

\* The inductive strengthening of CommitIsAtomic, GroupMembersOnDisk and
\* NoCommittedRollback: which journals RecoverJournals, Revert, fail and
\* CommitJournals may find committed, at every point of theirs.
CommitInv ==
  /\ group # {} => group = files
  /\ CommitIsAtomic
  /\ CommitsLive
  /\ RecoveryPart
  /\ WorkPart
  /\ SettlePart
  /\ MarkPart

-----------------------------------------------------------------------------
\* Why a rollback always finds what it needs.

\* The changes a journal records, and all that its file or the process holds.
Changes(s) == {s.changes[i] : i \in 1..Len(s.changes)}
Claims(j) == Changes(mem[j]) \cup Changes(disk[j])

\* One change, before and after it is recorded as complete.
Same(c, e) ==
  /\ c.dest = e.dest /\ c.activated = e.activated /\ c.existed = e.existed
  /\ c.stageID = e.stageID /\ c.keepID = e.keepID

\* The stage before and after the exchange with the destination.
Waiting(c, a, b) == OriginalBack(c, a) /\ IdentityOf(b) = c.stageID
Swapped(c, a, b) == IdentityOf(a) = c.stageID /\ IF c.existed THEN IdentityOf(b) = c.keepID ELSE b = NoFile

\* What a rollback of c can start from: a at its destination, b at its side path.
Good(c, a, b) ==
  IF c.activated
  THEN /\ c.stageID # NoIno
       /\ c.existed => c.keepID # NoIno /\ c.keepID # c.stageID
       /\ \/ OriginalBack(c, a) /\ (b = NoFile \/ IdentityOf(b) = c.stageID)
          \/ Swapped(c, a, b)
  ELSE IF c.existed
  THEN c.keepID # NoIno /\ (IdentityOf(a) = c.keepID \/ IdentityOf(b) = c.keepID)
  ELSE b = NoFile

Sound(j, c) == Good(c, fs[c.dest], side[<<j, c.dest>>])
Back(c) == OriginalBack(c, fs[c.dest])
AllBack(j) == \A c \in Claims(j) : Back(c)

\* The objects that may stand at one destination are told apart by their inodes.
Unique ==
  \A d \in Dest, j \in Journal :
    side[<<j, d>>] # NoFile =>
      /\ fs[d] # NoFile => fs[d].ino # side[<<j, d>>].ino
      /\ \A k \in Journal :
           side[<<k, d>>] # NoFile /\ k # j => side[<<k, d>>].ino # side[<<j, d>>].ino

\* A destination is changed once, by one journal.
Owned ==
  \A j, k \in Journal : \A c \in Claims(j), e \in Claims(k) :
    /\ c.activated <=> j \notin Recorders
    /\ c.dest = e.dest => j = k /\ Same(c, e)

\* What is not in use holds nothing.
Live ==
  /\ \A j \in Journal \ open : mem[j] = EmptyState
  /\ \A j \in Journal \ files : disk[j] = EmptyState

\* Nothing is committed: every change may have to be undone, and can be.
Undoable == group = {} /\ \A j \in Journal : ~disk[j].committed
Kept == Undoable => \A j \in Journal : \A c \in Claims(j) : Sound(j, c)

DataPart == Unique /\ Owned /\ Live /\ Kept

\* Only what is there is backed up.
CopiedPart == pc = "run" /\ cur \in Recorders => \A d \in Dest : Prepared(d) => fs[d] # NoFile

\* A manager at work has on disk what it knows, its backups are where it put
\* them, and what it prepares is for a path no other has changed.
RunPart ==
  pc \in WorkingPcs =>
    /\ disk = mem
    /\ \A j \in Journal : \A c \in Changes(mem[j]) :
         ~c.activated /\ c.existed => IdentityOf(side[<<j, c.dest>>]) = c.keepID
    /\ \A d \in Dest :
         /\ \A j \in Journal : j > cur => side[<<j, d>>] = NoFile
         /\ side[<<cur, d>>] # NoFile => \A k \in Journal : k # cur => ~Touches(mem[k], d)
    /\ CopiedPart

\* Where the stage of the activation in hand is, call by call.
InHand == Last(mem[cur].changes)
SwapPart ==
  /\ pc = "swap" => InHand.activated /\ Waiting(InHand, fs[InHand.dest], side[<<cur, InHand.dest>>])
  /\ pc \in {"swapped", "back"} =>
       InHand.activated /\ Swapped(InHand, fs[InHand.dest], side[<<cur, InHand.dest>>])
  /\ pc = "backDrop" => Back(InHand)
  /\ pc \in {"back", "backDrop"} => ~(faults < MaxFaults)

\* A change that only the file records is one there is nothing to undo of.
Covered ==
  \A j \in Journal :
    pc \in WorkingPcs \cup FailingPcs \/ (pc = "undo" /\ (ret # "scan" \/ j = cur)) =>
      \A c \in Changes(disk[j]) : Back(c) \/ \E e \in Changes(mem[j]) : e.dest = c.dest

\* The deferred removal of a workspace takes no backup that is needed.
SparePart ==
  /\ pc = "failed" =>
       cur \in Recorders \/ AllBack(cur) \/ ~(faults < MaxFaults) \/ mem[cur].cleanup
  /\ pc = "untracked" => AllBack(cur) \/ ~(faults < MaxFaults)
  /\ pc = "undo" /\ ret \in Reverts =>
       \/ cur \in Recorders \/ AllBack(cur) \/ ~(faults < MaxFaults)
       \/ ret = "revert" /\ mem[cur].cleanup
  /\ pc = "callFailed" => AllBack(cur)
  /\ pc = "discard" => cur \in Recorders \/ (ret = "revert" /\ mem[cur].cleanup) \/ AllBack(cur)

FinishOpen == pc \in {"finish", "finishNext"} => open \subseteq files

PcPart == RunPart /\ SwapPart /\ Covered /\ SparePart /\ FinishOpen

KeepInv == DataPart /\ PcPart

\* Where rollbacks are still to come, or under way, the process knows all that
\* the files hold; only the manager that failed may have lost track of a write.
Ahead ==
  IF pc = "fail" THEN todo
  ELSE IF pc = "undo" /\ ret = "scan" THEN {cur}
  ELSE IF pc = "undo" /\ ret = "fail" THEN todo \cup {cur}
  ELSE {j \in Journal : j < cur}

KnownPart ==
  /\ pc = "undo" /\ ret = "fail" => cur \notin todo
  /\ pc \in FailingPcs \cup {"undo"} =>
       \A j \in Ahead : \A c \in Changes(disk[j]) : \E e \in Changes(mem[j]) : e.dest = c.dest

-----------------------------------------------------------------------------
\* Refinement.

\* Journals that the next recovery would roll back and that changed d.
PendingOn(d) == {j \in files : ~Committing(j) /\ Touches(disk[j], d)}

ChangeOf(j, d) ==
  LET cs == disk[j].changes
  IN cs[CHOOSE i \in 1..Len(cs) : cs[i].dest = d]

\* What undoing change c of journal j would leave at its destination.
Restored(j, c) ==
  IF ~c.existed THEN NoFile
  ELSE IF IdentityOf(fs[c.dest]) = c.keepID THEN ContentOf(fs[c.dest])
  ELSE ContentOf(side[<<j, c.dest>>])

\* The first manager to change d recorded what it held before the install.
Stable(d) ==
  IF PendingOn(d) = {} THEN ContentOf(fs[d])
  ELSE LET j == CHOOSE j \in PendingOn(d) : \A k \in PendingOn(d) : j <= k
       IN Restored(j, ChangeOf(j, d))

Visible(d) == ContentOf(fs[d])

\* A backup under way is a copy of what is at the destination ...
CopyPart ==
  pc = "run" /\ cur \in Recorders =>
    \A d \in Dest : Prepared(d) => ContentOf(side[<<cur, d>>]) = ContentOf(fs[d])

\* ... so that undoing a change whose write never landed brings back what is there.
UnlandedPart ==
  pc \in FailingPcs \cup {"undo"} =>
    \A j \in Journal : \A c \in Changes(mem[j]) :
      (\E e \in Changes(disk[j]) : e.dest = c.dest) \/ Restored(j, c) = ContentOf(fs[c.dest])

ContentInv == CopyPart /\ UnlandedPart

Txn == INSTANCE InstallTxn WITH
  Content <- Data \cup {NoFile},
  stable <- [d \in Dest |-> Stable(d)],
  visible <- [d \in Dest |-> Visible(d)],
  installing <- pc \in {"run", "swap", "swapped", "commit"}

\* An install is atomic: whatever fails, and wherever it is killed, recovery
\* shows all of its changes or none, and a new install starts from there.
InstallIsAtomic == Txn!Spec

-----------------------------------------------------------------------------
\* Liveness.

\* The process takes its next step; the operator reruns an interrupted command.
Fairness == WF_vars(Start \/ Recover \/ Settle)

\* The program ends a command where it stops on what it finds: the same step
\* as a crash there, but one it would take again.
Interruption == Crash /\ ~(Recover \/ Manage \/ Settle \/ Commit)

\* A rollback that stops on a path two managers changed stops every later one.
SharedConflict == UndoConflict /\ Subject.dest \in Shared

Undisturbed == <>[][~Interruption /\ ~SharedConflict /\ faults' <= faults]_vars

\* Once nothing interrupts them any more, commands get recovery done: it
\* neither stops on what it finds nor cycles.
RecoveryCompletes == Undisturbed => ((pc \in RecoverPcs) ~> (files = {} /\ group = {}))

FairSpec == Spec /\ Fairness
=============================================================================
