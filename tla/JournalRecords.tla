--------------------------- MODULE JournalRecords ---------------------------
(***************************************************************************)
(* The data of a filesystem journal (pde-installer/internal/fsutil):       *)
(* objects on disk, the changes a journal records, and the decision        *)
(* rollbackChange takes from what it finds at a destination and at the     *)
(* side path (stage or backup) of a change.                                *)
(*                                                                         *)
(* An object is an inode and what it holds.  Identities are inodes, as in  *)
(* identity_linux.go, so an inode freed by a removal may come back as the  *)
(* identity of another object.                                             *)
(***************************************************************************)
EXTENDS Integers, Sequences, SequencesExt

CONSTANTS
  Dest,    \* destination paths below HOME that managers replace
  Ino,     \* inode numbers of the filesystem
  Data,    \* contents a path may hold
  NoFile,  \* what is at a path that does not exist
  NoIno    \* the zero pathIdentity

Object == [ino : Ino, data : Data]

ASSUME NoFileIsNoObject == NoFile \notin Object
ASSUME NoInoIsNoInode == NoIno \notin Ino

Place == Object \cup {NoFile}
Identity == Ino \cup {NoIno}

\* identifyPath, with a missing path as the zero identity.
IdentityOf(o) == IF o = NoFile THEN NoIno ELSE o.ino

\* What a reader of the path sees.
ContentOf(o) == IF o = NoFile THEN NoFile ELSE o.data

(***************************************************************************)
(* A journalChange.  activated: made by Activate (its Stage is set), else  *)
(* by RecordCreated or RecordReplaced.  keepID is the identity of the      *)
(* object a rollback must leave at the destination: OriginalID of an       *)
(* activation, BackupID of a recorded replacement.                         *)
(***************************************************************************)
Change == [dest : Dest, activated : BOOLEAN, existed : BOOLEAN,
           complete : BOOLEAN, stageID : Identity, keepID : Identity]

\* The durable part of a Journal.  cleanup: its workspace is tracked.
JournalState == [committed : BOOLEAN, cleanup : BOOLEAN, changes : Seq(Change)]

EmptyState == [committed |-> FALSE, cleanup |-> FALSE, changes |-> <<>>]

Touches(state, d) == \E i \in 1..Len(state.changes) : state.changes[i].dest = d

\* Activate stores Backup = stage at once and clears it when nothing existed.
HasBackup(c) == c.existed \/ (c.activated /\ ~c.complete)

(***************************************************************************)
(* rollbackChange and rollbackActivation.  dst is what is at the           *)
(* destination, alt what is at the side path.  Rollback exchanges the two  *)
(* and then removes the side path; a crash between the two leaves exactly  *)
(* the state NeedsDropAlt describes, so each step is decided anew from the *)
(* filesystem.                                                             *)
(***************************************************************************)
OriginalBack(c, dst) ==
  IF c.existed THEN IdentityOf(dst) = c.keepID ELSE dst = NoFile

NeedsSwap(c, dst, alt) ==
  /\ c.existed
  /\ IdentityOf(dst) # c.keepID
  /\ IdentityOf(alt) = c.keepID
  /\ c.activated => IdentityOf(dst) = c.stageID

NeedsDropDest(c, dst) ==
  /\ ~c.existed
  /\ dst # NoFile
  /\ c.activated => IdentityOf(dst) = c.stageID

NeedsDropAlt(c, dst, alt) ==
  /\ OriginalBack(c, dst)
  /\ alt # NoFile
  /\ c.existed \/ (c.activated /\ IdentityOf(alt) = c.stageID)

\* Mutant: a change counts as undone before its side path is removed.
UndoneEarly(c, dst, alt) == OriginalBack(c, dst)

\* Mutant: an activation that never completed is not recognised as undone.
UndoneComplete(c, dst, alt) ==
  /\ OriginalBack(c, dst) /\ c.complete
  /\ alt = NoFile \/ (~c.existed /\ ~c.activated)

Undone(c, dst, alt) ==
  /\ OriginalBack(c, dst)
  /\ alt = NoFile \/ (~c.existed /\ ~c.activated)

\* Otherwise: "activation paths changed unexpectedly", "mutation paths
\* changed unexpectedly" or "mutation backup disappeared".
Conflict(c, dst, alt) ==
  ~ (\/ NeedsSwap(c, dst, alt)
     \/ NeedsDropDest(c, dst)
     \/ NeedsDropAlt(c, dst, alt)
     \/ Undone(c, dst, alt))

=============================================================================
