---------------------------- MODULE MCFsJournal ----------------------------
(* FsJournalProps on small instances. *)
EXTENDS FsJournalProps

\* Inodes differ only in identity.
InodeSymmetry == Permutations(Ino)
=============================================================================
