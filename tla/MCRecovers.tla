----------------------------- MODULE MCRecovers -----------------------------
(***************************************************************************)
(* FsJournalProps under fairness: what goes on after crashes.  Two         *)
(* managers, one activating and one recording; they share one of two       *)
(* paths, where a rollback may stop on a conflict.                         *)
(***************************************************************************)
EXTENDS FsJournalProps

\* RecoveryCompletes: once nothing interrupts them any more, commands get recovery
\* done.  And CommitInv, also where a rollback does stop: what is left then is still
\* committed whole or not at all.
RecoveryEnds == RecoveryCompletes /\ []CommitInv
=============================================================================
