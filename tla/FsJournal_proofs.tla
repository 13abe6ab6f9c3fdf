-------------------------- MODULE FsJournal_proofs --------------------------
(***************************************************************************)
(* Theorems about FsJournal, for every number of managers, every set of    *)
(* destinations and inodes, and any number of crashes.  With any number of *)
(* failing system calls and shared paths: every reachable state is well    *)
(* formed, and CommitJournals is atomic, as CommitInv is inductive.  With  *)
(* one failing call per process and no path that two managers change:      *)
(* every rollback finds what it needs, as KeepInv is inductive.            *)
(***************************************************************************)
EXTENDS FsJournalProps, TLAPS

USE DEF Reverts

-----------------------------------------------------------------------------
\* Sequences and journal states.

LEMMA FrontLast ==
  ASSUME NEW S, NEW s \in Seq(S), s # <<>>
  PROVE  Front(s) \in Seq(S) /\ Last(s) \in S
<1>1. Len(s) \in Nat /\ Len(s) >= 1
  OBVIOUS
<1>2. Len(s) \in 1..Len(s)
  BY <1>1
<1>3. Last(s) \in S
  BY <1>2 DEF Last
<1>4. \A i \in 1..(Len(s) - 1) : s[i] \in S
  BY <1>1
<1>5. Front(s) = SubSeq(s, 1, Len(s) - 1)
  BY DEF Front
<1>6. SubSeq(s, 1, Len(s) - 1) \in Seq(S)
  BY <1>1, <1>4
<1> QED
  BY <1>3, <1>5, <1>6

LEMMA HeadTail ==
  ASSUME NEW S, NEW s \in Seq(S), s # <<>>
  PROVE  Head(s) \in S /\ Tail(s) \in Seq(S)
OBVIOUS

LEMMA EmptyStateType == EmptyState \in JournalState
BY DEF EmptyState, JournalState

LEMMA CommittedState ==
  ASSUME NEW s \in JournalState
  PROVE  [s EXCEPT !.committed = TRUE] \in JournalState
BY DEF JournalState

LEMMA CleanupState ==
  ASSUME NEW s \in JournalState, NEW b \in BOOLEAN
  PROVE  [s EXCEPT !.cleanup = b] \in JournalState
BY DEF JournalState

LEMMA ChangesState ==
  ASSUME NEW s \in JournalState, NEW q \in Seq(Change)
  PROVE  [s EXCEPT !.changes = q] \in JournalState
BY DEF JournalState

LEMMA WithChangeState ==
  ASSUME NEW s \in JournalState, NEW c \in Change
  PROVE  WithChange(s, c) \in JournalState
<1>1. Append(s.changes, c) \in Seq(Change)
  BY DEF JournalState
<1> QED
  BY <1>1, ChangesState DEF WithChange

LEMMA CompletedState ==
  ASSUME NEW s \in JournalState, s.changes # <<>>
  PROVE  Completed(s) \in JournalState
<1>1. s.changes \in Seq(Change)
  BY DEF JournalState
<1>2. Front(s.changes) \in Seq(Change) /\ Last(s.changes) \in Change
  BY <1>1, FrontLast
<1>3. [Last(s.changes) EXCEPT !.complete = TRUE] \in Change
  BY <1>2 DEF Change
<1>4. <<[Last(s.changes) EXCEPT !.complete = TRUE]>> \in Seq(Change)
  BY <1>3
<1>5. Front(s.changes) \o <<[Last(s.changes) EXCEPT !.complete = TRUE]>> \in Seq(Change)
  BY <1>2, <1>4
<1> QED
  BY <1>5, ChangesState DEF Completed

LEMMA IdentityType ==
  ASSUME NEW o \in Place
  PROVE  IdentityOf(o) \in Identity
BY NoFileIsNoObject DEF Place, Object, Identity, IdentityOf

-----------------------------------------------------------------------------
\* What the building blocks of the actions keep of TypeOK.

LEMMA JournalFacts == Journal \subseteq Nat /\ 1 \in Journal /\ N \in Journal
BY NAssumption DEF Journal

LEMMA PersistType ==
  ASSUME TypeOK, NEW j \in Journal, NEW s \in JournalState, Persist(j, s)
  PROVE  disk' \in [Journal -> JournalState] /\ files' \in SUBSET Journal
BY DEF TypeOK, Persist

LEMMA MayPersistType ==
  ASSUME TypeOK, NEW j \in Journal, NEW s \in JournalState, MayPersist(j, s)
  PROVE  disk' \in [Journal -> JournalState] /\ files' \in SUBSET Journal
BY PersistType DEF TypeOK, MayPersist

LEMMA RememberType ==
  ASSUME TypeOK, NEW j \in Journal, NEW s \in JournalState, Remember(j, s)
  PROVE  mem' \in [Journal -> JournalState]
BY DEF TypeOK, Remember

\* The process's own variables.
ProcessType ==
  /\ pc \in Pcs
  /\ cur \in Journal
  /\ todo \in SUBSET Journal
  /\ ret \in Rets
  /\ open \in SUBSET Journal
  /\ mem \in [Journal -> JournalState]

LEMMA ExitType ==
  ASSUME Exit
  PROVE  ProcessType'
BY EmptyStateType, JournalFacts DEF Exit, ProcessType, Pcs, Rets

LEMMA FaultType ==
  ASSUME TypeOK, Fault
  PROVE  faults' \in 0..MaxFaults
BY MaxFaultsAssumption DEF TypeOK, Fault

LEMMA ReturnErrorType ==
  ASSUME TypeOK, ReturnError
  PROVE  ProcessType'
<1>1. CASE Exit
  BY <1>1, ExitType
<1>2. CASE ~Exit
  BY <1>2 DEF ReturnError, TypeOK, ProcessType, Pcs, InstallPcs
<1> QED
  BY <1>1, <1>2

LEMMA ReturnOkType ==
  ASSUME TypeOK, ReturnOk
  PROVE  pc' \in Pcs /\ cur' \in Journal /\ todo' \in SUBSET Journal /\ ret' \in Rets
BY DEF ReturnOk, TypeOK, Pcs, InstallPcs, RecoverPcs

LEMMA GotoType ==
  ASSUME TypeOK, NEW l \in Pcs, Goto(l)
  PROVE  pc' \in Pcs /\ cur' \in Journal /\ todo' \in SUBSET Journal /\ ret' \in Rets
BY DEF Goto, TypeOK

LEMMA ActivateFailsType ==
  ASSUME TypeOK, NEW n \in 0..1, ActivateFails(n)
  PROVE  pc' \in Pcs /\ cur' \in Journal /\ todo' \in SUBSET Journal /\ ret' \in Rets
BY DEF ActivateFails, Goto, TypeOK, Pcs, InstallPcs

LEMMA ExchangeType ==
  ASSUME TypeOK, NEW j \in Journal, NEW d \in Dest, Exchange(j, d)
  PROVE  fs' \in [Dest -> Place] /\ side' \in [Journal \X Dest -> Place]
BY DEF TypeOK, Exchange

LEMMA SubjectType ==
  ASSUME TypeOK, mem[cur].changes # <<>>
  PROVE  Subject \in Change /\ Subject.dest \in Dest
<1>1. mem[cur].changes \in Seq(Change)
  BY DEF TypeOK, JournalState
<1>2. Subject \in Change
  BY <1>1, FrontLast, HeadTail DEF Subject
<1> QED
  BY <1>2 DEF Change

LEMMA RewriteType ==
  ASSUME TypeOK, NEW s \in JournalState, Rewrite(s) \/ RewriteFault(s)
  PROVE  TypeOK'
<1>0. cur \in Journal
  BY DEF TypeOK
<1>1. CASE Rewrite(s)
  BY <1>0, <1>1, PersistType, RememberType DEF Rewrite, TypeOK
<1>2. CASE RewriteFault(s)
  <2>1. disk' \in [Journal -> JournalState] /\ files' \in SUBSET Journal
    BY <1>0, <1>2, MayPersistType DEF RewriteFault
  <2>2. ProcessType'
    BY <1>2, ReturnErrorType DEF RewriteFault
  <2>3. faults' \in 0..MaxFaults
    BY <1>2, FaultType DEF RewriteFault
  <2> QED
    BY <1>2, <2>1, <2>2, <2>3 DEF RewriteFault, TypeOK, ProcessType
<1> QED
  BY <1>1, <1>2

-----------------------------------------------------------------------------
\* Type correctness.

LEMMA InitType == Init => TypeOK
BY EmptyStateType, JournalFacts, MaxFaultsAssumption
DEF Init, TypeOK, Pcs, Rets, Place

LEMMA RecoverType ==
  ASSUME TypeOK, Recover
  PROVE  TypeOK'
<1>1. CASE RecoverMember
  <2>1. PICK j \in Firsts(todo) : RecoverMember!2!(j)
    BY <1>1 DEF RecoverMember
  <2>2. j \in Journal /\ disk[j] \in JournalState
    BY DEF TypeOK, Firsts
  <2>3. [disk[j] EXCEPT !.committed = TRUE] \in JournalState
    BY <2>2, CommittedState
  <2>4. disk' \in [Journal -> JournalState] /\ files' \in SUBSET Journal
    BY <2>1, <2>2, <2>3, PersistType, MayPersistType DEF TypeOK
  <2>5. ProcessType' /\ faults' \in 0..MaxFaults
    BY <2>1, <2>2, ExitType, FaultType DEF TypeOK, ProcessType
  <2> QED
    BY <1>1, <2>4, <2>5 DEF RecoverMember, TypeOK, ProcessType
<1>2. CASE RecoverGroupDone
  <2>1. group' \in SUBSET Journal
    BY <1>2 DEF RecoverGroupDone, TypeOK
  <2>2. ProcessType' /\ faults' \in 0..MaxFaults
    BY <1>2, ExitType, FaultType
    DEF RecoverGroupDone, TypeOK, ProcessType, Goto, Pcs, RecoverPcs
  <2> QED
    BY <1>2, <2>1, <2>2 DEF RecoverGroupDone, TypeOK, ProcessType
<1>3. CASE RecoverNext
  <2>1. PICK j \in files : RecoverNext!2!(j)
    BY <1>3 DEF RecoverNext
  <2>2. j \in Journal /\ disk[j] \in JournalState
    BY DEF TypeOK
  <2>3. mem' \in [Journal -> JournalState]
    BY <2>1, <2>2, RememberType
  <2> QED
    BY <1>3, <2>1, <2>2, <2>3 DEF RecoverNext, durable, TypeOK, Pcs, Rets
<1>4. CASE RecoverDone
  <2>1. side' \in [Journal \X Dest -> Place]
    BY <1>4 DEF RecoverDone, TypeOK, Place
  <2>2. ProcessType'
    BY <1>4, ExitType, JournalFacts
    DEF RecoverDone, TypeOK, ProcessType, Pcs, InstallPcs, Rets
  <2> QED
    BY <1>4, <2>1, <2>2 DEF RecoverDone, TypeOK, ProcessType
<1> QED
  BY <1>1, <1>2, <1>3, <1>4 DEF Recover

\* Control of the process passes to a label, perhaps after a fault.
LEMMA GotoFacts ==
  /\ "swap" \in Pcs /\ "swapped" \in Pcs /\ "run" \in Pcs /\ "back" \in Pcs
  /\ "backDrop" \in Pcs /\ "failed" \in Pcs /\ "scan" \in Pcs
BY DEF Pcs, InstallPcs, RecoverPcs

LEMMA StageType ==
  ASSUME TypeOK, NEW d \in Dest, Stage(d) \/ CopyBackup(d)
  PROVE  TypeOK'
<1>1. NewObject \subseteq Place
  BY DEF NewObject, Place, Object
<1>2. side' \in [Journal \X Dest -> Place]
  BY <1>1 DEF Stage, CopyBackup, TypeOK
<1> QED
  BY <1>2 DEF Stage, CopyBackup, TypeOK

LEMMA NewChangeType ==
  ASSUME TypeOK, NEW d \in Dest
  PROVE  Intent(d) \in Change /\ Recorded(d) \in Change
<1>1. fs[d] \in Place /\ side[<<cur, d>>] \in Place
  BY DEF TypeOK
<1>2. IdentityOf(fs[d]) \in Identity /\ IdentityOf(side[<<cur, d>>]) \in Identity
  BY <1>1, IdentityType
<1>3. NoIno \in Identity
  BY DEF Identity
<1> QED
  BY <1>2, <1>3 DEF Intent, Recorded, Change

LEMMA JournalCallType ==
  ASSUME TypeOK, NEW d \in Dest, ActivateIntent(d) \/ Record(d)
  PROVE  TypeOK'
<1>0. cur \in Journal /\ mem[cur] \in JournalState
  BY DEF TypeOK
<1>1. WithChange(mem[cur], Intent(d)) \in JournalState
      /\ WithChange(mem[cur], Recorded(d)) \in JournalState
  BY <1>0, NewChangeType, WithChangeState
<1>2. open' \in SUBSET Journal
  BY <1>0 DEF ActivateIntent, Record, Ready, TypeOK
<1>3. CASE ActivateIntent(d)
  <2>1. disk' \in [Journal -> JournalState] /\ files' \in SUBSET Journal
    BY <1>0, <1>1, <1>3, PersistType, MayPersistType DEF ActivateIntent
  <2>2. mem' \in [Journal -> JournalState]
    BY <1>0, <1>1, <1>3, RememberType DEF ActivateIntent, TypeOK
  <2>4. pc' \in Pcs /\ cur' \in Journal /\ todo' \in SUBSET Journal /\ ret' \in Rets
    BY <1>3, GotoFacts, GotoType, ActivateFailsType DEF ActivateIntent
  <2>5. faults' \in 0..MaxFaults
    BY <1>3, FaultType DEF ActivateIntent, TypeOK
  <2> QED
    BY <1>2, <1>3, <2>1, <2>2, <2>4, <2>5 DEF ActivateIntent, TypeOK
<1>4. CASE Record(d)
  <2>1. disk' \in [Journal -> JournalState] /\ files' \in SUBSET Journal
    BY <1>0, <1>1, <1>4, PersistType, MayPersistType DEF Record
  <2>2. mem' \in [Journal -> JournalState]
    BY <1>0, <1>1, <1>4, RememberType DEF Record
  <2>3. pc' \in Pcs /\ cur' \in Journal /\ todo' \in SUBSET Journal /\ ret' \in Rets
    BY <1>4, GotoFacts, GotoType DEF Record
  <2>4. faults' \in 0..MaxFaults
    BY <1>4, FaultType DEF Record, TypeOK
  <2> QED
    BY <1>2, <1>4, <2>1, <2>2, <2>3, <2>4 DEF Record, TypeOK
<1> QED
  BY <1>3, <1>4

\* Between the intent and the end of an activation there is a change in hand.
InFlight ==
  pc \in {"swap", "swapped", "back", "backDrop"} => mem[cur].changes # <<>>

LEMMA ActivationType ==
  ASSUME TypeOK, InFlight,
         ActivateSwap \/ ActivateEnd \/ ActivateBack \/ ActivateBackDrop
  PROVE  TypeOK'
<1>0. /\ cur \in Journal /\ mem[cur] \in JournalState /\ mem[cur].changes # <<>>
      /\ mem[cur].changes \in Seq(Change)
  BY DEF TypeOK, InFlight, ActivateSwap, ActivateEnd, ActivateBack, ActivateBackDrop, JournalState
<1>1. Last(mem[cur].changes).dest \in Dest
  <2>1. Last(mem[cur].changes) \in Change
    BY <1>0, FrontLast
  <2> QED
    BY <2>1 DEF Change
<1>3. NoFile \in Place
  BY DEF Place
<1>4. CASE ActivateSwap
  <2>1. fs' \in [Dest -> Place] /\ side' \in [Journal \X Dest -> Place]
    BY <1>0, <1>1, <1>4, ExchangeType DEF ActivateSwap, TypeOK
  <2>2. pc' \in Pcs /\ cur' \in Journal /\ todo' \in SUBSET Journal /\ ret' \in Rets
    BY <1>4, GotoFacts, GotoType, ActivateFailsType DEF ActivateSwap
  <2>3. faults' \in 0..MaxFaults
    BY <1>4, FaultType DEF ActivateSwap, TypeOK
  <2> QED
    BY <1>4, <2>1, <2>2, <2>3 DEF ActivateSwap, TypeOK
<1>5. CASE ActivateEnd
  <2>1. Completed(mem[cur]) \in JournalState
    BY <1>0, CompletedState
  <2>2. disk' \in [Journal -> JournalState] /\ files' \in SUBSET Journal
    BY <1>0, <1>5, <2>1, PersistType, MayPersistType DEF ActivateEnd, TypeOK
  <2>3. mem' \in [Journal -> JournalState]
    BY <1>0, <1>5, <2>1, RememberType DEF ActivateEnd, TypeOK
  <2>4. pc' \in Pcs /\ cur' \in Journal /\ todo' \in SUBSET Journal /\ ret' \in Rets
    BY <1>5, GotoFacts, GotoType DEF ActivateEnd
  <2>5. faults' \in 0..MaxFaults
    BY <1>5, FaultType DEF ActivateEnd, TypeOK
  <2> QED
    BY <1>5, <2>2, <2>3, <2>4, <2>5 DEF ActivateEnd, TypeOK
<1>6. CASE ActivateBack
  <2>1. fs' \in [Dest -> Place] /\ side' \in [Journal \X Dest -> Place]
    BY <1>0, <1>1, <1>3, <1>6, ExchangeType DEF ActivateBack, TypeOK
  <2>2. pc' \in Pcs /\ cur' \in Journal /\ todo' \in SUBSET Journal /\ ret' \in Rets
    BY <1>6, GotoFacts, GotoType, ActivateFailsType DEF ActivateBack
  <2>3. faults' \in 0..MaxFaults
    BY <1>6, FaultType DEF ActivateBack, TypeOK
  <2> QED
    BY <1>6, <2>1, <2>2, <2>3 DEF ActivateBack, TypeOK
<1>7. CASE ActivateBackDrop
  <2>1. side' \in [Journal \X Dest -> Place]
    BY <1>3, <1>7 DEF ActivateBackDrop, TypeOK
  <2>2. pc' \in Pcs /\ cur' \in Journal /\ todo' \in SUBSET Journal /\ ret' \in Rets
    BY <1>7, ActivateFailsType DEF ActivateBackDrop
  <2>3. faults' \in 0..MaxFaults
    BY <1>7, FaultType DEF ActivateBackDrop, TypeOK
  <2> QED
    BY <1>7, <2>1, <2>2, <2>3 DEF ActivateBackDrop, TypeOK
<1> QED
  BY <1>4, <1>5, <1>6, <1>7

LEMMA MutateType ==
  ASSUME TypeOK, NEW d \in Dest, Mutate(d)
  PROVE  TypeOK'
<1>1. fs' \in [Dest -> Place]
  <2>1. CASE fs' = [fs EXCEPT ![d] = NoFile]
    BY <2>1 DEF TypeOK, Place
  <2>2. CASE \E o \in NewObject : fs' = [fs EXCEPT ![d] = o]
    BY <2>2 DEF TypeOK, Place, NewObject, Object
  <2>3. CASE fs[d] # NoFile /\ \E v \in Data : fs' = [fs EXCEPT ![d].data = v]
    <3>1. fs[d] \in Object
      BY <2>3 DEF TypeOK, Place
    <3>2. PICK v \in Data : fs' = [fs EXCEPT ![d].data = v]
      BY <2>3
    <3>3. [fs[d] EXCEPT !.data = v] \in Place
      BY <3>1 DEF Object, Place
    <3>4. fs' = [fs EXCEPT ![d] = [fs[d] EXCEPT !.data = v]]
      BY <3>2
    <3> QED
      BY <3>3, <3>4 DEF TypeOK
  <2> QED
    BY <2>1, <2>2, <2>3 DEF Mutate
<1> QED
  BY <1>1 DEF Mutate, TypeOK

LEMMA ManageType ==
  ASSUME TypeOK, InFlight, Manage
  PROVE  TypeOK'
<1>0. cur \in Journal /\ mem[cur] \in JournalState
  BY DEF TypeOK
<1>1. ASSUME NEW d \in Dest,
             Stage(d) \/ CopyBackup(d) \/ ActivateIntent(d) \/ Record(d) \/ Mutate(d)
      PROVE  TypeOK'
  BY <1>1, StageType, JournalCallType, MutateType
<1>2. CASE ActivateSwap \/ ActivateEnd \/ ActivateBack \/ ActivateBackDrop
  BY <1>2, ActivationType
<1>3. CASE AddCleanup
  <2>1. [mem[cur] EXCEPT !.cleanup = TRUE] \in JournalState
    BY <1>0, CleanupState
  <2>2. disk' \in [Journal -> JournalState] /\ files' \in SUBSET Journal
    BY <1>0, <1>3, <2>1, PersistType, MayPersistType DEF AddCleanup
  <2>3. mem' \in [Journal -> JournalState]
    BY <1>0, <1>3, <2>1, RememberType DEF AddCleanup
  <2>4. pc' \in Pcs /\ cur' \in Journal /\ todo' \in SUBSET Journal /\ ret' \in Rets
    BY <1>3, GotoFacts, GotoType DEF AddCleanup, Goto, Pcs, InstallPcs, TypeOK
  <2>5. faults' \in 0..MaxFaults
    BY <1>3, FaultType DEF AddCleanup, TypeOK
  <2>6. open' \in SUBSET Journal
    BY <1>0, <1>3 DEF AddCleanup, Ready, TypeOK
  <2> QED
    BY <1>3, <2>2, <2>3, <2>4, <2>5, <2>6 DEF AddCleanup, TypeOK
<1>4. CASE ManagerDone
  BY <1>0, <1>4, NAssumption DEF ManagerDone, durable, TypeOK, Journal, Pcs, InstallPcs
<1>5. CASE ManagerFails
  BY <1>5, GotoFacts, GotoType DEF ManagerFails, durable, TypeOK
<1>6. CASE Revert
  BY <1>6 DEF Revert, durable, TypeOK, Pcs, InstallPcs, Rets
<1>7. CASE Discard
  <2>1. side' \in [Journal \X Dest -> Place]
    BY <1>7 DEF Discard, TypeOK, Place
  <2>2. todo' \in SUBSET Journal
    BY <1>7 DEF Discard, TypeOK
  <2> QED
    BY <1>7, <2>1, <2>2 DEF Discard, TypeOK, Pcs, InstallPcs
<1>8. CASE FailNext
  BY <1>8 DEF FailNext, Latests, durable, TypeOK, Pcs, Rets
<1>9. CASE FailDone
  BY <1>9, ExitType DEF FailDone, durable, TypeOK, ProcessType
<1> QED
  BY <1>1, <1>2, <1>3, <1>4, <1>5, <1>6, <1>7, <1>8, <1>9 DEF Manage

LEMMA SettleType ==
  ASSUME TypeOK, Settle
  PROVE  TypeOK'
<1>0. cur \in Journal /\ mem[cur] \in JournalState /\ mem[cur].changes \in Seq(Change)
  BY DEF TypeOK, JournalState
<1>1. NoFile \in Place
  BY DEF Place
<1>2. CASE UndoSwap \/ UndoDropDest \/ UndoDropAlt
  <2>1. fs' \in [Dest -> Place] /\ side' \in [Journal \X Dest -> Place]
    <3>1. mem[cur].changes # <<>>
      BY <1>2 DEF UndoSwap, UndoDropDest, UndoDropAlt, Undoing
    <3>2. Subject.dest \in Dest
      BY <3>1, SubjectType
    <3>3. CASE UndoSwap
      BY <1>0, <3>2, <3>3, ExchangeType DEF UndoSwap
    <3>4. CASE UndoDropDest
      BY <1>1, <3>4 DEF UndoDropDest, TypeOK
    <3>5. CASE UndoDropAlt
      BY <1>1, <3>5 DEF UndoDropAlt, TypeOK
    <3> QED
      BY <1>2, <3>3, <3>4, <3>5
  <2> QED
    BY <1>2, <2>1 DEF UndoSwap, UndoDropDest, UndoDropAlt, TypeOK
<1>3. CASE UndoPop
  <2>1. mem[cur].changes # <<>>
    BY <1>3 DEF UndoPop, Undoing
  <2>2. Front(mem[cur].changes) \in Seq(Change)
    BY <1>0, <2>1, FrontLast
  <2>3. [mem[cur] EXCEPT !.changes = Front(@)] \in JournalState
    BY <1>0, <2>2, ChangesState
  <2> QED
    BY <1>3, <2>3, RewriteType DEF UndoPop
<1>4. CASE FinishPop
  <2>1. mem[cur].changes # <<>>
    BY <1>4 DEF FinishPop, Finishing
  <2>2. Tail(mem[cur].changes) \in Seq(Change)
    BY <1>0, <2>1, HeadTail
  <2>3. [mem[cur] EXCEPT !.changes = Tail(@)] \in JournalState
    BY <1>0, <2>2, ChangesState
  <2> QED
    BY <1>4, <2>3, RewriteType DEF FinishPop
<1>5. CASE CleanPop
  <2>1. [mem[cur] EXCEPT !.cleanup = FALSE] \in JournalState
    BY <1>0, CleanupState
  <2> QED
    BY <1>5, <2>1, RewriteType DEF CleanPop
<1>6. CASE UndoConflict
  BY <1>6, ReturnErrorType DEF UndoConflict, durable, TypeOK, ProcessType
<1>7. CASE UndoFault
  BY <1>7, ReturnErrorType, FaultType DEF UndoFault, durable, TypeOK, ProcessType
<1>8. CASE FinishDrop \/ CleanDrop
  <2>1. side' \in [Journal \X Dest -> Place]
    BY <1>1, <1>8 DEF FinishDrop, CleanDrop, TypeOK
  <2> QED
    BY <1>8, <2>1 DEF FinishDrop, CleanDrop, TypeOK
<1>9. CASE RemoveJournal
  <2>1. files' \in SUBSET Journal /\ disk' \in [Journal -> JournalState]
    BY <1>0, <1>9, EmptyStateType DEF RemoveJournal, TypeOK
  <2>2. ProcessType' /\ faults' \in 0..MaxFaults
    <3>1. CASE ReturnOk /\ open' = open \ {cur} /\ Remember(cur, EmptyState) /\ UNCHANGED faults
      BY <1>0, <3>1, ReturnOkType, EmptyStateType, RememberType DEF TypeOK, ProcessType
    <3>2. CASE ReturnError /\ Fault
      BY <3>2, ReturnErrorType, FaultType
    <3> QED
      BY <1>9, <3>1, <3>2 DEF RemoveJournal
  <2> QED
    BY <1>9, <2>1, <2>2 DEF RemoveJournal, TypeOK, ProcessType
<1> QED
  BY <1>2, <1>3, <1>4, <1>5, <1>6, <1>7, <1>8, <1>9 DEF Settle

LEMMA CommitType ==
  ASSUME TypeOK, Commit
  PROVE  TypeOK'
<1>1. CASE WriteGroup
  <2>1. group' \in SUBSET Journal
    BY <1>1 DEF WriteGroup, TypeOK
  <2>2. ProcessType' /\ faults' \in 0..MaxFaults
    BY <1>1, ExitType, FaultType DEF WriteGroup, TypeOK, ProcessType, Pcs, InstallPcs
  <2> QED
    BY <1>1, <2>1, <2>2 DEF WriteGroup, TypeOK, ProcessType
<1>2. CASE MarkCommitted
  <2>1. PICK j \in Firsts(todo) : MarkCommitted!2!(j)
    BY <1>2 DEF MarkCommitted
  <2>2. j \in Journal /\ mem[j] \in JournalState
    BY DEF TypeOK, Firsts
  <2>3. [mem[j] EXCEPT !.committed = TRUE] \in JournalState
    BY <2>2, CommittedState
  <2>4. disk' \in [Journal -> JournalState] /\ files' \in SUBSET Journal
    BY <2>1, <2>2, <2>3, PersistType, MayPersistType
  <2>5. ProcessType' /\ faults' \in 0..MaxFaults
    BY <2>1, <2>2, <2>3, ExitType, FaultType, RememberType DEF TypeOK, ProcessType
  <2> QED
    BY <1>2, <2>4, <2>5 DEF MarkCommitted, TypeOK, ProcessType
<1>3. CASE RemoveGroup
  <2>1. group' \in SUBSET Journal
    BY <1>3 DEF RemoveGroup, TypeOK
  <2>2. ProcessType' /\ faults' \in 0..MaxFaults
    BY <1>3, ExitType, FaultType DEF RemoveGroup, TypeOK, ProcessType, Pcs, InstallPcs, Rets
  <2> QED
    BY <1>3, <2>1, <2>2 DEF RemoveGroup, TypeOK, ProcessType
<1>4. CASE FinishNext
  BY <1>4 DEF FinishNext, Firsts, durable, TypeOK, Pcs
<1>5. CASE FinishDone
  BY <1>5, ExitType DEF FinishDone, durable, TypeOK, ProcessType
<1> QED
  BY <1>1, <1>2, <1>3, <1>4, <1>5 DEF Commit

LEMMA NextType ==
  ASSUME TypeOK, InFlight, [Next]_vars
  PROVE  TypeOK'
<1>1. CASE Start
  BY <1>1, MaxFaultsAssumption DEF Start, durable, TypeOK, Pcs, RecoverPcs
<1>2. CASE Crash
  BY <1>2, ExitType DEF Crash, durable, TypeOK, ProcessType
<1>3. CASE UNCHANGED vars
  BY <1>3 DEF vars, TypeOK
<1> QED
  BY <1>1, <1>2, <1>3, RecoverType, ManageType, SettleType, CommitType DEF Next

\* The control points of an activation that is under way.
Activating == {"swap", "swapped", "back", "backDrop"}

LEMMA AppendNotEmpty ==
  ASSUME NEW s \in Seq(Change), NEW c \in Change
  PROVE  Append(s, c) # <<>> /\ s \o <<c>> # <<>>
<1>1. Len(Append(s, c)) = Len(s) + 1 /\ Len(s) \in Nat
  OBVIOUS
<1>2. <<c>> \in Seq(Change) /\ Len(<<c>>) = 1
  OBVIOUS
<1>3. Len(s \o <<c>>) = Len(s) + 1
  BY <1>1, <1>2
<1>4. Len(<<>>) = 0
  OBVIOUS
<1> QED
  BY <1>1, <1>3, <1>4

\* Only ActivateIntent enters an activation, with a change just appended, and
\* the steps of an activation never take a change away.
LEMMA InFlightStep ==
  ASSUME TypeOK, InFlight, [Next]_vars
  PROVE  InFlight'
<1>0. cur \in Journal /\ mem[cur] \in JournalState /\ mem[cur].changes \in Seq(Change)
  BY DEF TypeOK, JournalState
<1>1. CASE Start \/ Crash \/ Recover
  <2>1. pc' \notin Activating
    BY <1>1 DEF Start, Crash, Recover, RecoverMember, RecoverGroupDone, RecoverNext,
                RecoverDone, Exit, Goto, Activating
  <2> QED
    BY <2>1 DEF InFlight, Activating
<1>2. CASE Settle
  <2>1. pc' \notin Activating
    BY <1>2 DEF Settle, UndoSwap, UndoDropDest, UndoDropAlt, UndoPop, UndoConflict,
                FinishDrop, FinishPop, UndoFault, CleanDrop, CleanPop, RemoveJournal,
                Rewrite, RewriteFault, ReturnOk, ReturnError, Exit, Undoing, Finishing,
                Ending, Activating
  <2> QED
    BY <2>1 DEF InFlight, Activating
<1>3. CASE Commit
  <2>1. pc' \notin Activating
    BY <1>3 DEF Commit, WriteGroup, MarkCommitted, RemoveGroup, FinishNext, FinishDone,
                Exit, Activating
  <2> QED
    BY <2>1 DEF InFlight, Activating
<1>4. CASE Manage
  <2>1. CASE \/ \E d \in Dest : Stage(d) \/ CopyBackup(d) \/ Record(d) \/ Mutate(d)
             \/ AddCleanup \/ ManagerDone \/ ManagerFails
             \/ Revert \/ Discard \/ FailNext \/ FailDone
    <3>1. pc' \notin Activating
      BY <2>1 DEF Stage, CopyBackup, Record, Mutate, AddCleanup, ManagerDone, ManagerFails,
                  Revert, Discard, FailNext, FailDone, Goto, ActivateFails, Exit, Activating
    <3> QED
      BY <3>1 DEF InFlight, Activating
  <2>2. ASSUME NEW d \in Dest, ActivateIntent(d)
        PROVE  InFlight'
    <3>1. CASE pc' \in Activating
      <4>1. mem' = [mem EXCEPT ![cur] = WithChange(mem[cur], Intent(d))] /\ cur' = cur
        BY <2>2, <3>1 DEF ActivateIntent, ActivateFails, Goto, Remember, Activating
      <4>2. WithChange(mem[cur], Intent(d)).changes = Append(mem[cur].changes, Intent(d))
        BY <1>0 DEF WithChange, JournalState
      <4>3. mem'[cur'].changes # <<>>
        BY <1>0, <4>1, <4>2, NewChangeType, AppendNotEmpty DEF TypeOK
      <4> QED
        BY <4>3 DEF InFlight
    <3> QED
      BY <3>1 DEF InFlight, Activating
  <2>3. CASE ActivateSwap \/ ActivateBack \/ ActivateBackDrop
    <3>1. mem' = mem /\ cur' = cur /\ pc \in Activating
      BY <2>3 DEF ActivateSwap, ActivateBack, ActivateBackDrop, ActivateFails, Goto, Activating
    <3> QED
      BY <3>1 DEF InFlight, Activating
  <2>4. CASE ActivateEnd
    <3>1. cur' = cur /\ pc = "swapped" /\ mem[cur].changes # <<>>
      BY <2>4 DEF ActivateEnd, Goto, InFlight
    <3>2. mem' = mem \/ mem' = [mem EXCEPT ![cur] = Completed(mem[cur])]
      BY <2>4 DEF ActivateEnd, Remember
    <3>3. Completed(mem[cur]).changes # <<>>
      <4>0. Front(mem[cur].changes) \in Seq(Change) /\ Last(mem[cur].changes) \in Change
        BY <1>0, <3>1, FrontLast
      <4>1. [Last(mem[cur].changes) EXCEPT !.complete = TRUE] \in Change
        BY <4>0 DEF Change
      <4>2. Completed(mem[cur]).changes
              = Front(mem[cur].changes) \o <<[Last(mem[cur].changes) EXCEPT !.complete = TRUE]>>
        BY <1>0 DEF Completed, JournalState
      <4> QED
        BY <4>0, <4>1, <4>2, AppendNotEmpty
    <3>4. mem'[cur'].changes # <<>>
      BY <1>0, <3>1, <3>2, <3>3 DEF TypeOK
    <3> QED
      BY <3>4 DEF InFlight
  <2> QED
    BY <1>4, <2>1, <2>2, <2>3, <2>4 DEF Manage
<1>5. CASE UNCHANGED vars
  BY <1>5 DEF vars, InFlight
<1> QED
  BY <1>1, <1>2, <1>3, <1>4, <1>5 DEF Next

LEMMA InFlightInit == Init => InFlight
BY DEF Init, InFlight

\* Every reachable state of the installer process and of its journals is well
\* formed, for any number of managers, destinations, inodes and faults.
THEOREM TypeCorrect == Spec => []TypeOK
<1>1. Init => TypeOK /\ InFlight
  BY InitType, InFlightInit
<1>2. TypeOK /\ InFlight /\ [Next]_vars => TypeOK' /\ InFlight'
  BY NextType, InFlightStep
<1> QED
  BY <1>1, <1>2, PTL DEF Spec

-----------------------------------------------------------------------------
\* CommitJournals is atomic.

\* What the functions EXCEPT builds say of the committed flags.
LEMMA Flags ==
  ASSUME NEW s \in JournalState
  PROVE  /\ [s EXCEPT !.committed = TRUE].committed
         /\ \A q : [s EXCEPT !.changes = q].committed = s.committed
         /\ \A b : [s EXCEPT !.cleanup = b].committed = s.committed
         /\ \A c : WithChange(s, c).committed = s.committed
         /\ Completed(s).committed = s.committed
         /\ ~EmptyState.committed
BY DEF JournalState, WithChange, Completed, EmptyState

\* Memory and control after the process has ended.
LEMMA ExitFacts ==
  ASSUME Exit
  PROVE  pc' = "off" /\ open' = {} /\ \A j \in Journal : ~mem'[j].committed
BY DEF Exit, EmptyState

\* At "off" what matters is the group and the committed flags on disk.
LEMMA OffCommit ==
  ASSUME Exit, CommitIsAtomic', (group # {} => group = files)',
         (\A j \in Journal \ files : ~disk[j].committed)'
  PROVE  CommitInv'
BY ExitFacts DEF CommitInv, CommitsLive, RecoveryPart, WorkPart, SettlePart, MarkPart,
   BetweenPcs, WorkingPcs, FailingPcs

\* No journal is committed, or all of them are: either way the commit is atomic.
LEMMA OneSided ==
  ASSUME TypeOK, NothingCommitted \/ EverythingCommitted
  PROVE  CommitIsAtomic /\ (group # {} => group = files)
BY DEF NothingCommitted, EverythingCommitted, CommitIsAtomic, Committing

LEMMA CommitInit == Init => CommitInv
BY DEF Init, CommitInv, CommitIsAtomic, Committing, CommitsLive, RecoveryPart, WorkPart,
   SettlePart, MarkPart, BetweenPcs, WorkingPcs, FailingPcs, EmptyState

-----------------------------------------------------------------------------
\* Recovery.

LEMMA StartCommit ==
  ASSUME TypeOK, CommitInv, Start
  PROVE  CommitInv'
BY DEF Start, durable, CommitInv, CommitIsAtomic, Committing, CommitsLive, RecoveryPart,
   WorkPart, SettlePart, MarkPart, BetweenPcs, WorkingPcs, FailingPcs

LEMMA CrashCommit ==
  ASSUME TypeOK, CommitInv, Crash
  PROVE  CommitInv'
BY OffCommit DEF Crash, durable, CommitInv, CommitIsAtomic, Committing, CommitsLive

LEMMA RecoverCommit ==
  ASSUME TypeOK, CommitInv, Recover
  PROVE  CommitInv'
<1>1. CASE RecoverMember
  <2>0. /\ pc = "groupLoad" /\ group # {} /\ group = files /\ open = {} /\ todo \subseteq group
        /\ \A j \in group \ todo : disk[j].committed
        /\ CommitsLive
    BY <1>1 DEF RecoverMember, CommitInv, RecoveryPart, BetweenPcs
  <2>1. PICK j \in Firsts(todo) : RecoverMember!2!(j)
    BY <1>1 DEF RecoverMember
  <2>2. j \in files /\ j \in Journal /\ disk[j] \in JournalState
    BY <2>0 DEF TypeOK, Firsts
  <2>3. files' = files /\ group' = group
        /\ \/ disk' = disk
           \/ disk' = [disk EXCEPT ![j] = [disk[j] EXCEPT !.committed = TRUE]]
    BY <1>1, <2>1, <2>2 DEF RecoverMember, Persist, MayPersist
  <2>4. CommitIsAtomic' /\ (group # {} => group = files)'
        /\ (\A k \in Journal \ files : ~disk[k].committed)'
    BY <2>0, <2>2, <2>3 DEF CommitIsAtomic, Committing, CommitsLive, TypeOK
  <2>5. CASE Exit
    BY <2>4, <2>5, OffCommit
  <2>6. CASE Persist(j, [disk[j] EXCEPT !.committed = TRUE]) /\ todo' = todo \ {j}
             /\ UNCHANGED <<pc, cur, ret, open, mem, faults>>
    <3>1. disk'[j].committed /\ \A k \in files \ {j} : disk'[k] = disk[k]
      BY <2>2, <2>6, Flags DEF Persist, TypeOK
    <3> QED
      BY <2>0, <2>2, <2>3, <2>4, <2>6, <3>1
      DEF CommitInv, CommitsLive, RecoveryPart, WorkPart, SettlePart, MarkPart,
          BetweenPcs, WorkingPcs, FailingPcs
  <2> QED
    BY <2>1, <2>2, <2>5, <2>6
<1>2. CASE RecoverGroupDone
  <2>0. /\ pc = "groupLoad" /\ todo = {} /\ open = {} /\ CommitsLive
        /\ group # {} => group = files
        /\ group # {} => \A j \in files : disk[j].committed
        /\ UNCHANGED <<files, disk>> /\ group' \in {{}, group}
    BY <1>2 DEF RecoverGroupDone, CommitInv, RecoveryPart, BetweenPcs
  <2>1. CommitIsAtomic' /\ (group # {} => group = files)'
        /\ (\A k \in Journal \ files : ~disk[k].committed)'
    BY <2>0 DEF CommitIsAtomic, Committing, CommitsLive, CommitInv
  <2>2. CASE Exit
    BY <2>1, <2>2, OffCommit
  <2>3. CASE group' = {} /\ Goto("scan") /\ UNCHANGED <<open, mem, faults>>
    BY <2>0, <2>1, <2>3
    DEF Goto, CommitInv, CommitsLive, RecoveryPart, WorkPart, SettlePart, MarkPart,
        BetweenPcs, WorkingPcs, FailingPcs
  <2> QED
    BY <1>2, <2>2, <2>3 DEF RecoverGroupDone
<1>3. CASE RecoverNext
  <2>0. pc = "scan" /\ group = {} /\ open = {} /\ CommitsLive /\ UNCHANGED durable /\ ret' = "scan"
    BY <1>3 DEF RecoverNext, CommitInv, RecoveryPart, BetweenPcs
  <2>1. PICK j \in files : RecoverNext!2!(j)
    BY <1>3 DEF RecoverNext
  <2>2. j \in Journal /\ cur' = j /\ open' = {j} /\ mem' = [mem EXCEPT ![j] = disk[j]]
    BY <2>0, <2>1 DEF Remember, TypeOK
  <2>3. \A k \in files : disk[k].committed <=> disk[j].committed
    BY <2>0 DEF CommitInv, CommitIsAtomic, Committing
  <2>4. CommitIsAtomic' /\ (group # {} => group = files)' /\ CommitsLive'
    BY <2>0, <2>2 DEF CommitInv, CommitIsAtomic, Committing, CommitsLive, durable, TypeOK
  <2>5. CASE disk[j].committed
    BY <2>0, <2>1, <2>2, <2>3, <2>4, <2>5
    DEF CommitInv, RecoveryPart, WorkPart, SettlePart, MarkPart, EverythingCommitted,
        BetweenPcs, WorkingPcs, FailingPcs, durable, TypeOK
  <2>6. CASE ~disk[j].committed
    BY <2>0, <2>1, <2>2, <2>3, <2>4, <2>6
    DEF CommitInv, CommitsLive, RecoveryPart, WorkPart, SettlePart, MarkPart,
        NothingCommitted, BetweenPcs, WorkingPcs, FailingPcs, durable, TypeOK
  <2> QED
    BY <2>5, <2>6
<1>4. CASE RecoverDone
  <2>0. /\ pc = "scan" /\ group = {} /\ open = {} /\ files = {} /\ CommitsLive
        /\ UNCHANGED <<files, disk, group>>
    BY <1>4 DEF RecoverDone, CommitInv, RecoveryPart, BetweenPcs
  <2>1. CommitIsAtomic' /\ (group # {} => group = files)'
        /\ (\A k \in Journal \ files : ~disk[k].committed)'
    BY <2>0 DEF CommitIsAtomic, Committing, CommitsLive
  <2>2. CASE Exit
    BY <2>1, <2>2, OffCommit
  <2>3. CASE pc' = "run" /\ UNCHANGED <<todo, open, mem>>
    BY <2>0, <2>1, <2>3
    DEF CommitInv, CommitsLive, RecoveryPart, WorkPart, SettlePart, MarkPart,
        NothingCommitted, BetweenPcs, WorkingPcs, FailingPcs
  <2> QED
    BY <1>4, <2>2, <2>3 DEF RecoverDone
<1> QED
  BY <1>1, <1>2, <1>3, <1>4 DEF Recover

-----------------------------------------------------------------------------
\* Managers at work, and fail().

\* A manager works on journals none of which is committed.
LEMMA ManagePre ==
  ASSUME TypeOK, CommitInv, Manage
  PROVE  /\ pc \in WorkingPcs \cup FailingPcs
         /\ NothingCommitted /\ \A j \in Journal : ~mem[j].committed
         /\ \A j \in Journal : ~disk[j].committed
         /\ cur \in Journal /\ mem[cur] \in JournalState
         /\ pc \in WorkingPcs => open = files
         /\ pc \in {"swap", "swapped"} => cur \in open
<1>1. pc \in WorkingPcs \cup FailingPcs
  BY DEF Manage, Stage, CopyBackup, ActivateIntent, Record, Mutate, ActivateSwap, ActivateEnd,
         ActivateBack, ActivateBackDrop, AddCleanup, ManagerDone, ManagerFails, Revert, Discard,
         FailNext, FailDone, WorkingPcs, FailingPcs
<1> QED
  BY <1>1 DEF CommitInv, WorkPart, CommitsLive, NothingCommitted, TypeOK

\* What is left of CommitInv once nothing is committed, in memory or on disk.
LEMMA UncommittedCommit ==
  ASSUME TypeOK',
         NothingCommitted',
         (\A j \in Journal : ~disk[j].committed)',
         (\A j \in Journal : ~mem[j].committed)',
         pc' \in WorkingPcs \cup FailingPcs \cup {"undo"},
         (pc \in WorkingPcs => open = files)',
         (pc \in {"swap", "swapped"} => cur \in open)',
         (pc = "undo" => ret \in {"fail"} \cup Reverts)'
  PROVE  CommitInv'
<1>1. (CommitIsAtomic /\ (group # {} => group = files))'
  BY DEF NothingCommitted, CommitIsAtomic, Committing
<1>2. CommitsLive'
  BY DEF CommitsLive
<1>3. (RecoveryPart /\ MarkPart)'
  BY DEF RecoveryPart, MarkPart, BetweenPcs, WorkingPcs, FailingPcs
<1>4. WorkPart'
  BY DEF WorkPart
<1>5. SettlePart'
  BY DEF SettlePart, WorkingPcs, FailingPcs
<1> QED
  BY <1>1, <1>2, <1>3, <1>4, <1>5 DEF CommitInv

\* A manager writes its own journal, uncommitted as it is in memory.
LEMMA ManageWrites ==
  ASSUME TypeOK, CommitInv, NEW s \in JournalState, ~s.committed,
         \/ Persist(cur, s) /\ Remember(cur, s)
         \/ MayPersist(cur, s) /\ (Remember(cur, s) \/ mem' = mem),
         \A j \in Journal : ~disk[j].committed /\ ~mem[j].committed,
         group = {}, group' = group
  PROVE  /\ NothingCommitted'
         /\ \A j \in Journal : ~disk'[j].committed /\ ~mem'[j].committed
BY DEF Persist, MayPersist, Remember, NothingCommitted, TypeOK

LEMMA ManageCommit ==
  ASSUME TypeOK, InFlight, CommitInv, Manage
  PROVE  CommitInv'
<1>0. /\ pc \in WorkingPcs \cup FailingPcs
      /\ NothingCommitted /\ group = {}
      /\ \A j \in Journal : ~disk[j].committed /\ ~mem[j].committed
      /\ cur \in Journal /\ mem[cur] \in JournalState
      /\ pc \in WorkingPcs => open = files
      /\ pc \in {"swap", "swapped"} => cur \in open
  BY ManagePre DEF NothingCommitted
<1>t. TypeOK'
  BY ManageType
<1>1. CASE \E d \in Dest : Stage(d) \/ CopyBackup(d) \/ Mutate(d)
  <2>1. UNCHANGED <<files, disk, group, pc, cur, todo, ret, open, mem>> /\ pc = "run"
    BY <1>1 DEF Stage, CopyBackup, Mutate
  <2> QED
    BY <1>0, <1>t, <2>1, UncommittedCommit DEF NothingCommitted, WorkingPcs
<1>2. ASSUME NEW d \in Dest, ActivateIntent(d)
      PROVE  CommitInv'
  <2>1. WithChange(mem[cur], Intent(d)) \in JournalState
        /\ ~WithChange(mem[cur], Intent(d)).committed
    BY <1>0, NewChangeType, WithChangeState, Flags
  <2>2. /\ NothingCommitted'
        /\ \A j \in Journal : ~disk'[j].committed /\ ~mem'[j].committed
    BY <1>0, <1>2, <2>1, ManageWrites DEF ActivateIntent
  <2>3. /\ pc' \in {"swap", "failed", "callFailed", "untracked"}
        /\ pc' = "swap" => cur' \in open' /\ open' = files'
    BY <1>0, <1>2 DEF ActivateIntent, Goto, ActivateFails, Ready, Persist, WorkingPcs
  <2> QED
    BY <1>t, <2>2, <2>3, UncommittedCommit DEF WorkingPcs, FailingPcs
<1>3. ASSUME NEW d \in Dest, Record(d)
      PROVE  CommitInv'
  <2>1. WithChange(mem[cur], Recorded(d)) \in JournalState
        /\ ~WithChange(mem[cur], Recorded(d)).committed
    BY <1>0, NewChangeType, WithChangeState, Flags
  <2>2. /\ NothingCommitted'
        /\ \A j \in Journal : ~disk'[j].committed /\ ~mem'[j].committed
    BY <1>0, <1>3, <2>1, ManageWrites DEF Record
  <2>3. /\ pc' \in {"run", "failed"}
        /\ pc' = "run" => open' = files'
    BY <1>0, <1>3 DEF Record, Goto, Ready, Persist, WorkingPcs
  <2> QED
    BY <1>t, <2>2, <2>3, UncommittedCommit DEF WorkingPcs, FailingPcs
<1>4. CASE AddCleanup
  <2>1. /\ [mem[cur] EXCEPT !.cleanup = TRUE] \in JournalState
        /\ ~[mem[cur] EXCEPT !.cleanup = TRUE].committed
    BY <1>0 DEF JournalState
  <2>2. /\ NothingCommitted'
        /\ \A j \in Journal : ~disk'[j].committed /\ ~mem'[j].committed
    BY <1>0, <1>4, <2>1, ManageWrites DEF AddCleanup
  <2>3. /\ pc' \in {"run", "failed", "callFailed", "untracked"}
        /\ pc' = "run" => open' = files'
    BY <1>0, <1>4 DEF AddCleanup, Goto, Ready, Persist, WorkingPcs
  <2> QED
    BY <1>t, <2>2, <2>3, UncommittedCommit DEF WorkingPcs, FailingPcs
<1>5. CASE ActivateEnd
  <2>1. Completed(mem[cur]) \in JournalState /\ ~Completed(mem[cur]).committed
    BY <1>0, <1>5, CompletedState, Flags DEF ActivateEnd, InFlight
  <2>2. /\ NothingCommitted'
        /\ \A j \in Journal : ~disk'[j].committed /\ ~mem'[j].committed
    BY <1>0, <1>5, <2>1, ManageWrites DEF ActivateEnd, MayPersist
  <2>3. /\ pc' \in {"run", "back"}
        /\ pc' = "run" => open' = files'
    BY <1>0, <1>5 DEF ActivateEnd, Goto, Persist, WorkingPcs
  <2> QED
    BY <1>t, <2>2, <2>3, UncommittedCommit DEF WorkingPcs, FailingPcs
<1>6. CASE ActivateSwap \/ ActivateBack \/ ActivateBackDrop
  <2>1. /\ UNCHANGED <<files, disk, group, cur, open, mem>>
        /\ pc' \in FailingPcs \/ (pc = "swap" /\ pc' = "swapped")
    BY <1>6 DEF ActivateSwap, ActivateBack, ActivateBackDrop, Goto, ActivateFails, FailingPcs
  <2> QED
    BY <1>0, <1>t, <2>1, UncommittedCommit DEF NothingCommitted, WorkingPcs, FailingPcs
<1>7. CASE ManagerDone \/ ManagerFails \/ Revert \/ Discard \/ FailNext
  <2>1. UNCHANGED <<files, disk, group, open, mem>>
    BY <1>7 DEF ManagerDone, ManagerFails, Revert, Discard, FailNext, durable
  <2>2. /\ pc' \in {"run", "commit", "failed", "undo", "discard", "fail"}
        /\ pc' \in WorkingPcs => pc = "run"
        /\ pc' = "undo" => ret' \in {"fail"} \cup Reverts
    BY <1>7 DEF ManagerDone, ManagerFails, Revert, Discard, FailNext, Goto, WorkingPcs
  <2> QED
    BY <1>0, <1>t, <2>1, <2>2, UncommittedCommit DEF NothingCommitted, WorkingPcs, FailingPcs
<1>8. CASE FailDone
  BY <1>8, OffCommit DEF FailDone, durable, CommitInv, CommitIsAtomic, Committing, CommitsLive
<1> QED
  BY <1>1, <1>2, <1>3, <1>4, <1>5, <1>6, <1>7, <1>8 DEF Manage

-----------------------------------------------------------------------------
\* Rolling back and finishing.

\* The flag of the journal in hand, on disk and in memory, agrees with pc.
LEMMA SettlePre ==
  ASSUME TypeOK, CommitInv, Settle
  PROVE  /\ pc \in {"undo", "finish"} /\ group = {}
         /\ cur \in Journal /\ mem[cur] \in JournalState
         /\ pc = "undo" => /\ \A j \in Journal : ~disk[j].committed /\ ~mem[j].committed
                           /\ ret \in {"scan", "fail"} \cup Reverts
         /\ pc = "finish" => /\ \A j \in files : disk[j].committed
                             /\ \A j \in open : mem[j].committed
                             /\ cur \in open /\ ret \in {"scan", "commit"}
         /\ ret = "scan" => open = {cur}
<1>1. pc \in {"undo", "finish"}
  BY DEF Settle, UndoSwap, UndoDropDest, UndoDropAlt, UndoPop, UndoConflict, FinishDrop,
         FinishPop, UndoFault, CleanDrop, CleanPop, RemoveJournal, Undoing, Finishing, Ending
<1> QED
  BY <1>1 DEF CommitInv, CommitsLive, WorkPart, SettlePart, NothingCommitted,
              EverythingCommitted, TypeOK

\* Rolling back writes uncommitted states only, finishing committed ones only.
LEMMA SettleDisk ==
  ASSUME TypeOK, CommitInv, Settle,
         NEW s \in JournalState, s.committed = mem[cur].committed,
         Persist(cur, s) \/ UNCHANGED <<files, disk>>, group' = group
  PROVE  /\ pc = "undo" => NothingCommitted'
         /\ pc = "finish" => EverythingCommitted'
         /\ (\A j \in Journal \ files : ~disk[j].committed)'
<1>1. CASE UNCHANGED <<files, disk>>
  BY <1>1, SettlePre DEF NothingCommitted, EverythingCommitted, CommitInv, CommitsLive, TypeOK
<1>2. CASE Persist(cur, s)
  BY <1>2, SettlePre
  DEF Persist, NothingCommitted, EverythingCommitted, CommitInv, CommitsLive, TypeOK
<1> QED
  BY <1>1, <1>2

\* A step that stays with the journal in hand.
LEMMA StayCommit ==
  ASSUME TypeOK, CommitInv, Settle, TypeOK',
         NEW s \in JournalState, s.committed = mem[cur].committed,
         Persist(cur, s) \/ UNCHANGED <<files, disk>>,
         Remember(cur, s) \/ mem' = mem,
         UNCHANGED <<group, pc, cur, todo, ret, open>>
  PROVE  CommitInv'
<1>0. /\ pc = "undo" => NothingCommitted'
      /\ pc = "finish" => EverythingCommitted'
      /\ (\A j \in Journal \ files : ~disk[j].committed)'
  BY SettleDisk
<1>1. (CommitIsAtomic /\ (group # {} => group = files))'
  BY <1>0, SettlePre, OneSided
  DEF NothingCommitted, EverythingCommitted, CommitIsAtomic, Committing
<1>2. \A j \in Journal : mem'[j].committed = mem[j].committed
  BY SettlePre DEF Remember, TypeOK
<1>3. CommitsLive'
  BY <1>0, <1>2 DEF CommitInv, CommitsLive
<1>4. (RecoveryPart /\ MarkPart)'
  BY SettlePre DEF RecoveryPart, MarkPart, BetweenPcs
<1>5. WorkPart'
  BY <1>0, <1>2, SettlePre DEF WorkPart, WorkingPcs, FailingPcs
<1>6. SettlePart'
  BY <1>0, <1>2, SettlePre DEF SettlePart, TypeOK
<1> QED
  BY <1>1, <1>3, <1>4, <1>5, <1>6 DEF CommitInv

\* A step that gives up on the journal in hand.
LEMMA GiveUpCommit ==
  ASSUME TypeOK, CommitInv, Settle, TypeOK', ReturnError,
         NothingCommitted' \/ EverythingCommitted',
         pc = "undo" => NothingCommitted',
         (\A j \in Journal \ files : ~disk[j].committed)'
  PROVE  CommitInv'
<1>1. (CommitIsAtomic /\ (group # {} => group = files))'
  BY DEF NothingCommitted, EverythingCommitted, CommitIsAtomic, Committing
<1>2. CASE Exit
  BY <1>1, <1>2, OffCommit
<1>3. CASE pc' \in {"fail", "discard"} /\ UNCHANGED <<cur, todo, ret, open, mem>> /\ ret # "scan"
           /\ ret # "commit"
  <2>1. pc = "undo" /\ NothingCommitted'
    BY <1>3, SettlePre
  <2>2. (\A j \in Journal : ~disk[j].committed /\ ~mem[j].committed)'
    BY <1>3, <2>1, SettlePre DEF NothingCommitted
  <2> QED
    BY <1>3, <2>1, <2>2, UncommittedCommit DEF WorkingPcs, FailingPcs
<1> QED
  BY <1>2, <1>3 DEF ReturnError

LEMMA RewriteCommit ==
  ASSUME TypeOK, CommitInv, Settle, TypeOK', NEW s \in JournalState,
         s.committed = mem[cur].committed, Rewrite(s) \/ RewriteFault(s)
  PROVE  CommitInv'
<1>1. CASE Rewrite(s)
  BY <1>1, StayCommit DEF Rewrite
<1>2. CASE RewriteFault(s)
  <2>1. /\ pc = "undo" => NothingCommitted'
        /\ pc = "finish" => EverythingCommitted'
        /\ (\A j \in Journal \ files : ~disk[j].committed)'
    BY <1>2, SettleDisk DEF RewriteFault, MayPersist
  <2> QED
    BY <1>2, <2>1, SettlePre, GiveUpCommit DEF RewriteFault
<1> QED
  BY <1>1, <1>2

\* removeJournal takes the journal off the disk and out of the process.
LEMMA RemoveJournalCommit ==
  ASSUME TypeOK, CommitInv, RemoveJournal, TypeOK'
  PROVE  CommitInv'
<1>0. Settle
  BY DEF Settle
<1>1. /\ pc = "undo" => NothingCommitted'
      /\ pc = "finish" => EverythingCommitted'
      /\ (\A j \in Journal \ files : ~disk[j].committed)'
  BY <1>0, SettlePre
  DEF RemoveJournal, NothingCommitted, EverythingCommitted, CommitInv, CommitsLive, TypeOK,
      EmptyState
<1>2. CASE ReturnError
  BY <1>0, <1>1, <1>2, SettlePre, GiveUpCommit
<1>3. CASE /\ open' = open \ {cur}
           /\ Remember(cur, EmptyState)
           /\ ReturnOk
  <2>1. (CommitIsAtomic /\ (group # {} => group = files))'
    BY <1>0, <1>1, SettlePre
    DEF NothingCommitted, EverythingCommitted, CommitIsAtomic, Committing
  <2>2. /\ ~mem'[cur].committed
        /\ \A j \in Journal \ {cur} : mem'[j] = mem[j]
    BY <1>0, <1>3, SettlePre DEF Remember, EmptyState, TypeOK
  <2>3. CommitsLive'
    BY <1>1, <1>3, <2>2 DEF CommitInv, CommitsLive
  <2>4. CASE pc = "undo"
    <3>1. (\A j \in Journal : ~disk[j].committed /\ ~mem[j].committed)'
      BY <1>0, <1>1, <2>2, <2>4, SettlePre DEF NothingCommitted
    <3>2. CASE ret = "scan"
      <4>1. pc' = "scan" /\ open' = {} /\ group' = {}
        BY <1>0, <1>1, <1>3, <2>4, <3>2, SettlePre DEF ReturnOk, NothingCommitted
      <4> QED
        BY <2>1, <2>3, <4>1
        DEF CommitInv, RecoveryPart, WorkPart, SettlePart, MarkPart, BetweenPcs, WorkingPcs,
            FailingPcs
    <3>3. CASE ret \in {"fail"} \cup Reverts
      <4>1. pc' \in {"fail", "discard"}
        BY <1>3, <3>3 DEF ReturnOk
      <4> QED
        BY <1>1, <2>4, <3>1, <4>1, UncommittedCommit DEF WorkingPcs, FailingPcs
    <3> QED
      BY <1>0, <2>4, <3>2, <3>3, SettlePre
  <2>5. CASE pc = "finish"
    <3>1. CASE ret = "scan"
      <4>1. pc' = "scan" /\ open' = {} /\ group' = {}
        BY <1>0, <1>1, <1>3, <2>5, <3>1, SettlePre DEF ReturnOk, EverythingCommitted
      <4> QED
        BY <2>1, <2>3, <4>1
        DEF CommitInv, RecoveryPart, WorkPart, SettlePart, MarkPart, BetweenPcs, WorkingPcs,
            FailingPcs
    <3>2. CASE ret = "commit"
      <4>1. pc' = "finishNext" /\ ret' = "commit"
        BY <1>3, <3>2 DEF ReturnOk
      <4>2. \A j \in open' : mem'[j].committed
        BY <1>0, <1>3, <2>2, <2>5, SettlePre DEF TypeOK
      <4> QED
        BY <1>1, <2>1, <2>3, <2>5, <4>1, <4>2
        DEF CommitInv, RecoveryPart, WorkPart, SettlePart, MarkPart, BetweenPcs, WorkingPcs,
            FailingPcs
    <3> QED
      BY <1>0, <2>5, <3>1, <3>2, SettlePre
  <2> QED
    BY <1>0, <2>4, <2>5, SettlePre
<1> QED
  BY <1>2, <1>3 DEF RemoveJournal

LEMMA SettleCommit ==
  ASSUME TypeOK, CommitInv, Settle
  PROVE  CommitInv'
<1>0. TypeOK' /\ cur \in Journal /\ mem[cur] \in JournalState
  BY SettleType, SettlePre
<1>1. CASE UndoSwap \/ UndoDropDest \/ UndoDropAlt \/ FinishDrop \/ CleanDrop
  <2>1. UNCHANGED <<files, disk, group, pc, cur, todo, ret, open, mem>>
    BY <1>1 DEF UndoSwap, UndoDropDest, UndoDropAlt, FinishDrop, CleanDrop
  <2> QED
    BY <1>0, <2>1, StayCommit
<1>2. CASE UndoPop
  <2>1. mem[cur].changes \in Seq(Change) /\ mem[cur].changes # <<>>
    BY <1>0, <1>2 DEF UndoPop, Undoing, JournalState
  <2>2. [mem[cur] EXCEPT !.changes = Front(@)] \in JournalState
    BY <1>0, <2>1, FrontLast, ChangesState
  <2>3. [mem[cur] EXCEPT !.changes = Front(@)].committed = mem[cur].committed
    BY <1>0, Flags
  <2> QED
    BY <1>0, <1>2, <2>2, <2>3, RewriteCommit DEF UndoPop
<1>3. CASE FinishPop
  <2>1. mem[cur].changes \in Seq(Change) /\ mem[cur].changes # <<>>
    BY <1>0, <1>3 DEF FinishPop, Finishing, JournalState
  <2>2. [mem[cur] EXCEPT !.changes = Tail(@)] \in JournalState
    BY <1>0, <2>1, HeadTail, ChangesState
  <2>3. [mem[cur] EXCEPT !.changes = Tail(@)].committed = mem[cur].committed
    BY <1>0, Flags
  <2> QED
    BY <1>0, <1>3, <2>2, <2>3, RewriteCommit DEF FinishPop
<1>4. CASE CleanPop
  <2>1. [mem[cur] EXCEPT !.cleanup = FALSE] \in JournalState
    BY <1>0, CleanupState
  <2>2. [mem[cur] EXCEPT !.cleanup = FALSE].committed = mem[cur].committed
    BY <1>0, Flags
  <2> QED
    BY <1>0, <1>4, <2>1, <2>2, RewriteCommit DEF CleanPop
<1>5. CASE UndoConflict \/ UndoFault
  <2>1. ReturnError /\ UNCHANGED <<files, disk, group>>
    BY <1>5 DEF UndoConflict, UndoFault, durable
  <2>2. /\ pc = "undo" => NothingCommitted'
        /\ pc = "finish" => EverythingCommitted'
        /\ (\A j \in Journal \ files : ~disk[j].committed)'
    BY <1>0, <2>1, SettleDisk
  <2> QED
    BY <1>0, <2>1, <2>2, SettlePre, GiveUpCommit
<1>6. CASE RemoveJournal
  BY <1>0, <1>6, RemoveJournalCommit
<1> QED
  BY <1>1, <1>2, <1>3, <1>4, <1>5, <1>6 DEF Settle

-----------------------------------------------------------------------------
\* CommitJournals.

LEMMA CommitCommit ==
  ASSUME TypeOK, CommitInv, Commit
  PROVE  CommitInv'
<1>1. CASE WriteGroup
  <2>0. /\ NothingCommitted /\ group = {} /\ open = files /\ UNCHANGED <<files, disk>>
        /\ CommitsLive
    BY <1>1 DEF WriteGroup, CommitInv, WorkPart, WorkingPcs, NothingCommitted
  <2>1. group' \in {{}, open}
    BY <1>1, <2>0 DEF WriteGroup
  <2>2. (CommitIsAtomic /\ (group # {} => group = files))'
        /\ (\A j \in Journal \ files : ~disk[j].committed)'
    BY <2>0, <2>1 DEF NothingCommitted, CommitIsAtomic, Committing, CommitsLive
  <2>3. CASE Exit
    BY <2>2, <2>3, OffCommit
  <2>4. CASE /\ group' = open /\ pc' = "mark" /\ todo' = open
             /\ UNCHANGED <<cur, ret, open, mem>>
    BY <2>0, <2>2, <2>4
    DEF CommitInv, CommitsLive, RecoveryPart, WorkPart, SettlePart, MarkPart, BetweenPcs,
        WorkingPcs, FailingPcs
  <2> QED
    BY <1>1, <2>3, <2>4 DEF WriteGroup
<1>2. CASE MarkCommitted
  <2>0. /\ pc = "mark" /\ group = open /\ open = files /\ todo \subseteq open /\ CommitsLive
        /\ \A j \in open \ todo : mem[j].committed /\ disk[j].committed
        /\ group' = group
    BY <1>2 DEF MarkCommitted, CommitInv, MarkPart
  <2>1. PICK j \in Firsts(todo) : MarkCommitted!2!(j)
    BY <1>2 DEF MarkCommitted
  <2>2. j \in files /\ j \in Journal /\ j \in todo /\ mem[j] \in JournalState
    BY <2>0 DEF TypeOK, Firsts
  <2>3. files' = files
        /\ (disk' = disk \/ disk' = [disk EXCEPT ![j] = [mem[j] EXCEPT !.committed = TRUE]])
    BY <2>1, <2>2 DEF Persist, MayPersist
  <2>4. (CommitIsAtomic /\ (group # {} => group = files))'
        /\ (\A k \in Journal \ files : ~disk[k].committed)'
    BY <2>0, <2>2, <2>3 DEF CommitIsAtomic, Committing, CommitsLive, TypeOK
  <2>5. CASE Exit
    BY <2>4, <2>5, OffCommit
  <2>6. CASE /\ Persist(j, [mem[j] EXCEPT !.committed = TRUE])
             /\ Remember(j, [mem[j] EXCEPT !.committed = TRUE])
             /\ todo' = todo \ {j}
             /\ UNCHANGED <<pc, cur, ret, open>>
    <3>1. /\ disk'[j].committed /\ mem'[j].committed
          /\ \A k \in Journal \ {j} : disk'[k] = disk[k] /\ mem'[k] = mem[k]
      BY <2>2, <2>6, Flags DEF Persist, Remember, TypeOK
    <3>2. MarkPart' /\ CommitsLive'
      BY <2>0, <2>2, <2>3, <2>6, <3>1 DEF MarkPart, CommitsLive, TypeOK
    <3> QED
      BY <2>0, <2>4, <2>6, <3>2
      DEF CommitInv, RecoveryPart, WorkPart, SettlePart, BetweenPcs, WorkingPcs, FailingPcs
  <2> QED
    BY <2>1, <2>5, <2>6
<1>3. CASE RemoveGroup
  <2>0. /\ pc = "mark" /\ todo = {} /\ open = files /\ group = open /\ CommitsLive
        /\ \A j \in open : mem[j].committed /\ disk[j].committed
        /\ UNCHANGED <<files, disk>> /\ group' \in {{}, group}
    BY <1>3 DEF RemoveGroup, CommitInv, MarkPart
  <2>1. (CommitIsAtomic /\ (group # {} => group = files))'
        /\ (\A k \in Journal \ files : ~disk[k].committed)'
    BY <2>0 DEF CommitIsAtomic, Committing, CommitsLive
  <2>2. CASE Exit
    BY <2>1, <2>2, OffCommit
  <2>3. CASE group' = {} /\ pc' = "finishNext" /\ ret' = "commit"
             /\ UNCHANGED <<cur, todo, open, mem>>
    BY <2>0, <2>1, <2>3
    DEF CommitInv, CommitsLive, RecoveryPart, WorkPart, SettlePart, MarkPart,
        EverythingCommitted, BetweenPcs, WorkingPcs, FailingPcs
  <2> QED
    BY <1>3, <2>2, <2>3 DEF RemoveGroup
<1>4. CASE FinishNext
  <2>1. /\ pc = "finishNext" /\ ret = "commit" /\ pc' = "finish" /\ cur' \in open
        /\ UNCHANGED <<files, disk, group, todo, ret, open, mem>>
    BY <1>4 DEF FinishNext, Firsts, durable, CommitInv, SettlePart
  <2> QED
    BY <2>1
    DEF CommitInv, CommitIsAtomic, Committing, CommitsLive, RecoveryPart, WorkPart, SettlePart,
        MarkPart, EverythingCommitted, BetweenPcs, WorkingPcs, FailingPcs
<1>5. CASE FinishDone
  BY <1>5, OffCommit
  DEF FinishDone, durable, CommitInv, CommitIsAtomic, Committing, CommitsLive
<1> QED
  BY <1>1, <1>2, <1>3, <1>4, <1>5 DEF Commit

-----------------------------------------------------------------------------

LEMMA CommitStep ==
  ASSUME TypeOK, InFlight, CommitInv, [Next]_vars
  PROVE  CommitInv'
<1>1. CASE UNCHANGED vars
  BY <1>1
  DEF vars, CommitInv, CommitIsAtomic, Committing, CommitsLive, RecoveryPart, WorkPart,
      SettlePart, MarkPart, NothingCommitted, EverythingCommitted
<1> QED
  BY <1>1, StartCommit, CrashCommit, RecoverCommit, ManageCommit, SettleCommit, CommitCommit
  DEF Next

\* At every point of recovery, of a manager's work, of fail() and of
\* CommitJournals, CommitInv says which journals can be found committed: it
\* holds for any number of managers, crashes and failing system calls.
THEOREM CommitInvariant == Spec => []CommitInv
<1>1. Init => TypeOK /\ InFlight /\ CommitInv
  BY InitType, InFlightInit, CommitInit
<1>2. TypeOK /\ InFlight /\ CommitInv /\ [Next]_vars => (TypeOK /\ InFlight /\ CommitInv)'
  BY NextType, InFlightStep, CommitStep
<1> QED
  BY <1>1, <1>2, PTL DEF Spec

\* CommitJournals is atomic: there is no crash point after which recovery would
\* finish some of the journals on disk and roll back the others.
THEOREM CommitAtomic == Spec => []CommitIsAtomic
<1>1. CommitInv => CommitIsAtomic
  BY DEF CommitInv
<1> QED
  BY <1>1, CommitInvariant, PTL

\* A commit group never names a journal without a file, which would make
\* recoverCommitGroup fail on this and every later command.
THEOREM GroupComplete == Spec => []GroupMembersOnDisk
<1>1. CommitInv => GroupMembersOnDisk
  BY DEF CommitInv, GroupMembersOnDisk
<1> QED
  BY <1>1, CommitInvariant, PTL

\* rollback is never called for a journal that is durably committed, be it in
\* the process that committed it or in a later recovery.
THEOREM CommittedStays == Spec => []NoCommittedRollback
<1>1. TypeOK /\ CommitInv => NoCommittedRollback
  BY DEF CommitInv, WorkPart, CommitsLive, NothingCommitted, NoCommittedRollback, Committing,
         TypeOK
<1> QED
  BY <1>1, TypeCorrect, CommitInvariant, PTL

-----------------------------------------------------------------------------
\* The changes of a journal as a set.

LEMMA NoChanges == ASSUME NEW s, s.changes = <<>> PROVE Changes(s) = {}
BY DEF Changes

LEMMA EmptyChanges == Changes(EmptyState) = {}
BY NoChanges DEF EmptyState

LEMMA ChangesTyped ==
  ASSUME NEW s \in JournalState
  PROVE  /\ \A c \in Changes(s) : c \in Change /\ c.dest \in Dest
         /\ s.changes # <<>> => Last(s.changes) \in Changes(s) /\ Head(s.changes) \in Changes(s)
         /\ Len(s.changes) = 0 => s.changes = <<>>
         /\ \A d : Touches(s, d) <=> \E c \in Changes(s) : c.dest = d
<1>1. s.changes \in Seq(Change)
  BY DEF JournalState
<1>2. \A c \in Changes(s) : c \in Change /\ c.dest \in Dest
  <2> TAKE c \in Changes(s)
  <2>1. PICK i \in 1..Len(s.changes) : c = s.changes[i]
    BY DEF Changes
  <2>2. c \in Change
    BY <1>1, <2>1
  <2> QED BY <2>2 DEF Change
<1>3. s.changes # <<>> => Last(s.changes) \in Changes(s) /\ Head(s.changes) \in Changes(s)
  BY <1>1 DEF Changes, Last
<1>4. \A d : Touches(s, d) <=> \E c \in Changes(s) : c.dest = d
  BY DEF Touches, Changes
<1> QED BY <1>1, <1>2, <1>3, <1>4

LEMMA FlagChanges ==
  ASSUME NEW s \in JournalState, NEW b
  PROVE  /\ Changes([s EXCEPT !.committed = b]) = Changes(s)
         /\ Changes([s EXCEPT !.cleanup = b]) = Changes(s)
<1>1. [s EXCEPT !.committed = b].changes = s.changes /\ [s EXCEPT !.cleanup = b].changes = s.changes
  BY DEF JournalState
<1> QED BY <1>1 DEF Changes

LEMMA AddedChange ==
  ASSUME NEW s \in JournalState, NEW c \in Change
  PROVE  /\ Changes(WithChange(s, c)) = Changes(s) \cup {c}
         /\ Last(WithChange(s, c).changes) = c /\ WithChange(s, c).changes # <<>>
<1>1. s.changes \in Seq(Change)
  BY DEF JournalState
<1>2. WithChange(s, c).changes = Append(s.changes, c)
  BY DEF WithChange, JournalState
<1> DEFINE t == Append(s.changes, c)
           n == Len(s.changes)
<1>3. n \in Nat /\ Len(t) = n + 1 /\ t[n + 1] = c /\ \A i \in 1..n : t[i] = s.changes[i]
  BY <1>1
<1>4. Changes(WithChange(s, c)) = {t[i] : i \in 1..(n + 1)}
  BY <1>2, <1>3 DEF Changes
<1>5. Changes(s) = {s.changes[i] : i \in 1..n}
  BY DEF Changes
<1>6. Last(t) = c /\ t # <<>>
  <2> HIDE DEF t
  <2> QED BY <1>3 DEF Last
<1> HIDE DEF t, n
<1>7. {t[i] : i \in 1..(n + 1)} = {s.changes[i] : i \in 1..n} \cup {c}
  BY <1>3
<1> QED BY <1>2, <1>4, <1>5, <1>6, <1>7 DEF t

LEMMA FrontChanges ==
  ASSUME NEW s \in JournalState, s.changes # <<>>
  PROVE  /\ Changes([s EXCEPT !.changes = Front(@)]) \subseteq Changes(s)
         /\ \A c \in Changes(s) : c \in Changes([s EXCEPT !.changes = Front(@)]) \/ c = Last(s.changes)
<1>1. s.changes \in Seq(Change) /\ Len(s.changes) \in Nat /\ Len(s.changes) >= 1
  BY DEF JournalState
<1>2. [s EXCEPT !.changes = Front(@)].changes = Front(s.changes)
  BY DEF JournalState
<1> DEFINE t == Front(s.changes)
           n == Len(s.changes)
<1>3. Len(t) = n - 1 /\ \A i \in 1..(n - 1) : t[i] = s.changes[i]
  BY <1>1 DEF Front
<1>4. Changes([s EXCEPT !.changes = Front(@)]) = {t[i] : i \in 1..(n - 1)}
  BY <1>2, <1>3 DEF Changes
<1>5. Changes(s) = {s.changes[i] : i \in 1..n} /\ Last(s.changes) = s.changes[n] /\ n \in Nat /\ n >= 1
  BY <1>1 DEF Changes, Last
<1> HIDE DEF t, n
<1>6. {t[i] : i \in 1..(n - 1)} \subseteq {s.changes[i] : i \in 1..n}
  BY <1>3, <1>5
<1>7. \A c \in {s.changes[i] : i \in 1..n} : c \in {t[i] : i \in 1..(n - 1)} \/ c = s.changes[n]
  BY <1>3, <1>5
<1> QED BY <1>4, <1>5, <1>6, <1>7

LEMMA TailChanges ==
  ASSUME NEW s \in JournalState, s.changes # <<>>
  PROVE  Changes([s EXCEPT !.changes = Tail(@)]) \subseteq Changes(s)
<1>1. s.changes \in Seq(Change) /\ Len(s.changes) \in Nat /\ Len(s.changes) >= 1
  BY DEF JournalState
<1>2. [s EXCEPT !.changes = Tail(@)].changes = Tail(s.changes)
  BY DEF JournalState
<1>3. Len(Tail(s.changes)) = Len(s.changes) - 1
      /\ \A i \in 1..(Len(s.changes) - 1) : Tail(s.changes)[i] = s.changes[i + 1]
  BY <1>1
<1> DEFINE t == Tail(s.changes)
           n == Len(s.changes)
<1>4. Changes([s EXCEPT !.changes = Tail(@)]) = {t[i] : i \in 1..(n - 1)}
  BY <1>2, <1>3 DEF Changes
<1>5. Changes(s) = {s.changes[i] : i \in 1..n} /\ n \in Nat
      /\ \A i \in 1..(n - 1) : t[i] = s.changes[i + 1]
  BY <1>1, <1>3 DEF Changes
<1> HIDE DEF t, n
<1>6. \A i \in 1..(n - 1) : i + 1 \in 1..n
  BY <1>5
<1> QED BY <1>4, <1>5, <1>6

LEMMA AddedLast ==
  ASSUME NEW S, NEW f \in Seq(S), NEW n \in Nat, Len(f) = n - 1, n >= 1, NEW l \in S
  PROVE  /\ f \o <<l>> \in Seq(S) /\ Len(f \o <<l>>) = n
         /\ (f \o <<l>>)[n] = l /\ \A i \in 1..(n - 1) : (f \o <<l>>)[i] = f[i]
OBVIOUS

LEMMA CompletedChanges ==
  ASSUME NEW s \in JournalState, s.changes # <<>>
  PROVE  /\ Completed(s).changes # <<>>
         /\ Same(Last(Completed(s).changes), Last(s.changes))
         /\ \A c \in Changes(Completed(s)) : \E e \in Changes(s) : Same(c, e)
         /\ \A e \in Changes(s) : \E c \in Changes(Completed(s)) : Same(c, e)
<1>1. s.changes \in Seq(Change) /\ Len(s.changes) \in Nat /\ Len(s.changes) >= 1
  BY DEF JournalState
<1> DEFINE n == Len(s.changes)
           l == [Last(s.changes) EXCEPT !.complete = TRUE]
           t == Front(s.changes) \o <<l>>
<1>2. Completed(s).changes = t
  BY DEF Completed, JournalState
<1>3. Last(s.changes) = s.changes[n] /\ Last(s.changes) \in Change
  BY <1>1, FrontLast DEF Last
<1>4. Same(l, s.changes[n])
  BY <1>3 DEF Same, Change
<1>5. Front(s.changes) \in Seq(Change) /\ Len(Front(s.changes)) = n - 1
      /\ \A i \in 1..(n - 1) : Front(s.changes)[i] = s.changes[i]
  BY <1>1, FrontLast DEF Front
<1>6. l \in Change
  BY <1>3 DEF Change
<1>7. n \in Nat /\ n >= 1
  BY <1>1
<1>8. Len(t) = n /\ t[n] = l /\ t \in Seq(Change) /\ \A i \in 1..(n - 1) : t[i] = Front(s.changes)[i]
  <2> HIDE DEF l, n
  <2> QED BY <1>5, <1>6, <1>7, AddedLast
<1>9. Changes(s) = {s.changes[i] : i \in 1..n} /\ Changes(Completed(s)) = {t[i] : i \in 1..n}
  <2> HIDE DEF t
  <2> QED BY <1>2, <1>8 DEF Changes
<1>10. Last(t) = l /\ t # <<>>
  <2> HIDE DEF t, l
  <2> QED BY <1>8, <1>7 DEF Last
<1> HIDE DEF t, n, l
<1>11. \A i \in 1..n : Same(t[i], s.changes[i])
  <2> TAKE i \in 1..n
  <2>1. CASE i = n
    BY <2>1, <1>4, <1>8
  <2>2. CASE i # n
    <3>1. i \in 1..(n - 1)
      BY <2>2, <1>7
    <3>2. t[i] = s.changes[i]
      BY <3>1, <1>5, <1>8
    <3> QED BY <3>2 DEF Same
  <2> QED BY <2>1, <2>2
<1> QED BY <1>2, <1>3, <1>4, <1>9, <1>10, <1>11

-----------------------------------------------------------------------------
\* What rollback finds, it can deal with; what it leaves is found again.

LEMMA SameGood ==
  ASSUME NEW c, NEW e, Same(c, e), NEW a, NEW b, Good(e, a, b)
  PROVE  Good(c, a, b)
BY DEF Same, Good, OriginalBack, Swapped

LEMMA SameBack ==
  ASSUME NEW c, NEW e, Same(c, e), NEW a, OriginalBack(e, a)
  PROVE  OriginalBack(c, a)
BY DEF Same, OriginalBack

LEMMA SameSound == ASSUME NEW j, NEW c, NEW e, Same(c, e), Sound(j, e) PROVE Sound(j, c)
BY SameGood DEF Sound, Same

LEMMA SameIsBack == ASSUME NEW c, NEW e, Same(c, e), Back(e) PROVE Back(c)
BY SameBack DEF Back, Same

LEMMA PlaceFacts ==
  ASSUME NEW a \in Place
  PROVE  /\ a # NoFile => IdentityOf(a) = a.ino /\ a.ino \in Ino /\ IdentityOf(a) # NoIno
         /\ IdentityOf(a) = NoIno => a = NoFile
         /\ IdentityOf(NoFile) = NoIno
BY NoInoIsNoInode DEF Place, Object, IdentityOf

LEMMA GoodNoConflict ==
  ASSUME NEW c, NEW a \in Place, NEW b \in Place, Good(c, a, b)
  PROVE  ~Conflict(c, a, b)
<1>1. (IdentityOf(a) = NoIno <=> a = NoFile) /\ (IdentityOf(b) = NoIno <=> b = NoFile)
  BY PlaceFacts
<1> QED BY <1>1
  DEF Good, Conflict, NeedsSwap, NeedsDropDest, NeedsDropAlt, Undone, OriginalBack, Swapped

LEMMA GoodSwap ==
  ASSUME NEW c, NEW a \in Place, NEW b \in Place, Good(c, a, b), NeedsSwap(c, a, b)
  PROVE  Good(c, b, a) /\ OriginalBack(c, b)
<1>1. (IdentityOf(a) = NoIno <=> a = NoFile) /\ (IdentityOf(b) = NoIno <=> b = NoFile)
  BY PlaceFacts
<1> QED BY <1>1 DEF Good, NeedsSwap, OriginalBack, Swapped

LEMMA GoodDropDest ==
  ASSUME NEW c, NEW a \in Place, NEW b \in Place, Good(c, a, b), NeedsDropDest(c, a)
  PROVE  Good(c, NoFile, b) /\ OriginalBack(c, NoFile)
<1>1. (IdentityOf(a) = NoIno <=> a = NoFile) /\ (IdentityOf(b) = NoIno <=> b = NoFile)
  BY PlaceFacts
<1> QED BY <1>1 DEF Good, NeedsDropDest, OriginalBack, Swapped

LEMMA GoodDropAlt ==
  ASSUME NEW c, NEW a \in Place, NEW b \in Place, Good(c, a, b), OriginalBack(c, a)
  PROVE  Good(c, a, NoFile)
<1>1. (IdentityOf(a) = NoIno <=> a = NoFile) /\ (IdentityOf(b) = NoIno <=> b = NoFile)
  BY PlaceFacts
<1> QED BY <1>1 DEF Good, OriginalBack, Swapped

\* The exchange of an activation, and the way back.
LEMMA WaitingSwaps ==
  ASSUME NEW c, NEW a \in Place, NEW b \in Place, c.activated, Waiting(c, a, b), Good(c, a, b)
  PROVE  Swapped(c, b, a) /\ Good(c, b, a)
<1>1. (IdentityOf(a) = NoIno <=> a = NoFile) /\ (IdentityOf(b) = NoIno <=> b = NoFile)
  BY PlaceFacts
<1> QED BY <1>1 DEF Good, Waiting, OriginalBack, Swapped

LEMMA SwappedBack ==
  ASSUME NEW c, NEW a \in Place, NEW b \in Place, c.activated, Swapped(c, a, b), Good(c, a, b)
  PROVE  /\ c.existed => OriginalBack(c, b) /\ Good(c, b, a)
         /\ ~c.existed => OriginalBack(c, NoFile) /\ Good(c, NoFile, b)
<1>1. (IdentityOf(a) = NoIno <=> a = NoFile) /\ (IdentityOf(b) = NoIno <=> b = NoFile)
  BY PlaceFacts
<1> QED BY <1>1 DEF Good, OriginalBack, Swapped

-----------------------------------------------------------------------------
\* The parts that most steps keep for one reason.

\* What holds of every reachable state already.
Base == TypeOK /\ InFlight /\ CommitInv

\* The process is at a point where nothing is asked of it.
LEMMA IdlePcPart ==
  ASSUME pc' \in {"off", "groupLoad", "scan", "mark"}
  PROVE  PcPart'
BY DEF PcPart, RunPart, SwapPart, Covered, SparePart, FinishOpen, WorkingPcs, FailingPcs

LEMMA FinishPcPart ==
  ASSUME pc' \in {"finish", "finishNext"}, (open \subseteq files)'
  PROVE  PcPart'
BY DEF PcPart, RunPart, SwapPart, Covered, SparePart, FinishOpen, WorkingPcs, FailingPcs

\* Until the commit point, and while a journal is rolled back, nothing is committed.
LEMMA StillUndoable ==
  ASSUME Base, Live, pc \in WorkingPcs \cup FailingPcs \cup {"undo"}
  PROVE  Undoable
BY DEF Base, CommitInv, WorkPart, NothingCommitted, Undoable, Live, EmptyState, TypeOK

\* Journals only forget changes, or complete them.
Shrinks == \A j \in Journal : \A c \in Claims(j)' : \E e \in Claims(j) : Same(c, e)

LEMMA SameItself == \A c : Same(c, c)
BY DEF Same

LEMMA ShrinkOwned ==
  ASSUME Owned, Shrinks
  PROVE  Owned'
<1> SUFFICES ASSUME NEW j \in Journal, NEW k \in Journal, NEW c \in Claims(j)', NEW e \in Claims(k)'
             PROVE  /\ c.activated <=> j \notin Recorders
                    /\ c.dest = e.dest => j = k /\ Same(c, e)
  BY DEF Owned
<1>1. PICK x \in Claims(j) : Same(c, x)
  BY DEF Shrinks
<1>2. PICK y \in Claims(k) : Same(e, y)
  BY DEF Shrinks
<1> QED BY <1>1, <1>2 DEF Owned, Same

LEMMA SameSide == ASSUME UNCHANGED <<fs, side>> PROVE Unique <=> Unique'
BY DEF Unique

\* A step that leaves the paths as they are.
LEMMA DataStep ==
  ASSUME DataPart, UNCHANGED <<fs, side>>, Shrinks, Live',
         Undoable' => Undoable \/ \A j \in Journal : Claims(j)' = {}
  PROVE  DataPart'
<1>1. Unique' /\ Owned'
  BY SameSide, ShrinkOwned DEF DataPart
<1>2. Kept'
  <2> SUFFICES ASSUME Undoable', NEW j \in Journal, NEW c \in Claims(j)'
               PROVE  Sound(j, c)'
    BY DEF Kept
  <2>1. Undoable
    OBVIOUS
  <2>2. PICK e \in Claims(j) : Same(c, e)
    BY DEF Shrinks
  <2>3. Sound(j, c)
    BY <2>1, <2>2, SameSound DEF DataPart, Kept
  <2> QED BY <2>3 DEF Sound
<1> QED BY <1>1, <1>2 DEF DataPart

\* A step of one manager on the paths: what the journals hold stays.
LEMMA PlaceStep ==
  ASSUME DataPart, UNCHANGED <<mem, disk, group, open, files>>, Unique',
         Undoable => \A j \in Journal : \A c \in Claims(j) : Sound(j, c) => Sound(j, c)'
  PROVE  DataPart'
<1>1. \A j : Claims(j)' = Claims(j)
  BY DEF Claims
<1>2. Undoable' <=> Undoable
  BY DEF Undoable
<1>3. Live'
  BY DEF DataPart, Live
<1>4. Owned'
  BY <1>1, ShrinkOwned, SameItself DEF DataPart, Shrinks
<1>5. Kept'
  <2> SUFFICES ASSUME Undoable, NEW j \in Journal, NEW c \in Claims(j)
               PROVE  Sound(j, c)'
    BY <1>1, <1>2 DEF Kept
  <2> QED BY DEF DataPart, Kept
<1> QED BY <1>3, <1>4, <1>5 DEF DataPart

\* Nothing but the process's own place changes.
LEMMA QuietStep ==
  ASSUME DataPart, UNCHANGED <<durable, mem, open>>
  PROVE  DataPart'
<1>1. \A j \in Journal : \A c : Sound(j, c) => Sound(j, c)'
  BY DEF Sound, durable
<1> QED BY <1>1, SameSide, PlaceStep DEF DataPart, durable

-----------------------------------------------------------------------------
\* Inodes.

\* Objects go, or keep their inode.
LEMMA FewerUnique ==
  ASSUME Unique,
         \A d \in Dest : fs'[d] # NoFile => fs[d] # NoFile /\ fs'[d].ino = fs[d].ino,
         \A j \in Journal, d \in Dest :
           side'[<<j, d>>] # NoFile => side[<<j, d>>] # NoFile /\ side'[<<j, d>>].ino = side[<<j, d>>].ino
  PROVE  Unique'
<1> SUFFICES ASSUME NEW d \in Dest, NEW j \in Journal, side'[<<j, d>>] # NoFile
             PROVE  /\ fs'[d] # NoFile => fs'[d].ino # side'[<<j, d>>].ino
                    /\ \A k \in Journal :
                         side'[<<k, d>>] # NoFile /\ k # j => side'[<<k, d>>].ino # side'[<<j, d>>].ino
  BY DEF Unique
<1>1. side[<<j, d>>] # NoFile /\ side'[<<j, d>>].ino = side[<<j, d>>].ino
  OBVIOUS
<1>2. fs'[d] # NoFile => fs'[d].ino # side'[<<j, d>>].ino
  BY <1>1 DEF Unique
<1>3. ASSUME NEW k \in Journal, side'[<<k, d>>] # NoFile, k # j
      PROVE  side'[<<k, d>>].ino # side'[<<j, d>>].ino
  <2>1. side[<<k, d>>] # NoFile /\ side'[<<k, d>>].ino = side[<<k, d>>].ino
    BY <1>3
  <2> QED BY <1>1, <1>3, <2>1 DEF Unique
<1> QED BY <1>2, <1>3

LEMMA ExchangeMoves ==
  ASSUME TypeOK, NEW j \in Journal, NEW d \in Dest, Exchange(j, d)
  PROVE  /\ fs'[d] = side[<<j, d>>] /\ \A e \in Dest : e # d => fs'[e] = fs[e]
         /\ side'[<<j, d>>] = fs[d]
         /\ \A k \in Journal, e \in Dest : k # j \/ e # d => side'[<<k, e>>] = side[<<k, e>>]
BY DEF TypeOK, Exchange

LEMMA ExchangeUnique ==
  ASSUME TypeOK, NEW j \in Journal, NEW d \in Dest, Exchange(j, d), Unique
  PROVE  Unique'
<1>1. /\ fs'[d] = side[<<j, d>>] /\ \A e \in Dest : e # d => fs'[e] = fs[e]
      /\ side'[<<j, d>>] = fs[d]
      /\ \A k \in Journal, e \in Dest : k # j \/ e # d => side'[<<k, e>>] = side[<<k, e>>]
  BY ExchangeMoves
<1> SUFFICES ASSUME NEW e \in Dest, NEW i \in Journal, side'[<<i, e>>] # NoFile
             PROVE  /\ fs'[e] # NoFile => fs'[e].ino # side'[<<i, e>>].ino
                    /\ \A k \in Journal :
                         side'[<<k, e>>] # NoFile /\ k # i => side'[<<k, e>>].ino # side'[<<i, e>>].ino
  BY DEF Unique
<1>2. CASE e # d
  BY <1>1, <1>2 DEF Unique
<1>3. CASE e = d /\ i = j
  BY <1>1, <1>3 DEF Unique
<1>4. CASE e = d /\ i # j
  BY <1>1, <1>4 DEF Unique
<1> QED BY <1>2, <1>3, <1>4

LEMMA NewSide ==
  ASSUME TypeOK, NEW j \in Journal, NEW d \in Dest, NEW o \in NewObject,
         Unique, side' = [side EXCEPT ![<<j, d>>] = o], UNCHANGED fs
  PROVE  Unique'
<1>1. o.ino \in Ino /\ o.ino \notin Used
  BY DEF NewObject
<1>2. \A e \in Dest : fs[e] # NoFile => fs[e].ino # o.ino
  BY <1>1 DEF Used, IdentityOf
<1>3. \A k \in Journal, e \in Dest : side[<<k, e>>] # NoFile => side[<<k, e>>].ino # o.ino
  BY <1>1 DEF Used, IdentityOf
<1>4. side'[<<j, d>>] = o
      /\ \A k \in Journal, e \in Dest : k # j \/ e # d => side'[<<k, e>>] = side[<<k, e>>]
  BY DEF TypeOK
<1> SUFFICES ASSUME NEW e \in Dest, NEW i \in Journal, side'[<<i, e>>] # NoFile
             PROVE  /\ fs[e] # NoFile => fs[e].ino # side'[<<i, e>>].ino
                    /\ \A k \in Journal :
                         side'[<<k, e>>] # NoFile /\ k # i => side'[<<k, e>>].ino # side'[<<i, e>>].ino
  BY DEF Unique
<1>5. CASE e # d
  BY <1>4, <1>5 DEF Unique
<1>6. CASE e = d
  BY <1>2, <1>3, <1>4, <1>6 DEF Unique
<1> QED BY <1>5, <1>6

LEMMA NewDest ==
  ASSUME TypeOK, NEW d \in Dest, NEW o \in NewObject,
         Unique, fs' = [fs EXCEPT ![d] = o], UNCHANGED side
  PROVE  Unique'
<1>1. o.ino \in Ino /\ o.ino \notin Used
  BY DEF NewObject
<1>2. \A k \in Journal, e \in Dest : side[<<k, e>>] # NoFile => side[<<k, e>>].ino # o.ino
  BY <1>1 DEF Used, IdentityOf
<1>3. fs'[d] = o /\ \A e \in Dest : e # d => fs'[e] = fs[e]
  BY DEF TypeOK
<1> SUFFICES ASSUME NEW e \in Dest, NEW i \in Journal, side[<<i, e>>] # NoFile
             PROVE  /\ fs'[e] # NoFile => fs'[e].ino # side[<<i, e>>].ino
                    /\ \A k \in Journal :
                         side[<<k, e>>] # NoFile /\ k # i => side[<<k, e>>].ino # side[<<i, e>>].ino
  BY DEF Unique
<1>4. CASE e # d
  BY <1>3, <1>4 DEF Unique
<1>5. CASE e = d
  BY <1>2, <1>3, <1>5 DEF Unique
<1> QED BY <1>4, <1>5

LEMMA ClaimFacts ==
  ASSUME TypeOK, NEW j \in Journal
  PROVE  /\ mem[j] \in JournalState /\ disk[j] \in JournalState
         /\ \A c \in Claims(j) :
              /\ c \in Change /\ c.dest \in Dest
              /\ fs[c.dest] \in Place /\ side[<<j, c.dest>>] \in Place
<1>1. mem[j] \in JournalState /\ disk[j] \in JournalState
  BY DEF TypeOK
<1> SUFFICES ASSUME NEW c \in Claims(j)
             PROVE  /\ c \in Change /\ c.dest \in Dest
                    /\ fs[c.dest] \in Place /\ side[<<j, c.dest>>] \in Place
  BY <1>1
<1>2. c \in Change /\ c.dest \in Dest
  BY <1>1, ChangesTyped DEF Claims
<1> QED BY <1>2 DEF TypeOK

\* What a journal remembers is in use.
LEMMA RememberedOpen ==
  ASSUME TypeOK, Live, NEW j \in Journal, mem[j].changes # <<>> \/ mem[j].cleanup
  PROVE  j \in open
BY DEF Live, EmptyState

LEMMA LastInHand ==
  ASSUME TypeOK, mem[cur].changes # <<>>
  PROVE  /\ Last(mem[cur].changes) \in Changes(mem[cur])
         /\ Last(mem[cur].changes) \in Claims(cur)
         /\ Last(mem[cur].changes) \in Change
         /\ Last(mem[cur].changes).dest \in Dest
<1>1. mem[cur] \in JournalState
  BY DEF TypeOK
<1>2. Last(mem[cur].changes) \in Changes(mem[cur])
  BY <1>1, ChangesTyped
<1> QED BY <1>1, <1>2, ChangesTyped DEF Claims

LEMMA LoneChange ==
  ASSUME NEW s \in JournalState, Len(s.changes) = 1
  PROVE  \A c \in Changes(s) : c = Last(s.changes)
BY DEF Changes, Last

\* One fault is all a process gets.
LEMMA FaultIsLast ==
  ASSUME MaxFaults <= 1, TypeOK, Fault
  PROVE  ~(faults' < MaxFaults)
BY MaxFaultsAssumption DEF TypeOK, Fault

\* Two names for the change at one destination.
LEMMA OneAtDest ==
  ASSUME Owned, NEW j \in Journal, NEW k \in Journal,
         NEW c \in Claims(j), NEW e \in Claims(k), c.dest = e.dest
  PROVE  j = k /\ Same(c, e)
BY DEF Owned

\* The paths of one change move; it can still be undone.
LEMMA MovedStep ==
  ASSUME TypeOK, DataPart, UNCHANGED <<mem, disk, group, open, files>>, Unique',
         NEW c \in Claims(cur),
         \A d \in Dest : d # c.dest => fs'[d] = fs[d],
         \A j \in Journal, d \in Dest : j # cur \/ d # c.dest => side'[<<j, d>>] = side[<<j, d>>],
         Good(c, fs'[c.dest], side'[<<cur, c.dest>>])
  PROVE  DataPart'
<1> SUFFICES ASSUME Undoable, NEW j \in Journal, NEW e \in Claims(j), Sound(j, e)
             PROVE  Sound(j, e)'
  BY PlaceStep
<1>1. cur \in Journal /\ e.dest \in Dest
  BY ClaimFacts DEF TypeOK
<1>2. CASE e.dest = c.dest
  <2>1. j = cur /\ Same(e, c)
    BY <1>1, <1>2, OneAtDest DEF DataPart
  <2>2. Good(e, fs'[c.dest], side'[<<cur, c.dest>>])
    BY <2>1, SameGood
  <2> QED BY <1>2, <2>1, <2>2 DEF Sound
<1>3. CASE e.dest # c.dest
  BY <1>1, <1>3 DEF Sound
<1> QED BY <1>2, <1>3

\* The process ends: what its journals' files hold is all that counts.
LEMMA ExitStep ==
  ASSUME Base, DataPart, Exit, UNCHANGED <<fs, side>>,
         \A j \in Journal : Changes(disk'[j]) \subseteq Claims(j),
         \A j \in Journal \ files' : disk'[j] = EmptyState,
         Undoable' => Undoable \/ \A j \in Journal : Changes(disk'[j]) = {}
  PROVE  KeepInv'
<1>1. \A j \in Journal : mem'[j] = EmptyState
  BY DEF Exit
<1>2. \A j \in Journal : Claims(j)' = Changes(disk'[j])
  BY <1>1, EmptyChanges DEF Claims
<1>3. Shrinks
  BY <1>2, SameItself DEF Shrinks
<1>4. Live'
  BY <1>1 DEF Live
<1>5. DataPart'
  BY <1>2, <1>3, <1>4, DataStep
<1>6. pc' = "off"
  BY DEF Exit
<1> QED BY <1>5, <1>6, IdlePcPart DEF KeepInv

\* ... and they hold what they held.
LEMMA ExitsSafely ==
  ASSUME Base, DataPart, Exit, UNCHANGED <<fs, side, files, disk>>, Undoable' => Undoable
  PROVE  KeepInv'
<1>1. \A j \in Journal : Changes(disk'[j]) \subseteq Claims(j)
  BY DEF Claims
<1>2. \A j \in Journal \ files' : disk'[j] = EmptyState
  BY DEF DataPart, Live
<1> QED BY <1>1, <1>2, ExitStep

-----------------------------------------------------------------------------
\* Starting, recovering, committing.

LEMMA StartKeeps ==
  ASSUME KeepInv, Start
  PROVE  KeepInv'
<1>1. DataPart'
  BY QuietStep DEF KeepInv, Start
<1>2. pc' \in {"groupLoad", "scan"}
  BY DEF Start
<1> QED BY <1>1, <1>2, IdlePcPart DEF KeepInv

LEMMA CrashKeeps ==
  ASSUME KeepInv, Base, Crash
  PROVE  KeepInv'
<1>1. UNCHANGED <<fs, side, files, disk, group>> /\ Exit
  BY DEF Crash, durable
<1>2. Undoable' => Undoable
  BY <1>1 DEF Undoable
<1> QED BY <1>1, <1>2, ExitsSafely DEF KeepInv

LEMMA DoneKeeps ==
  ASSUME KeepInv, Base, FailDone \/ FinishDone
  PROVE  KeepInv'
<1>1. UNCHANGED <<fs, side, files, disk, group>> /\ Exit
  BY DEF FailDone, FinishDone, durable
<1>2. Undoable' => Undoable
  BY <1>1 DEF Undoable
<1> QED BY <1>1, <1>2, ExitsSafely DEF KeepInv

\* What marking a journal as committed does to the data.
LEMMA MarkStep ==
  ASSUME TypeOK, NEW j \in Journal, NEW s \in JournalState, Changes(s) \subseteq Claims(j), s.committed,
         Persist(j, s)
  PROVE  /\ \A k \in Journal : Changes(disk'[k]) \subseteq Claims(k)
         /\ disk'[j] = s /\ \A k \in Journal : k # j => disk'[k] = disk[k]
         /\ ~Undoable'
<1>1. disk'[j] = s /\ \A k \in Journal : k # j => disk'[k] = disk[k]
  BY DEF TypeOK, Persist
<1>2. ~Undoable'
  BY <1>1 DEF Undoable
<1>3. \A k \in Journal : Changes(disk'[k]) \subseteq Claims(k)
  BY <1>1 DEF Claims
<1> QED BY <1>1, <1>2, <1>3

LEMMA RecoverMemberKeeps ==
  ASSUME KeepInv, Base, RecoverMember
  PROVE  KeepInv'
<1>1. PICK j \in Firsts(todo) :
       \/ /\ j \in files
          /\ Persist(j, [disk[j] EXCEPT !.committed = TRUE])
          /\ UNCHANGED <<pc, cur, ret, open, mem, faults>>
       \/ /\ Exit
          /\ IF j \in files
             THEN MayPersist(j, [disk[j] EXCEPT !.committed = TRUE])
             ELSE UNCHANGED <<files, disk>>
  BY DEF RecoverMember
<1>2. j \in Journal /\ disk[j] \in JournalState /\ UNCHANGED <<fs, side, group>> /\ pc = "groupLoad"
  BY DEF Firsts, Base, TypeOK, RecoverMember
<1> DEFINE s == [disk[j] EXCEPT !.committed = TRUE]
<1>3. s \in JournalState /\ s.committed /\ Changes(s) = Changes(disk[j])
  BY <1>2, FlagChanges DEF JournalState
<1>4. Changes(s) \subseteq Claims(j)
  BY <1>3 DEF Claims
<1> HIDE DEF s
<1>5. CASE Persist(j, s)
  <2>1. /\ \A k \in Journal : Changes(disk'[k]) \subseteq Claims(k)
        /\ disk'[j] = s /\ \A k \in Journal : k # j => disk'[k] = disk[k]
        /\ ~Undoable'
    BY <1>2, <1>3, <1>4, <1>5, MarkStep DEF Base
  <2>2. files' = files \cup {j}
    BY <1>5 DEF Persist
  <2>3. \A k \in Journal \ files' : disk'[k] = EmptyState
    BY <2>1, <2>2 DEF KeepInv, DataPart, Live
  <2>4. CASE Exit
    BY <1>2, <2>1, <2>3, <2>4, ExitStep DEF KeepInv
  <2>5. CASE UNCHANGED <<pc, cur, ret, open, mem, faults>>
    <3>1. \A k \in Journal : Claims(k)' \subseteq Claims(k)
      BY <2>1, <2>5 DEF Claims
    <3>2. Shrinks
      BY <3>1, SameItself DEF Shrinks
    <3>3. Live'
      BY <2>3, <2>5 DEF Live, KeepInv, DataPart
    <3>4. DataPart'
      BY <1>2, <2>1, <3>2, <3>3, DataStep DEF KeepInv
    <3> QED BY <1>2, <2>5, <3>4, IdlePcPart DEF KeepInv
  <2> QED BY <1>1, <2>4, <2>5
<1>6. CASE ~Persist(j, s)
  <2>1. Exit /\ UNCHANGED <<files, disk>>
    BY <1>1, <1>6 DEF s, MayPersist
  <2>2. Undoable' => Undoable
    BY <1>2, <2>1 DEF Undoable
  <2> QED BY <1>2, <2>1, <2>2, ExitsSafely DEF KeepInv
<1> QED BY <1>5, <1>6

LEMMA RecoverGroupKeeps ==
  ASSUME KeepInv, Base, RecoverGroupDone
  PROVE  KeepInv'
<1>1. UNCHANGED <<fs, side, files, disk>> /\ pc = "groupLoad" /\ todo = {}
  BY DEF RecoverGroupDone
<1>2. Undoable' => Undoable
  <2>1. \A j \in group : disk[j].committed
    BY <1>1 DEF Base, CommitInv, RecoveryPart
  <2>2. group \subseteq Journal
    BY DEF Base, TypeOK
  <2> QED BY <1>1, <2>1, <2>2 DEF Undoable
<1>3. CASE Exit
  BY <1>1, <1>2, <1>3, ExitsSafely DEF KeepInv
<1>4. CASE pc' = "scan" /\ UNCHANGED <<open, mem>>
  <2>1. Shrinks
    BY <1>1, <1>4, SameItself DEF Shrinks, Claims
  <2>2. Live'
    BY <1>1, <1>4 DEF Live, KeepInv, DataPart
  <2>3. DataPart'
    BY <1>1, <1>2, <2>1, <2>2, DataStep DEF KeepInv
  <2> QED BY <1>4, <2>3, IdlePcPart DEF KeepInv
<1> QED BY <1>3, <1>4 DEF RecoverGroupDone, Goto

LEMMA RecoverNextKeeps ==
  ASSUME KeepInv, Base, RecoverNext
  PROVE  KeepInv'
<1>1. PICK j \in files : /\ cur' = j /\ Remember(j, disk[j]) /\ open' = open \cup {j}
                         /\ pc' = IF disk[j].committed THEN "finish" ELSE "undo"
  BY DEF RecoverNext
<1>2. UNCHANGED <<fs, side, files, disk, group>> /\ pc = "scan" /\ ret' = "scan"
  BY DEF RecoverNext, durable
<1>3. open = {} /\ j \in Journal
  BY <1>2 DEF Base, TypeOK, CommitInv, RecoveryPart, BetweenPcs
<1>4. mem'[j] = disk[j] /\ \A k \in Journal : k # j => mem'[k] = mem[k]
  BY <1>1, <1>3 DEF Base, TypeOK, Remember
<1>5. \A k \in Journal : Claims(k)' \subseteq Claims(k)
  BY <1>2, <1>4 DEF Claims
<1>6. Shrinks
  BY <1>5, SameItself DEF Shrinks
<1>7. Live'
  BY <1>1, <1>2, <1>4 DEF Live, KeepInv, DataPart
<1>8. Undoable' => Undoable
  BY <1>2 DEF Undoable
<1>9. DataPart'
  BY <1>2, <1>6, <1>7, <1>8, DataStep DEF KeepInv
<1>10. CASE pc' = "finish"
  <2>1. (open \subseteq files)'
    BY <1>1, <1>2, <1>3
  <2> QED BY <1>9, <1>10, <2>1, FinishPcPart DEF KeepInv
<1>11. CASE pc' = "undo"
  <2>1. Covered'
    BY <1>1, <1>2, <1>4, <1>11 DEF Covered, WorkingPcs, FailingPcs
  <2>2. RunPart' /\ SwapPart' /\ SparePart' /\ FinishOpen'
    BY <1>2, <1>11 DEF RunPart, SwapPart, SparePart, FinishOpen, WorkingPcs
  <2> QED BY <1>9, <2>1, <2>2 DEF KeepInv, PcPart
<1> QED BY <1>1, <1>10, <1>11

LEMMA RecoverDoneKeeps ==
  ASSUME KeepInv, Base, Base', RecoverDone
  PROVE  KeepInv'
<1>1. UNCHANGED <<fs, files, disk, group>> /\ pc = "scan" /\ files = {}
  BY DEF RecoverDone
<1>2. Undoable' => Undoable
  BY <1>1 DEF Undoable
<1>3. CASE Exit /\ UNCHANGED side
  BY <1>1, <1>2, <1>3, ExitsSafely DEF KeepInv
<1>4. CASE pc' = "run" /\ side' = [p \in Journal \X Dest |-> NoFile] /\ UNCHANGED <<open, mem>>
  <2>1. open = {}
    BY <1>1 DEF Base, CommitInv, RecoveryPart, BetweenPcs
  <2>2. \A j \in Journal : mem[j] = EmptyState /\ disk[j] = EmptyState
    BY <1>1, <2>1 DEF KeepInv, DataPart, Live
  <2>3. \A j \in Journal : mem'[j] = EmptyState /\ disk'[j] = EmptyState
    BY <1>1, <1>4, <2>2
  <2>4. \A j \in Journal : Claims(j)' = {}
    BY <2>3, EmptyChanges DEF Claims
  <2>5. \A j \in Journal, d \in Dest : side'[<<j, d>>] = NoFile
    BY <1>4
  <2>6. DataPart'
    <3>1. Unique'
      BY <2>5 DEF Unique
    <3>2. Owned' /\ Kept'
      BY <2>4 DEF Owned, Kept
    <3>3. Live'
      BY <2>3 DEF Live
    <3> QED BY <3>1, <3>2, <3>3 DEF DataPart
  <2>7. RunPart'
    <3>1. (disk = mem)'
      BY <2>3 DEF Base, TypeOK
    <3>2. \A j \in Journal : Changes(mem[j])' = {}
      BY <2>3, EmptyChanges
    <3>3. cur' \in Journal
      BY DEF Base, TypeOK
    <3>4. CopiedPart'
      BY <2>5, <3>3 DEF CopiedPart, Prepared
    <3> QED BY <2>5, <3>1, <3>2, <3>3, <3>4 DEF RunPart
  <2>8. Covered'
    BY <2>3, EmptyChanges DEF Covered
  <2>9. SwapPart' /\ SparePart' /\ FinishOpen'
    BY <1>4 DEF SwapPart, SparePart, FinishOpen
  <2> QED BY <2>6, <2>7, <2>8, <2>9 DEF KeepInv, PcPart
<1> QED BY <1>3, <1>4 DEF RecoverDone

LEMMA WriteGroupKeeps ==
  ASSUME KeepInv, Base, WriteGroup
  PROVE  KeepInv'
<1>1. UNCHANGED <<fs, side, files, disk>> /\ pc = "commit"
  BY DEF WriteGroup
<1>2. Undoable
  BY <1>1, StillUndoable DEF KeepInv, DataPart, WorkingPcs
<1>3. CASE Exit
  BY <1>1, <1>2, <1>3, ExitsSafely DEF KeepInv
<1>4. CASE pc' = "mark" /\ UNCHANGED <<open, mem>>
  <2>1. Shrinks
    BY <1>1, <1>4, SameItself DEF Shrinks, Claims
  <2>2. Live'
    BY <1>1, <1>4 DEF Live, KeepInv, DataPart
  <2>3. DataPart'
    BY <1>1, <1>2, <2>1, <2>2, DataStep DEF KeepInv
  <2> QED BY <1>4, <2>3, IdlePcPart DEF KeepInv
<1> QED BY <1>3, <1>4 DEF WriteGroup

LEMMA MarkKeeps ==
  ASSUME KeepInv, Base, MarkCommitted
  PROVE  KeepInv'
<1>1. UNCHANGED <<fs, side, group>> /\ pc = "mark" /\ todo # {}
  BY DEF MarkCommitted
<1>2. PICK j \in Firsts(todo) :
       LET s == [mem[j] EXCEPT !.committed = TRUE] IN
       \/ Persist(j, s) /\ Remember(j, s) /\ UNCHANGED <<pc, cur, ret, open, faults>>
       \/ MayPersist(j, s) /\ Exit
  BY DEF MarkCommitted
<1>3. j \in Journal /\ mem[j] \in JournalState /\ j \in group /\ j \in open
  BY <1>1 DEF Firsts, Base, TypeOK, CommitInv, MarkPart
<1> DEFINE s == [mem[j] EXCEPT !.committed = TRUE]
<1>4. s \in JournalState /\ s.committed /\ Changes(s) = Changes(mem[j])
  BY <1>3, FlagChanges DEF JournalState
<1>5. Changes(s) \subseteq Claims(j)
  BY <1>4 DEF Claims
<1>6. ~Undoable'
  BY <1>1, <1>3 DEF Undoable
<1>7. \/ Persist(j, s) /\ Remember(j, s) /\ UNCHANGED <<pc, cur, ret, open, faults>>
      \/ Persist(j, s) /\ Exit
      \/ UNCHANGED <<files, disk>> /\ Exit
  BY <1>2 DEF MayPersist
<1> HIDE DEF s
<1>8. CASE UNCHANGED <<files, disk>> /\ Exit
  BY <1>1, <1>6, <1>8, ExitsSafely DEF KeepInv
<1>9. CASE Persist(j, s)
  <2>1. /\ \A k \in Journal : Changes(disk'[k]) \subseteq Claims(k)
        /\ disk'[j] = s /\ \A k \in Journal : k # j => disk'[k] = disk[k]
    BY <1>3, <1>4, <1>5, <1>9, MarkStep DEF Base
  <2>2. files' = files \cup {j}
    BY <1>9 DEF Persist
  <2>3. \A k \in Journal \ files' : disk'[k] = EmptyState
    BY <2>1, <2>2 DEF KeepInv, DataPart, Live
  <2>4. CASE Exit
    BY <1>1, <1>6, <2>1, <2>3, <2>4, ExitStep DEF KeepInv
  <2>5. CASE Remember(j, s) /\ UNCHANGED <<pc, cur, ret, open, faults>>
    <3>1. mem'[j] = s /\ \A k \in Journal : k # j => mem'[k] = mem[k]
      BY <1>3, <2>5 DEF Base, TypeOK, Remember
    <3>2. \A k \in Journal : Claims(k)' \subseteq Claims(k)
      BY <1>5, <2>1, <3>1 DEF Claims
    <3>3. Shrinks
      BY <3>2, SameItself DEF Shrinks
    <3>4. Live'
      BY <1>3, <2>3, <2>5, <3>1 DEF Live, KeepInv, DataPart
    <3>5. DataPart'
      BY <1>1, <1>6, <3>3, <3>4, DataStep DEF KeepInv
    <3> QED BY <1>1, <2>5, <3>5, IdlePcPart DEF KeepInv
  <2> QED BY <1>7, <1>9, <2>4, <2>5, <1>8
<1> QED BY <1>7, <1>8, <1>9

LEMMA RemoveGroupKeeps ==
  ASSUME KeepInv, Base, RemoveGroup
  PROVE  KeepInv'
<1>1. UNCHANGED <<fs, side, files, disk>> /\ pc = "mark" /\ todo = {}
  BY DEF RemoveGroup
<1>2. group = open /\ open = files /\ (\A j \in open : disk[j].committed)
  BY <1>1 DEF Base, CommitInv, MarkPart
<1>3. Undoable' => Undoable
  <2>1. open \subseteq Journal
    BY DEF Base, TypeOK
  <2> QED BY <1>1, <1>2, <2>1 DEF Undoable
<1>4. CASE Exit
  BY <1>1, <1>3, <1>4, ExitsSafely DEF KeepInv
<1>5. CASE pc' = "finishNext" /\ UNCHANGED <<open, mem>>
  <2>1. Shrinks
    BY <1>1, <1>5, SameItself DEF Shrinks, Claims
  <2>2. Live'
    BY <1>1, <1>5 DEF Live, KeepInv, DataPart
  <2>3. DataPart'
    BY <1>1, <1>3, <2>1, <2>2, DataStep DEF KeepInv
  <2>4. (open \subseteq files)'
    BY <1>1, <1>2, <1>5
  <2> QED BY <1>5, <2>3, <2>4, FinishPcPart DEF KeepInv
<1> QED BY <1>4, <1>5 DEF RemoveGroup

LEMMA FinishNextKeeps ==
  ASSUME KeepInv, FinishNext
  PROVE  KeepInv'
<1>1. DataPart'
  BY QuietStep DEF KeepInv, FinishNext
<1>2. pc' = "finish" /\ (open \subseteq files)'
  BY DEF KeepInv, PcPart, FinishOpen, FinishNext, durable
<1> QED BY <1>1, <1>2, FinishPcPart DEF KeepInv

-----------------------------------------------------------------------------
\* A manager at work.

LEMMA AtWork ==
  ASSUME Base, KeepInv, pc \in WorkingPcs
  PROVE  /\ disk = mem /\ Undoable
         /\ \A j \in Journal : Claims(j) = Changes(mem[j]) /\ Claims(j) = Changes(disk[j])
<1>1. disk = mem
  BY DEF KeepInv, PcPart, RunPart
<1> QED BY <1>1, StillUndoable DEF Claims, KeepInv, DataPart

LEMMA CoveredByMemory == ASSUME (disk = mem)' PROVE Covered'
BY DEF Covered

\* A path no journal of the process touches is in no claim.
LEMMA Unclaimed ==
  ASSUME Base, KeepInv, pc \in WorkingPcs, NEW d, \A j \in Journal : ~Touches(mem[j], d)
  PROVE  \A j \in Journal : \A c \in Claims(j) : c.dest # d
<1> SUFFICES ASSUME NEW j \in Journal, NEW c \in Claims(j) PROVE c.dest # d
  OBVIOUS
<1>1. c \in Changes(mem[j]) /\ mem[j] \in JournalState
  BY AtWork DEF Base, TypeOK
<1> QED BY <1>1, ChangesTyped

\* What a manager may prepare, or has prepared, is no other's.
LEMMA MayTouchFree ==
  ASSUME Shared = {}, NEW d, MayTouch(d)
  PROVE  \A j \in Journal : ~Touches(mem[j], d)
BY DEF MayTouch

LEMMA PreparedFree ==
  ASSUME KeepInv, pc = "run", NEW d \in Dest, Prepared(d)
  PROVE  \A j \in Journal : ~Touches(mem[j], d)
BY DEF Prepared, KeepInv, PcPart, RunPart, WorkingPcs

LEMMA ManagerDoneKeeps ==
  ASSUME KeepInv, Base, Base', ManagerDone
  PROVE  KeepInv'
<1>1. UNCHANGED <<fs, side, files, disk, group, mem, open>> /\ pc = "run" /\ pc' \in {"run", "commit"}
      /\ (cur' = cur \/ cur' = cur + 1)
  BY DEF ManagerDone, durable
<1>2. DataPart'
  BY QuietStep DEF KeepInv, ManagerDone
<1>3. RunPart'
  <2>1. cur \in Journal /\ cur' \in Journal /\ Journal \subseteq Nat
    BY JournalFacts DEF Base, TypeOK
  <2>2. pc \in WorkingPcs
    BY <1>1 DEF WorkingPcs
  <2>3. disk' = mem' /\ \A j \in Journal : \A c \in Changes(mem'[j]) :
             ~c.activated /\ c.existed => IdentityOf(side'[<<j, c.dest>>]) = c.keepID
    BY <1>1, <2>2 DEF KeepInv, PcPart, RunPart
  <2>4. ASSUME NEW d \in Dest
        PROVE  /\ \A j \in Journal : j > cur' => side'[<<j, d>>] = NoFile
               /\ side'[<<cur', d>>] # NoFile => \A k \in Journal : k # cur' => ~Touches(mem'[k], d)
    <3>1. \A j \in Journal : j > cur => side[<<j, d>>] = NoFile
      BY <2>2 DEF KeepInv, PcPart, RunPart
    <3>2. CASE cur' = cur
      BY <1>1, <2>2, <3>2 DEF KeepInv, PcPart, RunPart
    <3>3. CASE cur' = cur + 1
      BY <1>1, <2>1, <3>1, <3>3
    <3> QED BY <1>1, <3>2, <3>3
  <2>5. CopiedPart'
    <3>1. CASE cur' = cur + 1
      <4>1. cur' > cur
        BY <2>1, <3>1
      <4>2. \A d \in Dest : side'[<<cur', d>>] = NoFile
        BY <1>1, <2>1, <2>2, <4>1 DEF KeepInv, PcPart, RunPart
      <4> QED BY <4>2 DEF CopiedPart, Prepared
    <3>2. CASE cur' = cur
      BY <1>1, <2>2, <3>2 DEF KeepInv, PcPart, RunPart, CopiedPart, Prepared
    <3> QED BY <1>1, <3>1, <3>2
  <2> QED BY <2>3, <2>4, <2>5 DEF RunPart
<1>4. Covered'
  BY <1>3, <1>1, CoveredByMemory DEF RunPart, WorkingPcs
<1>5. SwapPart' /\ SparePart' /\ FinishOpen'
  BY <1>1 DEF SwapPart, SparePart, FinishOpen
<1> QED BY <1>2, <1>3, <1>4, <1>5 DEF KeepInv, PcPart

\* A step to where the failing manager is dealt with.
LEMMA FailingPcPart ==
  ASSUME pc' \in {"failed", "callFailed", "untracked"}, Covered', SparePart'
  PROVE  PcPart'
BY DEF PcPart, RunPart, SwapPart, FinishOpen, WorkingPcs

LEMMA ManagerFailsKeeps ==
  ASSUME KeepInv, Base, ManagerFails
  PROVE  KeepInv'
<1>1. UNCHANGED <<fs, side, files, disk, group, mem, open, cur, faults>> /\ pc = "run" /\ pc' = "failed"
  BY DEF ManagerFails, Goto, durable
<1>2. DataPart'
  BY QuietStep DEF KeepInv, ManagerFails
<1>3. disk = mem /\ Claims(cur) = Changes(mem[cur])
  BY <1>1, AtWork DEF WorkingPcs, Base, TypeOK
<1>4. Covered'
  BY <1>1, <1>3, CoveredByMemory
<1>5. SparePart'
  <2>1. cur \in Recorders \/ AllBack(cur) \/ mem[cur].cleanup
    BY <1>3, NoChanges DEF ManagerFails, AllBack
  <2>2. Claims(cur)' = Claims(cur)
    BY <1>1 DEF Claims
  <2>3. AllBack(cur) => AllBack(cur)'
    BY <1>1, <2>2 DEF AllBack, Back
  <2>4. cur' \in Recorders \/ AllBack(cur)' \/ mem'[cur'].cleanup
    BY <1>1, <2>1, <2>3
  <2> QED BY <1>1, <2>4 DEF SparePart
<1> QED BY <1>1, <1>2, <1>4, <1>5, FailingPcPart DEF KeepInv

LEMMA AddCleanupKeeps ==
  ASSUME MaxFaults <= 1, KeepInv, Base, Base', AddCleanup
  PROVE  KeepInv'
<1> DEFINE s == [mem[cur] EXCEPT !.cleanup = TRUE]
<1>1. /\ UNCHANGED <<fs, side, group>> /\ pc = "run" /\ open' = open \cup {cur}
      /\ Remember(cur, s)
      /\ \/ Persist(cur, s) /\ Goto("run")
         \/ Fault /\ MayPersist(cur, s) /\ Goto(IF mem[cur].changes = <<>> THEN "callFailed" ELSE "untracked")
  BY DEF AddCleanup, Ready
<1>2. cur \in Journal /\ mem[cur] \in JournalState
  BY DEF Base, TypeOK
<1>3. Changes(s) = Changes(mem[cur])
  BY <1>2, FlagChanges
<1> HIDE DEF s
<1>4. cur' = cur
  BY <1>1 DEF Goto, ActivateFails
<1>5. mem'[cur] = s /\ \A j \in Journal : j # cur => mem'[j] = mem[j]
  BY <1>1, <1>2 DEF Base, TypeOK, Remember
<1>6. \/ disk'[cur] = s /\ \A j \in Journal : j # cur => disk'[j] = disk[j]
      \/ disk' = disk
  BY <1>1, <1>2 DEF Base, TypeOK, Persist, MayPersist
<1>7. files \subseteq files' /\ (cur \in files' \/ disk' = disk)
  BY <1>1 DEF Persist, MayPersist
<1>8. disk = mem /\ Undoable /\ Claims(cur) = Changes(mem[cur])
  BY <1>1, <1>2, AtWork DEF WorkingPcs
<1>9. \A j \in Journal : Changes(mem'[j]) = Changes(mem[j]) /\ Changes(disk'[j]) = Changes(disk[j])
  BY <1>3, <1>5, <1>6, <1>8
<1>10. \A j \in Journal : Claims(j)' = Claims(j)
  BY <1>9 DEF Claims
<1>11. DataPart'
  <2>1. Shrinks
    BY <1>10, SameItself DEF Shrinks
  <2>2. Live'
    BY <1>1, <1>2, <1>5, <1>6, <1>7 DEF KeepInv, DataPart, Live
  <2> QED BY <1>1, <1>8, <2>1, <2>2, DataStep DEF KeepInv
<1>12. Covered'
  BY <1>8, <1>9 DEF Covered
<1>13. CASE Persist(cur, s) /\ Goto("run")
  <2>1. pc' = "run"
    BY <1>13 DEF Goto
  <2>2. (disk = mem)'
    BY <1>1, <1>8, <1>13 DEF Persist, Remember
  <2>3. pc \in WorkingPcs
    BY <1>1 DEF WorkingPcs
  <2>4. \A j \in Journal, d \in Dest : j # cur => (Touches(mem'[j], d) <=> Touches(mem[j], d))
    BY <1>5
  <2>5. RunPart'
    <3>1. CopiedPart'
      BY <1>4 DEF CopiedPart, AddCleanup
    <3> QED BY <1>1, <1>4, <1>9, <2>2, <2>3, <2>4, <3>1 DEF KeepInv, PcPart, RunPart
  <2>6. SwapPart' /\ SparePart' /\ FinishOpen'
    BY <2>1 DEF SwapPart, SparePart, FinishOpen
  <2> QED BY <1>11, <1>12, <2>5, <2>6 DEF KeepInv, PcPart
<1>14. CASE Fault /\ Goto(IF mem[cur].changes = <<>> THEN "callFailed" ELSE "untracked")
  <2>1. ~(faults' < MaxFaults)
    BY <1>14, FaultIsLast DEF Base
  <2>2. pc' \in {"failed", "callFailed", "untracked"} /\ (pc' = "callFailed" => mem[cur].changes = <<>>)
    BY <1>14 DEF ActivateFails, Goto
  <2>3. mem[cur].changes = <<>> => AllBack(cur)'
    <3>1. Claims(cur)' = Claims(cur)
      BY <1>2, <1>4, <1>10
    <3> QED BY <1>8, <3>1, NoChanges DEF AllBack
  <2>4. SparePart'
    BY <2>1, <2>2, <2>3 DEF SparePart
  <2> QED BY <1>11, <1>12, <2>2, <2>4, FailingPcPart DEF KeepInv
<1> QED BY <1>1, <1>13, <1>14

-----------------------------------------------------------------------------
\* A manager prepares, records and changes paths.

\* A journal write that adds change x, for a path no journal has claimed.
LEMMA ClaimStep ==
  ASSUME TypeOK, DataPart, UNCHANGED <<fs, side>>, Live', Undoable, NEW x \in Change,
         \A j \in Journal : \A c \in Claims(j) : c.dest # x.dest,
         x.activated <=> cur \notin Recorders, Sound(cur, x),
         \A j \in Journal : \A c \in Claims(j)' : c \in Claims(j) \/ (j = cur /\ c = x)
  PROVE  DataPart'
<1>1. Owned'
  <2> SUFFICES ASSUME NEW j \in Journal, NEW k \in Journal, NEW c \in Claims(j)', NEW e \in Claims(k)'
               PROVE  /\ c.activated <=> j \notin Recorders
                      /\ c.dest = e.dest => j = k /\ Same(c, e)
    BY DEF Owned
  <2>1. (c \in Claims(j) \/ (j = cur /\ c = x)) /\ (e \in Claims(k) \/ (k = cur /\ e = x))
    OBVIOUS
  <2>2. CASE c \in Claims(j) /\ e \in Claims(k)
    BY <2>2 DEF DataPart, Owned
  <2>3. CASE j = cur /\ c = x /\ k = cur /\ e = x
    BY <2>3, SameItself
  <2>4. CASE j = cur /\ c = x /\ e \in Claims(k)
    BY <2>4
  <2>5. CASE c \in Claims(j) /\ k = cur /\ e = x
    BY <2>5 DEF DataPart, Owned
  <2> QED BY <2>1, <2>2, <2>3, <2>4, <2>5
<1>2. Kept'
  <2> SUFFICES ASSUME NEW j \in Journal, NEW c \in Claims(j)'
               PROVE  Sound(j, c)'
    BY DEF Kept
  <2>1. Sound(j, c)
    BY DEF DataPart, Kept
  <2> QED BY <2>1 DEF Sound
<1> QED BY <1>1, <1>2, SameSide DEF DataPart

\* What the write of a new change does to the claims, whether or not it lands.
LEMMA AddedClaim ==
  ASSUME TypeOK, DataPart, cur' = cur, NEW x \in Change, NEW s, s = WithChange(mem[cur], x),
         mem' = mem \/ Remember(cur, s), MayPersist(cur, s), open' = open \cup {cur}
  PROVE  /\ \A j \in Journal : j # cur => mem'[j] = mem[j] /\ disk'[j] = disk[j]
         /\ mem'[cur] = mem[cur] \/ mem'[cur] = s
         /\ disk'[cur] = disk[cur] \/ disk'[cur] = s
         /\ Changes(s) = Changes(mem[cur]) \cup {x}
         /\ \A j \in Journal : \A c \in Claims(j)' : c \in Claims(j) \/ (j = cur /\ c = x)
         /\ Live'
<1>1. cur \in Journal /\ mem[cur] \in JournalState
  BY DEF TypeOK
<1>2. Changes(s) = Changes(mem[cur]) \cup {x}
  BY <1>1, AddedChange
<1>3. /\ \A j \in Journal : j # cur => mem'[j] = mem[j]
      /\ mem'[cur] = mem[cur] \/ mem'[cur] = s
  BY <1>1 DEF TypeOK, Remember
<1>4. /\ \A j \in Journal : j # cur => disk'[j] = disk[j]
      /\ disk'[cur] = disk[cur] \/ disk'[cur] = s
      /\ files \subseteq files' /\ (disk'[cur] = disk[cur] \/ cur \in files')
  BY <1>1 DEF TypeOK, MayPersist, Persist
<1>5. \A j \in Journal : \A c \in Claims(j)' : c \in Claims(j) \/ (j = cur /\ c = x)
  <2> TAKE j \in Journal
  <2>1. CASE j # cur
    BY <2>1, <1>3, <1>4 DEF Claims
  <2>2. CASE j = cur
    BY <2>2, <1>2, <1>3, <1>4 DEF Claims
  <2> QED BY <2>1, <2>2
<1>6. Live'
  BY <1>1, <1>3, <1>4 DEF Live, DataPart
<1> QED BY <1>2, <1>3, <1>4, <1>5, <1>6

LEMMA IntentSound ==
  ASSUME TypeOK, Unique, NEW d \in Dest, side[<<cur, d>>] # NoFile
  PROVE  /\ Intent(d) \in Change /\ Intent(d).dest = d /\ Intent(d).activated
         /\ Waiting(Intent(d), fs[d], side[<<cur, d>>])
         /\ Good(Intent(d), fs[d], side[<<cur, d>>])
<1>1. fs[d] \in Place /\ side[<<cur, d>>] \in Place /\ cur \in Journal
  BY DEF TypeOK
<1> DEFINE x == Intent(d)
<1>2. /\ x.dest = d /\ x.activated = TRUE /\ x.existed = (fs[d] # NoFile) /\ x.complete = FALSE
      /\ x.stageID = IdentityOf(side[<<cur, d>>]) /\ x.keepID = IdentityOf(fs[d])
  BY DEF Intent
<1>3. x \in Change
  BY <1>1, IdentityType DEF Intent, Change
<1>4. IdentityOf(side[<<cur, d>>]) = side[<<cur, d>>].ino /\ IdentityOf(side[<<cur, d>>]) # NoIno
      /\ (fs[d] # NoFile => IdentityOf(fs[d]) = fs[d].ino /\ IdentityOf(fs[d]) # NoIno)
  BY <1>1, PlaceFacts
<1>5. fs[d] # NoFile => IdentityOf(fs[d]) # IdentityOf(side[<<cur, d>>])
  BY <1>1, <1>4 DEF Unique
<1> HIDE DEF x
<1>6. OriginalBack(x, fs[d])
  BY <1>2 DEF OriginalBack
<1> QED BY <1>2, <1>3, <1>4, <1>5, <1>6 DEF x, Waiting, Good

LEMMA IntentKeeps ==
  ASSUME MaxFaults <= 1, KeepInv, Base, Base', NEW d \in Dest, ActivateIntent(d)
  PROVE  KeepInv'
<1>0. PICK x : x = Intent(d)
  OBVIOUS
<1> DEFINE s == WithChange(mem[cur], x)
<1>1. /\ UNCHANGED <<fs, side, group>> /\ pc = "run" /\ cur \notin Recorders /\ Prepared(d)
      /\ open' = open \cup {cur}
      /\ \/ Persist(cur, s) /\ Remember(cur, s) /\ Goto("swap")
         \/ Fault /\ MayPersist(cur, s) /\ ActivateFails(0) /\ UNCHANGED mem
  BY <1>0 DEF ActivateIntent, Ready
<1>2. cur \in Journal /\ mem[cur] \in JournalState /\ side[<<cur, d>>] # NoFile /\ cur' = cur
  BY <1>1 DEF Base, TypeOK, Prepared, Goto, ActivateFails
<1>3. /\ x \in Change /\ x.dest = d /\ x.activated
      /\ Waiting(x, fs[d], side[<<cur, d>>]) /\ Good(x, fs[d], side[<<cur, d>>])
  BY <1>0, <1>2, IntentSound DEF Base, KeepInv, DataPart
<1>4. Last(s.changes) = x
  BY <1>2, <1>3, AddedChange
<1>5. /\ \A j \in Journal : j # cur => mem'[j] = mem[j] /\ disk'[j] = disk[j]
      /\ disk'[cur] = disk[cur] \/ disk'[cur] = s
      /\ Changes(s) = Changes(mem[cur]) \cup {x}
      /\ \A j \in Journal : \A c \in Claims(j)' : c \in Claims(j) \/ (j = cur /\ c = x)
      /\ Live'
  <2>1. (mem' = mem \/ Remember(cur, s)) /\ MayPersist(cur, s)
    BY <1>1 DEF MayPersist
  <2> QED BY <1>1, <1>2, <1>3, <2>1, AddedClaim DEF Base, KeepInv
<1> HIDE DEF s
<1>6. pc \in WorkingPcs /\ disk = mem /\ Undoable
      /\ \A j \in Journal : Claims(j) = Changes(mem[j]) /\ Claims(j) = Changes(disk[j])
  BY <1>1, AtWork DEF WorkingPcs
<1>7. \A j \in Journal : \A c \in Claims(j) : c.dest # x.dest
  BY <1>1, <1>3, <1>6, PreparedFree, Unclaimed
<1>8. Sound(cur, x)
  BY <1>3 DEF Sound
<1>9. DataPart'
  BY <1>1, <1>3, <1>5, <1>6, <1>7, <1>8, ClaimStep DEF Base, KeepInv
<1>10. CASE Persist(cur, s) /\ Remember(cur, s) /\ Goto("swap")
  <2>1. pc' = "swap" /\ mem'[cur] = s /\ disk' = mem'
    BY <1>2, <1>6, <1>10 DEF Goto, Remember, Persist, Base, TypeOK
  <2>2. ASSUME NEW j \in Journal, NEW c \in Changes(mem'[j]), ~c.activated /\ c.existed
        PROVE  IdentityOf(side'[<<j, c.dest>>]) = c.keepID
    <3>1. c \in Changes(mem[j])
      BY <1>3, <1>5, <2>1, <2>2
    <3> QED BY <1>1, <1>6, <2>2, <3>1 DEF KeepInv, PcPart, RunPart
  <2>3. RunPart'
    <3>1. \A e \in Dest :
             /\ \A j \in Journal : j > cur' => side'[<<j, e>>] = NoFile
             /\ side'[<<cur', e>>] # NoFile => \A k \in Journal : k # cur' => ~Touches(mem'[k], e)
      BY <1>1, <1>2, <1>5, <1>6 DEF KeepInv, PcPart, RunPart
    <3> QED BY <2>1, <2>2, <3>1 DEF RunPart, CopiedPart
  <2>4. SwapPart'
    <3>1. mem'[cur'] = s /\ s.changes # <<>> => Last(mem'[cur'].changes) = x
      BY <1>2, <1>4, <2>1
    <3>2. Last(mem'[cur'].changes) = x
      BY <1>2, <1>4, <2>1
    <3> QED BY <1>1, <1>2, <1>3, <2>1, <3>2 DEF SwapPart, InHand
  <2>5. Covered'
    BY <2>1, CoveredByMemory
  <2>6. SparePart' /\ FinishOpen'
    BY <2>1 DEF SparePart, FinishOpen
  <2> QED BY <1>9, <2>3, <2>4, <2>5, <2>6 DEF KeepInv, PcPart
<1>11. CASE Fault /\ ActivateFails(0) /\ UNCHANGED mem
  <2>1. ~(faults' < MaxFaults)
    BY <1>11, FaultIsLast DEF Base
  <2>2. pc' \in {"failed", "callFailed", "untracked"} /\ (pc' = "callFailed" => Len(mem[cur].changes) = 0)
    BY <1>11 DEF ActivateFails, Goto, FirstActivation
  <2>3. Back(x)'
    <3>1. OriginalBack(x, fs'[x.dest])
      BY <1>1, <1>3 DEF Waiting
    <3> QED BY <3>1 DEF Back
  <2>4. pc' = "callFailed" => AllBack(cur)'
    <3>1. SUFFICES ASSUME Len(mem[cur].changes) = 0 PROVE AllBack(cur)'
      BY <2>2
    <3>2. Claims(cur) = {}
      BY <1>2, <1>6, <3>1, ChangesTyped, NoChanges
    <3>3. \A c \in Claims(cur)' : c = x
      BY <1>2, <1>5, <3>2
    <3> QED BY <2>3, <3>3 DEF AllBack
  <2>5. SparePart'
    BY <2>1, <2>2, <2>4 DEF SparePart
  <2>6. Covered'
    <3> SUFFICES ASSUME NEW j \in Journal, NEW c \in Changes(disk'[j])
                 PROVE  Back(c)' \/ \E e \in Changes(mem'[j]) : e.dest = c.dest
      BY DEF Covered
    <3>1. c \in Changes(mem[j]) \/ c = x
      BY <1>5, <1>6
    <3> QED BY <1>11, <2>3, <3>1
  <2> QED BY <1>9, <2>2, <2>5, <2>6, FailingPcPart DEF KeepInv
<1> QED BY <1>1, <1>10, <1>11

\* What chezmoi records of a path it has a copy of, or where nothing is.
LEMMA RecordedSound ==
  ASSUME TypeOK, NEW d \in Dest, side[<<cur, d>>] # NoFile <=> fs[d] # NoFile
  PROVE  /\ Recorded(d) \in Change /\ Recorded(d).dest = d /\ ~Recorded(d).activated
         /\ Recorded(d).existed => Recorded(d).keepID = IdentityOf(side[<<cur, d>>])
         /\ Good(Recorded(d), fs[d], side[<<cur, d>>])
<1>1. fs[d] \in Place /\ side[<<cur, d>>] \in Place /\ cur \in Journal
  BY DEF TypeOK
<1> DEFINE x == Recorded(d)
<1>2. /\ x.dest = d /\ x.activated = FALSE /\ x.existed = (fs[d] # NoFile)
      /\ x.stageID = NoIno /\ x.keepID = IdentityOf(side[<<cur, d>>])
  BY DEF Recorded
<1>3. x \in Change
  BY <1>1, IdentityType DEF Recorded, Change, Identity
<1>4. side[<<cur, d>>] # NoFile => IdentityOf(side[<<cur, d>>]) # NoIno
  BY <1>1, PlaceFacts
<1> HIDE DEF x
<1> QED BY <1>2, <1>3, <1>4 DEF x, Good

\* A path has a backup when it is recorded if there is something to back up.
LEMMA CopyThere ==
  ASSUME KeepInv, NEW d \in Dest, pc = "run", cur \in Recorders,
         Prepared(d) \/ (NonePrepared /\ MayTouch(d) /\ fs[d] = NoFile)
  PROVE  side[<<cur, d>>] # NoFile <=> fs[d] # NoFile
BY DEF KeepInv, PcPart, RunPart, CopiedPart, WorkingPcs, Prepared, NonePrepared, MayTouch

LEMMA RecordKeeps ==
  ASSUME Shared = {}, KeepInv, Base, Base', NEW d \in Dest, Record(d)
  PROVE  KeepInv'
<1>0. PICK x : x = Recorded(d)
  OBVIOUS
<1> DEFINE s == WithChange(mem[cur], x)
<1>1. /\ UNCHANGED <<fs, side, group>> /\ pc = "run" /\ cur \in Recorders
      /\ Prepared(d) \/ (NonePrepared /\ MayTouch(d) /\ fs[d] = NoFile)
      /\ open' = open \cup {cur} /\ Remember(cur, s) /\ MayPersist(cur, s)
      /\ (Persist(cur, s) /\ Goto("run")) \/ Goto("failed")
  BY <1>0 DEF Record, Ready, MayPersist
<1>2. cur \in Journal /\ mem[cur] \in JournalState /\ cur' = cur
  BY <1>1 DEF Base, TypeOK, Goto
<1>13. side[<<cur, d>>] # NoFile <=> fs[d] # NoFile
  BY <1>1, CopyThere
<1>3. /\ x \in Change /\ x.dest = d /\ ~x.activated
      /\ x.existed => x.keepID = IdentityOf(side[<<cur, d>>])
      /\ Good(x, fs[d], side[<<cur, d>>])
  BY <1>0, <1>13, RecordedSound DEF Base
<1>4. mem'[cur] = s
  BY <1>1, <1>2 DEF Remember, Base, TypeOK
<1>5. /\ \A j \in Journal : j # cur => mem'[j] = mem[j] /\ disk'[j] = disk[j]
      /\ disk'[cur] = disk[cur] \/ disk'[cur] = s
      /\ Changes(s) = Changes(mem[cur]) \cup {x}
      /\ \A j \in Journal : \A c \in Claims(j)' : c \in Claims(j) \/ (j = cur /\ c = x)
      /\ Live'
  BY <1>1, <1>2, <1>3, AddedClaim DEF Base, KeepInv
<1> HIDE DEF s
<1>6. pc \in WorkingPcs /\ disk = mem /\ Undoable
      /\ \A j \in Journal : Claims(j) = Changes(mem[j]) /\ Claims(j) = Changes(disk[j])
  BY <1>1, AtWork DEF WorkingPcs
<1>7. \A j \in Journal : \A c \in Claims(j) : c.dest # x.dest
  BY <1>1, <1>3, <1>6, PreparedFree, MayTouchFree, Unclaimed
<1>8. Sound(cur, x)
  BY <1>3 DEF Sound
<1>9. DataPart'
  BY <1>1, <1>3, <1>5, <1>6, <1>7, <1>8, ClaimStep DEF Base, KeepInv
<1>10. Covered'
  <2> SUFFICES ASSUME NEW j \in Journal, NEW c \in Changes(disk'[j])
               PROVE  c \in Changes(mem'[j])
    BY DEF Covered
  <2> QED BY <1>4, <1>5, <1>6
<1>11. CASE Persist(cur, s) /\ Goto("run")
  <2>1. pc' = "run" /\ disk' = mem'
    BY <1>1, <1>2, <1>6, <1>11 DEF Goto, Remember, Persist, Base, TypeOK
  <2>2. ASSUME NEW j \in Journal, NEW c \in Changes(mem'[j]), ~c.activated /\ c.existed
        PROVE  IdentityOf(side'[<<j, c.dest>>]) = c.keepID
    <3>1. c \in Changes(mem[j]) \/ (j = cur /\ c = x)
      BY <1>4, <1>5
    <3>2. CASE j = cur /\ c = x
      BY <1>1, <1>3, <2>2, <3>2
    <3>3. CASE c \in Changes(mem[j])
      BY <1>1, <1>6, <2>2, <3>3 DEF KeepInv, PcPart, RunPart
    <3> QED BY <3>1, <3>2, <3>3
  <2>3. RunPart'
    <3>1. \A e \in Dest :
             /\ \A j \in Journal : j > cur' => side'[<<j, e>>] = NoFile
             /\ side'[<<cur', e>>] # NoFile => \A k \in Journal : k # cur' => ~Touches(mem'[k], e)
      BY <1>1, <1>2, <1>5, <1>6 DEF KeepInv, PcPart, RunPart
    <3>2. \A e \in Dest : Prepared(e)' => Prepared(e)
      <4>1. mem[cur] \in JournalState /\ mem'[cur] \in JournalState
        BY <1>2 DEF Base, TypeOK
      <4>2. \A e : Touches(mem[cur], e) => Touches(mem'[cur], e)
        BY <1>4, <1>5, <4>1, ChangesTyped
      <4> QED BY <1>1, <1>2, <4>2 DEF Prepared
    <3>3. CopiedPart'
      BY <1>1, <1>2, <1>6, <3>2 DEF KeepInv, PcPart, RunPart, CopiedPart
    <3> QED BY <2>1, <2>2, <3>1, <3>3 DEF RunPart
  <2>4. SwapPart' /\ SparePart' /\ FinishOpen'
    BY <2>1 DEF SwapPart, SparePart, FinishOpen
  <2> QED BY <1>9, <1>10, <2>3, <2>4 DEF KeepInv, PcPart
<1>12. CASE Goto("failed")
  <2>1. pc' = "failed" /\ SparePart'
    BY <1>1, <1>2, <1>12 DEF Goto, SparePart
  <2> QED BY <1>9, <1>10, <2>1, FailingPcPart DEF KeepInv
<1> QED BY <1>1, <1>11, <1>12

\* A new object at the side path of a path nobody has claimed.
LEMMA PrepareKeeps ==
  ASSUME Shared = {}, KeepInv, Base, NEW d \in Dest, NEW o \in NewObject,
         pc = "run", MayTouch(d), cur \in Recorders => fs[d] # NoFile,
         side' = [side EXCEPT ![<<cur, d>>] = o],
         UNCHANGED <<fs, files, disk, group, pc, cur, todo, ret, open, mem, faults>>
  PROVE  KeepInv'
<1>1. cur \in Journal
  BY DEF Base, TypeOK
<1>2. \A j \in Journal, e \in Dest : j # cur \/ e # d => side'[<<j, e>>] = side[<<j, e>>]
  BY <1>1 DEF Base, TypeOK
<1>3. \A j \in Journal : ~Touches(mem[j], d)
  BY MayTouchFree
<1>4. pc \in WorkingPcs
  BY DEF WorkingPcs
<1>5. \A j \in Journal : \A c \in Claims(j) : c.dest # d /\ c.dest \in Dest
  BY <1>3, <1>4, Unclaimed, ClaimFacts DEF Base
<1>6. DataPart'
  <2>1. Unique'
    BY <1>1, NewSide DEF Base, KeepInv, DataPart
  <2>2. \A j \in Journal : \A c \in Claims(j) : Sound(j, c) => Sound(j, c)'
    BY <1>2, <1>5 DEF Sound
  <2> QED BY <2>1, <2>2, PlaceStep DEF KeepInv
<1>7. RunPart'
  <2>1. disk = mem
    BY <1>4 DEF KeepInv, PcPart, RunPart
  <2>2. ASSUME NEW j \in Journal, NEW c \in Changes(mem[j]), ~c.activated /\ c.existed
        PROVE  IdentityOf(side'[<<j, c.dest>>]) = c.keepID
    <3>1. c.dest # d /\ c.dest \in Dest
      BY <1>5 DEF Claims
    <3> QED BY <1>2, <1>4, <2>2, <3>1 DEF KeepInv, PcPart, RunPart
  <2>3. ASSUME NEW e \in Dest
        PROVE  /\ \A j \in Journal : j > cur => side'[<<j, e>>] = NoFile
               /\ side'[<<cur, e>>] # NoFile => \A k \in Journal : k # cur => ~Touches(mem[k], e)
    <3>1. \A j \in Journal : j > cur => j # cur
      BY <1>1, JournalFacts
    <3>2. \A j \in Journal : j > cur => side'[<<j, e>>] = NoFile
      BY <1>2, <1>4, <3>1 DEF KeepInv, PcPart, RunPart
    <3>3. CASE e = d
      BY <1>3, <3>2, <3>3
    <3>4. CASE e # d
      BY <1>1, <1>2, <1>4, <3>2, <3>4 DEF KeepInv, PcPart, RunPart
    <3> QED BY <3>3, <3>4
  <2>4. CopiedPart'
    <3> SUFFICES ASSUME cur \in Recorders, NEW e \in Dest, Prepared(e)' PROVE fs[e] # NoFile
      BY DEF CopiedPart
    <3>1. e # d => Prepared(e)
      BY <1>1, <1>2 DEF Prepared
    <3> QED BY <1>4, <3>1 DEF KeepInv, PcPart, RunPart, CopiedPart
  <2> QED BY <2>1, <2>2, <2>3, <2>4 DEF RunPart
<1>8. Covered'
  BY <1>7, <1>4, CoveredByMemory DEF RunPart
<1>9. SwapPart' /\ SparePart' /\ FinishOpen'
  BY DEF SwapPart, SparePart, FinishOpen
<1> QED BY <1>6, <1>7, <1>8, <1>9 DEF KeepInv, PcPart

LEMMA StageKeeps ==
  ASSUME Shared = {}, KeepInv, Base, NEW d \in Dest, Stage(d) \/ CopyBackup(d)
  PROVE  KeepInv'
<1>1. /\ pc = "run" /\ MayTouch(d)
      /\ \E o \in NewObject : side' = [side EXCEPT ![<<cur, d>>] = o]
      /\ UNCHANGED <<fs, files, disk, group, pc, cur, todo, ret, open, mem, faults>>
  BY DEF Stage, CopyBackup
<1>2. cur \in Recorders => fs[d] # NoFile
  BY DEF Stage, CopyBackup
<1> QED BY <1>1, <1>2, PrepareKeeps

LEMMA MutateKeeps ==
  ASSUME KeepInv, Base, Base', NEW d \in Dest, Mutate(d)
  PROVE  KeepInv'
<1>1. /\ UNCHANGED <<side, files, disk, group, pc, cur, todo, ret, open, mem, faults>>
      /\ pc = "run" /\ cur \in Recorders /\ Touches(mem[cur], d)
  BY DEF Mutate
<1>2. pc \in WorkingPcs /\ disk = mem /\ Undoable /\ Claims(cur) = Changes(mem[cur])
      /\ cur \in Journal /\ mem[cur] \in JournalState
  BY <1>1, AtWork DEF WorkingPcs, Base, TypeOK
<1>3. PICK c \in Claims(cur) : c.dest = d
  BY <1>1, <1>2, ChangesTyped
<1>4. ~c.activated
  BY <1>1, <1>2 DEF KeepInv, DataPart, Owned
<1>5. \A e \in Dest : e # d => fs'[e] = fs[e]
  BY <1>1 DEF Mutate, Base, TypeOK
<1>6. Unique'
  <2>1. CASE fs' = [fs EXCEPT ![d] = NoFile]
    <3>1. fs'[d] = NoFile
      BY <2>1 DEF Base, TypeOK
    <3> QED BY <1>1, <1>5, <3>1, FewerUnique DEF KeepInv, DataPart
  <2>2. CASE \E o \in NewObject : fs' = [fs EXCEPT ![d] = o]
    BY <1>1, <2>2, NewDest DEF Base, KeepInv, DataPart
  <2>3. CASE fs[d] # NoFile /\ \E v \in Data : fs' = [fs EXCEPT ![d].data = v]
    <3>1. fs[d] \in Object
      BY <2>3 DEF Base, TypeOK, Place
    <3>2. PICK v \in Data : fs' = [fs EXCEPT ![d].data = v]
      BY <2>3
    <3>3. fs'[d] = [fs[d] EXCEPT !.data = v]
      BY <3>2 DEF Base, TypeOK
    <3>4. fs'[d].ino = fs[d].ino
      BY <3>1, <3>3 DEF Object
    <3> QED BY <1>1, <1>5, <2>3, <3>4, FewerUnique DEF KeepInv, DataPart
  <2> QED BY <2>1, <2>2, <2>3 DEF Mutate
<1>7. Good(c, fs'[c.dest], side'[<<cur, c.dest>>])
  <2>1. c.existed => IdentityOf(side[<<cur, c.dest>>]) = c.keepID
    BY <1>2, <1>4 DEF KeepInv, PcPart, RunPart
  <2>2. c.existed => c.keepID # NoIno
    BY <1>2, <1>4 DEF KeepInv, DataPart, Kept, Sound, Good
  <2>3. ~c.existed => side[<<cur, c.dest>>] = NoFile
    BY <1>2, <1>4 DEF KeepInv, DataPart, Kept, Sound, Good
  <2> QED BY <1>1, <1>4, <2>1, <2>2, <2>3 DEF Good
<1>8. DataPart'
  BY <1>1, <1>3, <1>5, <1>6, <1>7, MovedStep DEF Base, KeepInv
<1>9. RunPart'
  <2>1. CopiedPart'
    BY <1>1, <1>2, <1>5 DEF KeepInv, PcPart, RunPart, CopiedPart, Prepared
  <2> QED BY <1>1, <1>2, <2>1 DEF KeepInv, PcPart, RunPart
<1>10. Covered'
  BY <1>1, <1>2, CoveredByMemory
<1>11. SwapPart' /\ SparePart' /\ FinishOpen'
  BY <1>1 DEF SwapPart, SparePart, FinishOpen
<1> QED BY <1>8, <1>9, <1>10, <1>11 DEF KeepInv, PcPart

-----------------------------------------------------------------------------
\* Activations, call by call, and what follows a failing one.

LEMMA GoneUnique ==
  ASSUME TypeOK, Unique, NEW d \in Dest, fs' = [fs EXCEPT ![d] = NoFile], UNCHANGED side
  PROVE  Unique' /\ fs'[d] = NoFile /\ \A e \in Dest : e # d => fs'[e] = fs[e]
<1>1. fs'[d] = NoFile /\ \A e \in Dest : e # d => fs'[e] = fs[e]
  BY DEF TypeOK
<1>2. \A e \in Dest : fs'[e] # NoFile => fs[e] # NoFile /\ fs'[e].ino = fs[e].ino
  BY <1>1
<1> QED BY <1>1, <1>2, FewerUnique

LEMMA DroppedUnique ==
  ASSUME TypeOK, Unique, NEW k \in Journal, NEW d \in Dest,
         side' = [side EXCEPT ![<<k, d>>] = NoFile], UNCHANGED fs
  PROVE  /\ Unique' /\ side'[<<k, d>>] = NoFile
         /\ \A j \in Journal, e \in Dest : j # k \/ e # d => side'[<<j, e>>] = side[<<j, e>>]
<1>1. /\ side'[<<k, d>>] = NoFile
      /\ \A j \in Journal, e \in Dest : j # k \/ e # d => side'[<<j, e>>] = side[<<j, e>>]
  BY DEF TypeOK
<1>2. ASSUME NEW j \in Journal, NEW e \in Dest, side'[<<j, e>>] # NoFile
      PROVE  side[<<j, e>>] # NoFile /\ side'[<<j, e>>].ino = side[<<j, e>>].ino
  BY <1>1, <1>2
<1> QED BY <1>1, <1>2, FewerUnique

\* Where a failing activation of the only change leads once that is undone.
LEMMA LoneBack ==
  ASSUME TypeOK, Owned, Covered, FirstActivation(1), UNCHANGED <<mem, disk, cur>>,
         pc \in WorkingPcs \cup FailingPcs,
         NEW c, c = InHand, OriginalBack(c, fs'[c.dest]),
         \A d \in Dest : d # c.dest => fs'[d] = fs[d]
  PROVE  AllBack(cur)'
<1>1. cur \in Journal /\ mem[cur] \in JournalState /\ Len(mem[cur].changes) = 1
  BY DEF TypeOK, FirstActivation
<1>2. \A e \in Changes(mem[cur]) : e = c
  BY <1>1, LoneChange DEF InHand
<1>3. c \in Claims(cur) /\ c.dest \in Dest
  <2>1. mem[cur].changes # <<>>
    BY <1>1
  <2> QED BY <2>1, LastInHand DEF InHand
<1>4. Claims(cur)' = Claims(cur)
  BY DEF Claims
<1> SUFFICES ASSUME NEW e \in Claims(cur) PROVE OriginalBack(e, fs'[e.dest])
  BY <1>4 DEF AllBack, Back
<1>5. e.dest \in Dest
  BY <1>1, ClaimFacts
<1>6. CASE e.dest = c.dest
  <2>1. Same(e, c)
    BY <1>1, <1>3, <1>6, OneAtDest
  <2> QED BY <1>6, <2>1, SameBack
<1>7. CASE e.dest # c.dest
  <2>1. e \in Changes(disk[cur]) /\ ~ \E x \in Changes(mem[cur]) : x.dest = e.dest
    BY <1>2, <1>7 DEF Claims
  <2>2. Back(e)
    BY <1>1, <2>1 DEF Covered
  <2> QED BY <1>5, <1>7, <2>2 DEF Back
<1> QED BY <1>6, <1>7

LEMMA SwapKeeps ==
  ASSUME MaxFaults <= 1, KeepInv, Base, Base', ActivateSwap
  PROVE  KeepInv'
<1>1. UNCHANGED <<files, disk, group, open, mem, cur>> /\ pc = "swap"
  BY DEF ActivateSwap, Goto, ActivateFails
<1>2. mem[cur].changes # <<>> /\ cur \in Journal
  BY <1>1 DEF Base, InFlight, TypeOK
<1>3. PICK c : c = InHand
  OBVIOUS
<1>4. c \in Claims(cur) /\ c \in Change /\ c.dest \in Dest
  BY <1>2, <1>3, LastInHand DEF InHand, Base
<1>5. c.activated /\ Waiting(c, fs[c.dest], side[<<cur, c.dest>>])
  BY <1>1, <1>3 DEF KeepInv, PcPart, SwapPart
<1>6. pc \in WorkingPcs /\ disk = mem /\ Undoable /\ Claims(cur) = Changes(mem[cur])
  BY <1>1, <1>2, AtWork DEF WorkingPcs
<1>7. Good(c, fs[c.dest], side[<<cur, c.dest>>])
  BY <1>2, <1>4, <1>6 DEF KeepInv, DataPart, Kept, Sound
<1>8. Covered'
  BY <1>1, <1>6, CoveredByMemory
<1>9. CASE Exchange(cur, c.dest) /\ Goto("swapped")
  <2>1. /\ fs'[c.dest] = side[<<cur, c.dest>>] /\ \A e \in Dest : e # c.dest => fs'[e] = fs[e]
        /\ side'[<<cur, c.dest>>] = fs[c.dest]
        /\ \A k \in Journal, e \in Dest : k # cur \/ e # c.dest => side'[<<k, e>>] = side[<<k, e>>]
    BY <1>2, <1>4, <1>9, ExchangeMoves DEF Base
  <2>2. Unique'
    BY <1>2, <1>4, <1>9, ExchangeUnique DEF Base, KeepInv, DataPart
  <2>3. /\ Swapped(c, fs'[c.dest], side'[<<cur, c.dest>>])
        /\ Good(c, fs'[c.dest], side'[<<cur, c.dest>>])
    BY <1>2, <1>4, <1>5, <1>7, <2>1, WaitingSwaps, ClaimFacts DEF Base
  <2>4. DataPart'
    BY <1>1, <1>4, <2>1, <2>2, <2>3, MovedStep DEF Base, KeepInv
  <2>5. ASSUME NEW j \in Journal, NEW e \in Changes(mem[j]), ~e.activated /\ e.existed
        PROVE  IdentityOf(side'[<<j, e.dest>>]) = e.keepID
    <3>1. e \in Claims(j)
      BY DEF Claims
    <3>2. j # cur \/ e.dest # c.dest
      BY <1>2, <1>4, <1>5, <2>5, <3>1, OneAtDest DEF KeepInv, DataPart, Same
    <3>3. e.dest \in Dest
      BY <3>1, ClaimFacts DEF Base
    <3> QED BY <1>6, <2>1, <2>5, <3>2, <3>3 DEF KeepInv, PcPart, RunPart
  <2>6. ASSUME NEW d \in Dest
        PROVE  /\ \A j \in Journal : j > cur => side'[<<j, d>>] = NoFile
               /\ side'[<<cur, d>>] # NoFile => \A k \in Journal : k # cur => ~Touches(mem[k], d)
    <3>1. \A j \in Journal : j > cur => j # cur
      BY <1>2, JournalFacts
    <3>2. \A j \in Journal : j > cur => side'[<<j, d>>] = NoFile
      BY <1>6, <2>1, <3>1 DEF KeepInv, PcPart, RunPart
    <3>3. CASE d # c.dest
      BY <1>2, <1>6, <2>1, <3>2, <3>3 DEF KeepInv, PcPart, RunPart
    <3>4. CASE d = c.dest
      <4>1. ASSUME NEW k \in Journal, k # cur, Touches(mem[k], d) PROVE FALSE
        <5>1. mem[k] \in JournalState
          BY DEF Base, TypeOK
        <5>2. PICK e \in Changes(mem[k]) : e.dest = d
          BY <4>1, <5>1, ChangesTyped
        <5> QED BY <1>2, <1>4, <3>4, <4>1, <5>2, OneAtDest DEF KeepInv, DataPart, Claims
      <4> QED BY <3>2, <4>1
    <3> QED BY <3>3, <3>4
  <2>7. RunPart'
    <3>1. CopiedPart'
      BY <1>9 DEF Goto, CopiedPart
    <3> QED BY <1>1, <1>6, <2>5, <2>6, <3>1 DEF RunPart
  <2>8. pc' = "swapped" /\ (InHand = c)'
    BY <1>1, <1>3, <1>9 DEF Goto, InHand
  <2>9. SwapPart'
    BY <1>1, <1>5, <2>3, <2>8 DEF SwapPart
  <2>10. SparePart' /\ FinishOpen'
    BY <2>8 DEF SparePart, FinishOpen
  <2> QED BY <1>8, <2>4, <2>7, <2>9, <2>10 DEF KeepInv, PcPart
<1>10. CASE Fault /\ ActivateFails(1) /\ UNCHANGED <<fs, side>>
  <2>1. DataPart'
    <3>1. \A j \in Journal : \A e : Sound(j, e) => Sound(j, e)'
      BY <1>10 DEF Sound
    <3> QED BY <1>1, <1>10, <3>1, SameSide, PlaceStep DEF KeepInv, DataPart
  <2>2. ~(faults' < MaxFaults)
    BY <1>10, FaultIsLast DEF Base
  <2>3. pc' \in {"failed", "callFailed", "untracked"} /\ (pc' = "callFailed" => FirstActivation(1))
    BY <1>10 DEF ActivateFails, Goto
  <2>4. OriginalBack(c, fs'[c.dest]) /\ \A d \in Dest : d # c.dest => fs'[d] = fs[d]
    BY <1>5, <1>10 DEF Waiting
  <2>5. FirstActivation(1) => AllBack(cur)'
    BY <1>1, <1>3, <1>6, <2>4, LoneBack DEF Base, KeepInv, DataPart, PcPart
  <2>6. SparePart'
    BY <2>2, <2>3, <2>5 DEF SparePart
  <2> QED BY <1>8, <2>1, <2>3, <2>6, FailingPcPart DEF KeepInv
<1> QED BY <1>3, <1>9, <1>10 DEF ActivateSwap, InHand

LEMMA EndKeeps ==
  ASSUME MaxFaults <= 1, KeepInv, Base, Base', ActivateEnd
  PROVE  KeepInv'
<1> DEFINE s == Completed(mem[cur])
<1>1. /\ UNCHANGED <<fs, side, group, open, cur>> /\ pc = "swapped"
      /\ \/ Persist(cur, s) /\ Remember(cur, s) /\ Goto("run")
         \/ /\ Fault /\ Goto("back")
            /\ \/ UNCHANGED <<files, disk, mem>>
               \/ MayPersist(cur, s) /\ Remember(cur, s)
  BY DEF ActivateEnd, Goto
<1>2. mem[cur].changes # <<>> /\ cur \in Journal /\ mem[cur] \in JournalState
  BY <1>1 DEF Base, InFlight, TypeOK
<1>3. /\ s.changes # <<>> /\ Same(Last(s.changes), Last(mem[cur].changes))
      /\ \A c \in Changes(s) : \E e \in Changes(mem[cur]) : Same(c, e)
      /\ \A e \in Changes(mem[cur]) : \E c \in Changes(s) : Same(c, e)
  BY <1>2, CompletedChanges
<1>4. pc \in WorkingPcs /\ disk = mem /\ Undoable /\ cur \in open
      /\ \A j \in Journal : Claims(j) = Changes(mem[j])
  BY <1>1, AtWork DEF WorkingPcs, Base, CommitInv, WorkPart
<1>5. /\ \A j \in Journal : j # cur => mem'[j] = mem[j] /\ disk'[j] = disk[j]
      /\ mem'[cur] = mem[cur] \/ mem'[cur] = s
      /\ disk'[cur] = disk[cur] \/ disk'[cur] = s
      /\ files \subseteq files' /\ (cur \in files' \/ disk' = disk)
  BY <1>1, <1>2 DEF Persist, MayPersist, Remember, Base, TypeOK
<1> HIDE DEF s
<1>6. Shrinks
  <2> SUFFICES ASSUME NEW j \in Journal, NEW c \in Claims(j)'
               PROVE  \E e \in Claims(j) : Same(c, e)
    BY DEF Shrinks
  <2>1. c \in Changes(mem'[j]) \/ c \in Changes(disk'[j])
    BY DEF Claims
  <2>2. c \in Changes(mem[j]) \/ (j = cur /\ c \in Changes(s))
    BY <1>4, <1>5, <2>1
  <2> QED BY <1>2, <1>3, <1>4, <2>2, SameItself
<1>7. DataPart'
  <2>1. Live'
    BY <1>1, <1>4, <1>5 DEF Live, KeepInv, DataPart
  <2> QED BY <1>1, <1>4, <1>6, <2>1, DataStep DEF KeepInv
<1>8. CASE Persist(cur, s) /\ Remember(cur, s) /\ Goto("run")
  <2>1. pc' = "run" /\ disk' = mem'
    BY <1>4, <1>8 DEF Goto, Persist, Remember
  <2>2. ASSUME NEW j \in Journal, NEW c \in Changes(mem'[j]), ~c.activated /\ c.existed
        PROVE  IdentityOf(side'[<<j, c.dest>>]) = c.keepID
    <3>1. PICK e \in Changes(mem[j]) : Same(c, e)
      BY <1>2, <1>4, <1>6 DEF Shrinks, Claims
    <3>2. IdentityOf(side[<<j, e.dest>>]) = e.keepID
      BY <1>4, <2>2, <3>1 DEF KeepInv, PcPart, RunPart, Same
    <3> QED BY <1>1, <3>1, <3>2 DEF Same
  <2>3. \A e \in Dest :
             /\ \A j \in Journal : j > cur' => side'[<<j, e>>] = NoFile
             /\ side'[<<cur', e>>] # NoFile => \A k \in Journal : k # cur' => ~Touches(mem'[k], e)
    BY <1>1, <1>4, <1>5 DEF KeepInv, PcPart, RunPart
  <2>4. RunPart'
    <3>1. InHand.activated /\ InHand \in Claims(cur)
      BY <1>1, <1>2, LastInHand DEF KeepInv, PcPart, SwapPart, InHand, Base
    <3>2. CopiedPart'
      BY <1>1, <1>2, <3>1 DEF KeepInv, DataPart, Owned, CopiedPart
    <3> QED BY <2>1, <2>2, <2>3, <3>2 DEF RunPart
  <2>5. SwapPart' /\ SparePart' /\ FinishOpen'
    BY <2>1 DEF SwapPart, SparePart, FinishOpen
  <2> QED BY <1>7, <2>1, <2>4, <2>5, CoveredByMemory DEF KeepInv, PcPart
<1>9. CASE Fault /\ Goto("back")
  <2>1. pc' = "back" /\ ~(faults' < MaxFaults)
    BY <1>9, FaultIsLast DEF Goto, Base
  <2>2. PICK c : c = InHand
    OBVIOUS
  <2>3. PICK e : e = Last(mem'[cur].changes)
    OBVIOUS
  <2>4. Same(e, c)
    BY <1>3, <1>5, <2>2, <2>3, SameItself DEF InHand
  <2>5. c.activated /\ Swapped(c, fs[c.dest], side[<<cur, c.dest>>])
    BY <1>1, <2>2 DEF KeepInv, PcPart, SwapPart
  <2>6. e.activated /\ Swapped(e, fs[e.dest], side[<<cur, e.dest>>])
    BY <2>4, <2>5 DEF Same, Swapped
  <2>7. (InHand = e)'
    BY <1>1, <2>3 DEF InHand
  <2>8. SwapPart'
    BY <1>1, <2>1, <2>6, <2>7 DEF SwapPart
  <2>9. Covered'
    <3> SUFFICES ASSUME NEW j \in Journal, NEW x \in Changes(disk'[j])
                 PROVE  \E y \in Changes(mem'[j]) : y.dest = x.dest
      BY DEF Covered
    <3>1. PICK z \in Changes(mem[j]) : Same(x, z)
      BY <1>4, <1>6 DEF Shrinks, Claims
    <3>2. \E y \in Changes(mem'[j]) : Same(y, z)
      BY <1>3, <1>5, <3>1, SameItself
    <3> QED BY <3>1, <3>2 DEF Same
  <2>10. RunPart' /\ SparePart' /\ FinishOpen'
    BY <2>1 DEF RunPart, SparePart, FinishOpen, WorkingPcs
  <2> QED BY <1>7, <2>8, <2>9, <2>10 DEF KeepInv, PcPart
<1> QED BY <1>1, <1>8, <1>9

\* What was covered stays covered when one change comes back.
LEMMA CoveredMove ==
  ASSUME TypeOK, Owned, UNCHANGED <<mem, disk>>,
         NEW c \in Claims(cur), \A d \in Dest : d # c.dest => fs'[d] = fs[d],
         OriginalBack(c, fs'[c.dest])
  PROVE  \A j \in Journal : \A e \in Claims(j) : Back(e) => Back(e)'
<1> SUFFICES ASSUME NEW j \in Journal, NEW e \in Claims(j), Back(e)
             PROVE  OriginalBack(e, fs'[e.dest])
  BY DEF Back
<1>1. cur \in Journal /\ e.dest \in Dest
  BY ClaimFacts DEF TypeOK
<1>2. CASE e.dest = c.dest
  <2>1. Same(e, c)
    BY <1>1, <1>2, OneAtDest
  <2> QED BY <1>2, <2>1, SameBack
<1>3. CASE e.dest # c.dest
  BY <1>1, <1>3 DEF Back
<1> QED BY <1>2, <1>3

LEMMA CoveredStays ==
  ASSUME Covered, UNCHANGED <<mem, disk>>,
         \A j \in Journal : \A e \in Claims(j) : Back(e) => Back(e)',
         pc \in WorkingPcs \cup FailingPcs \/ (pc = "undo" /\ (ret # "scan" \/ (pc' = "undo" /\ ret' = "scan" /\ cur' = cur)))
  PROVE  Covered'
<1> SUFFICES ASSUME NEW j \in Journal,
                    (pc \in WorkingPcs \cup FailingPcs \/ (pc = "undo" /\ (ret # "scan" \/ j = cur)))',
                    NEW e \in Changes(disk[j])
             PROVE  Back(e)' \/ \E x \in Changes(mem[j]) : x.dest = e.dest
  BY DEF Covered
<1>1. Back(e) \/ \E x \in Changes(mem[j]) : x.dest = e.dest
  BY DEF Covered, WorkingPcs, FailingPcs
<1> QED BY <1>1 DEF Claims

LEMMA BackKeeps ==
  ASSUME KeepInv, Base, Base', ActivateBack
  PROVE  KeepInv'
<1>1. UNCHANGED <<files, disk, group, open, mem, cur>> /\ pc = "back"
  BY DEF ActivateBack, Goto, ActivateFails
<1>2. mem[cur].changes # <<>> /\ cur \in Journal
  BY <1>1 DEF Base, InFlight, TypeOK
<1>3. PICK c : c = InHand
  OBVIOUS
<1>4. c \in Claims(cur) /\ c \in Change /\ c.dest \in Dest
  BY <1>2, <1>3, LastInHand DEF InHand, Base
<1>5. c.activated /\ Swapped(c, fs[c.dest], side[<<cur, c.dest>>]) /\ ~(faults < MaxFaults)
  BY <1>1, <1>3 DEF KeepInv, PcPart, SwapPart
<1>6. pc \in FailingPcs /\ Undoable
  BY <1>1, StillUndoable DEF FailingPcs, KeepInv, DataPart
<1>7. Good(c, fs[c.dest], side[<<cur, c.dest>>])
  BY <1>2, <1>4, <1>6 DEF KeepInv, DataPart, Kept, Sound
<1>8. /\ c.existed => OriginalBack(c, side[<<cur, c.dest>>])
                      /\ Good(c, side[<<cur, c.dest>>], fs[c.dest])
      /\ ~c.existed => OriginalBack(c, NoFile) /\ Good(c, NoFile, side[<<cur, c.dest>>])
  BY <1>2, <1>4, <1>5, <1>7, SwappedBack, ClaimFacts DEF Base
<1>9. CASE c.existed /\ Exchange(cur, c.dest) /\ Goto("backDrop") /\ UNCHANGED faults
  <2>1. /\ fs'[c.dest] = side[<<cur, c.dest>>] /\ \A e \in Dest : e # c.dest => fs'[e] = fs[e]
        /\ side'[<<cur, c.dest>>] = fs[c.dest]
        /\ \A k \in Journal, e \in Dest : k # cur \/ e # c.dest => side'[<<k, e>>] = side[<<k, e>>]
    BY <1>2, <1>4, <1>9, ExchangeMoves DEF Base
  <2>2. Unique'
    BY <1>2, <1>4, <1>9, ExchangeUnique DEF Base, KeepInv, DataPart
  <2>3. /\ OriginalBack(c, fs'[c.dest])
        /\ Good(c, fs'[c.dest], side'[<<cur, c.dest>>])
    BY <1>8, <1>9, <2>1
  <2>4. DataPart'
    BY <1>1, <1>4, <2>1, <2>2, <2>3, MovedStep DEF Base, KeepInv
  <2>5. pc' = "backDrop" /\ (InHand = c)' /\ ~(faults' < MaxFaults)
    BY <1>1, <1>3, <1>5, <1>9 DEF Goto, InHand
  <2>6. SwapPart'
    BY <2>3, <2>5 DEF SwapPart, Back
  <2>7. Covered'
    <3>1. \A j \in Journal : \A e \in Claims(j) : Back(e) => Back(e)'
      BY <1>1, <1>4, <2>1, <2>3, CoveredMove DEF Base, KeepInv, DataPart
    <3> QED BY <1>1, <1>6, <3>1, CoveredStays DEF KeepInv, PcPart
  <2>8. RunPart' /\ SparePart' /\ FinishOpen'
    BY <2>5 DEF RunPart, SparePart, FinishOpen, WorkingPcs
  <2> QED BY <2>4, <2>6, <2>7, <2>8 DEF KeepInv, PcPart
<1>10. CASE ~c.existed /\ fs' = [fs EXCEPT ![c.dest] = NoFile] /\ ActivateFails(1)
            /\ UNCHANGED <<side, faults>>
  <2>1. Unique' /\ fs'[c.dest] = NoFile /\ \A e \in Dest : e # c.dest => fs'[e] = fs[e]
    BY <1>4, <1>10, GoneUnique DEF Base, KeepInv, DataPart
  <2>2. OriginalBack(c, fs'[c.dest]) /\ Good(c, fs'[c.dest], side'[<<cur, c.dest>>])
    BY <1>8, <1>10, <2>1
  <2>3. DataPart'
    BY <1>1, <1>4, <1>10, <2>1, <2>2, MovedStep DEF Base, KeepInv
  <2>4. pc' \in {"failed", "callFailed", "untracked"} /\ (pc' = "callFailed" => FirstActivation(1))
    BY <1>10 DEF ActivateFails, Goto
  <2>5. FirstActivation(1) => AllBack(cur)'
    BY <1>1, <1>3, <1>6, <2>1, <2>2, LoneBack DEF Base, KeepInv, DataPart, PcPart
  <2>6. SparePart'
    BY <1>5, <1>10, <2>4, <2>5 DEF SparePart
  <2>7. Covered'
    <3>1. \A j \in Journal : \A e \in Claims(j) : Back(e) => Back(e)'
      BY <1>1, <1>4, <2>1, <2>2, CoveredMove DEF Base, KeepInv, DataPart
    <3> QED BY <1>1, <1>6, <3>1, CoveredStays DEF KeepInv, PcPart
  <2> QED BY <2>3, <2>4, <2>6, <2>7, FailingPcPart DEF KeepInv
<1> QED BY <1>3, <1>5, <1>9, <1>10 DEF ActivateBack, InHand, Fault

LEMMA BackDropKeeps ==
  ASSUME KeepInv, Base, Base', ActivateBackDrop
  PROVE  KeepInv'
<1>1. UNCHANGED <<fs, files, disk, group, open, mem, cur>> /\ pc = "backDrop"
      /\ ActivateFails(1)
  BY DEF ActivateBackDrop, Goto, ActivateFails
<1>2. mem[cur].changes # <<>> /\ cur \in Journal
  BY <1>1 DEF Base, InFlight, TypeOK
<1>3. PICK c : c = InHand
  OBVIOUS
<1>4. c \in Claims(cur) /\ c \in Change /\ c.dest \in Dest
  BY <1>2, <1>3, LastInHand DEF InHand, Base
<1>5. OriginalBack(c, fs[c.dest]) /\ ~(faults < MaxFaults)
  BY <1>1, <1>3 DEF KeepInv, PcPart, SwapPart, Back
<1>6. pc \in FailingPcs /\ Undoable
  BY <1>1, StillUndoable DEF FailingPcs, KeepInv, DataPart
<1>7. side' = [side EXCEPT ![<<cur, c.dest>>] = NoFile] /\ UNCHANGED faults
  BY <1>3, <1>5 DEF ActivateBackDrop, InHand, Fault
<1>8. Good(c, fs[c.dest], side[<<cur, c.dest>>])
  BY <1>2, <1>4, <1>6 DEF KeepInv, DataPart, Kept, Sound
<1>9. Good(c, fs[c.dest], NoFile)
  BY <1>2, <1>4, <1>5, <1>8, GoodDropAlt, ClaimFacts DEF Base
<1>10. /\ Unique' /\ side'[<<cur, c.dest>>] = NoFile
       /\ \A j \in Journal, e \in Dest : j # cur \/ e # c.dest => side'[<<j, e>>] = side[<<j, e>>]
  BY <1>1, <1>2, <1>4, <1>7, DroppedUnique DEF Base, KeepInv, DataPart
<1>11. Good(c, fs'[c.dest], side'[<<cur, c.dest>>])
  BY <1>1, <1>9, <1>10
<1>12. DataPart'
  BY <1>1, <1>4, <1>10, <1>11, MovedStep DEF Base, KeepInv
<1>13. pc' \in {"failed", "callFailed", "untracked"} /\ (pc' = "callFailed" => FirstActivation(1))
  BY <1>1 DEF ActivateFails, Goto
<1>14. FirstActivation(1) => AllBack(cur)'
  BY <1>1, <1>3, <1>5, <1>6, LoneBack DEF Base, KeepInv, DataPart, PcPart
<1>15. SparePart'
  BY <1>5, <1>7, <1>13, <1>14 DEF SparePart
<1>16. Covered'
  <2>1. \A j \in Journal : \A e \in Claims(j) : Back(e) => Back(e)'
    BY <1>1 DEF Back
  <2> QED BY <1>1, <1>6, <2>1, CoveredStays DEF KeepInv, PcPart
<1> QED BY <1>12, <1>13, <1>15, <1>16, FailingPcPart DEF KeepInv

-----------------------------------------------------------------------------
\* A failed manager, and the others it takes with it.

LEMMA RevertKeeps ==
  ASSUME KeepInv, Base, Revert
  PROVE  KeepInv'
<1>1. /\ UNCHANGED <<fs, side, files, disk, group, mem, open, cur, faults>>
      /\ pc \in {"failed", "callFailed", "untracked"} /\ pc \in FailingPcs
      /\ \/ pc' = "undo" /\ ret' = (IF pc = "failed" THEN "revert" ELSE "untracked")
         \/ (cur \in open => pc = "callFailed") /\ pc' = "discard" /\ ret' = ret
  BY DEF Revert, durable, FailingPcs
<1>2. DataPart'
  BY QuietStep DEF KeepInv, Revert
<1>3. \A j \in Journal : \A e \in Claims(j) : Back(e) => Back(e)'
  BY <1>1 DEF Back
<1>4. Covered'
  BY <1>1, <1>3, CoveredStays DEF KeepInv, PcPart
<1>5. AllBack(cur) => AllBack(cur)'
  BY <1>1 DEF AllBack, Back, Claims
<1>6. cur \notin open => AllBack(cur)
  <2> SUFFICES ASSUME cur \notin open, NEW c \in Claims(cur) PROVE Back(c)
    BY DEF AllBack
  <2>1. cur \in Journal /\ Changes(mem[cur]) = {}
    BY EmptyChanges DEF Base, TypeOK, KeepInv, DataPart, Live
  <2>2. c \in Changes(disk[cur])
    BY <2>1 DEF Claims
  <2> QED BY <1>1, <2>1, <2>2 DEF KeepInv, PcPart, Covered
<1>7. SparePart'
  <2>1. pc = "callFailed" => AllBack(cur)
    BY DEF KeepInv, PcPart, SparePart
  <2>2. CASE pc' = "undo" /\ ret' = (IF pc = "failed" THEN "revert" ELSE "untracked")
    <3>1. \/ cur \in Recorders \/ AllBack(cur) \/ ~(faults < MaxFaults)
          \/ pc = "failed" /\ mem[cur].cleanup
      BY <1>1, <2>1 DEF KeepInv, PcPart, SparePart
    <3>2. \/ cur' \in Recorders \/ AllBack(cur)' \/ ~(faults' < MaxFaults)
          \/ ret' = "revert" /\ mem'[cur'].cleanup
      BY <1>1, <1>5, <2>2, <3>1
    <3> QED BY <2>2, <3>2 DEF SparePart
  <2>3. CASE pc' = "discard" /\ (cur \in open => pc = "callFailed")
    BY <1>5, <1>6, <2>1, <2>3 DEF SparePart
  <2> QED BY <1>1, <2>2, <2>3
<1>8. RunPart' /\ SwapPart' /\ FinishOpen'
  BY <1>1 DEF RunPart, SwapPart, FinishOpen, WorkingPcs
<1> QED BY <1>2, <1>4, <1>7, <1>8 DEF KeepInv, PcPart

\* Everything at the side paths of a journal goes; its originals are back, or
\* nothing has to be undone any more.
LEMMA SidesGo ==
  ASSUME TypeOK, DataPart, UNCHANGED <<fs, mem, disk, group, open, files>>,
         side' = [p \in Journal \X Dest |-> IF p[1] = cur THEN NoFile ELSE side[p]],
         Undoable => AllBack(cur)
  PROVE  DataPart'
<1>1. \A j \in Journal, d \in Dest :
         side'[<<j, d>>] = IF j = cur THEN NoFile ELSE side[<<j, d>>]
  OBVIOUS
<1>2. Unique'
  <2>1. ASSUME NEW j \in Journal, NEW e \in Dest, side'[<<j, e>>] # NoFile
        PROVE  side[<<j, e>>] # NoFile /\ side'[<<j, e>>].ino = side[<<j, e>>].ino
    BY <1>1, <2>1
  <2> QED BY <2>1, FewerUnique DEF DataPart
<1>3. ASSUME Undoable, NEW j \in Journal, NEW c \in Claims(j), Sound(j, c)
      PROVE  Sound(j, c)'
  <2>1. c.dest \in Dest /\ fs[c.dest] \in Place /\ side[<<j, c.dest>>] \in Place
    BY ClaimFacts
  <2>2. CASE j = cur
    <3>1. OriginalBack(c, fs[c.dest])
      BY <1>3, <2>2 DEF AllBack, Back
    <3>2. Good(c, fs[c.dest], NoFile)
      BY <1>3, <2>1, <3>1, GoodDropAlt DEF Sound
    <3> QED BY <1>1, <2>1, <2>2, <3>2 DEF Sound
  <2>3. CASE j # cur
    BY <1>1, <1>3, <2>1, <2>3 DEF Sound
  <2> QED BY <2>2, <2>3
<1> QED BY <1>2, <1>3, PlaceStep

LEMMA DiscardKeeps ==
  ASSUME KeepInv, Base, Discard
  PROVE  KeepInv'
<1>1. UNCHANGED <<fs, files, disk, group, cur, ret, open, mem, faults>> /\ pc = "discard" /\ pc' = "fail"
  BY DEF Discard
<1>2. DataPart'
  <2>1. CASE cur \in Recorders \/ (ret = "revert" /\ mem[cur].cleanup)
    <3>1. side' = side
      BY <2>1 DEF Discard
    <3> QED BY <1>1, <3>1, QuietStep DEF KeepInv, durable
  <2>2. CASE ~(cur \in Recorders \/ (ret = "revert" /\ mem[cur].cleanup))
    <3>1. side' = [p \in Journal \X Dest |-> IF p[1] = cur THEN NoFile ELSE side[p]]
      BY <2>2 DEF Discard
    <3>2. AllBack(cur)
      BY <1>1, <2>2 DEF KeepInv, PcPart, SparePart
    <3> QED BY <1>1, <3>1, <3>2, SidesGo DEF Base, KeepInv
  <2> QED BY <2>1, <2>2
<1>3. Covered'
  <2>1. \A j \in Journal : \A e \in Claims(j) : Back(e) => Back(e)'
    BY <1>1 DEF Back
  <2> QED BY <1>1, <2>1, CoveredStays DEF KeepInv, PcPart, FailingPcs
<1>4. RunPart' /\ SwapPart' /\ SparePart' /\ FinishOpen'
  BY <1>1 DEF RunPart, SwapPart, SparePart, FinishOpen, WorkingPcs
<1> QED BY <1>2, <1>3, <1>4 DEF KeepInv, PcPart

LEMMA FailNextKeeps ==
  ASSUME KeepInv, Base, FailNext
  PROVE  KeepInv'
<1>1. UNCHANGED <<fs, side, files, disk, group, open, mem, faults>> /\ pc = "fail" /\ pc' = "undo" /\ ret' = "fail"
  BY DEF FailNext, durable
<1>2. DataPart'
  BY QuietStep DEF KeepInv, FailNext
<1>3. Covered'
  <2>1. \A j \in Journal : \A e \in Claims(j) : Back(e) => Back(e)'
    BY <1>1 DEF Back
  <2> QED BY <1>1, <2>1, CoveredStays DEF KeepInv, PcPart, FailingPcs
<1>4. RunPart' /\ SwapPart' /\ SparePart' /\ FinishOpen'
  BY <1>1 DEF RunPart, SwapPart, SparePart, FinishOpen, WorkingPcs
<1> QED BY <1>2, <1>3, <1>4 DEF KeepInv, PcPart

-----------------------------------------------------------------------------
\* Rollback and finish of the journal in hand.

\* A rollback or a finish gives up; recovery goes on from the files.
LEMMA GiveUpKeeps ==
  ASSUME KeepInv, Base, pc \in {"undo", "finish"}, Fault, ReturnError, UNCHANGED <<fs, side, group>>,
         \A j \in Journal : Changes(disk'[j]) \subseteq Claims(j),
         \A j \in Journal \ files' : disk'[j] = EmptyState,
         Undoable' => Undoable \/ \A j \in Journal : Changes(disk'[j]) = {}
  PROVE  KeepInv'
<1>1. CASE Exit
  BY <1>1, ExitStep DEF KeepInv
<1>2. CASE ~Exit
  <2>1. /\ \/ ret = "fail" /\ pc' = "fail"
           \/ ret \in Reverts /\ pc' = "discard"
        /\ UNCHANGED <<cur, todo, ret, open, mem>>
    BY <1>2 DEF ReturnError
  <2>2. pc = "undo"
    BY <2>1 DEF Base, CommitInv, SettlePart
  <2>3. Undoable
    BY <2>2, StillUndoable DEF KeepInv, DataPart
  <2>4. \A j \in Journal : Claims(j)' \subseteq Claims(j)
    BY <2>1 DEF Claims
  <2>5. Shrinks
    BY <2>4, SameItself DEF Shrinks
  <2>6. Live'
    BY <2>1 DEF Live, KeepInv, DataPart
  <2>7. DataPart'
    BY <2>3, <2>5, <2>6, DataStep DEF KeepInv
  <2>8. Covered'
    <3> SUFFICES ASSUME NEW j \in Journal, NEW c \in Changes(disk'[j])
                 PROVE  Back(c)' \/ \E e \in Changes(mem'[j]) : e.dest = c.dest
      BY DEF Covered
    <3>1. c \in Changes(mem[j]) \/ c \in Changes(disk[j])
      BY DEF Claims
    <3>2. c \in Changes(disk[j]) => Back(c) \/ \E e \in Changes(mem[j]) : e.dest = c.dest
      BY <2>1, <2>2 DEF KeepInv, PcPart, Covered
    <3> QED BY <2>1, <3>1, <3>2 DEF Back
  <2>9. SparePart'
    <3>1. CASE pc' = "fail"
      BY <3>1 DEF SparePart
    <3>2. CASE ret \in Reverts /\ pc' = "discard"
      <4>1. cur \in Recorders \/ AllBack(cur) \/ (ret = "revert" /\ mem[cur].cleanup)
        BY <2>2, <3>2 DEF KeepInv, PcPart, SparePart, Fault
      <4>2. cur \in Journal
        BY DEF Base, TypeOK
      <4>3. AllBack(cur) => AllBack(cur)'
        BY <2>1, <2>4, <4>2 DEF AllBack, Back
      <4>4. cur' \in Recorders \/ AllBack(cur)' \/ (ret' = "revert" /\ mem'[cur'].cleanup)
        BY <2>1, <3>2, <4>1, <4>3
      <4> QED BY <3>2, <4>4 DEF SparePart
    <3> QED BY <2>1, <3>1, <3>2
  <2>10. RunPart' /\ SwapPart' /\ FinishOpen'
    BY <2>1 DEF RunPart, SwapPart, FinishOpen, WorkingPcs
  <2> QED BY <2>7, <2>8, <2>9, <2>10 DEF KeepInv, PcPart
<1> QED BY <1>1, <1>2

LEMMA UndoFaultKeeps ==
  ASSUME KeepInv, Base, UndoFault
  PROVE  KeepInv'
<1>1. UNCHANGED <<fs, side, files, disk, group>> /\ pc \in {"undo", "finish"} /\ Fault /\ ReturnError
  BY DEF UndoFault, durable
<1>2. \A j \in Journal : Changes(disk'[j]) \subseteq Claims(j)
  BY <1>1 DEF Claims
<1>3. \A j \in Journal \ files' : disk'[j] = EmptyState
  BY <1>1 DEF KeepInv, DataPart, Live
<1>4. Undoable' => Undoable
  BY <1>1 DEF Undoable
<1> QED BY <1>1, <1>2, <1>3, <1>4, GiveUpKeeps

\* One path of the change in hand moves, and its original is back.
LEMMA UndoPlace ==
  ASSUME KeepInv, Base, pc = "undo", Unique', NEW c \in Claims(cur),
         UNCHANGED <<files, disk, group, pc, cur, todo, ret, open, mem, faults>>,
         \A d \in Dest : d # c.dest => fs'[d] = fs[d],
         \A j \in Journal, d \in Dest : j # cur \/ d # c.dest => side'[<<j, d>>] = side[<<j, d>>],
         Good(c, fs'[c.dest], side'[<<cur, c.dest>>]), OriginalBack(c, fs'[c.dest])
  PROVE  KeepInv'
<1>1. DataPart'
  BY MovedStep DEF Base, KeepInv
<1>2. \A j \in Journal : \A e \in Claims(j) : Back(e) => Back(e)'
  BY CoveredMove DEF Base, KeepInv, DataPart
<1>3. Covered'
  BY <1>2, CoveredStays DEF KeepInv, PcPart
<1>4. SparePart'
  <2>1. cur \in Journal /\ Claims(cur)' = Claims(cur)
    BY DEF Base, TypeOK, Claims
  <2>2. AllBack(cur) => AllBack(cur)'
    BY <1>2, <2>1 DEF AllBack
  <2>3. SUFFICES ASSUME ret \in Reverts
                 PROVE  \/ cur' \in Recorders \/ AllBack(cur)' \/ ~(faults' < MaxFaults)
                        \/ ret' = "revert" /\ mem'[cur'].cleanup
    BY DEF SparePart
  <2>4. \/ cur \in Recorders \/ AllBack(cur) \/ ~(faults < MaxFaults)
        \/ ret = "revert" /\ mem[cur].cleanup
    BY <2>3 DEF KeepInv, PcPart, SparePart
  <2> QED BY <2>2, <2>4
<1>5. RunPart' /\ SwapPart' /\ FinishOpen'
  BY DEF RunPart, SwapPart, FinishOpen, WorkingPcs
<1> QED BY <1>1, <1>3, <1>4, <1>5 DEF KeepInv, PcPart

\* The change in hand, as rollback finds it.
LEMMA SubjectSound ==
  ASSUME KeepInv, Base, Undoing
  PROVE  /\ Subject \in Claims(cur) /\ Subject.dest \in Dest /\ cur \in Journal
         /\ AtDest \in Place /\ AtSide \in Place /\ Good(Subject, AtDest, AtSide)
<1>1. pc = "undo" /\ mem[cur].changes # <<>> /\ cur \in Journal
  BY DEF Undoing, Base, TypeOK
<1>2. Subject \in Claims(cur) /\ Subject.dest \in Dest
  BY <1>1, LastInHand DEF Subject, Base
<1>3. Undoable
  BY <1>1, StillUndoable DEF KeepInv, DataPart
<1>4. Sound(cur, Subject)
  BY <1>1, <1>2, <1>3 DEF KeepInv, DataPart, Kept
<1> QED BY <1>1, <1>2, <1>4, ClaimFacts DEF Sound, AtDest, AtSide, Base

LEMMA UndoMovesKeep ==
  ASSUME KeepInv, Base, UndoSwap \/ UndoDropDest \/ UndoDropAlt
  PROVE  KeepInv'
<1>1. Undoing /\ pc = "undo" /\ UNCHANGED <<files, disk, group, pc, cur, todo, ret, open, mem, faults>>
  BY DEF UndoSwap, UndoDropDest, UndoDropAlt, Undoing
<1>2. PICK c : c = Subject
  OBVIOUS
<1>3. /\ c \in Claims(cur) /\ c.dest \in Dest /\ cur \in Journal
      /\ fs[c.dest] \in Place /\ side[<<cur, c.dest>>] \in Place
      /\ Good(c, fs[c.dest], side[<<cur, c.dest>>])
  BY <1>1, <1>2, SubjectSound DEF AtDest, AtSide
<1>4. CASE UndoSwap
  <2>1. Exchange(cur, c.dest) /\ NeedsSwap(c, fs[c.dest], side[<<cur, c.dest>>])
    BY <1>2, <1>4 DEF UndoSwap, AtDest, AtSide
  <2>2. /\ fs'[c.dest] = side[<<cur, c.dest>>] /\ \A e \in Dest : e # c.dest => fs'[e] = fs[e]
        /\ side'[<<cur, c.dest>>] = fs[c.dest]
        /\ \A k \in Journal, e \in Dest : k # cur \/ e # c.dest => side'[<<k, e>>] = side[<<k, e>>]
    BY <1>3, <2>1, ExchangeMoves DEF Base
  <2>3. Unique'
    BY <1>3, <2>1, ExchangeUnique DEF Base, KeepInv, DataPart
  <2>4. Good(c, fs'[c.dest], side'[<<cur, c.dest>>]) /\ OriginalBack(c, fs'[c.dest])
    BY <1>3, <2>1, <2>2, GoodSwap
  <2> QED BY <1>1, <1>3, <2>2, <2>3, <2>4, UndoPlace
<1>5. CASE UndoDropDest
  <2>1. fs' = [fs EXCEPT ![c.dest] = NoFile] /\ UNCHANGED side /\ NeedsDropDest(c, fs[c.dest])
    BY <1>2, <1>5 DEF UndoDropDest, AtDest
  <2>2. Unique' /\ fs'[c.dest] = NoFile /\ \A e \in Dest : e # c.dest => fs'[e] = fs[e]
    BY <1>3, <2>1, GoneUnique DEF Base, KeepInv, DataPart
  <2>3. Good(c, fs'[c.dest], side'[<<cur, c.dest>>]) /\ OriginalBack(c, fs'[c.dest])
    BY <1>3, <2>1, <2>2, GoodDropDest
  <2> QED BY <1>1, <1>3, <2>1, <2>2, <2>3, UndoPlace
<1>6. CASE UndoDropAlt
  <2>1. /\ side' = [side EXCEPT ![<<cur, c.dest>>] = NoFile] /\ UNCHANGED fs
        /\ OriginalBack(c, fs[c.dest])
    BY <1>2, <1>6 DEF UndoDropAlt, NeedsDropAlt, AtDest
  <2>2. /\ Unique' /\ side'[<<cur, c.dest>>] = NoFile
        /\ \A j \in Journal, e \in Dest : j # cur \/ e # c.dest => side'[<<j, e>>] = side[<<j, e>>]
    BY <1>3, <2>1, DroppedUnique DEF Base, KeepInv, DataPart
  <2>3. Good(c, fs'[c.dest], side'[<<cur, c.dest>>]) /\ OriginalBack(c, fs'[c.dest])
    BY <1>3, <2>1, <2>2, GoodDropAlt
  <2> QED BY <1>1, <1>3, <2>1, <2>2, <2>3, UndoPlace
<1> QED BY <1>4, <1>5, <1>6

\* A rollback never finds what it does not know.
LEMMA UndoConflictNever == ASSUME KeepInv, Base PROVE ~UndoConflict
BY SubjectSound, GoodNoConflict DEF UndoConflict

\* The journal in hand is in use.
LEMMA RewriteDisk ==
  ASSUME Base, DataPart, NEW s \in JournalState, Changes(s) \subseteq Changes(mem[cur]), cur \in open,
         s.committed = mem[cur].committed, pc \in {"undo", "finish"},
         MayPersist(cur, s), UNCHANGED group
  PROVE  /\ \A j \in Journal : j # cur => disk'[j] = disk[j]
         /\ disk'[cur] = disk[cur] \/ disk'[cur] = s
         /\ \A j \in Journal : Changes(disk'[j]) \subseteq Claims(j)
         /\ \A j \in Journal \ files' : disk'[j] = EmptyState
         /\ Undoable' => Undoable
<1>1. cur \in Journal
  BY DEF Base, TypeOK
<1>2. /\ \A j \in Journal : j # cur => disk'[j] = disk[j]
      /\ disk'[cur] = disk[cur] \/ disk'[cur] = s
      /\ files \subseteq files' /\ (cur \in files' \/ disk' = disk)
  BY <1>1 DEF Base, TypeOK, MayPersist, Persist
<1>3. \A j \in Journal : Changes(disk'[j]) \subseteq Claims(j)
  BY <1>2 DEF Claims
<1>4. \A j \in Journal \ files' : disk'[j] = EmptyState
  BY <1>2 DEF DataPart, Live
<1>5. Undoable' => Undoable
  <2>1. CASE pc = "undo"
    BY <2>1, StillUndoable DEF DataPart
  <2>2. CASE pc = "finish"
    <3>1. mem[cur].committed
      BY <2>2 DEF Base, CommitInv, SettlePart
    <3> QED BY <1>1, <1>2, <3>1 DEF Undoable
  <2> QED BY <2>1, <2>2
<1> QED BY <1>2, <1>3, <1>4, <1>5

LEMMA RewriteKeeps ==
  ASSUME KeepInv, Base, pc \in {"undo", "finish"}, cur \in open,
         NEW s \in JournalState, Changes(s) \subseteq Changes(mem[cur]),
         s.committed = mem[cur].committed, s.cleanup = mem[cur].cleanup \/ Changes(s) = {},
         Rewrite(s) \/ RewriteFault(s)
  PROVE  KeepInv'
<1>1. cur \in Journal
  BY DEF Base, TypeOK
<1>2. UNCHANGED <<fs, side, group>> /\ MayPersist(cur, s)
  BY DEF Rewrite, RewriteFault, MayPersist
<1>3. /\ \A j \in Journal : j # cur => disk'[j] = disk[j]
      /\ disk'[cur] = disk[cur] \/ disk'[cur] = s
      /\ \A j \in Journal : Changes(disk'[j]) \subseteq Claims(j)
      /\ \A j \in Journal \ files' : disk'[j] = EmptyState
      /\ Undoable' => Undoable
  BY <1>2, RewriteDisk DEF KeepInv
<1>4. CASE RewriteFault(s)
  BY <1>2, <1>3, <1>4, GiveUpKeeps DEF RewriteFault
<1>5. CASE Rewrite(s)
  <2>1. UNCHANGED <<pc, cur, todo, ret, open, faults>> /\ files \subseteq files'
    BY <1>5 DEF Rewrite, Persist
  <2>2. disk'[cur] = s /\ mem'[cur] = s /\ \A j \in Journal : j # cur => mem'[j] = mem[j]
    BY <1>1, <1>5 DEF Rewrite, Persist, Remember, Base, TypeOK
  <2>3. \A j \in Journal : Claims(j)' \subseteq Claims(j)
    BY <1>3, <2>2 DEF Claims
  <2>4. Shrinks
    BY <2>3, SameItself DEF Shrinks
  <2>5. Live'
    BY <1>3, <2>1, <2>2 DEF Live, KeepInv, DataPart
  <2>6. DataPart'
    BY <1>2, <1>3, <2>4, <2>5, DataStep DEF KeepInv
  <2>7. CASE pc = "finish"
    <3>1. (open \subseteq files)'
      BY <2>1, <2>7 DEF KeepInv, PcPart, FinishOpen
    <3> QED BY <2>1, <2>6, <2>7, <3>1, FinishPcPart DEF KeepInv
  <2>8. CASE pc = "undo"
    <3>1. Covered'
      <4> SUFFICES ASSUME NEW j \in Journal, ret # "scan" \/ j = cur, NEW c \in Changes(disk'[j])
                   PROVE  Back(c)' \/ \E e \in Changes(mem'[j]) : e.dest = c.dest
        BY <2>1, <2>8 DEF Covered, WorkingPcs, FailingPcs
      <4>1. CASE j = cur
        BY <2>2, <4>1
      <4>2. CASE j # cur
        <5>1. Back(c) \/ \E e \in Changes(mem[j]) : e.dest = c.dest
          BY <1>3, <2>8, <4>2 DEF KeepInv, PcPart, Covered
        <5> QED BY <1>2, <2>2, <4>2, <5>1 DEF Back
      <4> QED BY <4>1, <4>2
    <3>2. SparePart'
      <4>1. AllBack(cur) \/ Changes(s) = {} => AllBack(cur)'
        <5>1. Claims(cur)' \subseteq Claims(cur) /\ (Changes(s) = {} => Claims(cur)' = {})
          BY <1>1, <2>1, <2>2, <2>3 DEF Claims
        <5> QED BY <1>2, <5>1 DEF AllBack, Back
      <4>2. SUFFICES ASSUME ret \in Reverts
                     PROVE  \/ cur' \in Recorders \/ AllBack(cur)' \/ ~(faults' < MaxFaults)
                            \/ ret' = "revert" /\ mem'[cur'].cleanup
        BY <2>1, <2>8 DEF SparePart
      <4>3. \/ cur \in Recorders \/ AllBack(cur) \/ ~(faults < MaxFaults)
            \/ ret = "revert" /\ mem[cur].cleanup
        BY <2>8, <4>2 DEF KeepInv, PcPart, SparePart
      <4> QED BY <2>1, <2>2, <4>1, <4>3
    <3>3. RunPart' /\ SwapPart' /\ FinishOpen'
      BY <2>1, <2>8 DEF RunPart, SwapPart, FinishOpen, WorkingPcs
    <3> QED BY <2>6, <3>1, <3>2, <3>3 DEF KeepInv, PcPart
  <2> QED BY <2>7, <2>8
<1> QED BY <1>4, <1>5

LEMMA PopsKeep ==
  ASSUME KeepInv, Base, UndoPop \/ FinishPop \/ CleanPop
  PROVE  KeepInv'
<1>1. /\ pc \in {"undo", "finish"} /\ (mem[cur].changes # <<>> \/ mem[cur].cleanup)
      /\ cur \in Journal /\ mem[cur] \in JournalState
  BY DEF UndoPop, FinishPop, CleanPop, Undoing, Finishing, Ending, Base, TypeOK
<1>2. cur \in open
  BY <1>1, RememberedOpen DEF Base, KeepInv, DataPart
<1>3. CASE UndoPop
  <2>1. PICK s : s = [mem[cur] EXCEPT !.changes = Front(@)]
    OBVIOUS
  <2>2. mem[cur].changes # <<>> /\ (Rewrite(s) \/ RewriteFault(s))
    BY <1>3, <2>1 DEF UndoPop, Undoing
  <2>3. mem[cur].changes \in Seq(Change)
    BY <1>1 DEF JournalState
  <2>4. s \in JournalState
    BY <1>1, <2>1, <2>2, <2>3, FrontLast, ChangesState
  <2>5. s.committed = mem[cur].committed /\ s.cleanup = mem[cur].cleanup
    BY <1>1, <2>1 DEF JournalState
  <2>6. Changes(s) \subseteq Changes(mem[cur])
    BY <1>1, <2>1, <2>2, FrontChanges
  <2> QED BY <1>1, <1>2, <2>2, <2>4, <2>5, <2>6, RewriteKeeps
<1>4. CASE FinishPop
  <2>1. PICK s : s = [mem[cur] EXCEPT !.changes = Tail(@)]
    OBVIOUS
  <2>2. mem[cur].changes # <<>> /\ (Rewrite(s) \/ RewriteFault(s))
    BY <1>4, <2>1 DEF FinishPop, Finishing
  <2>3. mem[cur].changes \in Seq(Change)
    BY <1>1 DEF JournalState
  <2>4. s \in JournalState
    BY <1>1, <2>1, <2>2, <2>3, HeadTail, ChangesState
  <2>5. s.committed = mem[cur].committed /\ s.cleanup = mem[cur].cleanup
    BY <1>1, <2>1 DEF JournalState
  <2>6. Changes(s) \subseteq Changes(mem[cur])
    BY <1>1, <2>1, <2>2, TailChanges
  <2> QED BY <1>1, <1>2, <2>2, <2>4, <2>5, <2>6, RewriteKeeps
<1>5. CASE CleanPop
  <2>1. PICK s : s = [mem[cur] EXCEPT !.cleanup = FALSE]
    OBVIOUS
  <2>2. mem[cur].changes = <<>> /\ (Rewrite(s) \/ RewriteFault(s))
    BY <1>5, <2>1 DEF CleanPop, Ending
  <2>3. s \in JournalState /\ s.committed = mem[cur].committed
    BY <1>1, <2>1 DEF JournalState
  <2>4. Changes(s) = {} /\ Changes(s) \subseteq Changes(mem[cur])
    BY <1>1, <2>1, <2>2, NoChanges, FlagChanges
  <2> QED BY <1>1, <1>2, <2>2, <2>3, <2>4, RewriteKeeps
<1> QED BY <1>3, <1>4, <1>5

LEMMA FinishDropKeeps ==
  ASSUME KeepInv, Base, FinishDrop
  PROVE  KeepInv'
<1>1. UNCHANGED <<fs, files, disk, group, pc, cur, todo, ret, open, mem, faults>> /\ pc = "finish"
      /\ mem[cur].changes # <<>> /\ cur \in Journal /\ mem[cur] \in JournalState
  BY DEF FinishDrop, Finishing, Base, TypeOK
<1>2. Subject.dest \in Dest
  <2>1. Subject = Head(mem[cur].changes)
    BY <1>1 DEF Subject
  <2> QED BY <1>1, <2>1, ChangesTyped
<1>3. side' = [side EXCEPT ![<<cur, Subject.dest>>] = NoFile]
  BY DEF FinishDrop
<1>4. Unique'
  BY <1>1, <1>2, <1>3, DroppedUnique DEF Base, KeepInv, DataPart
<1>5. ~Undoable
  <2>1. cur \in files /\ disk[cur].committed
    BY <1>1 DEF Base, CommitInv, SettlePart, EverythingCommitted, KeepInv, PcPart, FinishOpen
  <2> QED BY <1>1, <2>1 DEF Undoable
<1>6. DataPart'
  BY <1>1, <1>4, <1>5, PlaceStep DEF KeepInv
<1>7. (open \subseteq files)'
  BY <1>1 DEF KeepInv, PcPart, FinishOpen
<1> QED BY <1>1, <1>6, <1>7, FinishPcPart DEF KeepInv

LEMMA CleanDropKeeps ==
  ASSUME KeepInv, Base, CleanDrop
  PROVE  KeepInv'
<1>1. /\ UNCHANGED <<fs, files, disk, group, pc, cur, todo, ret, open, mem, faults>>
      /\ pc \in {"undo", "finish"} /\ mem[cur].changes = <<>> /\ mem[cur].cleanup
      /\ cur \in Journal
      /\ side' = [p \in Journal \X Dest |-> IF p[1] = cur THEN NoFile ELSE side[p]]
  BY DEF CleanDrop, Ending, Base, TypeOK
<1>2. Undoable => AllBack(cur)
  <2>1. CASE pc = "finish"
    <3>1. cur \in open
      BY <1>1, RememberedOpen DEF Base, KeepInv, DataPart
    <3>2. cur \in files /\ disk[cur].committed
      BY <2>1, <3>1 DEF Base, CommitInv, SettlePart, EverythingCommitted, KeepInv, PcPart, FinishOpen
    <3> QED BY <1>1, <3>2 DEF Undoable
  <2>2. CASE pc = "undo"
    <3> SUFFICES ASSUME NEW c \in Claims(cur) PROVE Back(c)
      BY DEF AllBack
    <3>1. Changes(mem[cur]) = {}
      BY <1>1, NoChanges
    <3>2. c \in Changes(disk[cur])
      BY <3>1 DEF Claims
    <3> QED BY <1>1, <2>2, <3>1, <3>2 DEF KeepInv, PcPart, Covered
  <2> QED BY <1>1, <2>1, <2>2
<1>3. DataPart'
  BY <1>1, <1>2, SidesGo DEF Base, KeepInv
<1>4. CASE pc = "finish"
  <2>1. (open \subseteq files)'
    BY <1>1, <1>4 DEF KeepInv, PcPart, FinishOpen
  <2> QED BY <1>1, <1>3, <1>4, <2>1, FinishPcPart DEF KeepInv
<1>5. CASE pc = "undo"
  <2>1. \A j \in Journal : \A e \in Claims(j) : Back(e) => Back(e)'
    BY <1>1 DEF Back
  <2>2. Covered'
    BY <1>1, <1>5, <2>1, CoveredStays DEF KeepInv, PcPart
  <2>3. RunPart' /\ SwapPart' /\ FinishOpen'
    BY <1>1, <1>5 DEF RunPart, SwapPart, FinishOpen, WorkingPcs
  <2>4. Claims(cur)' = Claims(cur)
    BY <1>1 DEF Claims
  <2>5. AllBack(cur) => AllBack(cur)'
    BY <1>1, <2>1, <2>4 DEF AllBack
  <2>6. SparePart'
    BY <1>1, <1>5, <2>5 DEF SparePart, KeepInv, PcPart
  <2> QED BY <1>3, <2>2, <2>3, <2>6 DEF KeepInv, PcPart
<1> QED BY <1>1, <1>4, <1>5

LEMMA RemoveJournalKeeps ==
  ASSUME KeepInv, Base, RemoveJournal
  PROVE  KeepInv'
<1>1. UNCHANGED <<fs, side, group>> /\ pc \in {"undo", "finish"} /\ cur \in Journal
  BY DEF RemoveJournal, Ending, Base, TypeOK
<1>2. /\ \A j \in Journal : j # cur => disk'[j] = disk[j]
      /\ disk'[cur] = disk[cur] \/ disk'[cur] = EmptyState
      /\ \/ files' = files /\ disk' = disk
         \/ files' = files \ {cur} /\ disk'[cur] = EmptyState
  BY <1>1 DEF RemoveJournal, Base, TypeOK
<1>3. \A j \in Journal : Changes(disk'[j]) \subseteq Claims(j)
  BY <1>2, EmptyChanges DEF Claims
<1>4. \A j \in Journal \ files' : disk'[j] = EmptyState
  BY <1>2 DEF KeepInv, DataPart, Live
<1>5. Undoable' => Undoable \/ (files' = {} /\ \A j \in Journal : Changes(disk'[j]) = {})
  <2>1. CASE pc = "undo"
    BY <2>1, StillUndoable DEF KeepInv, DataPart
  <2>2. CASE pc = "finish"
    <3>1. SUFFICES ASSUME Undoable', files' # {} PROVE FALSE
      BY <1>4, EmptyChanges
    <3>2. files' \subseteq files /\ files' \subseteq Journal
      BY <1>2 DEF Base, TypeOK
    <3>3. PICK j \in files' : TRUE
      BY <3>1
    <3>4. disk[j].committed
      BY <2>2, <3>2, <3>3 DEF Base, CommitInv, SettlePart, EverythingCommitted
    <3>5. disk'[j] = disk[j]
      BY <1>2, <3>2, <3>3
    <3> QED BY <3>1, <3>2, <3>3, <3>4, <3>5 DEF Undoable
  <2> QED BY <1>1, <2>1, <2>2
<1>6. CASE Fault /\ ReturnError
  BY <1>1, <1>3, <1>4, <1>5, <1>6, GiveUpKeeps
<1>7. CASE /\ files' = files \ {cur} /\ disk' = [disk EXCEPT ![cur] = EmptyState]
           /\ open' = open \ {cur} /\ Remember(cur, EmptyState) /\ ReturnOk /\ UNCHANGED faults
  <2>1. /\ disk'[cur] = EmptyState /\ mem'[cur] = EmptyState
        /\ \A j \in Journal : j # cur => mem'[j] = mem[j]
    BY <1>1, <1>7 DEF Remember, Base, TypeOK
  <2>2. \A j \in Journal : Claims(j)' \subseteq Claims(j)
    BY <1>2, <2>1, EmptyChanges DEF Claims
  <2>3. Shrinks
    BY <2>2, SameItself DEF Shrinks
  <2>4. Live'
    BY <1>4, <1>7, <2>1 DEF Live, KeepInv, DataPart
  <2>5. Claims(cur)' = {} /\ cur' = cur
    BY <1>7, <2>1, EmptyChanges DEF Claims, ReturnOk
  <2>6. Undoable' => Undoable \/ \A j \in Journal : Claims(j)' = {}
    <3>1. SUFFICES ASSUME Undoable', ~Undoable
                   PROVE  \A j \in Journal : Claims(j)' = {}
      OBVIOUS
    <3>2. files' = {} /\ \A j \in Journal : Changes(disk'[j]) = {}
      BY <1>5, <3>1
    <3>3. pc = "finish"
      BY <1>1, <3>1, StillUndoable DEF KeepInv, DataPart
    <3>4. open' = {}
      BY <1>7, <3>2, <3>3 DEF KeepInv, PcPart, FinishOpen
    <3>5. \A j \in Journal : mem'[j] = EmptyState
      BY <2>4, <3>4 DEF Live
    <3> QED BY <3>2, <3>5, EmptyChanges DEF Claims
  <2>7. DataPart'
    BY <1>1, <2>3, <2>4, <2>6, DataStep DEF KeepInv
  <2>8. \/ pc' = "scan"
        \/ pc = "undo" /\ ret = "fail" /\ pc' = "fail"
        \/ pc = "undo" /\ ret \in Reverts /\ pc' = "discard"
        \/ pc = "finish" /\ pc' = "finishNext"
    BY <1>1, <1>7 DEF ReturnOk, Base, CommitInv, SettlePart
  <2>9. CASE pc' = "scan"
    BY <2>7, <2>9, IdlePcPart DEF KeepInv
  <2>10. CASE pc = "finish" /\ pc' = "finishNext"
    <3>1. (open \subseteq files)'
      BY <1>7, <2>10 DEF KeepInv, PcPart, FinishOpen
    <3> QED BY <2>7, <2>10, <3>1, FinishPcPart DEF KeepInv
  <2>11. CASE pc = "undo" /\ ret # "scan" /\ pc' \in {"fail", "discard"}
    <3>1. Covered'
      <4> SUFFICES ASSUME NEW j \in Journal, NEW c \in Changes(disk'[j])
                   PROVE  Back(c)' \/ \E e \in Changes(mem'[j]) : e.dest = c.dest
        BY DEF Covered
      <4>1. j # cur
        BY <2>1, EmptyChanges
      <4>2. Back(c) \/ \E e \in Changes(mem[j]) : e.dest = c.dest
        BY <1>2, <2>11, <4>1 DEF KeepInv, PcPart, Covered
      <4> QED BY <1>1, <2>1, <4>1, <4>2 DEF Back
    <3>2. AllBack(cur)'
      BY <2>5 DEF AllBack
    <3>3. SparePart'
      BY <2>11, <3>2 DEF SparePart
    <3>4. RunPart' /\ SwapPart' /\ FinishOpen'
      BY <2>11 DEF RunPart, SwapPart, FinishOpen, WorkingPcs
    <3> QED BY <2>7, <3>1, <3>3, <3>4 DEF KeepInv, PcPart
  <2> QED BY <2>8, <2>9, <2>10, <2>11
<1> QED BY <1>6, <1>7 DEF RemoveJournal

-----------------------------------------------------------------------------

LEMMA KeepInit == Init => KeepInv
<1> SUFFICES ASSUME Init PROVE KeepInv
  OBVIOUS
<1>1. \A j \in Journal : mem[j] = EmptyState /\ disk[j] = EmptyState
  BY DEF Init
<1>2. \A j \in Journal : Claims(j) = {}
  BY <1>1, EmptyChanges DEF Claims
<1>3. \A j \in Journal, d \in Dest : side[<<j, d>>] = NoFile
  BY DEF Init
<1>4. DataPart
  BY <1>1, <1>2, <1>3 DEF DataPart, Unique, Owned, Live, Kept
<1>5. PcPart
  BY DEF Init, PcPart, RunPart, SwapPart, Covered, SparePart, FinishOpen, WorkingPcs, FailingPcs
<1> QED BY <1>4, <1>5 DEF KeepInv

LEMMA KeepStutters ==
  ASSUME KeepInv, UNCHANGED vars
  PROVE  KeepInv'
<1>1. UNCHANGED <<fs, side, files, disk, group, pc, cur, ret, open, mem, faults>>
  BY DEF vars
<1>2. DataPart'
  BY <1>1, QuietStep DEF KeepInv, durable
<1>3. RunPart' /\ FinishOpen'
  BY <1>1 DEF KeepInv, PcPart, RunPart, CopiedPart, Prepared, FinishOpen
<1>4. SwapPart'
  BY <1>1 DEF KeepInv, PcPart, SwapPart, InHand, Back
<1>5. Covered'
  BY <1>1 DEF KeepInv, PcPart, Covered, Back
<1>6. SparePart'
  BY <1>1 DEF KeepInv, PcPart, SparePart, AllBack, Back, Claims
<1> QED BY <1>2, <1>3, <1>4, <1>5, <1>6 DEF KeepInv, PcPart

LEMMA KeepStep ==
  ASSUME Shared = {}, MaxFaults <= 1, Base, KeepInv, [Next]_vars
  PROVE  KeepInv'
<1>1. Base'
  BY NextType, InFlightStep, CommitStep DEF Base
<1>2. CASE Recover
  BY <1>1, <1>2, RecoverMemberKeeps, RecoverGroupKeeps, RecoverNextKeeps, RecoverDoneKeeps DEF Recover
<1>3. CASE Manage
  <2>1. ASSUME NEW d \in Dest,
               Stage(d) \/ CopyBackup(d) \/ ActivateIntent(d) \/ Record(d) \/ Mutate(d)
        PROVE  KeepInv'
    BY <1>1, <2>1, StageKeeps, IntentKeeps, RecordKeeps, MutateKeeps
  <2>2. CASE ActivateSwap \/ ActivateEnd \/ ActivateBack \/ ActivateBackDrop
    BY <1>1, <2>2, SwapKeeps, EndKeeps, BackKeeps, BackDropKeeps
  <2>3. CASE AddCleanup \/ ManagerDone \/ ManagerFails
    BY <1>1, <2>3, AddCleanupKeeps, ManagerDoneKeeps, ManagerFailsKeeps
  <2>4. CASE Revert \/ Discard \/ FailNext \/ FailDone
    BY <2>4, RevertKeeps, DiscardKeeps, FailNextKeeps, DoneKeeps
  <2> QED BY <1>3, <2>1, <2>2, <2>3, <2>4 DEF Manage
<1>4. CASE Settle
  BY <1>4, UndoMovesKeep, PopsKeep, UndoConflictNever, FinishDropKeeps, UndoFaultKeeps,
     CleanDropKeeps, RemoveJournalKeeps
  DEF Settle
<1>5. CASE Commit
  BY <1>5, WriteGroupKeeps, MarkKeeps, RemoveGroupKeeps, FinishNextKeeps, DoneKeeps DEF Commit
<1> QED BY <1>2, <1>3, <1>4, <1>5, StartKeeps, CrashKeeps, KeepStutters DEF Next

\* Where no two managers change one destination and at most one system call of a
\* process fails, KeepInv holds throughout: across crashes at any point, reruns
\* and recoveries, every change of an uncommitted journal can be undone.
THEOREM KeepInvariant ==
  ASSUME Shared = {}, MaxFaults <= 1
  PROVE  Spec => [](Base /\ KeepInv)
<1>1. Init => Base /\ KeepInv
  BY InitType, InFlightInit, CommitInit, KeepInit DEF Base
<1>2. Base /\ KeepInv /\ [Next]_vars => (Base /\ KeepInv)'
  BY NextType, InFlightStep, CommitStep, KeepStep DEF Base
<1> QED BY <1>1, <1>2, PTL DEF Spec

\* rollbackChange never finds a path that "changed unexpectedly": neither in the
\* process that failed nor in one that recovers after a crash.
THEOREM NeverConflicts ==
  ASSUME Shared = {}, MaxFaults <= 1
  PROVE  Spec => []NoRollbackConflict
<1>1. Base /\ KeepInv => NoRollbackConflict
  BY SubjectSound, GoodNoConflict DEF NoRollbackConflict
<1> QED BY <1>1, KeepInvariant, PTL

\* What a change replaced is at its destination or at its side path until the
\* change is durably committed: no crash, failing call, rollback or removal of a
\* workspace loses it.
THEOREM OriginalsKept ==
  ASSUME Shared = {}, MaxFaults <= 1
  PROVE  Spec => []OriginalKept
<1>1. Base /\ KeepInv => OriginalKept
  <2> SUFFICES ASSUME Base, KeepInv, NEW j \in files, NEW c \in Changes(disk[j]),
                      ~Committing(j), c.existed
               PROVE  c.keepID \in {IdentityOf(fs[c.dest]), IdentityOf(side[<<j, c.dest>>])}
    BY DEF OriginalKept, Changes
  <2>1. j \in Journal /\ c \in Claims(j)
    BY DEF Base, TypeOK, Claims
  <2>2. Undoable
    <3>1. \A i \in files : ~Committing(i)
      BY DEF Base, CommitInv, CommitIsAtomic
    <3>2. group = {}
      BY <3>1 DEF Base, CommitInv, Committing
    <3> QED BY <3>1, <3>2 DEF Base, CommitInv, CommitsLive, Committing, Undoable
  <2>3. Good(c, fs[c.dest], side[<<j, c.dest>>])
    BY <2>1, <2>2 DEF KeepInv, DataPart, Kept, Sound
  <2> QED BY <2>3 DEF Good, OriginalBack, Swapped
<1> QED BY <1>1, KeepInvariant, PTL

-----------------------------------------------------------------------------
\* A path shows what recovery will leave there, or a journal says what that is.

LEMMA SameRestored == ASSUME NEW j, NEW c, NEW e, Same(c, e) PROVE Restored(j, c) = Restored(j, e)
BY DEF Same, Restored

LEMMA BackRestored == ASSUME NEW j, NEW c, Back(c) PROVE Restored(j, c) = ContentOf(fs[c.dest])
BY DEF Back, OriginalBack, Restored, ContentOf

\* The journal that changed d, if any, determines what d will hold.
StableFacts ==
  \A d \in Dest :
    /\ \A j \in Journal : \A c \in Changes(disk[j]) :
         c.dest = d /\ ~Committing(j) => Stable(d) = Restored(j, c)
    /\ (\A j \in files : \A c \in Changes(disk[j]) : c.dest = d => Committing(j)) =>
         Stable(d) = ContentOf(fs[d])

LEMMA StableIs == Base /\ KeepInv => StableFacts
<1> SUFFICES ASSUME Base, KeepInv, NEW d \in Dest
             PROVE  /\ \A j \in Journal : \A c \in Changes(disk[j]) :
                         c.dest = d /\ ~Committing(j) => Stable(d) = Restored(j, c)
                    /\ (\A j \in files : \A c \in Changes(disk[j]) : c.dest = d => Committing(j)) =>
                         Stable(d) = ContentOf(fs[d])
  BY DEF StableFacts
<1>1. \A j \in Journal : disk[j] \in JournalState /\ (Touches(disk[j], d) <=> \E c \in Changes(disk[j]) : c.dest = d)
  BY ChangesTyped DEF Base, TypeOK
<1>2. ASSUME NEW j \in Journal, NEW c \in Changes(disk[j]), c.dest = d, ~Committing(j)
      PROVE  Stable(d) = Restored(j, c)
  <2>1. j \in files
    BY <1>2, EmptyChanges DEF KeepInv, DataPart, Live
  <2>2. j \in PendingOn(d)
    BY <1>1, <1>2, <2>1 DEF PendingOn
  <2>3. ASSUME NEW k \in PendingOn(d) PROVE k = j
    <3>1. k \in Journal
      BY DEF PendingOn, Base, TypeOK
    <3>2. PICK e \in Changes(disk[k]) : e.dest = d
      BY <1>1, <3>1 DEF PendingOn
    <3>3. c \in Claims(j) /\ e \in Claims(k)
      BY <3>2 DEF Claims
    <3> QED BY <1>2, <3>1, <3>2, <3>3, OneAtDest DEF KeepInv, DataPart
  <2>4. j <= j
    BY JournalFacts
  <2>5. (CHOOSE i \in PendingOn(d) : \A k \in PendingOn(d) : i <= k) = j
    BY <2>2, <2>3, <2>4
  <2>6. ChangeOf(j, d) \in Changes(disk[j]) /\ ChangeOf(j, d).dest = d
    <3> DEFINE cs == disk[j].changes
    <3>1. \E i \in 1..Len(cs) : cs[i].dest = d
      BY <1>2 DEF Changes
    <3> QED BY <3>1 DEF ChangeOf, Changes
  <2>7. Same(ChangeOf(j, d), c)
    <3>1. c \in Claims(j) /\ ChangeOf(j, d) \in Claims(j)
      BY <2>6 DEF Claims
    <3> QED BY <1>2, <2>6, <3>1, OneAtDest DEF KeepInv, DataPart
  <2>8. Stable(d) = Restored(j, ChangeOf(j, d))
    BY <2>2, <2>5 DEF Stable
  <2> QED BY <2>7, <2>8, SameRestored
<1>3. ASSUME \A j \in files : \A c \in Changes(disk[j]) : c.dest = d => Committing(j)
      PROVE  Stable(d) = ContentOf(fs[d])
  <2>1. PendingOn(d) = {}
    BY <1>1, <1>3 DEF PendingOn, Base, TypeOK
  <2> QED BY <2>1 DEF Stable
<1> QED BY <1>2, <1>3

LEMMA StableIsNext == (Base /\ KeepInv)' => StableFacts'
BY StableIs, PTL

-----------------------------------------------------------------------------
\* What recovery will leave at the paths stays.
StableStays == \A d \in Dest : Stable(d)' = Stable(d)

LEMMA QuietStable == ASSUME UNCHANGED <<fs, side, files, disk, group>> PROVE StableStays
BY DEF StableStays, Stable, PendingOn, ChangeOf, Restored, Committing

\* Everything is committed, before the step and after it.
LEMMA CommittedStable ==
  ASSUME Base, KeepInv, Base', KeepInv', UNCHANGED fs,
         \A j \in files : Committing(j), \A j \in files' : Committing(j)'
  PROVE  StableStays
<1>1. StableFacts /\ StableFacts'
  BY StableIs, StableIsNext
<1>2. \A d \in Dest : Stable(d) = ContentOf(fs[d])
  BY <1>1 DEF StableFacts
<1>3. \A d \in Dest : Stable(d)' = ContentOf(fs'[d])
  BY <1>1 DEF StableFacts
<1> QED BY <1>2, <1>3 DEF StableStays

\* A step on the paths alone, while nothing is committed.
LEMMA MovedStable ==
  ASSUME Base, KeepInv, Base', KeepInv', UNCHANGED <<files, disk, group>>, Undoable,
         \A j \in Journal : \A c \in Changes(disk[j]) : Restored(j, c)' = Restored(j, c),
         \A d \in Dest : ContentOf(fs'[d]) = ContentOf(fs[d]) \/ \E j \in Journal : Touches(disk[j], d)
  PROVE  StableStays
<1>1. StableFacts /\ StableFacts'
  BY StableIs, StableIsNext
<1>2. \A j \in Journal : ~Committing(j) /\ ~Committing(j)'
  BY DEF Undoable, Committing
<1> SUFFICES ASSUME NEW d \in Dest PROVE Stable(d)' = Stable(d)
  BY DEF StableStays
<1>3. \A j \in Journal : Touches(disk[j], d) <=> \E c \in Changes(disk[j]) : c.dest = d
  BY ChangesTyped DEF Base, TypeOK
<1>4. CASE \E j \in Journal : Touches(disk[j], d)
  <2>1j. PICK j \in Journal : \E c \in Changes(disk[j]) : c.dest = d
    BY <1>3, <1>4
  <2>1. PICK c \in Changes(disk[j]) : c.dest = d
    BY <2>1j
  <2>2. Stable(d) = Restored(j, c)
    BY <1>1, <1>2, <2>1 DEF StableFacts
  <2>3. Stable(d)' = Restored(j, c)'
    BY <1>1, <1>2, <2>1 DEF StableFacts
  <2> QED BY <2>2, <2>3
<1>5. CASE ~\E j \in Journal : Touches(disk[j], d)
  <2>1. \A j \in files : \A c \in Changes(disk[j]) : c.dest # d
    BY <1>3, <1>5 DEF Base, TypeOK
  <2>2. Stable(d) = ContentOf(fs[d])
    BY <1>1, <2>1 DEF StableFacts
  <2>3. Stable(d)' = ContentOf(fs'[d])
    BY <1>1, <2>1 DEF StableFacts
  <2> QED BY <1>5, <2>2, <2>3
<1> QED BY <1>4, <1>5

\* A step on the journals alone, while nothing is committed: what it adds or
\* forgets is a change whose undoing would change nothing.
LEMMA RecordedStable ==
  ASSUME Base, KeepInv, Base', KeepInv', UNCHANGED <<fs, side>>, Undoable, Undoable',
         \A j \in Journal : \A c \in Changes(disk'[j]) :
           (\E e \in Changes(disk[j]) : Same(c, e)) \/ Restored(j, c) = ContentOf(fs[c.dest]),
         \A j \in Journal : \A e \in Changes(disk[j]) :
           (\E c \in Changes(disk'[j]) : Same(c, e)) \/ Restored(j, e) = ContentOf(fs[e.dest])
  PROVE  StableStays
<1>1. StableFacts /\ StableFacts'
  BY StableIs, StableIsNext
<1>2. \A j \in Journal : ~Committing(j) /\ ~Committing(j)'
  BY DEF Undoable, Committing
<1>3. files \subseteq Journal /\ files' \subseteq Journal
  BY DEF Base, TypeOK
<1>4. \A j, c : Restored(j, c)' = Restored(j, c)
  BY DEF Restored
<1> SUFFICES ASSUME NEW d \in Dest PROVE Stable(d)' = Stable(d)
  BY DEF StableStays
<1>5. CASE \E j \in Journal : \E c \in Changes(disk'[j]) : \E e \in Changes(disk[j]) : c.dest = d /\ Same(c, e)
  <2>1j. PICK j \in Journal : \E c \in Changes(disk'[j]) : \E e \in Changes(disk[j]) : c.dest = d /\ Same(c, e)
    BY <1>5
  <2>1c. PICK c \in Changes(disk'[j]) : \E e \in Changes(disk[j]) : c.dest = d /\ Same(c, e)
    BY <2>1j
  <2>1. PICK e \in Changes(disk[j]) : c.dest = d /\ Same(c, e)
    BY <2>1c
  <2>2. Stable(d) = Restored(j, e)
    BY <1>1, <1>2, <2>1 DEF StableFacts, Same
  <2>3. Stable(d)' = Restored(j, c)'
    BY <1>1, <1>2, <2>1 DEF StableFacts
  <2> QED BY <1>4, <2>1, <2>2, <2>3, SameRestored
<1>6. CASE ~\E j \in Journal : \E c \in Changes(disk'[j]) : \E e \in Changes(disk[j]) : c.dest = d /\ Same(c, e)
  <2>1. Stable(d) = ContentOf(fs[d])
    <3>1. ASSUME NEW j \in Journal, NEW e \in Changes(disk[j]), e.dest = d PROVE Restored(j, e) = ContentOf(fs[d])
      <4>1. ~\E c \in Changes(disk'[j]) : Same(c, e)
        BY <1>6, <3>1 DEF Same
      <4> QED BY <3>1, <4>1
    <3>2. CASE \E j \in Journal : \E e \in Changes(disk[j]) : e.dest = d
      <4>1j. PICK j \in Journal : \E e \in Changes(disk[j]) : e.dest = d
        BY <3>2
      <4>1. PICK e \in Changes(disk[j]) : e.dest = d
        BY <4>1j
      <4>2. Stable(d) = Restored(j, e)
        BY <1>1, <1>2, <4>1 DEF StableFacts
      <4> QED BY <3>1, <4>1, <4>2
    <3>3. CASE ~\E j \in Journal : \E e \in Changes(disk[j]) : e.dest = d
      BY <1>1, <1>3, <3>3 DEF StableFacts
    <3> QED BY <3>2, <3>3
  <2>2. Stable(d)' = ContentOf(fs[d])
    <3>1. ASSUME NEW j \in Journal, NEW c \in Changes(disk'[j]), c.dest = d PROVE Restored(j, c) = ContentOf(fs[d])
      <4>1. ~\E e \in Changes(disk[j]) : Same(c, e)
        BY <1>6, <3>1
      <4> QED BY <3>1, <4>1
    <3>2. CASE \E j \in Journal : \E c \in Changes(disk'[j]) : c.dest = d
      <4>1j. PICK j \in Journal : \E c \in Changes(disk'[j]) : c.dest = d
        BY <3>2
      <4>1. PICK c \in Changes(disk'[j]) : c.dest = d
        BY <4>1j
      <4>2. Stable(d)' = Restored(j, c)'
        BY <1>1, <1>2, <4>1 DEF StableFacts
      <4> QED BY <1>4, <3>1, <4>1, <4>2
    <3>3. CASE ~\E j \in Journal : \E c \in Changes(disk'[j]) : c.dest = d
      BY <1>1, <1>3, <3>3 DEF StableFacts
    <3> QED BY <3>2, <3>3
  <2> QED BY <2>1, <2>2
<1> QED BY <1>5, <1>6

-----------------------------------------------------------------------------
\* Steps of InstallTxn.

Installing == pc \in {"run", "swap", "swapped", "commit"}

LEMMA MappedStutter ==
  ASSUME StableStays, \A d \in Dest : ContentOf(fs'[d]) = ContentOf(fs[d]),
         Installing' => Installing
  PROVE  [Txn!Next]_(Txn!vars)
<1>1. UNCHANGED <<[d \in Dest |-> Stable(d)], [d \in Dest |-> Visible(d)]>>
  BY DEF StableStays, Visible
<1>2. CASE Installing' = Installing
  BY <1>1, <1>2 DEF Txn!vars, Installing
<1>3. CASE Installing' # Installing
  BY <1>1, <1>3 DEF Txn!Next, Txn!End, Installing
<1> QED BY <1>2, <1>3

LEMMA MappedChange ==
  ASSUME StableStays, NEW d \in Dest, \A e \in Dest : e # d => fs'[e] = fs[e], Installing, Installing',
         fs'[d] \in Place
  PROVE  [Txn!Next]_(Txn!vars)
<1>1. UNCHANGED [e \in Dest |-> Stable(e)]
  BY DEF StableStays
<1>2. [e \in Dest |-> Visible(e)]' = [[e \in Dest |-> Visible(e)] EXCEPT ![d] = ContentOf(fs'[d])]
  BY DEF Visible
<1>3. ContentOf(fs'[d]) \in Data \cup {NoFile}
  BY DEF ContentOf, Place, Object
<1> QED BY <1>1, <1>2, <1>3 DEF Txn!Next, Txn!Change, Installing

LEMMA MappedRestore ==
  ASSUME StableStays, NEW d \in Dest, \A e \in Dest : e # d => fs'[e] = fs[e], Installing' = Installing,
         ContentOf(fs'[d]) = Stable(d)
  PROVE  [Txn!Next]_(Txn!vars)
<1>1. UNCHANGED [e \in Dest |-> Stable(e)]
  BY DEF StableStays
<1>2. [e \in Dest |-> Visible(e)]' = [[e \in Dest |-> Visible(e)] EXCEPT ![d] = [e \in Dest |-> Stable(e)][d]]
  BY DEF Visible
<1> QED BY <1>1, <1>2 DEF Txn!Next, Txn!Restore, Installing

LEMMA MappedCommit ==
  ASSUME UNCHANGED fs, \A d \in Dest : Stable(d)' = ContentOf(fs[d]), Installing, ~Installing'
  PROVE  [Txn!Next]_(Txn!vars)
<1>1. UNCHANGED [e \in Dest |-> Visible(e)]
  BY DEF Visible
<1>2. [e \in Dest |-> Stable(e)]' = [e \in Dest |-> Visible(e)]
  BY DEF Visible
<1> QED BY <1>1, <1>2 DEF Txn!Next, Txn!Commit, Installing

LEMMA MappedBegin ==
  ASSUME UNCHANGED fs, StableStays, \A d \in Dest : Stable(d) = ContentOf(fs[d]), ~Installing, Installing'
  PROVE  [Txn!Next]_(Txn!vars)
<1>1. UNCHANGED <<[d \in Dest |-> Stable(d)], [d \in Dest |-> Visible(d)]>>
  BY DEF StableStays, Visible
<1>2. [e \in Dest |-> Stable(e)] = [e \in Dest |-> Visible(e)]
  BY DEF Visible
<1> QED BY <1>1, <1>2 DEF Txn!Next, Txn!Begin, Installing

Mapped == [Txn!Next]_(Txn!vars)

\* The durable state stays: the process goes on, or ends.
LEMMA QuietMapped ==
  ASSUME UNCHANGED <<fs, side, files, disk, group>>, Installing' => Installing
  PROVE  Mapped
BY QuietStable, MappedStutter DEF Mapped

LEMMA CommittedMapped ==
  ASSUME Base, KeepInv, Base', KeepInv', UNCHANGED fs, Installing' => Installing,
         \A j \in files : Committing(j), \A j \in files' : Committing(j)'
  PROVE  Mapped
BY CommittedStable, MappedStutter DEF Mapped

LEMMA QuietSteps ==
  ASSUME Base, KeepInv, Start \/ Crash \/ RecoverNext \/ ManagerDone \/ ManagerFails \/ Revert \/ FailNext
           \/ FailDone \/ UndoFault \/ FinishNext \/ FinishDone
  PROVE  Mapped
<1>1. UNCHANGED <<fs, side, files, disk, group>>
  BY DEF Start, Crash, RecoverNext, ManagerDone, ManagerFails, Revert, FailNext, FailDone, UndoFault,
         FinishNext, FinishDone, durable
<1>2. pc' = "run" \/ pc' = "commit" => pc = "run"
  BY DEF Start, Crash, RecoverNext, ManagerDone, ManagerFails, Revert, FailNext, FailDone, UndoFault,
         FinishNext, FinishDone, Exit, Goto, ReturnError
<1>3. pc' # "swap" /\ pc' # "swapped"
  BY DEF Start, Crash, RecoverNext, ManagerDone, ManagerFails, Revert, FailNext, FailDone, UndoFault,
         FinishNext, FinishDone, Exit, Goto, ReturnError
<1> QED BY <1>1, <1>2, <1>3, QuietMapped DEF Installing

-----------------------------------------------------------------------------
\* Recovery, and the commit of all journals.

LEMMA GroupCommits ==
  ASSUME Base, group # {}
  PROVE  \A j \in files : Committing(j)
BY DEF Base, CommitInv, Committing

LEMMA RecoverMemberMapped ==
  ASSUME Base, KeepInv, Base', KeepInv', RecoverMember
  PROVE  Mapped
<1>1. /\ UNCHANGED <<fs, side, group>> /\ pc' \in {"groupLoad", "off"} /\ todo # {}
      /\ pc = "groupLoad"
  BY DEF RecoverMember, Exit
<1>2. group # {}
  BY <1>1 DEF Base, CommitInv, RecoveryPart
<1> QED BY <1>1, <1>2, GroupCommits, CommittedMapped DEF Installing, Committing, Base, CommitInv

LEMMA RecoverGroupMapped ==
  ASSUME Base, KeepInv, Base', KeepInv', RecoverGroupDone
  PROVE  Mapped
<1>1. /\ UNCHANGED <<fs, side, files, disk>> /\ pc' \in {"scan", "off"} /\ todo = {} /\ pc = "groupLoad"
      /\ group' \in {{}, group}
  BY DEF RecoverGroupDone, Exit, Goto
<1>2. CASE group = {}
  BY <1>1, <1>2, QuietMapped DEF Installing
<1>3. CASE group # {}
  <2>1. \A j \in files : disk[j].committed
    BY <1>1, <1>3 DEF Base, CommitInv, RecoveryPart
  <2> QED BY <1>1, <2>1, CommittedMapped DEF Installing, Committing
<1> QED BY <1>2, <1>3

LEMMA RecoverDoneMapped ==
  ASSUME Base, KeepInv, Base', KeepInv', RecoverDone
  PROVE  Mapped
<1>1. UNCHANGED <<fs, files, disk, group>> /\ pc = "scan" /\ files = {} /\ pc' \in {"run", "off"}
  BY DEF RecoverDone, Exit
<1>2. StableStays
  BY <1>1, CommittedStable
<1>3. \A d \in Dest : Stable(d) = ContentOf(fs[d])
  BY <1>1, StableIs DEF StableFacts
<1>4. ~Installing
  BY <1>1 DEF Installing
<1>5. CASE Installing'
  BY <1>1, <1>2, <1>3, <1>4, <1>5, MappedBegin DEF Mapped
<1>6. CASE ~Installing'
  BY <1>1, <1>2, <1>6, MappedStutter DEF Mapped
<1> QED BY <1>5, <1>6

LEMMA WriteGroupMapped ==
  ASSUME Base, KeepInv, Base', KeepInv', WriteGroup
  PROVE  Mapped
<1>1. /\ UNCHANGED <<fs, side, files, disk>> /\ pc = "commit" /\ pc' \in {"mark", "off"}
      /\ group' = group \/ (group' = open /\ open # {})
  BY DEF WriteGroup, Exit
<1>2. Installing /\ ~Installing'
  BY <1>1 DEF Installing
<1>3. CASE group' = group
  BY <1>1, <1>2, <1>3, QuietMapped
<1>4. CASE group' = open /\ open # {}
  <2>1. \A j \in files' : Committing(j)'
    BY <1>1, <1>4 DEF Base, CommitInv, WorkPart, WorkingPcs, Committing
  <2>2. \A d \in Dest : Stable(d)' = ContentOf(fs'[d])
    BY <2>1, StableIsNext DEF StableFacts
  <2> QED BY <1>1, <1>2, <2>2, MappedCommit DEF Mapped
<1> QED BY <1>1, <1>3, <1>4

LEMMA MarkMapped ==
  ASSUME Base, KeepInv, Base', KeepInv', MarkCommitted
  PROVE  Mapped
<1>1. /\ UNCHANGED <<fs, side, group>> /\ pc' \in {"mark", "off"} /\ todo # {} /\ pc = "mark"
  BY DEF MarkCommitted, Exit
<1>2. group # {}
  BY <1>1 DEF Base, CommitInv, MarkPart
<1> QED BY <1>1, <1>2, GroupCommits, CommittedMapped DEF Installing, Committing, Base, CommitInv

LEMMA RemoveGroupMapped ==
  ASSUME Base, KeepInv, Base', KeepInv', RemoveGroup
  PROVE  Mapped
<1>1. /\ UNCHANGED <<fs, side, files, disk>> /\ pc' \in {"finishNext", "off"} /\ todo = {} /\ pc = "mark"
  BY DEF RemoveGroup, Exit
<1>2. \A j \in files : disk[j].committed
  BY <1>1 DEF Base, CommitInv, MarkPart
<1> QED BY <1>1, <1>2, CommittedMapped DEF Installing, Committing

-----------------------------------------------------------------------------
\* A manager at work.

LEMMA UndoableNext ==
  ASSUME Base', KeepInv', pc' \in WorkingPcs \cup FailingPcs \cup {"undo"}
  PROVE  Undoable'
<1>1. \A j \in Journal \ files' : disk'[j] = EmptyState
  BY DEF KeepInv, DataPart, Live
<1>2. group' = {} /\ \A j \in files' : ~disk'[j].committed
  BY DEF Base, CommitInv, WorkPart, NothingCommitted
<1> QED BY <1>1, <1>2 DEF Undoable, EmptyState

\* What a manager knows is on disk.
LEMMA Landed ==
  ASSUME \A j \in Journal : \A c \in Changes(mem'[j]) : \E e \in Changes(disk'[j]) : e.dest = c.dest
  PROVE  UnlandedPart'
BY DEF UnlandedPart

LEMMA RecordedMapped ==
  ASSUME Base, KeepInv, Base', KeepInv', UNCHANGED <<fs, side>>, Installing' => Installing, Undoable, Undoable',
         \A j \in Journal : \A c \in Changes(disk'[j]) :
           (\E e \in Changes(disk[j]) : Same(c, e)) \/ Restored(j, c) = ContentOf(fs[c.dest]),
         \A j \in Journal : \A e \in Changes(disk[j]) :
           (\E c \in Changes(disk'[j]) : Same(c, e)) \/ Restored(j, e) = ContentOf(fs[e.dest])
  PROVE  Mapped
BY RecordedStable, MappedStutter DEF Mapped

LEMMA PrepareMapped ==
  ASSUME Shared = {}, Base, KeepInv, Base', KeepInv', CopyPart, NEW d \in Dest, Stage(d) \/ CopyBackup(d)
  PROVE  Mapped /\ ContentInv'
<1>1. /\ UNCHANGED <<fs, files, disk, group, pc, cur, mem>> /\ pc = "run" /\ MayTouch(d) /\ NonePrepared
      /\ \A j \in Journal, e \in Dest : e # d => side'[<<j, e>>] = side[<<j, e>>]
  BY DEF Stage, CopyBackup, Base, TypeOK
<1>2. Undoable /\ pc \in WorkingPcs
  BY <1>1, AtWork DEF WorkingPcs
<1>3. \A j \in Journal : \A c \in Claims(j) : c.dest # d /\ c.dest \in Dest
  BY <1>1, <1>2, MayTouchFree, Unclaimed, ClaimFacts DEF Base
<1>4. ASSUME NEW j \in Journal, NEW c \in Changes(disk[j])
      PROVE  Restored(j, c)' = Restored(j, c)
  <2>1. c.dest # d /\ c.dest \in Dest
    BY <1>3 DEF Claims
  <2>2. side'[<<j, c.dest>>] = side[<<j, c.dest>>] /\ fs'[c.dest] = fs[c.dest]
    BY <1>1, <2>1
  <2> QED BY <2>2 DEF Restored
<1>5. Mapped
  <2>1. StableStays
    BY <1>1, <1>2, <1>4, MovedStable
  <2> QED BY <1>1, <2>1, MappedStutter DEF Mapped, Installing
<1>6. CopyPart'
  <2> SUFFICES ASSUME cur \in Recorders, NEW e \in Dest, Prepared(e)'
               PROVE  ContentOf(side'[<<cur, e>>]) = ContentOf(fs'[e])
    BY <1>1 DEF CopyPart
  <2>1. cur \in Journal
    BY DEF Base, TypeOK
  <2>2. e = d
    <3>1. e # d => Prepared(e)
      BY <1>1, <2>1 DEF Prepared
    <3> QED BY <1>1, <3>1 DEF NonePrepared
  <2>3. CopyBackup(d)
    BY DEF Stage
  <2>4. PICK o \in NewObject : o.data = fs[d].data /\ side' = [side EXCEPT ![<<cur, d>>] = o]
    BY <2>3 DEF CopyBackup
  <2>5. side'[<<cur, d>>] = o /\ o # NoFile /\ fs[d] # NoFile
    BY <2>1, <2>3, <2>4, NoFileIsNoObject DEF NewObject, Object, CopyBackup, Base, TypeOK
  <2> QED BY <1>1, <2>2, <2>4, <2>5 DEF ContentOf
<1>7. UnlandedPart'
  BY <1>1 DEF UnlandedPart, FailingPcs
<1> QED BY <1>5, <1>6, <1>7 DEF ContentInv

LEMMA IntentMapped ==
  ASSUME Base, KeepInv, Base', KeepInv', NEW d \in Dest, ActivateIntent(d)
  PROVE  Mapped /\ ContentInv'
<1>0. PICK x : x = Intent(d)
  OBVIOUS
<1> DEFINE s == WithChange(mem[cur], x)
<1>1. /\ UNCHANGED <<fs, side, group>> /\ pc = "run" /\ cur \notin Recorders /\ Prepared(d)
      /\ open' = open \cup {cur} /\ pc' \in {"swap", "failed", "callFailed", "untracked"}
      /\ cur' = cur /\ MayPersist(cur, s)
      /\ UNCHANGED mem \/ (Remember(cur, s) /\ Persist(cur, s))
  BY <1>0 DEF ActivateIntent, Ready, Goto, ActivateFails, MayPersist
<1>2. cur \in Journal /\ mem[cur] \in JournalState /\ side[<<cur, d>>] # NoFile
  BY <1>1 DEF Base, TypeOK, Prepared
<1>3. x \in Change /\ x.dest = d /\ Waiting(x, fs[d], side[<<cur, d>>])
  BY <1>0, <1>2, IntentSound DEF Base, KeepInv, DataPart
<1>4. /\ \A j \in Journal : j # cur => mem'[j] = mem[j] /\ disk'[j] = disk[j]
      /\ mem'[cur] = mem[cur] \/ (mem'[cur] = s /\ disk'[cur] = s)
      /\ disk'[cur] = disk[cur] \/ disk'[cur] = s
      /\ Changes(s) = Changes(mem[cur]) \cup {x}
  <2>1. mem' = mem \/ Remember(cur, s)
    BY <1>1
  <2>2. /\ \A j \in Journal : j # cur => mem'[j] = mem[j] /\ disk'[j] = disk[j]
        /\ disk'[cur] = disk[cur] \/ disk'[cur] = s
        /\ Changes(s) = Changes(mem[cur]) \cup {x}
    BY <1>1, <1>2, <1>3, <2>1, AddedClaim DEF Base, KeepInv
  <2>3. mem'[cur] = mem[cur] \/ (mem'[cur] = s /\ disk'[cur] = s)
    BY <1>1, <1>2 DEF Remember, Persist, Base, TypeOK
  <2> QED BY <2>2, <2>3
<1> HIDE DEF s
<1>5. disk = mem /\ Undoable
  BY <1>1, AtWork DEF WorkingPcs
<1>6. Undoable'
  BY <1>1, UndoableNext DEF WorkingPcs, FailingPcs
<1>7. Restored(cur, x) = ContentOf(fs[x.dest])
  <2>1. Back(x)
    BY <1>3 DEF Waiting, Back
  <2> QED BY <2>1, BackRestored
<1>8. Installing' => Installing
  BY <1>1 DEF Installing
<1>9. ASSUME NEW j \in Journal
      PROVE  /\ \A c \in Changes(disk'[j]) : c \in Changes(disk[j]) \/ (j = cur /\ c = x)
             /\ Changes(disk[j]) \subseteq Changes(disk'[j]) /\ Changes(mem'[j]) \subseteq Changes(disk'[j])
  BY <1>4, <1>5
<1>10. Mapped
  BY <1>1, <1>5, <1>6, <1>7, <1>8, <1>9, SameItself, RecordedMapped
<1>11. UnlandedPart'
  BY <1>9, Landed
<1>12. CopyPart'
  BY <1>1 DEF CopyPart
<1> QED BY <1>10, <1>11, <1>12 DEF ContentInv

LEMMA RecordMapped ==
  ASSUME Base, KeepInv, Base', KeepInv', CopyPart, NEW d \in Dest, Record(d)
  PROVE  Mapped /\ ContentInv'
<1>0. PICK x : x = Recorded(d)
  OBVIOUS
<1> DEFINE s == WithChange(mem[cur], x)
<1>1. /\ UNCHANGED <<fs, side, group>> /\ pc = "run" /\ cur \in Recorders
      /\ Prepared(d) \/ (NonePrepared /\ MayTouch(d) /\ fs[d] = NoFile)
      /\ open' = open \cup {cur} /\ Remember(cur, s) /\ MayPersist(cur, s)
      /\ pc' \in {"run", "failed"} /\ cur' = cur
      /\ pc' = "run" => Persist(cur, s)
  BY <1>0 DEF Record, Ready, MayPersist, Goto
<1>2. cur \in Journal /\ mem[cur] \in JournalState /\ (side[<<cur, d>>] # NoFile <=> fs[d] # NoFile)
  BY <1>1, CopyThere DEF Base, TypeOK
<1>3. x \in Change /\ x.dest = d /\ x.existed = (fs[d] # NoFile)
  BY <1>0, <1>2, RecordedSound DEF Base, Recorded
<1>4. /\ \A j \in Journal : j # cur => mem'[j] = mem[j] /\ disk'[j] = disk[j]
      /\ mem'[cur] = s
      /\ disk'[cur] = disk[cur] \/ disk'[cur] = s
      /\ Changes(s) = Changes(mem[cur]) \cup {x}
  <2>1. mem'[cur] = s
    BY <1>1, <1>2 DEF Remember, Base, TypeOK
  <2>2. /\ \A j \in Journal : j # cur => mem'[j] = mem[j] /\ disk'[j] = disk[j]
        /\ disk'[cur] = disk[cur] \/ disk'[cur] = s
        /\ Changes(s) = Changes(mem[cur]) \cup {x}
    BY <1>1, <1>2, <1>3, AddedClaim DEF Base, KeepInv
  <2> QED BY <2>1, <2>2
<1> HIDE DEF s
<1>5. disk = mem /\ Undoable
  BY <1>1, AtWork DEF WorkingPcs
<1>6. Undoable'
  BY <1>1, UndoableNext DEF WorkingPcs, FailingPcs
<1>7. Restored(cur, x) = ContentOf(fs[x.dest])
  <2>1. CASE x.existed
    BY <1>1, <1>3, <2>1 DEF CopyPart, Restored
  <2>2. CASE ~x.existed
    BY <1>3, <2>2 DEF Restored, ContentOf
  <2> QED BY <2>1, <2>2
<1>8. Installing' => Installing
  BY <1>1 DEF Installing
<1>9. ASSUME NEW j \in Journal
      PROVE  /\ \A c \in Changes(disk'[j]) : c \in Changes(disk[j]) \/ (j = cur /\ c = x)
             /\ Changes(disk[j]) \subseteq Changes(disk'[j])
             /\ \A c \in Changes(mem'[j]) : c \in Changes(disk[j]) \/ (j = cur /\ c = x)
  BY <1>4, <1>5
<1>10. Mapped
  BY <1>1, <1>5, <1>6, <1>7, <1>8, <1>9, SameItself, RecordedMapped
<1>11. UnlandedPart'
  <2> SUFFICES ASSUME NEW j \in Journal, NEW c \in Changes(mem'[j])
               PROVE  (\E e \in Changes(disk'[j]) : e.dest = c.dest) \/ Restored(j, c)' = ContentOf(fs'[c.dest])
    BY DEF UnlandedPart
  <2>1. CASE c \in Changes(disk[j])
    BY <1>9, <2>1
  <2>2. CASE j = cur /\ c = x
    <3>1. Restored(j, c)' = Restored(j, c)
      BY <1>1 DEF Restored
    <3> QED BY <1>1, <1>7, <2>2, <3>1
  <2> QED BY <1>9, <2>1, <2>2
<1>12. CopyPart'
  <2> SUFFICES ASSUME pc' = "run", NEW e \in Dest, Prepared(e)'
               PROVE  ContentOf(side'[<<cur', e>>]) = ContentOf(fs'[e])
    BY DEF CopyPart
  <2>1. ~Touches(mem[cur], e)
    <3>1. mem[cur] \in JournalState /\ mem'[cur] \in JournalState
      BY <1>2 DEF Base, TypeOK
    <3>2. ~Touches(mem'[cur], e)
      BY <1>1 DEF Prepared
    <3> QED BY <1>4, <3>1, <3>2, ChangesTyped
  <2>2. Prepared(e)
    BY <1>1, <2>1 DEF Prepared
  <2> QED BY <1>1, <2>2 DEF CopyPart
<1> QED BY <1>10, <1>11, <1>12 DEF ContentInv

LEMMA AddCleanupMapped ==
  ASSUME Base, KeepInv, Base', KeepInv', AddCleanup
  PROVE  Mapped /\ ContentInv'
<1>0. PICK s : s = [mem[cur] EXCEPT !.cleanup = TRUE]
  OBVIOUS
<1>1. /\ UNCHANGED <<fs, side, group, cur>> /\ pc = "run" /\ cur \notin Recorders
      /\ pc' \in {"run", "failed", "callFailed", "untracked"}
      /\ Remember(cur, s) /\ MayPersist(cur, s)
  BY <1>0 DEF AddCleanup, Goto, MayPersist
<1>2. cur \in Journal /\ mem[cur] \in JournalState
  BY DEF Base, TypeOK
<1>3. Changes(s) = Changes(mem[cur])
  BY <1>0, <1>2, FlagChanges
<1>4. disk = mem /\ Undoable
  BY <1>1, AtWork DEF WorkingPcs
<1>5. ASSUME NEW j \in Journal
      PROVE  Changes(disk'[j]) = Changes(disk[j]) /\ Changes(mem'[j]) = Changes(disk[j])
  BY <1>1, <1>2, <1>3, <1>4 DEF Remember, MayPersist, Persist, Base, TypeOK
<1>6. Undoable'
  BY <1>1, UndoableNext DEF WorkingPcs, FailingPcs
<1>7. Installing' => Installing
  BY <1>1 DEF Installing
<1>8. Mapped
  BY <1>1, <1>4, <1>5, <1>6, <1>7, SameItself, RecordedMapped
<1>9. UnlandedPart'
  BY <1>5, Landed
<1>10. CopyPart'
  BY <1>1 DEF CopyPart
<1> QED BY <1>8, <1>9, <1>10 DEF ContentInv

LEMMA EndMapped ==
  ASSUME Base, KeepInv, Base', KeepInv', ActivateEnd
  PROVE  Mapped /\ ContentInv'
<1>0. PICK s : s = Completed(mem[cur])
  OBVIOUS
<1>1. /\ UNCHANGED <<fs, side, group, cur>> /\ pc = "swapped"
      /\ pc' \in {"run", "back"}
      /\ UNCHANGED mem \/ Remember(cur, s)
      /\ MayPersist(cur, s)
  BY <1>0 DEF ActivateEnd, Goto, MayPersist
<1>2. cur \in Journal /\ mem[cur] \in JournalState /\ mem[cur].changes # <<>>
  BY <1>1 DEF Base, TypeOK, InFlight, Activating
<1>3. /\ \A c \in Changes(s) : \E e \in Changes(mem[cur]) : Same(c, e)
      /\ \A e \in Changes(mem[cur]) : \E c \in Changes(s) : Same(c, e)
  BY <1>0, <1>2, CompletedChanges
<1>4. disk = mem /\ Undoable
  BY <1>1, AtWork DEF WorkingPcs
<1>5. ASSUME NEW j \in Journal
      PROVE  /\ disk'[j] = disk[j] \/ (j = cur /\ disk'[j] = s)
             /\ mem'[j] = disk[j] \/ (j = cur /\ mem'[j] = s)
  BY <1>1, <1>2, <1>4 DEF Remember, MayPersist, Persist, Base, TypeOK
<1>6. ASSUME NEW j \in Journal
      PROVE  /\ \A c \in Changes(disk'[j]) : \E e \in Changes(disk[j]) : Same(c, e)
             /\ \A e \in Changes(disk[j]) : \E c \in Changes(disk'[j]) : Same(c, e)
             /\ \A c \in Changes(mem'[j]) : \E e \in Changes(disk[j]) : Same(c, e)
  BY <1>3, <1>4, <1>5, SameItself
<1>7. Undoable'
  BY <1>1, UndoableNext DEF WorkingPcs, FailingPcs
<1>8. Installing' => Installing
  BY <1>1 DEF Installing
<1>9. Mapped
  BY <1>1, <1>4, <1>6, <1>7, <1>8, RecordedMapped
<1>10. UnlandedPart'
  <2>1. ASSUME NEW j \in Journal, NEW c \in Changes(mem'[j])
        PROVE  \E e \in Changes(disk'[j]) : e.dest = c.dest
    <3>1. PICK e \in Changes(disk[j]) : Same(c, e)
      BY <1>6
    <3>2. PICK f \in Changes(disk'[j]) : Same(f, e)
      BY <1>6
    <3> QED BY <3>1, <3>2 DEF Same
  <2> QED BY <2>1, Landed
<1>11. CopyPart'
  <2>1. cur \notin Recorders
    <3>1. InHand.activated /\ InHand \in Claims(cur)
      BY <1>1, <1>2, LastInHand DEF KeepInv, PcPart, SwapPart, InHand, Base
    <3> QED BY <1>2, <3>1 DEF KeepInv, DataPart, Owned
  <2> QED BY <1>1, <2>1 DEF CopyPart
<1> QED BY <1>9, <1>10, <1>11 DEF ContentInv

LEMMA SwapMapped ==
  ASSUME Base, KeepInv, Base', KeepInv', ActivateSwap
  PROVE  Mapped /\ ContentInv'
<1>0. PICK c : c = InHand
  OBVIOUS
<1>1. UNCHANGED <<files, disk, group, open, mem, cur>> /\ pc = "swap" /\ pc' \in {"swapped", "failed", "callFailed", "untracked"}
  BY DEF ActivateSwap, Goto, ActivateFails
<1>2. cur \in Journal /\ mem[cur].changes # <<>>
  BY <1>1 DEF Base, TypeOK, InFlight, Activating
<1>3. c \in Changes(mem[cur]) /\ c \in Claims(cur) /\ c.dest \in Dest
  BY <1>0, <1>2, LastInHand DEF InHand, Base
<1>4. disk = mem /\ Undoable
  BY <1>1, AtWork DEF WorkingPcs
<1>5. /\ c.activated /\ Waiting(c, fs[c.dest], side[<<cur, c.dest>>])
      /\ Good(c, fs[c.dest], side[<<cur, c.dest>>])
      /\ fs[c.dest] \in Place /\ side[<<cur, c.dest>>] \in Place
  BY <1>0, <1>1, <1>2, <1>3, <1>4, ClaimFacts DEF KeepInv, PcPart, SwapPart, DataPart, Kept, Sound, Base
<1>6. CopyPart'
  BY <1>1 DEF CopyPart
<1>7. UnlandedPart'
  BY <1>1, <1>4, Landed
<1>8. CASE UNCHANGED <<fs, side>>
  <2>1. Installing' => Installing
    BY <1>1 DEF Installing
  <2>2. Mapped
    BY <1>1, <1>8, <2>1, QuietMapped
  <2> QED BY <1>6, <1>7, <2>2 DEF ContentInv
<1>9. CASE Exchange(cur, c.dest) /\ pc' = "swapped"
  <2>1. /\ fs'[c.dest] = side[<<cur, c.dest>>] /\ \A e \in Dest : e # c.dest => fs'[e] = fs[e]
        /\ side'[<<cur, c.dest>>] = fs[c.dest]
        /\ \A k \in Journal, e \in Dest : k # cur \/ e # c.dest => side'[<<k, e>>] = side[<<k, e>>]
    BY <1>2, <1>3, <1>9, ExchangeMoves DEF Base
  <2>2. Restored(cur, c)' = Restored(cur, c)
    BY <1>1, <1>5, <2>1, BackRestored DEF Restored, Waiting, OriginalBack, Good, Back
  <2>3. ASSUME NEW j \in Journal, NEW e \in Changes(disk[j]) PROVE Restored(j, e)' = Restored(j, e)
    <3>1. e \in Claims(j) /\ e.dest \in Dest
      BY ClaimFacts DEF Claims, Base
    <3>2. CASE e.dest = c.dest
      <4>1. j = cur /\ Same(e, c)
        BY <1>2, <1>3, <3>1, <3>2, OneAtDest DEF KeepInv, DataPart
      <4>2. Restored(j, e) = Restored(j, c)
        BY <4>1, SameRestored
      <4>3. Restored(j, e)' = Restored(j, c)'
        BY <4>1 DEF Same, Restored
      <4> QED BY <1>1, <2>2, <4>1, <4>2, <4>3
    <3>3. CASE e.dest # c.dest
      BY <2>1, <3>1, <3>3 DEF Restored
    <3> QED BY <3>2, <3>3
  <2>4. \A d \in Dest : d # c.dest => ContentOf(fs'[d]) = ContentOf(fs[d])
    BY <2>1
  <2>5. Touches(disk[cur], c.dest)
    BY <1>2, <1>3, <1>4, ChangesTyped DEF Base, TypeOK
  <2>6. StableStays
    BY <1>1, <1>2, <1>4, <2>3, <2>4, <2>5, MovedStable
  <2>7. Installing /\ Installing'
    BY <1>1, <1>9 DEF Installing
  <2>8. Mapped
    BY <1>3, <1>5, <2>1, <2>6, <2>7, MappedChange DEF Mapped
  <2> QED BY <1>6, <1>7, <2>8 DEF ContentInv
<1> QED BY <1>0, <1>8, <1>9 DEF ActivateSwap, InHand, Goto

LEMMA MutateMapped ==
  ASSUME Base, KeepInv, Base', KeepInv', CopyPart, NEW d \in Dest, Mutate(d)
  PROVE  Mapped /\ ContentInv'
<1>1. /\ UNCHANGED <<side, files, disk, group, cur, mem, pc>> /\ pc = "run" /\ cur \in Recorders
      /\ Touches(mem[cur], d) /\ \A e \in Dest : e # d => fs'[e] = fs[e]
  BY DEF Mutate, Base, TypeOK
<1>2. cur \in Journal /\ mem[cur] \in JournalState /\ fs[d] \in Place /\ fs'[d] \in Place
      /\ side[<<cur, d>>] \in Place
  BY DEF Base, TypeOK
<1>3. disk = mem /\ Undoable /\ Undoable'
  BY <1>1, AtWork DEF WorkingPcs, Undoable
<1>4. PICK c \in Changes(mem[cur]) : c.dest = d
  BY <1>1, <1>2, ChangesTyped
<1>5. c \in Claims(cur) /\ ~c.activated /\ (c.existed => IdentityOf(side[<<cur, d>>]) = c.keepID)
  <2>1. c \in Claims(cur) /\ ~c.activated
    BY <1>1, <1>2, <1>4 DEF Claims, KeepInv, DataPart, Owned
  <2> QED BY <1>1, <1>2, <1>4, <2>1 DEF KeepInv, PcPart, RunPart, WorkingPcs
<1>6. c.existed => c.keepID # NoIno
  BY <1>2, <1>3, <1>5 DEF KeepInv, DataPart, Kept, Sound, Good
<1>7. c.existed => IdentityOf(fs[d]) # c.keepID /\ IdentityOf(fs'[d]) # c.keepID
  <2> SUFFICES ASSUME c.existed PROVE IdentityOf(fs[d]) # c.keepID /\ IdentityOf(fs'[d]) # c.keepID
    OBVIOUS
  <2>1. side[<<cur, d>>] # NoFile /\ side[<<cur, d>>].ino = c.keepID
    BY <1>2, <1>5, <1>6, PlaceFacts
  <2>2. fs[d] # NoFile => fs[d].ino # side[<<cur, d>>].ino
    BY <1>2, <2>1 DEF KeepInv, DataPart, Unique
  <2>3. fs'[d] # NoFile => fs'[d].ino # side'[<<cur, d>>].ino
    BY <1>1, <1>2, <2>1 DEF KeepInv, DataPart, Unique
  <2> QED BY <1>1, <1>6, <2>1, <2>2, <2>3 DEF IdentityOf
<1>8. Restored(cur, c)' = Restored(cur, c)
  BY <1>1, <1>4, <1>7 DEF Restored
<1>9. ASSUME NEW j \in Journal, NEW e \in Changes(disk[j]) PROVE Restored(j, e)' = Restored(j, e)
  <2>1. e \in Claims(j) /\ e.dest \in Dest
    BY ClaimFacts DEF Claims, Base
  <2>2. CASE e.dest = d
    <3>1. j = cur /\ Same(e, c)
      BY <1>2, <1>4, <1>5, <2>1, <2>2, OneAtDest DEF KeepInv, DataPart
    <3>2. Restored(j, e) = Restored(j, c)
      BY <3>1, SameRestored
    <3>3. Restored(j, e)' = Restored(j, c)'
      BY <3>1 DEF Same, Restored
    <3> QED BY <1>1, <1>8, <3>1, <3>2, <3>3
  <2>3. CASE e.dest # d
    BY <1>1, <2>1, <2>3 DEF Restored
  <2> QED BY <2>2, <2>3
<1>10. StableStays
  BY <1>1, <1>2, <1>3, <1>9, MovedStable
<1>11. Installing /\ Installing'
  BY <1>1 DEF Installing
<1>12. Mapped
  BY <1>1, <1>2, <1>10, <1>11, MappedChange DEF Mapped
<1>13. CopyPart'
  BY <1>1 DEF CopyPart, Prepared
<1>14. UnlandedPart'
  BY <1>1, <1>3, Landed
<1> QED BY <1>12, <1>13, <1>14 DEF ContentInv

-----------------------------------------------------------------------------
\* A failing install, and rollback.

\* The change in hand is undone, or what is left of it removed.
LEMMA MoveMapped ==
  ASSUME Base, KeepInv, Base', KeepInv', UnlandedPart, UNCHANGED <<files, disk, group, mem, cur>>,
         pc \in FailingPcs \cup {"undo"}, pc' \in FailingPcs \cup {"undo"},
         NEW c \in Changes(mem[cur]),
         \A d \in Dest : d # c.dest => fs'[d] = fs[d],
         \A j \in Journal, d \in Dest : j # cur \/ d # c.dest => side'[<<j, d>>] = side[<<j, d>>],
         Back(c)', Restored(cur, c)' = Restored(cur, c)
  PROVE  Mapped /\ ContentInv'
<1>1. cur \in Journal /\ c \in Claims(cur) /\ c.dest \in Dest /\ Undoable
  BY StillUndoable, ClaimFacts DEF Base, TypeOK, Claims, KeepInv, DataPart
<1>2. Restored(cur, c)' = ContentOf(fs'[c.dest])
  BY DEF Back, OriginalBack, Restored, ContentOf
<1>3. ASSUME NEW j \in Journal, NEW e \in Claims(j)
      PROVE  /\ Restored(j, e)' = Restored(j, e)
             /\ e.dest = c.dest => Restored(j, e)' = ContentOf(fs'[e.dest])
  <2>1. e.dest \in Dest
    BY ClaimFacts DEF Base
  <2>2. CASE e.dest = c.dest
    <3>1. j = cur /\ Same(e, c)
      BY <1>1, <2>2, OneAtDest DEF KeepInv, DataPart
    <3>2. Restored(j, e) = Restored(j, c)
      BY <3>1, SameRestored
    <3>3. Restored(j, e)' = Restored(j, c)'
      BY <3>1 DEF Same, Restored
    <3> QED BY <1>2, <2>2, <3>1, <3>2, <3>3
  <2>3. CASE e.dest # c.dest
    BY <2>1, <2>3 DEF Restored
  <2> QED BY <2>2, <2>3
<1>4. UnlandedPart'
  <2> SUFFICES ASSUME NEW j \in Journal, NEW e \in Changes(mem[j])
               PROVE  (\E f \in Changes(disk'[j]) : f.dest = e.dest) \/ Restored(j, e)' = ContentOf(fs'[e.dest])
    BY DEF UnlandedPart
  <2>1. e \in Claims(j) /\ e.dest \in Dest
    BY ClaimFacts DEF Claims, Base
  <2>2. (\E f \in Changes(disk[j]) : f.dest = e.dest) \/ Restored(j, e) = ContentOf(fs[e.dest])
    BY DEF UnlandedPart
  <2> QED BY <1>3, <2>1, <2>2
<1>5. \A j \in Journal : \A e \in Changes(disk[j]) : Restored(j, e)' = Restored(j, e)
  BY <1>3 DEF Claims
<1>6. ContentOf(fs'[c.dest]) = ContentOf(fs[c.dest]) \/ \E e \in Changes(disk[cur]) : e.dest = c.dest
  BY <1>1, <1>2 DEF UnlandedPart
<1>7. \A j \in Journal, d \in Dest : Touches(disk[j], d) <=> \E e \in Changes(disk[j]) : e.dest = d
  BY ChangesTyped DEF Base, TypeOK
<1>8. \A d \in Dest : ContentOf(fs'[d]) = ContentOf(fs[d]) \/ \E j \in Journal : Touches(disk[j], d)
  BY <1>1, <1>6, <1>7
<1>9. StableStays
  BY <1>1, <1>5, <1>8, MovedStable
<1>10. ~Installing /\ Installing' = Installing
  BY DEF Installing, FailingPcs
<1>11. CASE ContentOf(fs'[c.dest]) = ContentOf(fs[c.dest])
  <2>1. \A d \in Dest : ContentOf(fs'[d]) = ContentOf(fs[d])
    BY <1>11
  <2>2. Mapped
    BY <1>9, <1>10, <2>1, MappedStutter DEF Mapped
  <2>3. CopyPart'
    BY DEF CopyPart, FailingPcs
  <2> QED BY <1>4, <2>2, <2>3 DEF ContentInv
<1>12. CASE \E e \in Changes(disk[cur]) : e.dest = c.dest
  <2>1. PICK e \in Changes(disk[cur]) : e.dest = c.dest
    BY <1>12
  <2>2. Restored(cur, e) = ContentOf(fs'[c.dest])
    BY <1>1, <1>3, <2>1 DEF Claims
  <2>3. ~Committing(cur)
    BY <1>1 DEF Undoable, Committing
  <2>4. Stable(c.dest) = ContentOf(fs'[c.dest])
    BY <1>1, <2>1, <2>2, <2>3, StableIs DEF StableFacts
  <2>5. Mapped
    BY <1>1, <1>9, <1>10, <2>4, MappedRestore DEF Mapped
  <2>6. CopyPart'
    BY DEF CopyPart, FailingPcs
  <2> QED BY <1>4, <2>5, <2>6 DEF ContentInv
<1> QED BY <1>6, <1>11, <1>12

LEMMA BackMapped ==
  ASSUME Base, KeepInv, Base', KeepInv', UnlandedPart, ActivateBack
  PROVE  Mapped /\ ContentInv'
<1>0. PICK c : c = InHand
  OBVIOUS
<1>1. /\ UNCHANGED <<files, disk, group, open, mem, cur>> /\ pc = "back"
      /\ pc' \in {"backDrop", "failed", "callFailed", "untracked"}
  BY DEF ActivateBack, Goto, ActivateFails
<1>2. cur \in Journal /\ mem[cur].changes # <<>>
  BY <1>1 DEF Base, TypeOK, InFlight, Activating
<1>3. c \in Changes(mem[cur]) /\ c \in Claims(cur) /\ c.dest \in Dest
  BY <1>0, <1>2, LastInHand DEF InHand, Base
<1>4. Undoable
  BY <1>1, StillUndoable DEF KeepInv, DataPart, FailingPcs
<1>5. /\ c.activated /\ Swapped(c, fs[c.dest], side[<<cur, c.dest>>])
      /\ Good(c, fs[c.dest], side[<<cur, c.dest>>])
      /\ fs[c.dest] \in Place /\ side[<<cur, c.dest>>] \in Place
  BY <1>0, <1>1, <1>2, <1>3, <1>4, ClaimFacts DEF KeepInv, PcPart, SwapPart, DataPart, Kept, Sound, Base
<1>6. CASE UNCHANGED <<fs, side>>
  <2>1. Installing' => Installing
    BY <1>1 DEF Installing
  <2>2. Mapped
    BY <1>1, <1>6, <2>1, QuietMapped
  <2>3. CopyPart'
    BY <1>1 DEF CopyPart
  <2>4. UnlandedPart'
    BY <1>1, <1>6 DEF UnlandedPart, FailingPcs, Restored
  <2> QED BY <2>2, <2>3, <2>4 DEF ContentInv
<1>7. CASE c.existed /\ Exchange(cur, c.dest)
  <2>1. /\ fs'[c.dest] = side[<<cur, c.dest>>] /\ \A e \in Dest : e # c.dest => fs'[e] = fs[e]
        /\ side'[<<cur, c.dest>>] = fs[c.dest]
        /\ \A k \in Journal, e \in Dest : k # cur \/ e # c.dest => side'[<<k, e>>] = side[<<k, e>>]
    BY <1>2, <1>3, <1>7, ExchangeMoves DEF Base
  <2>2. Back(c)'
    BY <1>5, <1>7, <2>1 DEF Back, OriginalBack, Swapped
  <2>3. Restored(cur, c)' = Restored(cur, c)
    BY <1>1, <1>5, <1>7, <2>1 DEF Restored, Swapped, Good
  <2> QED BY <1>1, <1>3, <2>1, <2>2, <2>3, MoveMapped DEF FailingPcs
<1>8. CASE ~c.existed /\ fs' = [fs EXCEPT ![c.dest] = NoFile] /\ UNCHANGED side
  <2>1. fs'[c.dest] = NoFile /\ \A e \in Dest : e # c.dest => fs'[e] = fs[e]
    BY <1>3, <1>8 DEF Base, TypeOK
  <2>2. Back(c)'
    BY <1>8, <2>1 DEF Back, OriginalBack
  <2>3. Restored(cur, c)' = Restored(cur, c)
    BY <1>8 DEF Restored
  <2> QED BY <1>1, <1>3, <1>8, <2>1, <2>2, <2>3, MoveMapped DEF FailingPcs
<1> QED BY <1>0, <1>6, <1>7, <1>8 DEF ActivateBack, InHand

LEMMA BackDropMapped ==
  ASSUME Base, KeepInv, Base', KeepInv', UnlandedPart, ActivateBackDrop
  PROVE  Mapped /\ ContentInv'
<1>0. PICK c : c = InHand
  OBVIOUS
<1>1. /\ UNCHANGED <<fs, files, disk, group, open, mem, cur>> /\ pc = "backDrop"
      /\ pc' \in {"failed", "callFailed", "untracked"}
      /\ side' = [side EXCEPT ![<<cur, c.dest>>] = NoFile] \/ UNCHANGED side
  BY <1>0 DEF ActivateBackDrop, Goto, ActivateFails, InHand
<1>2. cur \in Journal /\ mem[cur].changes # <<>>
  BY <1>1 DEF Base, TypeOK, InFlight, Activating
<1>3. c \in Changes(mem[cur]) /\ c.dest \in Dest
  BY <1>0, <1>2, LastInHand DEF InHand, Base
<1>4. Back(c)
  BY <1>0, <1>1 DEF KeepInv, PcPart, SwapPart
<1>5. Restored(cur, c)' = Restored(cur, c) /\ Back(c)'
  BY <1>1, <1>4 DEF Restored, Back, OriginalBack
<1>6. \A j \in Journal, d \in Dest : j # cur \/ d # c.dest => side'[<<j, d>>] = side[<<j, d>>]
  BY <1>1, <1>2, <1>3 DEF Base, TypeOK
<1> QED BY <1>1, <1>3, <1>5, <1>6, MoveMapped DEF FailingPcs

LEMMA UndoMapped ==
  ASSUME Base, KeepInv, Base', KeepInv', UnlandedPart, UndoSwap \/ UndoDropDest \/ UndoDropAlt
  PROVE  Mapped /\ ContentInv'
<1>1. Undoing /\ pc = "undo" /\ UNCHANGED <<files, disk, group, pc, cur, todo, ret, open, mem, faults>>
  BY DEF UndoSwap, UndoDropDest, UndoDropAlt, Undoing
<1>2. PICK c : c = Subject
  OBVIOUS
<1>3. /\ c \in Claims(cur) /\ c.dest \in Dest /\ cur \in Journal
      /\ fs[c.dest] \in Place /\ side[<<cur, c.dest>>] \in Place
      /\ Good(c, fs[c.dest], side[<<cur, c.dest>>])
  BY <1>1, <1>2, SubjectSound DEF AtDest, AtSide
<1>4. c \in Changes(mem[cur])
  BY <1>1, <1>2, LastInHand DEF Undoing, Subject, Base
<1>5. CASE UndoSwap
  <2>1. Exchange(cur, c.dest) /\ NeedsSwap(c, fs[c.dest], side[<<cur, c.dest>>])
    BY <1>2, <1>5 DEF UndoSwap, AtDest, AtSide
  <2>2. /\ fs'[c.dest] = side[<<cur, c.dest>>] /\ \A e \in Dest : e # c.dest => fs'[e] = fs[e]
        /\ side'[<<cur, c.dest>>] = fs[c.dest]
        /\ \A k \in Journal, e \in Dest : k # cur \/ e # c.dest => side'[<<k, e>>] = side[<<k, e>>]
    BY <1>3, <2>1, ExchangeMoves DEF Base
  <2>3. Back(c)' /\ Restored(cur, c)' = Restored(cur, c)
    BY <1>1, <2>1, <2>2 DEF Back, OriginalBack, NeedsSwap, Restored
  <2> QED BY <1>1, <1>4, <2>2, <2>3, MoveMapped
<1>6. CASE UndoDropDest
  <2>1. fs' = [fs EXCEPT ![c.dest] = NoFile] /\ UNCHANGED side /\ ~c.existed
    BY <1>2, <1>6 DEF UndoDropDest, NeedsDropDest
  <2>2. fs'[c.dest] = NoFile /\ \A e \in Dest : e # c.dest => fs'[e] = fs[e]
    BY <1>3, <2>1 DEF Base, TypeOK
  <2>3. Back(c)' /\ Restored(cur, c)' = Restored(cur, c)
    BY <2>1, <2>2 DEF Back, OriginalBack, Restored
  <2> QED BY <1>1, <1>4, <2>1, <2>2, <2>3, MoveMapped
<1>7. CASE UndoDropAlt
  <2>1. /\ side' = [side EXCEPT ![<<cur, c.dest>>] = NoFile] /\ UNCHANGED fs
        /\ OriginalBack(c, fs[c.dest])
    BY <1>2, <1>7 DEF UndoDropAlt, NeedsDropAlt, AtDest
  <2>2. \A j \in Journal, e \in Dest : j # cur \/ e # c.dest => side'[<<j, e>>] = side[<<j, e>>]
    BY <1>3, <2>1 DEF Base, TypeOK
  <2>3. Back(c)' /\ Restored(cur, c)' = Restored(cur, c)
    BY <2>1 DEF Back, OriginalBack, Restored
  <2> QED BY <1>1, <1>4, <2>1, <2>2, <2>3, MoveMapped
<1> QED BY <1>5, <1>6, <1>7

\* The side paths of the journal in hand go, when none of them is needed.
LEMMA SidesMapped ==
  ASSUME Base, KeepInv, Base', KeepInv', UnlandedPart, UNCHANGED <<fs, files, disk, group, mem, cur>>,
         pc \in FailingPcs \cup {"undo"}, pc' \in FailingPcs \cup {"undo"},
         \A j \in Journal, d \in Dest : j # cur => side'[<<j, d>>] = side[<<j, d>>],
         AllBack(cur)
  PROVE  Mapped /\ ContentInv'
<1>1. cur \in Journal /\ Undoable
  BY StillUndoable DEF Base, TypeOK, KeepInv, DataPart
<1>2. ASSUME NEW j \in Journal, NEW e \in Claims(j) PROVE Restored(j, e)' = Restored(j, e)
  <2>1. e.dest \in Dest
    BY ClaimFacts DEF Base
  <2>2. CASE j = cur
    <3>1. Back(e) /\ Back(e)'
      BY <1>1, <2>2 DEF AllBack, Back
    <3> QED BY <3>1 DEF Restored, Back, OriginalBack
  <2>3. CASE j # cur
    BY <2>1, <2>3 DEF Restored
  <2> QED BY <2>2, <2>3
<1>3. \A j \in Journal : \A e \in Changes(disk[j]) : Restored(j, e)' = Restored(j, e)
  BY <1>2 DEF Claims
<1>4. StableStays
  BY <1>1, <1>3, MovedStable
<1>5. Installing' => Installing
  BY DEF Installing, FailingPcs
<1>6. Mapped
  BY <1>4, <1>5, MappedStutter DEF Mapped
<1>7. UnlandedPart'
  <2> SUFFICES ASSUME NEW j \in Journal, NEW e \in Changes(mem[j])
               PROVE  (\E f \in Changes(disk'[j]) : f.dest = e.dest) \/ Restored(j, e)' = ContentOf(fs'[e.dest])
    BY DEF UnlandedPart
  <2>1. e \in Claims(j)
    BY DEF Claims
  <2> QED BY <1>2, <2>1 DEF UnlandedPart
<1>8. CopyPart'
  BY DEF CopyPart, FailingPcs
<1> QED BY <1>6, <1>7, <1>8 DEF ContentInv

LEMMA DiscardMapped ==
  ASSUME Base, KeepInv, Base', KeepInv', UnlandedPart, Discard
  PROVE  Mapped /\ ContentInv'
<1>1. UNCHANGED <<fs, files, disk, group, mem, cur>> /\ pc = "discard" /\ pc' = "fail"
  BY DEF Discard
<1>2. CASE cur \in Recorders \/ (ret = "revert" /\ mem[cur].cleanup)
  <2>1. UNCHANGED side
    BY <1>2 DEF Discard
  <2>2. Mapped
    BY <1>1, <2>1, QuietMapped DEF Installing
  <2>3. UnlandedPart' /\ CopyPart'
    BY <1>1, <2>1 DEF UnlandedPart, CopyPart, FailingPcs, Restored
  <2> QED BY <2>2, <2>3 DEF ContentInv
<1>3. CASE ~(cur \in Recorders \/ (ret = "revert" /\ mem[cur].cleanup))
  <2>1. AllBack(cur)
    BY <1>1, <1>3 DEF KeepInv, PcPart, SparePart
  <2>2. \A j \in Journal, d \in Dest : j # cur => side'[<<j, d>>] = side[<<j, d>>]
    BY <1>3 DEF Discard
  <2> QED BY <1>1, <2>1, <2>2, SidesMapped DEF FailingPcs
<1> QED BY <1>2, <1>3

\* What the finish of a journal removes and forgets is committed.
LEMMA AllCommitting ==
  ASSUME Base, pc = "finish"
  PROVE  /\ \A j \in files : Committing(j)
         /\ cur \in open /\ mem[cur].committed
BY DEF Base, CommitInv, SettlePart, EverythingCommitted, Committing

LEMMA CleanDropMapped ==
  ASSUME Base, KeepInv, Base', KeepInv', UnlandedPart, CleanDrop
  PROVE  Mapped /\ ContentInv'
<1>1. /\ UNCHANGED <<fs, files, disk, group, mem, cur, pc>> /\ pc \in {"undo", "finish"} /\ mem[cur].changes = <<>>
      /\ \A j \in Journal, d \in Dest : j # cur => side'[<<j, d>>] = side[<<j, d>>]
  BY DEF CleanDrop, Ending
<1>2. CASE pc = "finish"
  <2>1. \A j \in files' : Committing(j)'
    BY <1>1, <1>2, AllCommitting DEF Committing
  <2>2. Installing' => Installing
    BY <1>1 DEF Installing
  <2>3. Mapped
    BY <1>1, <1>2, <2>1, <2>2, AllCommitting, CommittedMapped
  <2> QED BY <1>1, <1>2, <2>3 DEF ContentInv, CopyPart, UnlandedPart, FailingPcs
<1>3. CASE pc = "undo"
  <2>1. Changes(mem[cur]) = {}
    BY <1>1, NoChanges
  <2>2. cur \in Journal
    BY DEF Base, TypeOK
  <2>3. \A c \in Changes(disk[cur]) : Back(c)
    BY <1>3, <2>1, <2>2 DEF KeepInv, PcPart, Covered
  <2>4. AllBack(cur)
    BY <2>1, <2>3 DEF AllBack, Claims
  <2> QED BY <1>1, <1>3, <2>4, SidesMapped
<1> QED BY <1>1, <1>2, <1>3

LEMMA FinishDropMapped ==
  ASSUME Base, KeepInv, Base', KeepInv', FinishDrop
  PROVE  Mapped /\ ContentInv'
<1>1. UNCHANGED <<fs, files, disk, group, mem, cur, pc>> /\ pc = "finish"
  BY DEF FinishDrop, Finishing
<1>2. \A j \in files' : Committing(j)'
  BY <1>1, AllCommitting DEF Committing
<1>3. Installing' => Installing
  BY <1>1 DEF Installing
<1>4. Mapped
  BY <1>1, <1>2, <1>3, AllCommitting, CommittedMapped
<1> QED BY <1>1, <1>4 DEF ContentInv, CopyPart, UnlandedPart, FailingPcs

\* A rollback forgets what it has undone.
LEMMA ForgetMapped ==
  ASSUME Base, KeepInv, Base', KeepInv', UnlandedPart, UNCHANGED <<fs, side>>,
         pc = "undo", pc' \notin {"run", "swap", "swapped", "commit"}, NEW s,
         Changes(s) \subseteq Changes(mem[cur]), \A e \in Changes(mem[cur]) : e \in Changes(s) \/ Back(e),
         \A j \in Journal : j # cur => disk'[j] = disk[j] /\ mem'[j] \in {mem[j], EmptyState},
         disk'[cur] \in {disk[cur], s},
         mem'[cur] \in {mem[cur], EmptyState} \/ (mem'[cur] = s /\ disk'[cur] = s),
         Undoable'
  PROVE  Mapped /\ ContentInv'
<1>1. cur \in Journal /\ Undoable
  BY StillUndoable DEF Base, TypeOK, KeepInv, DataPart
<1>2. ASSUME NEW j \in Journal, NEW c \in Changes(mem[j])
      PROVE  (\E e \in Changes(disk[j]) : Same(c, e)) \/ Restored(j, c) = ContentOf(fs[c.dest])
  <2>1. CASE \E e \in Changes(disk[j]) : e.dest = c.dest
    <3>1. PICK e \in Changes(disk[j]) : e.dest = c.dest
      BY <2>1
    <3>2. Same(c, e)
      BY <3>1, OneAtDest DEF Claims, KeepInv, DataPart
    <3> QED BY <3>2
  <2>2. CASE ~\E e \in Changes(disk[j]) : e.dest = c.dest
    BY <2>2 DEF UnlandedPart
  <2> QED BY <2>1, <2>2
<1>3. ASSUME NEW j \in Journal, NEW c \in Changes(disk'[j])
      PROVE  (\E e \in Changes(disk[j]) : Same(c, e)) \/ Restored(j, c) = ContentOf(fs[c.dest])
  <2>1. c \in Changes(disk[j]) \/ c \in Changes(mem[j])
    BY <1>1
  <2> QED BY <1>2, <2>1, SameItself
<1>4. ASSUME NEW j \in Journal, NEW e \in Changes(disk[j])
      PROVE  (\E c \in Changes(disk'[j]) : Same(c, e)) \/ Restored(j, e) = ContentOf(fs[e.dest])
  <2>1. CASE disk'[j] = disk[j]
    BY <2>1, SameItself
  <2>2. CASE j = cur /\ disk'[j] = s
    <3>1. Back(e) \/ \E m \in Changes(mem[cur]) : m.dest = e.dest
      BY <1>1, <2>2 DEF KeepInv, PcPart, Covered
    <3>2. CASE Back(e)
      BY <3>2, BackRestored
    <3>3. CASE \E m \in Changes(mem[cur]) : m.dest = e.dest
      <4>1. PICK m \in Changes(mem[cur]) : m.dest = e.dest
        BY <3>3
      <4>2. Same(m, e) /\ Same(e, m)
        BY <1>1, <2>2, <4>1, OneAtDest DEF Claims, KeepInv, DataPart
      <4>3. CASE m \in Changes(s)
        BY <2>2, <4>2, <4>3
      <4>4. CASE Back(m)
        BY <4>2, <4>4, SameIsBack, BackRestored
      <4> QED BY <4>3, <4>4
    <3> QED BY <3>1, <3>2, <3>3
  <2> QED BY <1>1, <2>1, <2>2
<1>5. Installing' => Installing
  BY DEF Installing
<1>6. Mapped
  BY <1>1, <1>3, <1>4, <1>5, RecordedMapped
<1>7. UnlandedPart'
  <2> SUFFICES ASSUME NEW j \in Journal, NEW c \in Changes(mem'[j])
               PROVE  (\E e \in Changes(disk'[j]) : e.dest = c.dest) \/ Restored(j, c)' = ContentOf(fs'[c.dest])
    BY DEF UnlandedPart
  <2>1. Restored(j, c)' = Restored(j, c)
    BY DEF Restored
  <2>2. CASE mem'[j] = EmptyState
    BY <2>2, EmptyChanges
  <2>3. CASE mem'[j] = mem[j] /\ disk'[j] = disk[j]
    BY <2>1, <2>3 DEF UnlandedPart
  <2>4. CASE j = cur /\ disk'[j] = s /\ mem'[j] = mem[j]
    <3>1. c \in Changes(s) \/ Back(c)
      BY <2>4
    <3> QED BY <2>1, <2>4, <3>1, BackRestored
  <2>5. CASE mem'[j] = s /\ disk'[j] = s
    BY <2>5
  <2> QED BY <1>1, <2>2, <2>3, <2>4, <2>5
<1>8. CopyPart'
  BY DEF CopyPart
<1> QED BY <1>6, <1>7, <1>8 DEF ContentInv

LEMMA PopsMapped ==
  ASSUME Base, KeepInv, Base', KeepInv', UnlandedPart, UndoPop \/ FinishPop \/ CleanPop
  PROVE  Mapped /\ ContentInv'
<1>1. /\ UNCHANGED <<fs, side, group>> /\ pc \in {"undo", "finish"} /\ pc' \in {pc, "off", "fail", "discard"}
      /\ pc' \in {"fail", "discard"} => pc = "undo"
  <2>1. UNCHANGED <<fs, side, group>> /\ pc \in {"undo", "finish"} /\ (pc' = pc \/ ReturnError)
    BY DEF UndoPop, FinishPop, CleanPop, Undoing, Finishing, Ending, Rewrite, RewriteFault
  <2>2. ReturnError => pc' \in {"off", "fail", "discard"} /\ (pc' \in {"fail", "discard"} => ret \in {"fail"} \cup Reverts)
    BY DEF ReturnError, Exit
  <2>3. ret \in {"fail"} \cup Reverts => pc # "finish"
    BY DEF Base, CommitInv, SettlePart
  <2> QED BY <2>1, <2>2, <2>3
<1>2. cur \in Journal /\ mem[cur] \in JournalState /\ (mem[cur].changes # <<>> \/ mem[cur].cleanup)
  BY DEF UndoPop, FinishPop, CleanPop, Undoing, Finishing, Ending, Base, TypeOK
<1>3. PICK s : /\ Rewrite(s) \/ RewriteFault(s)
               /\ s.committed = mem[cur].committed
               /\ Changes(s) \subseteq Changes(mem[cur])
               /\ pc = "undo" => \A e \in Changes(mem[cur]) : e \in Changes(s) \/ Back(e)
  <2>1. CASE UndoPop
    <3>1. PICK s : s = [mem[cur] EXCEPT !.changes = Front(@)]
      OBVIOUS
    <3>2. mem[cur].changes # <<>> /\ (Rewrite(s) \/ RewriteFault(s)) /\ Back(Subject) /\ Subject = Last(mem[cur].changes)
      BY <2>1, <3>1 DEF UndoPop, Undoing, Undone, Back, AtDest, Subject
    <3>3. s.committed = mem[cur].committed
      BY <1>2, <3>1 DEF JournalState
    <3>4. Changes(s) \subseteq Changes(mem[cur]) /\ \A e \in Changes(mem[cur]) : e \in Changes(s) \/ Back(e)
      BY <1>2, <3>1, <3>2, FrontChanges
    <3> QED BY <3>2, <3>3, <3>4
  <2>2. CASE FinishPop
    <3>1. PICK s : s = [mem[cur] EXCEPT !.changes = Tail(@)]
      OBVIOUS
    <3>2. mem[cur].changes # <<>> /\ (Rewrite(s) \/ RewriteFault(s)) /\ pc = "finish"
      BY <2>2, <3>1 DEF FinishPop, Finishing
    <3>3. s.committed = mem[cur].committed
      BY <1>2, <3>1 DEF JournalState
    <3>4. Changes(s) \subseteq Changes(mem[cur])
      BY <1>2, <3>1, <3>2, TailChanges
    <3> QED BY <3>2, <3>3, <3>4
  <2>3. CASE CleanPop
    <3>1. PICK s : s = [mem[cur] EXCEPT !.cleanup = FALSE]
      OBVIOUS
    <3>2. Rewrite(s) \/ RewriteFault(s)
      BY <2>3, <3>1 DEF CleanPop
    <3>3. s.committed = mem[cur].committed
      BY <1>2, <3>1 DEF JournalState
    <3>4. Changes(s) = Changes(mem[cur])
      BY <1>2, <3>1, FlagChanges
    <3> QED BY <3>2, <3>3, <3>4
  <2> QED BY <2>1, <2>2, <2>3
<1>4. /\ \A j \in Journal : j # cur => disk'[j] = disk[j] /\ mem'[j] \in {mem[j], EmptyState}
      /\ disk'[cur] \in {disk[cur], s}
      /\ mem'[cur] \in {mem[cur], EmptyState} \/ (mem'[cur] = s /\ disk'[cur] = s)
      /\ files' \subseteq files \cup {cur}
  BY <1>2, <1>3 DEF Rewrite, RewriteFault, Remember, Persist, MayPersist, ReturnError, Exit, Base, TypeOK
<1>5. CASE pc = "finish"
  <2>1. /\ \A j \in files : disk[j].committed
        /\ cur \in open /\ mem[cur].committed
    BY <1>5 DEF Base, CommitInv, SettlePart, EverythingCommitted
  <2>2. cur \in files
    BY <1>5, <2>1 DEF KeepInv, PcPart, FinishOpen
  <2>3. \A j \in files : disk'[j].committed
    BY <1>3, <1>4, <2>1 DEF Base, TypeOK
  <2>4. \A j \in files' : Committing(j)'
    BY <1>4, <2>2, <2>3 DEF Committing
  <2>5. Installing' => Installing
    BY <1>1, <1>5 DEF Installing
  <2>6. Mapped
    BY <1>1, <1>5, <2>4, <2>5, AllCommitting, CommittedMapped
  <2>7. pc' \notin FailingPcs \cup {"undo", "run"}
    BY <1>1, <1>5 DEF FailingPcs
  <2> QED BY <2>6, <2>7 DEF ContentInv, CopyPart, UnlandedPart
<1>6. CASE pc = "undo"
  <2>1. Undoable /\ ~mem[cur].committed
    BY <1>2, <1>6, StillUndoable DEF Base, CommitInv, WorkPart, KeepInv, DataPart
  <2>2. Undoable'
    BY <1>1, <1>3, <1>4, <2>1 DEF Undoable
  <2>3. pc' \notin {"run", "swap", "swapped", "commit"}
    BY <1>1, <1>6
  <2> QED BY <1>1, <1>3, <1>4, <1>6, <2>2, <2>3, ForgetMapped
<1> QED BY <1>1, <1>5, <1>6

LEMMA RemoveJournalMapped ==
  ASSUME Base, KeepInv, Base', KeepInv', UnlandedPart, RemoveJournal
  PROVE  Mapped /\ ContentInv'
<1>1. /\ UNCHANGED <<fs, side, group>> /\ pc \in {"undo", "finish"} /\ mem[cur].changes = <<>>
      /\ pc' \in {"scan", "off", "fail", "discard", "finishNext"}
      /\ pc' \in {"fail", "discard"} => pc = "undo"
  <2>1. UNCHANGED <<fs, side, group>> /\ pc \in {"undo", "finish"} /\ mem[cur].changes = <<>> /\ (ReturnOk \/ ReturnError)
    BY DEF RemoveJournal, Ending
  <2>2. /\ pc' \in {"scan", "off", "fail", "discard", "finishNext"}
        /\ pc' \in {"fail", "discard"} => ret \in {"fail"} \cup Reverts
    BY <2>1 DEF ReturnOk, ReturnError, Exit
  <2>3. ret \in {"fail"} \cup Reverts => pc # "finish"
    BY DEF Base, CommitInv, SettlePart
  <2> QED BY <2>1, <2>2, <2>3
<1>2. cur \in Journal
  BY DEF Base, TypeOK
<1>3. PICK s : s = EmptyState
  OBVIOUS
<1>4. /\ \A j \in Journal : j # cur => disk'[j] = disk[j] /\ mem'[j] \in {mem[j], EmptyState}
      /\ disk'[cur] \in {disk[cur], s}
      /\ mem'[cur] \in {mem[cur], EmptyState}
      /\ files' \subseteq files /\ (cur \in files' => disk'[cur] = disk[cur])
  BY <1>2, <1>3 DEF RemoveJournal, Remember, ReturnError, Exit, Base, TypeOK
<1>5. CASE pc = "finish"
  <2>1. \A j \in files : disk[j].committed
    BY <1>5 DEF Base, CommitInv, SettlePart, EverythingCommitted
  <2>2. \A j \in files' : Committing(j)'
    BY <1>4, <2>1 DEF Committing, Base, TypeOK
  <2>3. Installing' => Installing
    BY <1>1 DEF Installing
  <2>4. Mapped
    BY <1>1, <1>5, <2>2, <2>3, AllCommitting, CommittedMapped
  <2>5. pc' \notin FailingPcs \cup {"undo", "run"}
    BY <1>1, <1>5 DEF FailingPcs
  <2> QED BY <2>4, <2>5 DEF ContentInv, CopyPart, UnlandedPart
<1>6. CASE pc = "undo"
  <2>1. Undoable
    BY <1>6, StillUndoable DEF KeepInv, DataPart
  <2>2. Undoable'
    BY <1>1, <1>3, <1>4, <2>1 DEF Undoable, EmptyState
  <2>3. pc' \notin {"run", "swap", "swapped", "commit"}
    BY <1>1
  <2>4. Changes(s) = {} /\ Changes(mem[cur]) = {}
    BY <1>1, <1>3, EmptyChanges, NoChanges
  <2> QED BY <1>1, <1>4, <1>6, <2>2, <2>3, <2>4, ForgetMapped
<1> QED BY <1>1, <1>5, <1>6

-----------------------------------------------------------------------------
\* Every step.

LEMMA SameContent ==
  ASSUME UnlandedPart, UNCHANGED <<fs, side, mem, disk>>, pc' # "run",
         pc' \in FailingPcs \cup {"undo"} => pc \in FailingPcs \cup {"undo"}
  PROVE  ContentInv'
BY DEF ContentInv, CopyPart, UnlandedPart, Restored

LEMMA RecoverNextContent ==
  ASSUME Base, KeepInv, RecoverNext
  PROVE  ContentInv'
<1>1. PICK i \in Journal : pc = "scan" /\ Remember(i, disk[i]) /\ UNCHANGED <<fs, side, files, disk>> /\ pc' # "run"
  BY DEF RecoverNext, durable, Base, TypeOK
<1>2. \A j \in Journal : mem[j] = EmptyState
  BY <1>1 DEF Base, CommitInv, RecoveryPart, BetweenPcs, KeepInv, DataPart, Live
<1>3. \A j \in Journal : mem'[j] = EmptyState \/ mem'[j] = disk'[j]
  BY <1>1, <1>2 DEF Remember, Base, TypeOK
<1>4. UnlandedPart'
  BY <1>3, EmptyChanges, Landed
<1> QED BY <1>1, <1>4 DEF ContentInv, CopyPart

LEMMA NewRunContent ==
  ASSUME Base, KeepInv, RecoverDone \/ ManagerDone
  PROVE  ContentInv'
<1>1. CASE RecoverDone
  <2>1. pc' \in {"run", "off"} /\ (pc' = "run" => cur' = 1 /\ \A d \in Dest : side'[<<1, d>>] = NoFile)
    BY <1>1, JournalFacts DEF RecoverDone, Exit
  <2> QED BY <2>1 DEF ContentInv, CopyPart, UnlandedPart, Prepared, FailingPcs
<1>2. CASE ManagerDone
  <2>1. UNCHANGED side /\ pc = "run" /\ (pc' = "commit" \/ (pc' = "run" /\ cur' = cur + 1 /\ cur < N))
    BY <1>2 DEF ManagerDone, durable
  <2>2. pc' = "run" => cur' \in Journal /\ cur' > cur
    BY <2>1, NAssumption DEF Base, TypeOK, Journal
  <2>3. pc' = "run" => \A d \in Dest : side'[<<cur', d>>] = NoFile
    BY <2>1, <2>2 DEF KeepInv, PcPart, RunPart, WorkingPcs
  <2> QED BY <2>1, <2>3 DEF ContentInv, CopyPart, UnlandedPart, Prepared, FailingPcs
<1> QED BY <1>1, <1>2

LEMMA ProcessContent ==
  ASSUME Base, KeepInv, UnlandedPart,
         Start \/ Crash \/ RecoverMember \/ RecoverGroupDone \/ WriteGroup \/ MarkCommitted \/ RemoveGroup
           \/ FinishNext \/ FinishDone \/ FailDone \/ ManagerFails \/ Revert \/ FailNext \/ UndoFault
  PROVE  ContentInv'
<1>1. CASE \/ Start \/ Crash \/ RecoverMember \/ RecoverGroupDone \/ WriteGroup \/ MarkCommitted \/ RemoveGroup
           \/ FinishNext \/ FinishDone \/ FailDone
  <2>1. pc' \notin FailingPcs \cup {"undo", "run"}
    BY <1>1 DEF Start, Crash, RecoverMember, RecoverGroupDone, WriteGroup, MarkCommitted, RemoveGroup,
         FinishNext, FailDone, FinishDone, Exit, Goto, FailingPcs
  <2> QED BY <2>1 DEF ContentInv, CopyPart, UnlandedPart
<1>2. CASE ManagerFails
  <2>1. UNCHANGED <<disk, mem>> /\ pc = "run" /\ pc' = "failed"
    BY <1>2 DEF ManagerFails, durable, Goto
  <2>2. disk = mem
    BY <2>1, AtWork DEF WorkingPcs
  <2>3. UnlandedPart'
    BY <2>1, <2>2, Landed
  <2> QED BY <2>1, <2>3 DEF ContentInv, CopyPart
<1>3. CASE Revert \/ FailNext
  BY <1>3, SameContent DEF Revert, FailNext, durable, FailingPcs
<1>4. CASE UndoFault
  <2>1. UNCHANGED <<fs, side, disk>> /\ ReturnError
    BY <1>4 DEF UndoFault, durable
  <2>2. CASE Exit
    BY <2>2 DEF Exit, ContentInv, CopyPart, UnlandedPart, FailingPcs
  <2>3. CASE ~Exit
    <3>1. UNCHANGED mem /\ pc' \in {"fail", "discard"} /\ ret \in {"fail"} \cup Reverts
      BY <2>1, <2>3 DEF ReturnError
    <3>2. pc = "undo"
      BY <1>4, <3>1 DEF UndoFault, Base, CommitInv, SettlePart
    <3> QED BY <2>1, <3>1, <3>2, SameContent
  <2> QED BY <2>2, <2>3
<1> QED BY <1>1, <1>2, <1>3, <1>4

\* Every step of the program is one step of the abstract install, or none.
LEMMA TxnStep ==
  ASSUME Shared = {}, MaxFaults <= 1, Base, KeepInv, ContentInv, [Next]_vars
  PROVE  Mapped /\ ContentInv'
<1>1. Base' /\ KeepInv'
  BY NextType, InFlightStep, CommitStep, KeepStep DEF Base
<1>2. CopyPart /\ UnlandedPart
  BY DEF ContentInv
<1>3. CASE Start \/ Crash
  BY <1>2, <1>3, QuietSteps, ProcessContent
<1>4. CASE Recover
  <2>1. CASE RecoverMember \/ RecoverGroupDone
    BY <1>1, <1>2, <2>1, RecoverMemberMapped, RecoverGroupMapped, ProcessContent
  <2>2. CASE RecoverNext
    BY <2>2, QuietSteps, RecoverNextContent
  <2>3. CASE RecoverDone
    BY <1>1, <2>3, RecoverDoneMapped, NewRunContent
  <2> QED BY <1>4, <2>1, <2>2, <2>3 DEF Recover
<1>5. CASE Manage
  <2>1. ASSUME NEW d \in Dest,
               Stage(d) \/ CopyBackup(d) \/ ActivateIntent(d) \/ Record(d) \/ Mutate(d)
        PROVE  Mapped /\ ContentInv'
    BY <1>1, <1>2, <2>1, PrepareMapped, IntentMapped, RecordMapped, MutateMapped
  <2>2. CASE ActivateSwap \/ ActivateEnd \/ ActivateBack \/ ActivateBackDrop
    BY <1>1, <1>2, <2>2, SwapMapped, EndMapped, BackMapped, BackDropMapped
  <2>3. CASE AddCleanup \/ Discard
    BY <1>1, <1>2, <2>3, AddCleanupMapped, DiscardMapped
  <2>4. CASE ManagerDone
    BY <2>4, QuietSteps, NewRunContent
  <2>5. CASE ManagerFails \/ Revert \/ FailNext \/ FailDone
    BY <1>2, <2>5, QuietSteps, ProcessContent
  <2> QED BY <1>5, <2>1, <2>2, <2>3, <2>4, <2>5 DEF Manage
<1>6. CASE Settle
  <2>1. CASE UndoSwap \/ UndoDropDest \/ UndoDropAlt \/ UndoPop \/ FinishPop \/ CleanPop
    BY <1>1, <1>2, <2>1, UndoMapped, PopsMapped
  <2>2. CASE FinishDrop \/ CleanDrop \/ RemoveJournal
    BY <1>1, <1>2, <2>2, FinishDropMapped, CleanDropMapped, RemoveJournalMapped
  <2>3. CASE UndoFault
    BY <1>2, <2>3, QuietSteps, ProcessContent
  <2> QED BY <1>6, <2>1, <2>2, <2>3, UndoConflictNever DEF Settle
<1>7. CASE Commit
  <2>1. CASE WriteGroup \/ MarkCommitted \/ RemoveGroup
    BY <1>1, <1>2, <2>1, WriteGroupMapped, MarkMapped, RemoveGroupMapped, ProcessContent
  <2>2. CASE FinishNext \/ FinishDone
    BY <1>2, <2>2, QuietSteps, ProcessContent
  <2> QED BY <1>7, <2>1, <2>2 DEF Commit
<1>8. CASE UNCHANGED vars
  <2>1. UNCHANGED <<fs, side, files, disk, group, pc, cur, mem>>
    BY <1>8 DEF vars
  <2>2. Mapped
    BY <2>1, QuietMapped DEF Installing
  <2>3. ContentInv'
    BY <1>2, <2>1 DEF ContentInv, CopyPart, UnlandedPart, Prepared, Restored
  <2> QED BY <2>2, <2>3
<1> QED BY <1>3, <1>4, <1>5, <1>6, <1>7, <1>8 DEF Next

LEMMA TxnInit == Init => ContentInv /\ Txn!Init
<1> SUFFICES ASSUME Init PROVE ContentInv /\ Txn!Init
  OBVIOUS
<1>1. ContentInv
  BY DEF Init, ContentInv, CopyPart, UnlandedPart, FailingPcs
<1>2. \A d \in Dest : Stable(d) = ContentOf(fs[d])
  BY DEF Init, Stable, PendingOn
<1>3. \A d \in Dest : ContentOf(fs[d]) \in Data \cup {NoFile}
  BY DEF Init, ContentOf, Place, Object
<1>4. [d \in Dest |-> Stable(d)] = [d \in Dest |-> Visible(d)]
  BY <1>2 DEF Visible
<1>5. [d \in Dest |-> Stable(d)] \in [Dest -> Data \cup {NoFile}]
  BY <1>2, <1>3
<1>6. (pc \in {"run", "swap", "swapped", "commit"}) = FALSE
  BY DEF Init
<1> QED BY <1>1, <1>4, <1>5, <1>6 DEF Txn!Init

\* An install happens at once or not at all: seen through recovery, all changes of
\* its managers become permanent in the one step that writes the commit group, and
\* whatever fails, and wherever it is killed, the paths are put back one by one to
\* what they held before.
THEOREM InstallImplemented ==
  ASSUME Shared = {}, MaxFaults <= 1
  PROVE  Spec => InstallIsAtomic
<1>1. Init => Base /\ KeepInv /\ ContentInv
  BY InitType, InFlightInit, CommitInit, KeepInit, TxnInit DEF Base
<1>2. Base /\ KeepInv /\ ContentInv /\ [Next]_vars => (Base /\ KeepInv /\ ContentInv)'
  BY NextType, InFlightStep, CommitStep, KeepStep, TxnStep DEF Base
<1>3. Base /\ KeepInv /\ ContentInv /\ [Next]_vars => [Txn!Next]_(Txn!vars)
  BY TxnStep DEF Mapped
<1>4. Init => Txn!Init
  BY TxnInit
<1> QED BY <1>1, <1>2, <1>3, <1>4, PTL DEF Spec, InstallIsAtomic, Txn!Spec


-----------------------------------------------------------------------------
\* What the process knows of the rollbacks it has before it.

LEMMA KnownIdle == ASSUME pc' \notin FailingPcs \cup {"undo"} PROVE KnownPart'
BY DEF KnownPart

\* A manager fails; what earlier ones wrote has landed.
LEMMA KnownFailing ==
  ASSUME Base, KeepInv, pc \in WorkingPcs, pc' \in FailingPcs \ {"fail"}, cur' = cur,
         \A j \in Journal : j # cur => mem'[j] = mem[j] /\ disk'[j] = disk[j]
  PROVE  KnownPart'
<1>1. Ahead' = {j \in Journal : j < cur}
  BY DEF Ahead, FailingPcs
<1>2. disk = mem
  BY AtWork
<1>3. \A j \in Ahead' : mem'[j] = disk'[j]
  <2>1. cur \in Nat
    BY JournalFacts DEF Base, TypeOK
  <2> QED BY <1>1, <1>2, <2>1
<1> QED BY <1>3 DEF KnownPart, FailingPcs

\* Control moves on; nothing is added to what is ahead.
LEMMA KnownOn ==
  ASSUME KnownPart, pc \in FailingPcs \cup {"undo"}, UNCHANGED <<mem, disk>>, Ahead' \subseteq Ahead,
         pc' = "undo" /\ ret' = "fail" => cur' \notin todo'
  PROVE  KnownPart'
BY DEF KnownPart

\* The journal in hand is rewritten, or given up.
LEMMA KnownRewritten ==
  ASSUME Base, KnownPart, pc = "undo", UNCHANGED <<cur, todo, ret>>,
         \A j \in Journal : j # cur => mem'[j] = mem[j] /\ disk'[j] = disk[j],
         \/ pc' = "undo" /\ disk'[cur] = mem'[cur]
         \/ pc' = "fail" /\ ret = "fail"
         \/ pc' = "discard" /\ ret \in Reverts
  PROVE  KnownPart'
<1>1. ret \in {"scan", "fail"} \cup Reverts /\ cur \in Journal /\ todo \subseteq Journal /\ cur \in Nat
  BY JournalFacts DEF Base, TypeOK, CommitInv, SettlePart
<1>2. ret = "fail" => cur \notin todo
  BY DEF KnownPart
<1>3. Ahead' \subseteq Ahead /\ Ahead \subseteq Journal /\ (cur \in Ahead' => pc' = "undo")
  <2>1. CASE ret = "scan"
    <3>1. pc' \in {"undo", "fail"} /\ ret' = ret /\ cur' = cur /\ pc' = "undo"
      BY <2>1
    <3>2. Ahead = {cur} /\ Ahead' = {cur}
      BY <2>1, <3>1 DEF Ahead
    <3> QED BY <1>1, <3>1, <3>2
  <2>2. CASE ret = "fail"
    <3>1. Ahead = todo \cup {cur}
      BY <2>2 DEF Ahead
    <3>2. CASE pc' = "undo"
      <4>1. Ahead' = todo \cup {cur}
        BY <2>2, <3>2 DEF Ahead
      <4> QED BY <1>1, <3>1, <3>2, <4>1
    <3>3. CASE pc' = "fail"
      <4>1. Ahead' = todo
        BY <2>2, <3>3 DEF Ahead
      <4> QED BY <1>1, <1>2, <2>2, <3>1, <4>1
    <3> QED BY <2>2, <3>2, <3>3
  <2>3. CASE ret \in Reverts
    <3>1. Ahead = {j \in Journal : j < cur}
      BY <2>3 DEF Ahead
    <3>2. Ahead' = {j \in Journal : j < cur}
      BY <2>3 DEF Ahead
    <3> QED BY <1>1, <3>1, <3>2
  <2> QED BY <1>1, <2>1, <2>2, <2>3
<1>4. \A j \in Ahead' : (mem'[j] = mem[j] /\ disk'[j] = disk[j]) \/ disk'[j] = mem'[j]
  BY <1>3
<1>5. \A j \in Ahead' : \A c \in Changes(disk'[j]) : \E e \in Changes(mem'[j]) : e.dest = c.dest
  BY <1>3, <1>4 DEF KnownPart
<1> QED BY <1>2, <1>5 DEF KnownPart

LEMMA ManageKnown ==
  ASSUME Base, KeepInv, KnownPart, Manage
  PROVE  KnownPart'
<1>1. cur \in Journal
  BY DEF Base, TypeOK
<1>2. ASSUME NEW d \in Dest, Stage(d) \/ CopyBackup(d) \/ Mutate(d)
      PROVE  KnownPart'
  BY <1>2, KnownIdle DEF Stage, CopyBackup, Mutate, FailingPcs
<1>3. ASSUME \/ \E d \in Dest : ActivateIntent(d) \/ Record(d)
             \/ ActivateSwap \/ ActivateEnd \/ AddCleanup \/ ManagerFails
      PROVE  KnownPart'
  <2>1. /\ pc \in WorkingPcs /\ cur' = cur
        /\ pc' \in WorkingPcs \/ pc' \in FailingPcs \ {"fail"}
    BY <1>3 DEF ActivateIntent, Record, ActivateSwap, ActivateEnd, AddCleanup, ManagerFails, Goto, ActivateFails,
                WorkingPcs, FailingPcs
  <2>2. \A j \in Journal : j # cur => mem'[j] = mem[j] /\ disk'[j] = disk[j]
    BY <1>1, <1>3 DEF ActivateIntent, Record, ActivateSwap, ActivateEnd, AddCleanup, ManagerFails, Base, TypeOK,
                      Remember, Persist, MayPersist, durable
  <2>3. pc' \in WorkingPcs => pc' \notin FailingPcs \cup {"undo"}
    BY DEF WorkingPcs, FailingPcs
  <2> QED BY <2>1, <2>2, <2>3, KnownIdle, KnownFailing
<1>4. CASE ManagerDone \/ FailDone
  <2>1. pc' \notin FailingPcs \cup {"undo"}
    BY <1>4 DEF ManagerDone, FailDone, Exit, FailingPcs
  <2> QED BY <2>1, KnownIdle
<1>5. CASE ActivateBack \/ ActivateBackDrop
  <2>1. /\ UNCHANGED <<mem, disk, cur>> /\ pc \in {"back", "backDrop"}
        /\ pc' \in {"backDrop", "failed", "callFailed", "untracked"}
    BY <1>5 DEF ActivateBack, ActivateBackDrop, Goto, ActivateFails
  <2> QED BY <2>1, KnownOn DEF Ahead, FailingPcs
<1>6. CASE Revert
  <2>1. /\ UNCHANGED <<mem, disk, cur>> /\ pc \in {"failed", "callFailed", "untracked"}
        /\ pc' = "discard" \/ (pc' = "undo" /\ ret' \in Reverts)
    BY <1>6 DEF Revert, durable
  <2> QED BY <2>1, KnownOn DEF Ahead, FailingPcs
<1>7. CASE Discard
  <2>1. UNCHANGED <<mem, disk>> /\ pc = "discard" /\ pc' = "fail" /\ todo' = {j \in open : j < cur}
    BY <1>7 DEF Discard
  <2>2. open \subseteq Journal
    BY DEF Base, TypeOK
  <2> QED BY <2>1, <2>2, KnownOn DEF Ahead, FailingPcs
<1>8. CASE FailNext
  <2>1. UNCHANGED <<mem, disk>> /\ pc = "fail" /\ pc' = "undo" /\ ret' = "fail"
    BY <1>8 DEF FailNext, durable
  <2>2. PICK j \in todo : cur' = j /\ todo' = todo \ {j}
    BY <1>8 DEF FailNext, Latests
  <2> QED BY <2>1, <2>2, KnownOn DEF Ahead, FailingPcs
<1> QED BY <1>2, <1>3, <1>4, <1>5, <1>6, <1>7, <1>8 DEF Manage

LEMMA SettleKnown ==
  ASSUME Base, KeepInv, KnownPart, Settle
  PROVE  KnownPart'
<1>1. cur \in Journal
  BY DEF Base, TypeOK
<1>2. CASE UndoSwap \/ UndoDropDest \/ UndoDropAlt \/ FinishDrop \/ CleanDrop
  <2>1. UNCHANGED <<mem, disk, pc, cur, todo, ret>>
    BY <1>2 DEF UndoSwap, UndoDropDest, UndoDropAlt, FinishDrop, CleanDrop
  <2> QED BY <2>1 DEF KnownPart, Ahead
<1>3. CASE UndoFault \/ UndoConflict
  <2>1. UndoFault
    BY <1>3, UndoConflictNever
  <2>2. UNCHANGED disk /\ pc \in {"undo", "finish"} /\ ReturnError
    BY <2>1 DEF UndoFault, durable
  <2>3. CASE Exit
    BY <2>3, KnownIdle DEF Exit, FailingPcs
  <2>4. CASE ~Exit
    <3>1. /\ UNCHANGED <<mem, cur, todo, ret>>
          /\ (ret = "fail" /\ pc' = "fail") \/ (ret \in Reverts /\ pc' = "discard")
      BY <2>2, <2>4 DEF ReturnError
    <3>2. pc = "undo"
      BY <2>2, <3>1 DEF Base, CommitInv, SettlePart
    <3> QED BY <2>2, <3>1, <3>2, KnownRewritten
  <2> QED BY <2>3, <2>4
<1>4. CASE UndoPop \/ FinishPop \/ CleanPop \/ RemoveJournal
  <2>1. pc \in {"undo", "finish"}
    BY <1>4 DEF UndoPop, FinishPop, CleanPop, RemoveJournal, Undoing, Finishing, Ending
  <2>2. CASE Exit \/ pc' \in {"finish", "finishNext", "scan"}
    BY <2>2, KnownIdle DEF Exit, FailingPcs
  <2>3. CASE ~(Exit \/ pc' \in {"finish", "finishNext", "scan"})
    <3>1. \E s : Rewrite(s) \/ RewriteFault(s) \/ RemoveJournal
      BY <1>4 DEF UndoPop, FinishPop, CleanPop
    <3>2. /\ \A j \in Journal : j # cur => mem'[j] = mem[j] /\ disk'[j] = disk[j]
          /\ UNCHANGED <<cur, todo, ret>>
          /\ \/ pc' = pc /\ disk'[cur] = mem'[cur]
             \/ pc' = "fail" /\ ret = "fail"
             \/ pc' = "discard" /\ ret \in Reverts
      BY <1>1, <2>3, <3>1 DEF Rewrite, RewriteFault, RemoveJournal, ReturnOk, ReturnError, Remember, Persist,
                              MayPersist, Base, TypeOK
    <3>3. pc = "undo"
      BY <2>1, <2>3, <3>2 DEF Base, CommitInv, SettlePart
    <3> QED BY <3>2, <3>3, KnownRewritten
  <2> QED BY <2>2, <2>3
<1> QED BY <1>2, <1>3, <1>4 DEF Settle

LEMMA KnownStep ==
  ASSUME Base, KeepInv, KnownPart, [Next]_vars
  PROVE  KnownPart'
<1>1. CASE Start \/ Crash \/ Commit
  <2>1. pc' \notin FailingPcs \cup {"undo"}
    BY <1>1 DEF Start, Crash, Commit, WriteGroup, MarkCommitted, RemoveGroup, FinishNext, FinishDone, Exit, FailingPcs
  <2> QED BY <2>1, KnownIdle
<1>2. CASE RecoverMember \/ RecoverGroupDone \/ RecoverDone
  <2>1. pc' \notin FailingPcs \cup {"undo"}
    BY <1>2 DEF RecoverMember, RecoverGroupDone, RecoverDone, Exit, Goto, FailingPcs
  <2> QED BY <2>1, KnownIdle
<1>3. CASE RecoverNext
  <2>1. PICK i \in Journal : cur' = i /\ Remember(i, disk[i]) /\ UNCHANGED disk /\ ret' = "scan"
                             /\ pc' \in {"finish", "undo"}
    BY <1>3 DEF RecoverNext, durable, Base, TypeOK
  <2>2. mem'[i] = disk'[i]
    BY <2>1 DEF Remember, Base, TypeOK
  <2>3. pc' = "undo" => Ahead' = {i}
    BY <2>1 DEF Ahead
  <2> QED BY <2>1, <2>2, <2>3 DEF KnownPart, FailingPcs
<1>4. CASE UNCHANGED vars
  BY <1>4 DEF vars, KnownPart, Ahead
<1> QED BY <1>1, <1>2, <1>3, <1>4, ManageKnown, SettleKnown DEF Next, Recover

\* Recovery, and fail() for a finished manager, forget a change only when neither
\* its stage nor its backup is left behind: no rollback leaves a file behind that
\* no journal knows of.
THEOREM NothingLeftBehind ==
  ASSUME Shared = {}, MaxFaults <= 1
  PROVE  Spec => UndoLeavesNothing
<1> DEFINE Left ==
      pc = "undo" /\ ret \notin Reverts =>
        \A i \in 1..Len(disk[cur].changes) :
          LET d == disk[cur].changes[i].dest
          IN Touches(disk'[cur], d) \/ side'[<<cur, d>>] = NoFile
<1>1. Init => Base /\ KeepInv /\ KnownPart
  <2>1. Init => KnownPart
    BY DEF Init, KnownPart, FailingPcs
  <2> QED BY <2>1, InitType, InFlightInit, CommitInit, KeepInit DEF Base
<1>2. Base /\ KeepInv /\ KnownPart /\ [Next]_vars => (Base /\ KeepInv /\ KnownPart)'
  BY NextType, InFlightStep, CommitStep, KeepStep, KnownStep DEF Base
<1>3. Base /\ KeepInv /\ KnownPart /\ [Next]_vars => [Left]_vars
  <2> SUFFICES ASSUME Base, KeepInv, KnownPart, Next, pc = "undo", ret \notin Reverts,
                      NEW e \in Changes(disk[cur])
               PROVE  Touches(disk'[cur], e.dest) \/ side'[<<cur, e.dest>>] = NoFile
    BY DEF Changes
  <2>1. /\ cur \in Journal /\ mem[cur] \in JournalState /\ disk[cur] \in JournalState
        /\ disk'[cur] \in JournalState
    BY NextType DEF Base, TypeOK
  <2>2. CASE disk'[cur] = disk[cur]
    BY <2>1, <2>2, ChangesTyped
  <2>3. CASE disk'[cur] # disk[cur]
    <3>1. PICK m \in Changes(mem[cur]) : m.dest = e.dest
      <4>1. cur \in Ahead
        BY DEF Ahead, Base, CommitInv, SettlePart
      <4> QED BY <4>1 DEF KnownPart, FailingPcs
    <3>2. UndoPop \/ CleanPop \/ RemoveJournal
      BY <2>3, UndoConflictNever
      DEF Next, Start, Crash, Recover, RecoverMember, RecoverGroupDone, RecoverNext, RecoverDone, Manage, Stage,
          CopyBackup, ActivateIntent, Record, Mutate, ActivateSwap, ActivateEnd, ActivateBack, ActivateBackDrop,
          AddCleanup, ManagerDone, ManagerFails, Revert, Discard, FailNext, FailDone, Settle, UndoSwap,
          UndoDropDest, UndoDropAlt, FinishDrop, FinishPop, Finishing, UndoFault, CleanDrop, Commit, WriteGroup,
          MarkCommitted, RemoveGroup, FinishNext, FinishDone, durable
    <3>3. mem[cur].changes # <<>>
      BY <3>1, NoChanges
    <3>4. UndoPop
      BY <3>2, <3>3 DEF CleanPop, RemoveJournal, Ending
    <3>5. PICK s : s = [mem[cur] EXCEPT !.changes = Front(@)]
      OBVIOUS
    <3>6. UNCHANGED side /\ disk'[cur] = s /\ Undone(Subject, AtDest, AtSide) /\ Subject = Last(mem[cur].changes)
      BY <2>1, <2>3, <3>4, <3>5 DEF UndoPop, Rewrite, RewriteFault, MayPersist, Persist, Subject, Base, TypeOK
    <3>7. m \in Changes(s) \/ m = Subject
      BY <2>1, <3>3, <3>5, <3>6, FrontChanges
    <3>8. CASE m \in Changes(s)
      BY <2>1, <3>1, <3>6, <3>8, ChangesTyped
    <3>9. CASE m = Subject
      <4>1. Good(Subject, AtDest, AtSide)
        BY <3>3, SubjectSound DEF Undoing
      <4>2. AtSide = NoFile
        BY <3>6, <4>1 DEF Undone, Good
      <4> QED BY <3>1, <3>6, <3>9, <4>2 DEF AtSide
    <3> QED BY <3>7, <3>8, <3>9
  <2> QED BY <2>2, <2>3
<1>4. Spec => [](Base /\ KeepInv /\ KnownPart)
  BY <1>1, <1>2, PTL DEF Spec
<1>5. Spec => [][Left]_vars
  BY <1>3, <1>4, PTL DEF Spec
<1> QED BY <1>5 DEF UndoLeavesNothing
=============================================================================
