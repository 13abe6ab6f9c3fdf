------------------------ MODULE ApprovalsFile_proofs -------------------------
(***************************************************************************)
(* The approvals file is whole and keeps every saved decision, and a drop  *)
(* takes the decisions about gone code and no others, for any number of    *)
(* write-backs and drops, any faults and any code.                         *)
(***************************************************************************)
EXTENDS ApprovalsFileProps, SequenceTheorems, WellFoundedInduction, TLAPS

Pcs == {"start", "lock", "read", "sort", "backup", "copy", "write", "sync", "rename", "end"}
Outside == {"start", "lock", "end"}
Results == {None, "saved", "nothing", "refused", "failed", "killed", "undone"}
DecisionSeqs == Seq(DecisionSet)
SavedFiles == [form : {"missing", "ok", "broken", "cut_short"}, approved : DecisionSeqs,
               synced : BOOLEAN]
Copies == UNION {[fs -> SUBSET Codes] : fs \in SUBSET Files}
Proc == [pc : Pcs, new : DecisionSeqs, list : SUBSET Worktrees, queue : DecisionSeqs,
         kept : DecisionSeqs, copies : Copies]

\* What the types of the variables are.
DiskOK ==
  /\ file \in SavedFiles /\ temp \in SavedFiles /\ temp.form # "broken"
  /\ backups \in Seq([whole : BOOLEAN, approved : DecisionSeqs])
CodeOK ==
  /\ trees \subseteq Worktrees /\ has \in [Worktrees -> SUBSET Codes]
  /\ bad \subseteq Worktrees \X Files
ProcsOK ==
  /\ proc \in [Procs -> Proc] /\ result \in [Procs -> Results]
  /\ since \in [Procs -> SUBSET (Worktrees \X Codes)]
  /\ lock \in Procs \cup {None}

\* Only the one who has the lock is past it.
LockOK == \A p \in Procs : proc[p].pc \in Outside <=> lock # p

\* Adders and droppers keep to their own steps.
StepsOK ==
  /\ \A p \in Adders : proc[p].pc \notin {"sort", "backup", "copy"}
  /\ \A p \in Adders : proc[p].pc \notin {"start", "end"} => p \in Held(proc[p].new)

\* The file is on disk whole, and what will replace it before it does.
WholeOK ==
  /\ file.synced /\ file.form # "cut_short"
  /\ \A p \in Procs :
       /\ proc[p].pc \in {"sync", "rename"} => temp.form = "ok" /\ temp.approved = proc[p].kept
       /\ proc[p].pc = "rename" => temp.synced

\* What an adder writes holds its decision and all others.
KeptOK ==
  \A p \in Adders : proc[p].pc \in {"write", "sync", "rename"} =>
    Held(file.approved) \cup {p} \subseteq Held(proc[p].kept)

\* What a dropper writes over is in a backup.
BackupOK ==
  \A p \in Droppers :
    /\ proc[p].pc = "copy" => backups # <<>> /\ ~backups[Len(backups)].whole
    /\ proc[p].pc \in {"write", "sync", "rename"} => Held(file.approved) \subseteq BackedUp

IInv ==
  /\ DiskOK /\ CodeOK /\ ProcsOK /\ LockOK /\ StepsOK /\ WholeOK /\ KeptOK /\ BackupOK
  /\ NoneLost

\* What a power cut may leave of the folder is a whole file that holds, with the
\* backups left, every decision whose save is not undone.
Backups == Seq([whole : BOOLEAN, approved : DecisionSeqs])
InBackups(bs) == UNION {Held(bs[i].approved) : i \in {j \in DOMAIN bs : bs[j].whole}}
LeftOK(left) ==
  /\ left.file \in SavedFiles /\ left.file.synced /\ left.file.form # "cut_short"
  /\ left.backups \in Backups /\ left.saved \subseteq Procs
  /\ left.saved \cap Adders \subseteq Held(left.file.approved) \cup InBackups(left.backups)
OlderInv == \A left \in older : LeftOK(left)

-----------------------------------------------------------------------------
\* The operators.

LEMMA Kinds ==
  /\ None \notin Procs /\ Adders \subseteq Procs /\ Droppers \subseteq Procs
  /\ Adders \cap Droppers = {} /\ Procs = Adders \cup Droppers
BY ApprovalsAssumption DEF Procs

LEMMA NewDecisions ==
  ASSUME NEW c \in Codes, NEW t \in Texts, NEW p \in Procs
  PROVE  /\ <<Decision(c, t, p)>> \in DecisionSeqs
         /\ p \in Held(<<Decision(c, t, p)>>)
<1>1. Decision(c, t, p) \in DecisionSet
  BY DEF Decision, DecisionSet
<1>2. <<Decision(c, t, p)>> \in DecisionSeqs
  BY <1>1 DEF DecisionSeqs
<1>3. Decision(c, t, p) \in ToSet(<<Decision(c, t, p)>>)
  BY DEF ToSet
<1>4. Decision(c, t, p).by = p
  BY DEF Decision
<1> QED BY <1>2, <1>3, <1>4 DEF Held

LEMMA SetOfJoined ==
  ASSUME NEW s \in DecisionSeqs, NEW t \in DecisionSeqs
  PROVE  /\ s \o t \in DecisionSeqs
         /\ Held(s) \cup Held(t) \subseteq Held(s \o t)
<1>1. s \o t \in DecisionSeqs
  BY DEF DecisionSeqs
<1>2. ToSet(s) \subseteq ToSet(s \o t)
  <2> SUFFICES ASSUME NEW i \in DOMAIN s PROVE s[i] \in ToSet(s \o t)
    BY DEF ToSet
  <2> QED BY DEF ToSet, DecisionSeqs
<1>3. ToSet(t) \subseteq ToSet(s \o t)
  <2> SUFFICES ASSUME NEW i \in DOMAIN t PROVE t[i] \in ToSet(s \o t)
    BY DEF ToSet
  <2>1. (s \o t)[Len(s) + i] = t[i] /\ Len(s) + i \in DOMAIN (s \o t)
    BY DEF DecisionSeqs
  <2> QED BY <2>1 DEF ToSet
<1> QED BY <1>1, <1>2, <1>3 DEF Held

LEMMA SetOfTyped ==
  ASSUME NEW s \in DecisionSeqs
  PROVE  ToSet(s) \subseteq DecisionSet
BY DEF ToSet, DecisionSeqs

LEMMA FirstAndRest ==
  ASSUME NEW s \in DecisionSeqs, s # <<>>
  PROVE  Head(s) \in DecisionSet /\ Tail(s) \in DecisionSeqs
<1>1. s \in Seq(DecisionSet)
  BY DEF DecisionSeqs
<1> HIDE DEF DecisionSet
<1>2. Head(s) \in DecisionSet /\ Tail(s) \in Seq(DecisionSet)
  BY <1>1
<1> QED BY <1>2 DEF DecisionSeqs

\* An unfinished backup hides no other.
LEMMA MoreBackups ==
  ASSUME DiskOK, NEW b, ~b.whole, b \in [whole : BOOLEAN, approved : DecisionSeqs],
         backups' = Append(backups, b)
  PROVE  /\ backups' \in Seq([whole : BOOLEAN, approved : DecisionSeqs])
         /\ backups' # <<>> /\ ~backups'[Len(backups')].whole
         /\ BackedUp \subseteq BackedUp'
<1>1. /\ backups' \in Seq([whole : BOOLEAN, approved : DecisionSeqs])
      /\ backups' # <<>> /\ backups'[Len(backups')] = b
  BY DEF DiskOK
<1>2. \A j \in DOMAIN backups : j \in DOMAIN backups' /\ backups'[j] = backups[j]
  BY DEF DiskOK
<1> QED BY <1>1, <1>2 DEF BackedUp

LEMMA CopiedBackup ==
  ASSUME DiskOK, backups # <<>>, ~backups[Len(backups)].whole,
         backups' = [backups EXCEPT ![Len(backups)] = [whole |-> TRUE, approved |-> file.approved]]
  PROVE  /\ backups' \in Seq([whole : BOOLEAN, approved : DecisionSeqs])
         /\ BackedUp \cup Held(file.approved) \subseteq BackedUp'
<1> DEFINE b == [whole |-> TRUE, approved |-> file.approved]
<1>1. b \in [whole : BOOLEAN, approved : DecisionSeqs]
  BY DEF DiskOK, SavedFiles
<1>2. /\ backups' \in Seq([whole : BOOLEAN, approved : DecisionSeqs])
      /\ Len(backups) \in DOMAIN backups /\ DOMAIN backups' = DOMAIN backups
  BY <1>1 DEF DiskOK
<1>3. backups'[Len(backups)] = b
  BY <1>2
<1>4. \A j \in DOMAIN backups : backups[j].whole => backups'[j] = backups[j]
  BY <1>2 DEF DiskOK
<1>5. BackedUp \subseteq BackedUp'
  BY <1>2, <1>4 DEF BackedUp
<1>6. Held(b.approved) \subseteq BackedUp'
  BY <1>2, <1>3 DEF BackedUp
<1> QED BY <1>2, <1>5, <1>6

-----------------------------------------------------------------------------
\* How a step moves one process.

LEMMA GotoMoves ==
  ASSUME ProcsOK, NEW p \in Procs, NEW l \in Pcs, Goto(p, l)
  PROVE  /\ proc' \in [Procs -> Proc]
         /\ \A q \in Procs \ {p} : proc'[q] = proc[q]
         /\ proc'[p].pc = l /\ proc'[p].new = proc[p].new /\ proc'[p].kept = proc[p].kept
<1>1. proc[p] \in Proc /\ [proc[p] EXCEPT !.pc = l] \in Proc
  BY DEF ProcsOK, Proc
<1>2. proc' = [proc EXCEPT ![p] = [proc[p] EXCEPT !.pc = l]]
  BY DEF ProcsOK, Goto
<1>3. proc' \in [Procs -> Proc] /\ proc'[p] = [proc[p] EXCEPT !.pc = l]
  BY <1>1, <1>2 DEF ProcsOK
<1> QED BY <1>1, <1>2, <1>3 DEF ProcsOK, Proc

LEMMA IdleTyped == [Idle EXCEPT !.pc = "end"] \in Proc /\ Idle \in Proc
<1>1. <<>> \in DecisionSeqs
  BY DEF DecisionSeqs
<1>2. [f \in {} |-> {}] \in [{} -> SUBSET Codes]
  OBVIOUS
<1>3. [f \in {} |-> {}] \in Copies
  BY <1>2 DEF Copies
<1> QED BY <1>1, <1>3 DEF Idle, Proc, Pcs

\* A process that ends by itself leaves what holds of the others.
LEMMA EndMoves ==
  ASSUME IInv, NEW p \in Procs, NEW o \in Results, End(p, o), proc[p].pc \in Pcs \ {"start", "end"}
  PROVE  /\ ProcsOK' /\ LockOK' /\ StepsOK'
         /\ \A q \in Procs \ {p} : proc'[q] = proc[q] /\ result'[q] = result[q]
         /\ proc'[p].pc = "end" /\ result'[p] = o
<1> DEFINE r == [Idle EXCEPT !.pc = "end"]
<1>1. /\ proc' \in [Procs -> Proc] /\ proc'[p].pc = "end"
      /\ \A q \in Procs \ {p} : proc'[q] = proc[q]
  BY IdleTyped DEF End, IInv, ProcsOK, Idle
<1>2. /\ result' \in [Procs -> Results] /\ result'[p] = o
      /\ \A q \in Procs \ {p} : result'[q] = result[q]
  BY DEF End, IInv, ProcsOK
<1>3. since' \in [Procs -> SUBSET (Worktrees \X Codes)]
  BY DEF End, IInv, ProcsOK
<1>4. lock' \in Procs \cup {None} /\ LockOK'
  BY <1>1, Kinds DEF End, IInv, ProcsOK, LockOK, Outside
<1>5. StepsOK'
  BY <1>1, Kinds DEF IInv, StepsOK
<1> QED BY <1>1, <1>2, <1>3, <1>4, <1>5 DEF ProcsOK

\* And keeps the invariant when it leaves the files alone.
LEMMA EndKeeps ==
  ASSUME IInv, NEW p \in Procs, NEW o \in Results \ {"saved"}, End(p, o),
         proc[p].pc \in Pcs \ {"start", "end"}, UNCHANGED <<disk, code>>
  PROVE  IInv'
<1>1. /\ ProcsOK' /\ LockOK' /\ StepsOK'
      /\ \A q \in Procs \ {p} : proc'[q] = proc[q] /\ result'[q] = result[q]
      /\ proc'[p].pc = "end" /\ result'[p] = o
  BY EndMoves
<1>2. DiskOK' /\ CodeOK' /\ BackedUp' = BackedUp
  BY DEF IInv, DiskOK, CodeOK, disk, code, BackedUp
<1>3. WholeOK'
  BY <1>1 DEF IInv, WholeOK, disk
<1>4. KeptOK'
  BY <1>1, Kinds DEF IInv, KeptOK, disk
<1>5. BackupOK'
  BY <1>1, <1>2, Kinds DEF IInv, BackupOK, disk
<1>6. NoneLost'
  <2>1. {q \in Adders : result'[q] = "saved"} \subseteq {q \in Adders : result[q] = "saved"}
    BY <1>1, Kinds
  <2> QED BY <1>2, <2>1 DEF IInv, NoneLost, disk
<1> QED BY <1>1, <1>2, <1>3, <1>4, <1>5, <1>6 DEF IInv

-----------------------------------------------------------------------------
\* The steps of both commands.

LEMMA InitStep == Init => IInv
<1> SUFFICES ASSUME Init PROVE IInv
  OBVIOUS
<1>1. <<>> \in DecisionSeqs /\ ToSet(<<>>) = {}
  BY DEF DecisionSeqs, ToSet
<1>2. Saved \subseteq DecisionSeqs
  <2> DEFINE Old == [code : Codes, text : Texts, by : {None}]
  <2>1. Old \subseteq DecisionSet
    BY DEF DecisionSet
  <2>2. SUFFICES ASSUME NEW s \in Seq(Old) PROVE s \in DecisionSeqs
    BY ApprovalsAssumption
  <2> HIDE DEF Old
  <2> QED BY <2>1 DEF DecisionSeqs
<1>3. NoFile \in SavedFiles /\ NoFile.synced /\ NoFile.form = "missing"
  BY <1>1 DEF NoFile, SavedFiles
<1>4. file \in SavedFiles /\ file.synced /\ file.form # "cut_short"
  BY <1>2, <1>3 DEF Init, SavedFiles
<1>5. DiskOK
  BY <1>3, <1>4 DEF Init, DiskOK
<1>6. CodeOK
  BY DEF Init, CodeOK
<1>7. ProcsOK /\ \A p \in Procs : proc[p].pc = "start"
  BY IdleTyped DEF Init, ProcsOK, Results, Idle
<1>8. LockOK /\ StepsOK /\ WholeOK /\ KeptOK /\ BackupOK
  BY <1>4, <1>7, Kinds DEF Init, LockOK, StepsOK, WholeOK, KeptOK, BackupOK, Outside
<1>9. NoneLost
  BY Kinds DEF Init, NoneLost, None
<1> QED BY <1>5, <1>6, <1>7, <1>8, <1>9 DEF IInv

LEMMA AddStep ==
  ASSUME IInv, NEW p \in Procs, Add(p)
  PROVE  IInv'
<1> PICK c \in Codes, t \in Texts :
      proc' = [proc EXCEPT ![p].pc = "lock", ![p].new = <<Decision(c, t, p)>>]
  BY DEF Add
<1> DEFINE r == [proc[p] EXCEPT !.pc = "lock", !.new = <<Decision(c, t, p)>>]
<1>1. <<Decision(c, t, p)>> \in DecisionSeqs /\ p \in Held(<<Decision(c, t, p)>>)
  BY NewDecisions
<1>2. proc[p] \in Proc /\ r \in Proc /\ r.pc = "lock" /\ r.new = <<Decision(c, t, p)>>
  BY <1>1 DEF IInv, ProcsOK, Proc, Pcs
<1>3. proc' = [proc EXCEPT ![p] = r]
  BY DEF IInv, ProcsOK
<1>4. proc' \in [Procs -> Proc] /\ proc'[p] = r /\ \A q \in Procs \ {p} : proc'[q] = proc[q]
  BY <1>2, <1>3 DEF IInv, ProcsOK
<1>5. p \in Adders /\ proc[p].pc = "start" /\ UNCHANGED <<file, temp, backups, lock, trees, has, bad, result, since>>
  BY DEF Add, disk, code
<1>6. DiskOK' /\ CodeOK' /\ ProcsOK'
  BY <1>4, <1>5 DEF IInv, DiskOK, CodeOK, ProcsOK
<1>7. LockOK' /\ StepsOK' /\ WholeOK' /\ KeptOK'
  BY <1>1, <1>2, <1>4, <1>5, Kinds DEF IInv, LockOK, Outside, StepsOK, WholeOK, KeptOK
<1>8. BackupOK' /\ NoneLost'
  <2>1. BackedUp' = BackedUp
    BY <1>5 DEF BackedUp
  <2> QED BY <2>1, <1>2, <1>4, <1>5, Kinds DEF IInv, BackupOK, NoneLost
<1> QED BY <1>6, <1>7, <1>8 DEF IInv

LEMMA ListWorktreesStep ==
  ASSUME IInv, NEW p \in Procs, ListWorktrees(p)
  PROVE  IInv'
<1> DEFINE r == [proc[p] EXCEPT !.pc = "lock", !.list = trees]
<1>1. /\ p \in Droppers /\ proc[p].pc = "start"
      /\ UNCHANGED <<file, temp, backups, lock, trees, has, bad, result, since>>
  BY DEF ListWorktrees, disk, code
<1>2. proc[p] \in Proc /\ r \in Proc /\ r.pc = "lock"
  BY DEF IInv, ProcsOK, CodeOK, Proc, Pcs
<1>3. proc' = [proc EXCEPT ![p] = r]
  BY DEF IInv, ProcsOK, ListWorktrees
<1>4. proc' \in [Procs -> Proc] /\ proc'[p] = r /\ \A q \in Procs \ {p} : proc'[q] = proc[q]
  BY <1>2, <1>3 DEF IInv, ProcsOK
<1>5. DiskOK' /\ CodeOK' /\ ProcsOK' /\ BackedUp' = BackedUp
  BY <1>1, <1>4 DEF IInv, DiskOK, CodeOK, ProcsOK, BackedUp
<1>6. LockOK' /\ StepsOK'
  BY <1>1, <1>2, <1>4, Kinds DEF IInv, LockOK, Outside, StepsOK
<1>7. WholeOK' /\ KeptOK'
  BY <1>1, <1>2, <1>4, Kinds DEF IInv, WholeOK, KeptOK
<1>8. BackupOK' /\ NoneLost'
  BY <1>1, <1>2, <1>4, <1>5, Kinds DEF IInv, BackupOK, NoneLost
<1> QED BY <1>5, <1>6, <1>7, <1>8 DEF IInv

LEMMA LockStep ==
  ASSUME IInv, NEW p \in Procs, Lock(p)
  PROVE  IInv'
<1>1. /\ proc[p].pc = "lock" /\ lock = None /\ lock' = p
      /\ Goto(p, "read")
      /\ UNCHANGED <<file, temp, backups, trees, has, bad, result>>
  BY DEF Lock, disk, code
<1>2. /\ proc' \in [Procs -> Proc] /\ \A q \in Procs \ {p} : proc'[q] = proc[q]
      /\ proc'[p].pc = "read" /\ proc'[p].new = proc[p].new
  BY <1>1, GotoMoves DEF IInv, Pcs
<1>3. since' \in [Procs -> SUBSET (Worktrees \X Codes)]
  BY DEF Lock, IInv, ProcsOK, CodeOK
<1>4. DiskOK' /\ CodeOK' /\ ProcsOK' /\ BackedUp' = BackedUp
  BY <1>1, <1>2, <1>3 DEF IInv, DiskOK, CodeOK, ProcsOK, BackedUp
<1>5. LockOK'
  BY <1>1, <1>2, Kinds DEF IInv, LockOK, Outside
<1>6. StepsOK' /\ WholeOK' /\ KeptOK'
  BY <1>1, <1>2, Kinds DEF IInv, StepsOK, WholeOK, KeptOK
<1>7. BackupOK' /\ NoneLost'
  BY <1>1, <1>2, <1>4, Kinds DEF IInv, BackupOK, NoneLost
<1> QED BY <1>4, <1>5, <1>6, <1>7 DEF IInv

\* What the one who has the lock leaves true of the others: none is past it.
LEMMA Alone ==
  ASSUME IInv, NEW p \in Procs, proc[p].pc \notin Outside, NEW q \in Procs \ {p}
  PROVE  lock = p /\ proc[q].pc \in Outside
BY DEF IInv, LockOK

LEMMA ReadSavedStep ==
  ASSUME IInv, NEW p \in Procs, ReadSaved(p)
  PROVE  IInv'
<1>1. proc[p].pc = "read" /\ UNCHANGED <<disk, code>>
  BY DEF ReadSaved
<1>2. CASE file.form \notin {"missing", "ok"}
  BY <1>1, <1>2, EndKeeps DEF ReadSaved, Pcs, Results
<1>3. CASE file.form \in {"missing", "ok"}
  <2> DEFINE kept == IF p \in Adders THEN file.approved \o proc[p].new ELSE <<>>
             l == IF p \in Adders THEN "write" ELSE "sort"
             r == [proc[p] EXCEPT !.pc = l, !.queue = file.approved, !.kept = kept]
  <2>1. /\ proc' = [proc EXCEPT ![p].pc = l, ![p].queue = file.approved, ![p].kept = kept]
        /\ UNCHANGED <<lock, result, since>>
    BY <1>1, <1>3 DEF ReadSaved
  <2>2. file.approved \in DecisionSeqs /\ proc[p].new \in DecisionSeqs
    BY DEF IInv, DiskOK, SavedFiles, ProcsOK, Proc
  <2>3. kept \in DecisionSeqs
    BY <2>2, SetOfJoined DEF DecisionSeqs
  <2>4. p \in Adders => Held(file.approved) \cup {p} \subseteq Held(kept)
    BY <1>1, <2>2, SetOfJoined DEF IInv, StepsOK
  <2> HIDE DEF kept
  <2>5. l \in Pcs /\ l \notin Outside /\ l \in {"write", "sort"} /\ (p \in Adders => l = "write")
    BY DEF Pcs, Outside
  <2> HIDE DEF l
  <2>6. /\ proc[p] \in Proc /\ r \in Proc
        /\ r.pc = l /\ r.new = proc[p].new /\ r.kept = kept
    BY <2>2, <2>3, <2>5 DEF IInv, ProcsOK, Proc
  <2>7. proc' = [proc EXCEPT ![p] = r]
    BY <2>1 DEF IInv, ProcsOK
  <2>8. proc' \in [Procs -> Proc] /\ proc'[p] = r /\ \A q \in Procs \ {p} : proc'[q] = proc[q]
    BY <2>6, <2>7 DEF IInv, ProcsOK
  <2>9. DiskOK' /\ CodeOK' /\ ProcsOK' /\ BackedUp' = BackedUp
    BY <1>1, <2>1, <2>8 DEF IInv, DiskOK, CodeOK, ProcsOK, BackedUp, disk, code
  <2>10. LockOK'
    BY <1>1, <2>1, <2>5, <2>6, <2>8 DEF IInv, LockOK, Outside
  <2>11. StepsOK'
    BY <1>1, <2>5, <2>6, <2>8, Kinds DEF IInv, StepsOK
  <2>12. WholeOK' /\ KeptOK'
    <3>1. WholeOK'
      BY <1>1, <2>5, <2>6, <2>8 DEF IInv, WholeOK, disk
    <3>2. KeptOK'
      BY <1>1, <2>4, <2>6, <2>8, Kinds DEF IInv, KeptOK, disk
    <3> QED BY <3>1, <3>2
  <2>13. BackupOK' /\ NoneLost'
    <3>1. UNCHANGED <<file, backups, result>> /\ proc'[p].pc \in {"write", "sort"}
      BY <1>1, <2>1, <2>5, <2>6, <2>8 DEF disk
    <3>2. p \in Droppers => proc'[p].pc = "sort"
      BY <2>5, <2>6, <2>8, Kinds DEF l
    <3>3. BackupOK'
      BY <2>8, <2>9, <3>1, <3>2, Kinds DEF IInv, BackupOK
    <3>4. NoneLost'
      BY <2>9, <3>1 DEF IInv, NoneLost
    <3> QED BY <3>3, <3>4
  <2> QED BY <2>9, <2>10, <2>11, <2>12, <2>13 DEF IInv
<1> QED BY <1>2, <1>3

-----------------------------------------------------------------------------
\* The steps of a drop.

\* The copies of one more file.
LEMMA MoreCopies ==
  ASSUME NEW cs \in Copies, NEW f \in Files, NEW new \in SUBSET Codes, NEW read \in BOOLEAN,
         f \in DOMAIN cs \/ read
  PROVE  [g \in DOMAIN cs \cup {f} |-> IF g = f /\ read THEN new ELSE cs[g]] \in Copies
<1> PICK fs \in SUBSET Files : cs \in [fs -> SUBSET Codes]
  BY DEF Copies
<1>1. fs \cup {f} \in SUBSET Files
  OBVIOUS
<1>2. [g \in DOMAIN cs \cup {f} |-> IF g = f /\ read THEN new ELSE cs[g]]
        \in [fs \cup {f} -> SUBSET Codes]
  OBVIOUS
<1> QED BY <1>1, <1>2 DEF Copies

LEMMA SortOneStep ==
  ASSUME IInv, NEW p \in Procs, SortOne(p)
  PROVE  IInv'
<1> DEFINE d == Head(proc[p].queue)
           f == d.code[1]
           read == f \notin DOMAIN proc[p].copies
           new == CopiesOf(proc[p].list, f)
           copies == [g \in DOMAIN proc[p].copies \cup {f} |->
                        IF g = f /\ read THEN new ELSE proc[p].copies[g]]
           kept == IF d.code \in copies[f] THEN Append(proc[p].kept, d) ELSE proc[p].kept
           r == [proc[p] EXCEPT !.queue = Tail(@), !.copies = copies, !.kept = kept]
<1>1. /\ proc[p].pc = "sort" /\ proc[p].queue # <<>> /\ UNCHANGED <<disk, code>>
      /\ \/ End(p, "refused")
         \/ /\ proc' = [proc EXCEPT ![p].queue = Tail(@), ![p].copies = copies, ![p].kept = kept]
            /\ UNCHANGED <<lock, result, since>>
  BY DEF SortOne, IInv, ProcsOK, Proc
<1>2. CASE End(p, "refused")
  BY <1>1, <1>2, EndKeeps DEF Pcs, Results
<1>3. CASE /\ proc' = [proc EXCEPT ![p].queue = Tail(@), ![p].copies = copies, ![p].kept = kept]
           /\ UNCHANGED <<lock, result, since>>
  <2>1. proc[p] \in Proc
    BY DEF IInv, ProcsOK
  <2>2. proc[p].queue \in DecisionSeqs /\ proc[p].kept \in DecisionSeqs /\ proc[p].copies \in Copies
    BY <2>1 DEF Proc
  <2>3. d \in DecisionSet /\ Tail(proc[p].queue) \in DecisionSeqs
    BY <1>1, <2>2, FirstAndRest
  <2>4. f \in Files
    BY <2>3 DEF DecisionSet, Files
  <2>5. new \in SUBSET Codes
    BY DEF CopiesOf
  <2>6. copies \in Copies
    BY <2>2, <2>4, <2>5, MoreCopies
  <2>7. kept \in DecisionSeqs
    BY <2>2, <2>3 DEF DecisionSeqs
  <2> HIDE DEF copies, kept
  <2>8. r \in Proc /\ r.pc = "sort" /\ r.new = proc[p].new
    BY <1>1, <2>1, <2>3, <2>6, <2>7 DEF Proc
  <2>9. proc' = [proc EXCEPT ![p] = r]
    BY <1>3 DEF IInv, ProcsOK
  <2>10. proc' \in [Procs -> Proc] /\ proc'[p] = r /\ \A q \in Procs \ {p} : proc'[q] = proc[q]
    BY <2>8, <2>9 DEF IInv, ProcsOK
  <2>11. DiskOK' /\ CodeOK' /\ ProcsOK' /\ BackedUp' = BackedUp
    BY <1>1, <1>3, <2>10 DEF IInv, DiskOK, CodeOK, ProcsOK, BackedUp, disk, code
  <2>12. LockOK' /\ StepsOK'
    BY <1>1, <1>3, <2>8, <2>10, Kinds DEF IInv, LockOK, StepsOK, Outside
  <2>13. WholeOK' /\ KeptOK'
    <3>1. WholeOK'
      BY <1>1, <2>8, <2>10 DEF IInv, WholeOK, disk
    <3>2. KeptOK'
      BY <1>1, <2>8, <2>10, Kinds DEF IInv, KeptOK, disk
    <3> QED BY <3>1, <3>2
  <2>14. BackupOK' /\ NoneLost'
    BY <1>1, <1>3, <2>8, <2>10, <2>11, Kinds DEF IInv, BackupOK, NoneLost, disk
  <2> QED BY <2>11, <2>12, <2>13, <2>14 DEF IInv
<1> QED BY <1>1, <1>2, <1>3

LEMMA SortedStep ==
  ASSUME IInv, NEW p \in Procs, Sorted(p)
  PROVE  IInv'
<1>1. proc[p].pc = "sort" /\ UNCHANGED <<file, temp, backups, older, trees, has, bad>>
  BY DEF Sorted, disk, code
<1>2. CASE End(p, "nothing")
  BY <1>1, <1>2, EndKeeps DEF Pcs, Results, disk, code
<1>3. CASE Goto(p, "backup") /\ UNCHANGED <<lock, result, since>>
  <2>1. /\ proc' \in [Procs -> Proc] /\ \A q \in Procs \ {p} : proc'[q] = proc[q]
        /\ proc'[p].pc = "backup"
    BY <1>3, GotoMoves DEF IInv, Pcs
  <2>2. DiskOK' /\ CodeOK' /\ ProcsOK' /\ BackedUp' = BackedUp
    BY <1>1, <1>3, <2>1 DEF IInv, DiskOK, CodeOK, ProcsOK, BackedUp
  <2>3. LockOK' /\ StepsOK'
    BY <1>1, <1>3, <2>1, Kinds DEF IInv, LockOK, StepsOK, Outside
  <2>4. WholeOK' /\ KeptOK'
    BY <1>1, <2>1, Kinds DEF IInv, WholeOK, KeptOK
  <2>5. BackupOK' /\ NoneLost'
    BY <1>1, <1>3, <2>1, <2>2, Kinds DEF IInv, BackupOK, NoneLost
  <2> QED BY <2>2, <2>3, <2>4, <2>5 DEF IInv
<1> QED BY <1>2, <1>3 DEF Sorted

LEMMA CreateBackupStep ==
  ASSUME IInv, NEW p \in Procs, CreateBackup(p)
  PROVE  IInv'
<1> DEFINE b == [whole |-> FALSE, approved |-> <<>>]
<1>1. /\ proc[p].pc = "backup" /\ backups' = Append(backups, b)
      /\ Goto(p, "copy") /\ UNCHANGED <<file, temp, lock, trees, has, bad, result, since>>
  BY DEF CreateBackup, code
<1>2. ~b.whole /\ b \in [whole : BOOLEAN, approved : DecisionSeqs]
  BY DEF DecisionSeqs
<1> HIDE DEF b
<1>3. /\ backups' \in Seq([whole : BOOLEAN, approved : DecisionSeqs])
      /\ backups' # <<>> /\ ~backups'[Len(backups')].whole
      /\ BackedUp \subseteq BackedUp'
  BY <1>1, <1>2, MoreBackups DEF IInv
<1>4. /\ proc' \in [Procs -> Proc] /\ \A q \in Procs \ {p} : proc'[q] = proc[q]
      /\ proc'[p].pc = "copy"
  BY <1>1, GotoMoves DEF IInv, Pcs
<1>5. DiskOK' /\ CodeOK' /\ ProcsOK'
  BY <1>1, <1>3, <1>4 DEF IInv, DiskOK, CodeOK, ProcsOK
<1>6. LockOK' /\ StepsOK'
  BY <1>1, <1>4, Kinds DEF IInv, LockOK, StepsOK, Outside
<1>7. WholeOK' /\ KeptOK'
  BY <1>1, <1>4, Kinds DEF IInv, WholeOK, KeptOK
<1>8. BackupOK'
  <2> SUFFICES ASSUME NEW q \in Droppers
               PROVE  /\ proc'[q].pc = "copy" => backups' # <<>> /\ ~backups'[Len(backups')].whole
                      /\ proc'[q].pc \in {"write", "sync", "rename"} => Held(file'.approved) \subseteq BackedUp'
    BY DEF BackupOK
  <2>1. CASE q = p
    BY <1>3, <1>4, <2>1
  <2>2. CASE q # p
    BY <1>1, <1>4, <2>2, Alone, Kinds DEF Outside
  <2> QED BY <2>1, <2>2
<1>9. NoneLost'
  BY <1>1, <1>3 DEF IInv, NoneLost
<1> QED BY <1>5, <1>6, <1>7, <1>8, <1>9 DEF IInv

LEMMA CopyBackupStep ==
  ASSUME IInv, NEW p \in Procs, CopyBackup(p)
  PROVE  IInv'
<1>1. /\ proc[p].pc = "copy"
      /\ backups' = [backups EXCEPT ![Len(backups)] = [whole |-> TRUE, approved |-> file.approved]]
      /\ Goto(p, "write") /\ UNCHANGED <<file, temp, lock, trees, has, bad, result, since>>
  BY DEF CopyBackup, code
<1>2. p \in Droppers /\ backups # <<>> /\ ~backups[Len(backups)].whole
  BY <1>1, Kinds DEF IInv, StepsOK, BackupOK
<1>3. /\ backups' \in Seq([whole : BOOLEAN, approved : DecisionSeqs])
      /\ BackedUp \cup Held(file.approved) \subseteq BackedUp'
  BY <1>1, <1>2, CopiedBackup DEF IInv
<1>4. /\ proc' \in [Procs -> Proc] /\ \A q \in Procs \ {p} : proc'[q] = proc[q]
      /\ proc'[p].pc = "write"
  BY <1>1, GotoMoves DEF IInv, Pcs
<1>5. DiskOK' /\ CodeOK' /\ ProcsOK'
  BY <1>1, <1>3, <1>4 DEF IInv, DiskOK, CodeOK, ProcsOK
<1>6. LockOK' /\ StepsOK'
  BY <1>1, <1>2, <1>4, Kinds DEF IInv, LockOK, StepsOK, Outside
<1>7. WholeOK' /\ KeptOK'
  BY <1>1, <1>2, <1>4, Kinds DEF IInv, WholeOK, KeptOK
<1>8. BackupOK'
  <2> SUFFICES ASSUME NEW q \in Droppers
               PROVE  /\ proc'[q].pc = "copy" => backups' # <<>> /\ ~backups'[Len(backups')].whole
                      /\ proc'[q].pc \in {"write", "sync", "rename"} => Held(file'.approved) \subseteq BackedUp'
    BY DEF BackupOK
  <2>1. CASE q = p
    BY <1>1, <1>3, <1>4, <2>1
  <2>2. CASE q # p
    BY <1>1, <1>4, <2>2, Alone, Kinds DEF Outside
  <2> QED BY <2>1, <2>2
<1>9. NoneLost'
  BY <1>1, <1>3 DEF IInv, NoneLost
<1> QED BY <1>5, <1>6, <1>7, <1>8, <1>9 DEF IInv

-----------------------------------------------------------------------------
\* The file is replaced.

LEMMA WriteTempStep ==
  ASSUME IInv, NEW p \in Procs, WriteTemp(p)
  PROVE  IInv'
<1>1. /\ proc[p].pc = "write"
      /\ temp' = [form |-> "ok", approved |-> proc[p].kept, synced |-> FALSE]
      /\ Goto(p, "sync") /\ UNCHANGED <<file, backups, lock, trees, has, bad, result, since>>
  BY DEF WriteTemp, code
<1>2. /\ proc' \in [Procs -> Proc] /\ \A q \in Procs \ {p} : proc'[q] = proc[q]
      /\ proc'[p].pc = "sync" /\ proc'[p].kept = proc[p].kept /\ proc'[p].new = proc[p].new
  BY <1>1, GotoMoves DEF IInv, Pcs
<1>3. proc[p].kept \in DecisionSeqs
  BY DEF IInv, ProcsOK, Proc
<1>4. temp' \in SavedFiles /\ temp'.form = "ok" /\ temp'.approved = proc[p].kept
  BY <1>1, <1>3 DEF SavedFiles
<1>5. DiskOK' /\ CodeOK' /\ ProcsOK' /\ BackedUp' = BackedUp
  BY <1>1, <1>2, <1>4 DEF IInv, DiskOK, CodeOK, ProcsOK, BackedUp
<1>6. LockOK' /\ StepsOK'
  BY <1>1, <1>2, Kinds DEF IInv, LockOK, StepsOK, Outside
<1>7. WholeOK'
  <2> SUFFICES ASSUME NEW q \in Procs, proc'[q].pc \in {"sync", "rename"}
               PROVE  q = p
    BY <1>1, <1>2, <1>4 DEF IInv, WholeOK
  <2> QED BY <1>1, <1>2, Alone DEF Outside
<1>8. KeptOK'
  BY <1>1, <1>2, Kinds DEF IInv, KeptOK
<1>9. BackupOK' /\ NoneLost'
  BY <1>1, <1>2, <1>5, Kinds DEF IInv, BackupOK, NoneLost
<1> QED BY <1>5, <1>6, <1>7, <1>8, <1>9 DEF IInv

LEMMA SyncTempStep ==
  ASSUME IInv, NEW p \in Procs, SyncTemp(p)
  PROVE  IInv'
<1>1. /\ proc[p].pc = "sync" /\ temp' = [temp EXCEPT !.synced = TRUE]
      /\ Goto(p, "rename") /\ UNCHANGED <<file, backups, lock, trees, has, bad, result, since>>
  BY DEF SyncTemp, code
<1>2. /\ proc' \in [Procs -> Proc] /\ \A q \in Procs \ {p} : proc'[q] = proc[q]
      /\ proc'[p].pc = "rename" /\ proc'[p].kept = proc[p].kept /\ proc'[p].new = proc[p].new
  BY <1>1, GotoMoves DEF IInv, Pcs
<1>3. /\ temp' \in SavedFiles /\ temp'.form = temp.form /\ temp'.approved = temp.approved
      /\ temp'.synced
  BY <1>1 DEF IInv, DiskOK, SavedFiles
<1>4. DiskOK' /\ CodeOK' /\ ProcsOK' /\ BackedUp' = BackedUp
  BY <1>1, <1>2, <1>3 DEF IInv, DiskOK, CodeOK, ProcsOK, BackedUp
<1>5. LockOK' /\ StepsOK'
  BY <1>1, <1>2, Kinds DEF IInv, LockOK, StepsOK, Outside
<1>6. WholeOK'
  BY <1>1, <1>2, <1>3 DEF IInv, WholeOK
<1>7. KeptOK'
  BY <1>1, <1>2, Kinds DEF IInv, KeptOK
<1>8. BackupOK' /\ NoneLost'
  BY <1>1, <1>2, <1>4, Kinds DEF IInv, BackupOK, NoneLost
<1> QED BY <1>4, <1>5, <1>6, <1>7, <1>8 DEF IInv

LEMMA RenameStep ==
  ASSUME IInv, NEW p \in Procs, Rename(p)
  PROVE  IInv'
<1>1. /\ proc[p].pc = "rename" /\ file' = temp /\ temp' = NoFile /\ End(p, "saved")
      /\ UNCHANGED <<backups, trees, has, bad>>
  BY DEF Rename, code
<1>2. /\ ProcsOK' /\ LockOK' /\ StepsOK'
      /\ \A q \in Procs \ {p} : proc'[q] = proc[q] /\ result'[q] = result[q]
      /\ proc'[p].pc = "end" /\ result'[p] = "saved"
  BY <1>1, EndMoves DEF Pcs, Results
<1>3. \A q \in Procs : proc'[q].pc \in Outside
  BY <1>1, <1>2, Alone DEF Outside
<1>4. file'.form = "ok" /\ file'.synced /\ file'.approved = proc[p].kept
  BY <1>1 DEF IInv, WholeOK
<1>5. NoFile \in SavedFiles /\ NoFile.form # "broken"
  BY DEF NoFile, SavedFiles, DecisionSeqs
<1>6. DiskOK' /\ CodeOK' /\ BackedUp' = BackedUp
  BY <1>1, <1>5 DEF IInv, DiskOK, CodeOK, BackedUp
<1>7. WholeOK'
  BY <1>3, <1>4 DEF WholeOK, Outside
<1>8. KeptOK' /\ BackupOK'
  BY <1>3, Kinds DEF KeptOK, BackupOK, Outside
<1>9. NoneLost'
  <2>1. SUFFICES ASSUME NEW q \in Adders, result'[q] = "saved"
                 PROVE  q \in Held(file'.approved) \cup BackedUp
    BY <1>6 DEF NoneLost
  <2>2. q # p => q \in Held(file.approved) \cup BackedUp
    BY <1>2, <2>1, Kinds DEF IInv, NoneLost
  <2>3. CASE p \in Adders
    <3>1. Held(file.approved) \cup {p} \subseteq Held(file'.approved)
      BY <1>1, <1>4, <2>3 DEF IInv, KeptOK
    <3> QED BY <2>2, <3>1
  <2>4. CASE p \in Droppers
    <3>1. Held(file.approved) \subseteq BackedUp
      BY <1>1, <2>4 DEF IInv, BackupOK
    <3> QED BY <2>2, <2>4, <3>1, Kinds
  <2> QED BY <2>3, <2>4, Kinds
<1> QED BY <1>2, <1>6, <1>7, <1>8, <1>9 DEF IInv

LEMMA FailStep ==
  ASSUME IInv, NEW p \in Procs, Fail(p)
  PROVE  IInv'
<1>1. proc[p].pc \in Pcs \ {"start", "end"}
  BY DEF Fail, IInv, ProcsOK, Proc
<1> QED BY <1>1, EndKeeps DEF Fail, Results

-----------------------------------------------------------------------------
\* What else happens.

\* The folder as it is is one a power cut may leave.
LEMMA FolderLeft == IInv => LeftOK(Folder)
<1> SUFFICES ASSUME IInv PROVE LeftOK(Folder)
  OBVIOUS
<1>1. /\ Folder.file = file /\ Folder.backups = backups
      /\ Folder.saved = {p \in Procs : result[p] = "saved"}
  BY DEF Folder
<1>2. BackedUp = InBackups(backups)
  BY DEF BackedUp, InBackups
<1>3. file \in SavedFiles /\ file.synced /\ file.form # "cut_short" /\ backups \in Backups
  BY DEF IInv, DiskOK, WholeOK, Backups
<1>4. Folder.saved \cap Adders \subseteq Held(file.approved) \cup InBackups(backups)
  BY <1>1, <1>2 DEF IInv, NoneLost
<1> QED BY <1>1, <1>3, <1>4 DEF LeftOK

LEMMA PowerCutStep ==
  ASSUME IInv, OlderInv, PowerCut
  PROVE  IInv'
<1>1. PICK left \in older \cup {Folder} :
        /\ file' = AfterCut(left.file) /\ backups' = left.backups
        /\ result' = [p \in Procs |->
                        IF proc[p].pc \notin {"start", "end"} THEN "killed"
                        ELSE IF result[p] = "saved" /\ p \notin left.saved THEN "undone"
                        ELSE result[p]]
  BY DEF PowerCut
<1>2. LeftOK(left)
  BY FolderLeft DEF OlderInv
<1>3. file' = left.file /\ file'.synced /\ file'.form # "cut_short"
  BY <1>1, <1>2 DEF LeftOK, AfterCut
<1>4. AfterCut(temp) \in SavedFiles /\ AfterCut(temp).form # "broken"
  BY DEF IInv, DiskOK, SavedFiles, AfterCut, DecisionSeqs
<1>5. \A p \in Procs : proc'[p].pc \in {"start", "end"}
  BY DEF PowerCut, Idle
<1>6. DiskOK' /\ CodeOK'
  BY <1>1, <1>2, <1>3, <1>4 DEF PowerCut, IInv, DiskOK, CodeOK, code, LeftOK, Backups
<1>7. ProcsOK'
  <2>1. \A p \in Procs : result'[p] \in Results
    BY <1>1 DEF IInv, ProcsOK, Results
  <2>2. result' \in [Procs -> Results]
    BY <1>1, <2>1
  <2> QED BY <2>2, IdleTyped DEF PowerCut, IInv, ProcsOK
<1>8. LockOK' /\ StepsOK'
  BY <1>5, Kinds DEF PowerCut, LockOK, StepsOK, Outside
<1>9. WholeOK' /\ KeptOK' /\ BackupOK'
  BY <1>3, <1>5, Kinds DEF WholeOK, KeptOK, BackupOK
<1>10. NoneLost'
  <2>1. {q \in Adders : result'[q] = "saved"} \subseteq left.saved \cap Adders
    BY <1>1, Kinds
  <2>2. BackedUp' = InBackups(left.backups)
    BY <1>1 DEF BackedUp, InBackups
  <2> QED BY <1>2, <1>3, <2>1, <2>2 DEF NoneLost, LeftOK
<1> QED BY <1>6, <1>7, <1>8, <1>9, <1>10 DEF IInv

\* A step adds at most the folder as it is.
LEMMA OlderKeeps == IInv /\ OlderInv /\ [Next]_vars => OlderInv'
<1> SUFFICES ASSUME IInv, OlderInv, [Next]_vars PROVE OlderInv'
  OBVIOUS
<1> SUFFICES older' \subseteq older \cup {Folder}
  BY FolderLeft DEF OlderInv, LeftOK
<1>1. ASSUME NEW p \in Procs, Add(p) \/ ListWorktrees(p) \/ Lock(p) \/ ReadSaved(p) \/ SortOne(p) \/ Sorted(p)
      PROVE  older' = older
  BY <1>1 DEF Add, ListWorktrees, Lock, ReadSaved, SortOne, Sorted, disk
<1>2. ASSUME NEW p \in Procs, CreateBackup(p) \/ Rename(p) PROVE older' = older \cup {Folder}
  BY <1>2 DEF CreateBackup, Rename
<1>3. ASSUME NEW p \in Procs, CopyBackup(p) \/ WriteTemp(p) \/ SyncTemp(p) \/ Fail(p) PROVE older' = older
  BY <1>3 DEF CopyBackup, WriteTemp, SyncTemp, Fail, disk
<1>4. CASE PowerCut \/ Break
  BY <1>4 DEF PowerCut, Break
<1>5. ASSUME NEW w \in Worktrees, ChangeCode(w) \/ ChangeTrees(w) PROVE older' = older
  BY <1>5 DEF ChangeCode, ChangeTrees, disk
<1>6. CASE UNCHANGED vars
  BY <1>6 DEF vars
<1> QED BY <1>1, <1>2, <1>3, <1>4, <1>5, <1>6 DEF Next

LEMMA BreakStep ==
  ASSUME IInv, Break
  PROVE  IInv'
<1> DEFINE l == IF file.form = "ok" THEN "broken" ELSE "ok"
<1>1. /\ file' = [file EXCEPT !.form = l] /\ lock = None
      /\ UNCHANGED <<temp, backups, lock, trees, has, bad, proc, result, since>>
  BY DEF Break, code
<1>2. /\ file' \in SavedFiles /\ file'.form # "cut_short" /\ file'.synced = file.synced
      /\ file'.approved = file.approved
  BY <1>1 DEF IInv, DiskOK, SavedFiles
<1>3. \A p \in Procs : proc[p].pc \in Outside
  BY <1>1, Kinds DEF IInv, LockOK
<1>4. DiskOK' /\ CodeOK' /\ ProcsOK' /\ BackedUp' = BackedUp
  BY <1>1, <1>2 DEF IInv, DiskOK, CodeOK, ProcsOK, BackedUp
<1>5. LockOK' /\ StepsOK' /\ WholeOK'
  BY <1>1, <1>2 DEF IInv, LockOK, StepsOK, WholeOK
<1>6. KeptOK' /\ BackupOK' /\ NoneLost'
  BY <1>1, <1>2, <1>4 DEF IInv, KeptOK, BackupOK, NoneLost
<1> QED BY <1>4, <1>5, <1>6 DEF IInv

\* The worktrees' code is not the file's.
LEMMA CodeKeeps ==
  ASSUME IInv, CodeOK', since' \in [Procs -> SUBSET (Worktrees \X Codes)],
         UNCHANGED <<disk, lock, proc, result>>
  PROVE  IInv'
<1>1. DiskOK' /\ ProcsOK' /\ BackedUp' = BackedUp
  BY DEF IInv, DiskOK, ProcsOK, BackedUp, disk
<1>2. LockOK' /\ StepsOK' /\ WholeOK' /\ KeptOK'
  BY DEF IInv, LockOK, StepsOK, WholeOK, KeptOK, disk
<1>3. BackupOK' /\ NoneLost'
  BY <1>1 DEF IInv, BackupOK, NoneLost, disk
<1> QED BY <1>1, <1>2, <1>3 DEF IInv

LEMMA ChangeCodeStep ==
  ASSUME IInv, NEW w \in Worktrees, ChangeCode(w)
  PROVE  IInv'
<1>1. since' \in [Procs -> SUBSET (Worktrees \X Codes)]
  BY DEF ChangeCode, IInv, ProcsOK
<1>2. has' \in [Worktrees -> SUBSET Codes] /\ bad' \subseteq Worktrees \X Files
  BY DEF ChangeCode, IInv, CodeOK
<1>3. UNCHANGED <<disk, lock, trees, proc, result>>
  BY DEF ChangeCode
<1>4. CodeOK'
  BY <1>2, <1>3 DEF IInv, CodeOK
<1> QED BY <1>1, <1>3, <1>4, CodeKeeps

LEMMA ChangeTreesStep ==
  ASSUME IInv, NEW w \in Worktrees, ChangeTrees(w)
  PROVE  IInv'
<1>1. since' \in [Procs -> SUBSET (Worktrees \X Codes)]
  BY DEF ChangeTrees, IInv, ProcsOK
<1>2. trees' \subseteq Worktrees /\ UNCHANGED <<disk, lock, has, bad, proc, result>>
  BY DEF ChangeTrees, IInv, CodeOK
<1>3. CodeOK'
  BY <1>2 DEF IInv, CodeOK
<1> QED BY <1>1, <1>2, <1>3, CodeKeeps

-----------------------------------------------------------------------------

\* Every step keeps the invariant.
LEMMA StepKeeps == IInv /\ OlderInv /\ [Next]_vars => IInv'
<1> SUFFICES ASSUME IInv, OlderInv, [Next]_vars PROVE IInv'
  OBVIOUS
<1>1. ASSUME NEW p \in Procs, Add(p) \/ ListWorktrees(p) \/ Lock(p) \/ ReadSaved(p) PROVE IInv'
  BY <1>1, AddStep, ListWorktreesStep, LockStep, ReadSavedStep
<1>2. ASSUME NEW p \in Procs, SortOne(p) \/ Sorted(p) \/ CreateBackup(p) \/ CopyBackup(p) PROVE IInv'
  BY <1>2, SortOneStep, SortedStep, CreateBackupStep, CopyBackupStep
<1>3. ASSUME NEW p \in Procs, WriteTemp(p) \/ SyncTemp(p) \/ Rename(p) \/ Fail(p) PROVE IInv'
  BY <1>3, WriteTempStep, SyncTempStep, RenameStep, FailStep
<1>4. CASE PowerCut \/ Break
  BY <1>4, PowerCutStep, BreakStep
<1>5. ASSUME NEW w \in Worktrees, ChangeCode(w) \/ ChangeTrees(w) PROVE IInv'
  BY <1>5, ChangeCodeStep, ChangeTreesStep
<1>6. CASE UNCHANGED vars
  <2>1. UNCHANGED <<disk, lock, proc, result>> /\ UNCHANGED <<trees, has, bad, since>>
    BY <1>6 DEF vars, disk
  <2>2. CodeOK' /\ since' \in [Procs -> SUBSET (Worktrees \X Codes)]
    BY <2>1 DEF IInv, CodeOK, ProcsOK
  <2> QED BY <2>1, <2>2, CodeKeeps
<1> QED BY <1>1, <1>2, <1>3, <1>4, <1>5, <1>6 DEF Next

LEMMA InvHolds == Spec => [](IInv /\ OlderInv)
<1>1. Init => IInv /\ OlderInv
  BY InitStep DEF Init, OlderInv
<1>2. IInv /\ OlderInv /\ [Next]_vars => IInv' /\ OlderInv'
  BY StepKeeps, OlderKeeps
<1> QED BY <1>1, <1>2, PTL DEF Spec

\* Every reachable state is well formed, and only the one who has the lock is
\* between taking it and its end (approvals.rs:195).
THEOREM TypeCorrect == Spec => []TypeOK
<1>1. IInv /\ OlderInv => TypeOK
  <2> SUFFICES ASSUME IInv, OlderInv PROVE TypeOK
    OBVIOUS
  <2>1. /\ file.form \in {"missing", "ok", "broken", "cut_short"}
        /\ temp.form \in {"missing", "ok", "cut_short"}
        /\ file.approved \in DecisionSeqs /\ temp.approved \in DecisionSeqs
    BY DEF IInv, DiskOK, SavedFiles
  <2>2. ToSet(file.approved) \cup ToSet(temp.approved) \subseteq DecisionSet
    BY <2>1, SetOfTyped
  <2>3. \A i \in DOMAIN backups : backups[i].approved \in DecisionSeqs
    <3> DEFINE Backup == [whole : BOOLEAN, approved : DecisionSeqs]
    <3>1. \A b \in Backup : b.approved \in DecisionSeqs
      OBVIOUS
    <3>2. backups \in Seq(Backup)
      BY DEF IInv, DiskOK
    <3> HIDE DEF Backup
    <3>3. \A i \in DOMAIN backups : backups[i] \in Backup
      BY <3>2
    <3> QED BY <3>1, <3>3
  <2>4. \A i \in DOMAIN backups : ToSet(backups[i].approved) \subseteq DecisionSet
    BY <2>3, SetOfTyped
  <2>5. \A p \in Procs : proc[p].pc \in Pcs /\ result[p] \in Results
    BY DEF IInv, ProcsOK, Proc
  <2>6. \A p \in Procs : proc[p].pc \in {"start", "lock", "end"} <=> lock # p
    BY DEF IInv, LockOK, Outside
  <2>7. /\ lock \in Procs \cup {None} /\ trees \subseteq Worktrees
        /\ has \in [Worktrees -> SUBSET Codes] /\ bad \subseteq Worktrees \X Files
        /\ since \in [Procs -> SUBSET (Worktrees \X Codes)]
    BY DEF IInv, CodeOK, ProcsOK
  <2>8. \A left \in older :
          ToSet(left.file.approved) \subseteq DecisionSet /\ left.saved \subseteq Procs
    <3> TAKE left \in older
    <3>1. left.file \in SavedFiles /\ left.saved \subseteq Procs
      BY DEF OlderInv, LeftOK
    <3>2. left.file.approved \in DecisionSeqs
      BY <3>1 DEF SavedFiles
    <3> QED BY <3>1, <3>2, SetOfTyped
  <2> QED BY <2>1, <2>2, <2>4, <2>5, <2>6, <2>7, <2>8 DEF TypeOK, Pcs, Results
<1> QED BY <1>1, InvHolds, PTL

\* No crash, power cut or failing step leaves half a file.
THEOREM FileStaysWhole == Spec => []FileWhole
<1>1. IInv => FileWhole
  BY DEF IInv, WholeOK, FileWhole
<1> QED BY <1>1, InvHolds, PTL

\* No decision whose save returned is lost, however many write-backs and drops work
\* on the file, but by a power cut that undoes the rename of that very save: nothing
\* syncs the folder (approvals.rs:244).  What was saved before it stays.
THEOREM NoneIsLost == Spec => []NoneLost
<1>1. IInv => NoneLost
  BY DEF IInv
<1> QED BY <1>1, InvHolds, PTL

-----------------------------------------------------------------------------
\* The decisions about some code, by induction.

\* Induction, for a property given as the set of the numbers that have it.
LEMMA SetInduction ==
  ASSUME NEW S, 0 \in S, \A n \in Nat : n \in S => n + 1 \in S
  PROVE  Nat \subseteq S
<1> DEFINE R == OpToRel(<, Nat)
           T == Nat \ S
<1>1. IsWellFoundedOn(R, Nat)
  BY NatLessThanWellFounded
<1>2. \A x, y \in Nat : <<x, y>> \in R <=> x < y
  BY DEF OpToRel
<1>3. T \subseteq Nat
  OBVIOUS
<1> HIDE DEF R
<1>4. SUFFICES ASSUME T # {} PROVE FALSE
  OBVIOUS
<1>5. PICK x \in T : \A y \in T : ~ (<<y, x>> \in R)
  <2> HIDE DEF T
  <2> QED BY <1>1, <1>3, <1>4, WFMin
<1>6. x \in Nat /\ x # 0 /\ x - 1 \in Nat
  BY <1>5
<1>7. x - 1 \notin T
  <2> DEFINE y == x - 1
  <2>1. y \in Nat /\ y < x
    BY <1>6
  <2> HIDE DEF y
  <2>2. <<y, x>> \in R
    BY <1>2, <1>6, <2>1
  <2>3. y \notin T
    BY <1>5, <2>2
  <2> QED BY <2>3 DEF y
<1>8. (x - 1) + 1 \in S /\ (x - 1) + 1 = x
  BY <1>6, <1>7
<1> QED BY <1>5, <1>8

\* What the decisions of the first ones are, one by one.
FirstOnes(s, c, n, f) ==
  f = [i \in 0..n |-> IF i = 0 THEN <<>>
                      ELSE IF s[i].code = c THEN Append(f[i - 1], s[i])
                      ELSE f[i - 1]]

\* Such a function exists, and there is only one.
LEMMA FirstOnesExist ==
  ASSUME NEW s, NEW c, NEW n \in Nat
  PROVE  \E f : FirstOnes(s, c, n, f)
<1> DEFINE S == {k \in Nat : \E f : FirstOnes(s, c, k, f)}
<1>1. 0 \in S
  <2>1. FirstOnes(s, c, 0, [i \in 0..0 |-> <<>>])
    BY DEF FirstOnes
  <2> QED BY <2>1
<1>2. ASSUME NEW k \in Nat, k \in S PROVE k + 1 \in S
  <2>1. PICK f : FirstOnes(s, c, k, f)
    BY <1>2
  <2> DEFINE last == IF s[k + 1].code = c THEN Append(f[k], s[k + 1]) ELSE f[k]
             g == [i \in 0..(k + 1) |-> IF i = k + 1 THEN last ELSE f[i]]
  <2>2. \A i \in 0..k : f[i] = IF i = 0 THEN <<>>
                               ELSE IF s[i].code = c THEN Append(f[i - 1], s[i])
                               ELSE f[i - 1]
    BY <2>1, Zenon DEF FirstOnes
  <2>3. \A i \in 0..(k + 1) : g[i] = IF i = 0 THEN <<>>
                                     ELSE IF s[i].code = c THEN Append(g[i - 1], s[i])
                                     ELSE g[i - 1]
    <3> SUFFICES ASSUME NEW i \in 0..(k + 1)
                 PROVE  g[i] = IF i = 0 THEN <<>>
                               ELSE IF s[i].code = c THEN Append(g[i - 1], s[i])
                               ELSE g[i - 1]
      OBVIOUS
    <3>1. CASE i = 0
      BY <2>2, <3>1
    <3>2. CASE i = k + 1
      BY <3>2
    <3>3. CASE i \in 1..k
      BY <2>2, <3>3
    <3> QED BY <3>1, <3>2, <3>3
  <2>4. FirstOnes(s, c, k + 1, g)
    <3> HIDE DEF last
    <3>1. g = [i \in 0..(k + 1) |-> g[i]]
      OBVIOUS
    <3> HIDE DEF g
    <3> QED BY <2>3, <3>1 DEF FirstOnes
  <2> HIDE DEF g
  <2> QED BY <2>4
<1> HIDE DEF S
<1>3. n \in S
  BY <1>1, <1>2, SetInduction
<1> QED BY <1>3 DEF S

LEMMA FirstOnesSame ==
  ASSUME NEW s, NEW t, NEW c, NEW m \in Nat, NEW n \in Nat, NEW f, NEW g,
         FirstOnes(s, c, m, f), FirstOnes(t, c, n, g),
         NEW l \in Nat, l <= m, l <= n, \A i \in 1..l : s[i] = t[i]
  PROVE  f[l] = g[l]
<1> DEFINE S == {k \in Nat : k <= l => f[k] = g[k]}
<1>1. \A i \in 0..m : f[i] = IF i = 0 THEN <<>>
                             ELSE IF s[i].code = c THEN Append(f[i - 1], s[i])
                             ELSE f[i - 1]
  BY Zenon DEF FirstOnes
<1>2. \A i \in 0..n : g[i] = IF i = 0 THEN <<>>
                             ELSE IF t[i].code = c THEN Append(g[i - 1], t[i])
                             ELSE g[i - 1]
  BY Zenon DEF FirstOnes
<1>3. 0 \in S
  BY <1>1, <1>2
<1>4. ASSUME NEW k \in Nat, k \in S PROVE k + 1 \in S
  <2> SUFFICES ASSUME k + 1 <= l PROVE f[k + 1] = g[k + 1]
    OBVIOUS
  <2>1. f[k] = g[k] /\ s[k + 1] = t[k + 1]
    BY <1>4
  <2>2. f[k + 1] = IF s[k + 1].code = c THEN Append(f[k], s[k + 1]) ELSE f[k]
    BY <1>1
  <2>3. g[k + 1] = IF t[k + 1].code = c THEN Append(g[k], t[k + 1]) ELSE g[k]
    BY <1>2
  <2> QED BY <2>1, <2>2, <2>3
<1> HIDE DEF S
<1>5. l \in S
  BY <1>3, <1>4, SetInduction
<1> QED BY <1>5 DEF S

LEMMA DecisionsAre ==
  ASSUME NEW D, NEW s \in Seq(D), NEW c
  PROVE  \E f : FirstOnes(s, c, Len(s), f) /\ Decisions(s, c) = f[Len(s)]
<1> DEFINE f == CHOOSE f : FirstOnes(s, c, Len(s), f)
<1>1. Len(s) \in Nat
  OBVIOUS
<1>2. FirstOnes(s, c, Len(s), f)
  BY <1>1, FirstOnesExist
<1>3. Decisions(s, c) = f[Len(s)]
  BY DEF Decisions, FirstOnes
<1> HIDE DEF f
<1> QED BY <1>2, <1>3

LEMMA DecisionsOfNone ==
  ASSUME NEW c
  PROVE  Decisions(<<>>, c) = <<>>
<1>1. <<>> \in Seq({}) /\ Len(<<>>) = 0
  OBVIOUS
<1>2. PICK f : FirstOnes(<<>>, c, 0, f) /\ Decisions(<<>>, c) = f[0]
  BY <1>1, DecisionsAre
<1> QED BY <1>2 DEF FirstOnes

LEMMA DecisionsOfMore ==
  ASSUME NEW D, NEW s \in Seq(D), NEW d \in D, NEW c
  PROVE  Decisions(Append(s, d), c)
           = IF d.code = c THEN Append(Decisions(s, c), d) ELSE Decisions(s, c)
<1> DEFINE t == Append(s, d)
           n == Len(s)
<1>1. /\ t \in Seq(D) /\ n \in Nat /\ Len(t) = n + 1 /\ t[n + 1] = d
      /\ \A i \in 1..n : t[i] = s[i]
  OBVIOUS
<1> HIDE DEF t, n
<1>2. PICK f : FirstOnes(s, c, n, f) /\ Decisions(s, c) = f[n]
  BY DecisionsAre DEF n
<1>3. PICK g : FirstOnes(t, c, n + 1, g) /\ Decisions(t, c) = g[n + 1]
  BY <1>1, DecisionsAre
<1>4. g[n] = f[n]
  BY <1>1, <1>2, <1>3, FirstOnesSame
<1>5. g[n + 1] = IF t[n + 1].code = c THEN Append(g[n], t[n + 1]) ELSE g[n]
  <2>1. \A i \in 0..(n + 1) : g[i] = IF i = 0 THEN <<>>
                                     ELSE IF t[i].code = c THEN Append(g[i - 1], t[i])
                                     ELSE g[i - 1]
    BY <1>3, Zenon DEF FirstOnes
  <2> QED BY <1>1, <2>1
<1> QED BY <1>1, <1>2, <1>3, <1>4, <1>5 DEF t

-----------------------------------------------------------------------------
\* What a drop takes.

Found(p, c) == c[1] \in DOMAIN proc[p].copies /\ c \in proc[p].copies[c[1]]

\* Of the decisions done, those about code p found are kept, in their order, and no
\* other; p looked for the code of each.
KeptOf(p, done) ==
  \A c \in Codes :
    /\ Decisions(proc[p].kept, c) = IF Found(p, c) THEN Decisions(done, c) ELSE <<>>
    /\ c[1] \notin DOMAIN proc[p].copies => Decisions(done, c) = <<>>

SortOK(p) ==
  /\ proc[p].pc \in {"start", "lock", "read", "end"} => DOMAIN proc[p].copies = {}
  /\ proc[p].pc = "sort" =>
       \E done \in DecisionSeqs : file.approved = done \o proc[p].queue /\ KeptOf(p, done)
  /\ proc[p].pc \in {"backup", "copy", "write", "sync", "rename"} => KeptOf(p, file.approved)

\* Code that stayed in a worktree p listed is in what p read of its file.
SinceOK(p) ==
  \A x \in since[p] :
    /\ x[1] \in trees /\ x[2] \in has[x[1]]
    /\ x[1] \in proc[p].list /\ x[2][1] \in DOMAIN proc[p].copies => Found(p, x[2])

DropInv == \A p \in Droppers : SortOK(p) /\ SinceOK(p)

\* Steps of others.
LEMMA OthersSort ==
  ASSUME NEW q \in Droppers, SortOK(q), SinceOK(q), proc'[q] = proc[q],
         file' = file \/ proc[q].pc \in Outside, since'[q] \subseteq since[q],
         trees' = trees, has' = has
  PROVE  SortOK(q)' /\ SinceOK(q)'
<1>1. \A c : Found(q, c)' = Found(q, c)
  BY DEF Found
<1>2. \A done : KeptOf(q, done)' <=> KeptOf(q, done)
  BY <1>1 DEF KeptOf
<1>3. SinceOK(q)'
  BY <1>1 DEF SinceOK
<1>4. SortOK(q)'
  BY <1>2 DEF SortOK, Outside
<1> QED BY <1>3, <1>4

\* A process that has ended, or has not begun.
LEMMA NothingSorted ==
  ASSUME NEW q \in Droppers, proc'[q].pc \in {"start", "lock", "read", "end"},
         DOMAIN proc'[q].copies = {},
         \A x \in since'[q] : x[1] \in trees' /\ x[2] \in has'[x[1]]
  PROVE  SortOK(q)' /\ SinceOK(q)'
BY DEF SortOK, SinceOK

LEMMA EndSorts ==
  ASSUME IInv, DropInv, NEW p \in Procs, NEW o, End(p, o), proc[p].pc \notin Outside,
         UNCHANGED code
  PROVE  DropInv'
<1> SUFFICES ASSUME NEW q \in Droppers PROVE SortOK(q)' /\ SinceOK(q)'
  BY DEF DropInv
<1>1. q \in Procs /\ proc \in [Procs -> Proc] /\ since \in [Procs -> SUBSET (Worktrees \X Codes)]
  BY Kinds DEF IInv, ProcsOK
<1>2. CASE q = p
  <2>1. proc'[q].pc = "end" /\ DOMAIN proc'[q].copies = {} /\ since'[q] = {}
    BY <1>1, <1>2 DEF End, Idle
  <2> QED BY <2>1, NothingSorted
<1>3. CASE q # p
  <2>1. proc'[q] = proc[q] /\ since'[q] = since[q] /\ proc[q].pc \in Outside
    BY <1>1, <1>3, Alone DEF End
  <2> QED BY <2>1, OthersSort DEF DropInv, code
<1> QED BY <1>2, <1>3

\* A step to another place that keeps what was found and kept.
LEMMA GotoSorts ==
  ASSUME IInv, DropInv, NEW p \in Procs, NEW l \in Pcs, Goto(p, l), UNCHANGED <<file, code, since>>,
         \/ proc[p].pc \in {"backup", "copy", "write", "sync"} /\ l \in {"copy", "write", "sync", "rename"}
         \/ proc[p].pc = "sort" /\ proc[p].queue = <<>> /\ l = "backup"
  PROVE  DropInv'
<1> SUFFICES ASSUME NEW q \in Droppers PROVE SortOK(q)' /\ SinceOK(q)'
  BY DEF DropInv
<1>1. proc[p] \in Proc /\ proc' = [proc EXCEPT ![p] = [proc[p] EXCEPT !.pc = l]]
  BY DEF IInv, ProcsOK, Goto
<1>2. /\ proc'[p].pc = l /\ proc'[p].kept = proc[p].kept /\ proc'[p].copies = proc[p].copies
      /\ proc'[p].list = proc[p].list /\ \A r \in Procs \ {p} : proc'[r] = proc[r]
  BY <1>1 DEF IInv, ProcsOK, Proc
<1>3. CASE q # p
  BY <1>2, <1>3, Kinds, OthersSort DEF DropInv, code
<1>4. CASE q = p
  <2>1. \A c : Found(q, c)' = Found(q, c)
    BY <1>2, <1>4 DEF Found
  <2>2. \A done : KeptOf(q, done)' <=> KeptOf(q, done)
    BY <1>2, <1>4, <2>1 DEF KeptOf
  <2>3. SinceOK(q)'
    BY <1>2, <1>4, <2>1 DEF DropInv, SinceOK, code
  <2>4. KeptOf(q, file.approved)
    <3>1. CASE proc[p].pc = "sort"
      <4>1. PICK done \in DecisionSeqs : file.approved = done \o <<>> /\ KeptOf(q, done)
        BY <1>4, <3>1 DEF DropInv, SortOK
      <4>2. done \o <<>> = done
        BY DEF DecisionSeqs
      <4> QED BY <4>1, <4>2
    <3>2. CASE proc[p].pc \in {"backup", "copy", "write", "sync"}
      BY <1>4, <3>2 DEF DropInv, SortOK
    <3> QED BY <3>1, <3>2
  <2>5. KeptOf(q, file.approved)' /\ proc'[q].pc \in {"backup", "copy", "write", "sync", "rename"}
    BY <1>2, <1>4, <2>2, <2>4
  <2>6. SortOK(q)'
    BY <2>5 DEF SortOK
  <2> QED BY <2>3, <2>6
<1> QED BY <1>3, <1>4

LEMMA ListWorktreesSorts ==
  ASSUME IInv, DropInv, NEW p \in Procs, ListWorktrees(p)
  PROVE  DropInv'
<1> SUFFICES ASSUME NEW q \in Droppers PROVE SortOK(q)' /\ SinceOK(q)'
  BY DEF DropInv
<1>1. /\ proc[p] \in Proc /\ proc' = [proc EXCEPT ![p] = [proc[p] EXCEPT !.pc = "lock", !.list = trees]]
      /\ proc[p].pc = "start" /\ UNCHANGED <<file, trees, has, since>>
  BY DEF IInv, ProcsOK, ListWorktrees, disk, code
<1>2. /\ proc'[p].pc = "lock" /\ proc'[p].copies = proc[p].copies
      /\ \A r \in Procs \ {p} : proc'[r] = proc[r]
  BY <1>1 DEF IInv, ProcsOK, Proc
<1>3. CASE q # p
  BY <1>1, <1>2, <1>3, Kinds, OthersSort DEF DropInv
<1>4. CASE q = p
  <2>1. DOMAIN proc'[q].copies = {}
    BY <1>1, <1>2, <1>4 DEF DropInv, SortOK
  <2>2. \A x \in since'[q] : x[1] \in trees' /\ x[2] \in has'[x[1]]
    BY <1>1 DEF DropInv, SinceOK
  <2> QED BY <1>2, <1>4, <2>1, <2>2, NothingSorted
<1> QED BY <1>3, <1>4

LEMMA AddSorts ==
  ASSUME IInv, DropInv, NEW p \in Procs, Add(p)
  PROVE  DropInv'
<1> SUFFICES ASSUME NEW q \in Droppers PROVE SortOK(q)' /\ SinceOK(q)'
  BY DEF DropInv
<1>1. p \in Adders /\ UNCHANGED <<file, trees, has, since>>
  BY DEF Add, disk, code
<1>2. proc'[q] = proc[q]
  BY <1>1, Kinds DEF Add, IInv, ProcsOK
<1> QED BY <1>1, <1>2, OthersSort DEF DropInv

LEMMA LockSorts ==
  ASSUME IInv, DropInv, NEW p \in Procs, Lock(p)
  PROVE  DropInv'
<1> SUFFICES ASSUME NEW q \in Droppers PROVE SortOK(q)' /\ SinceOK(q)'
  BY DEF DropInv
<1>1. /\ proc[p] \in Proc /\ proc' = [proc EXCEPT ![p] = [proc[p] EXCEPT !.pc = "read"]]
      /\ proc[p].pc = "lock" /\ UNCHANGED <<file, trees, has>>
      /\ since' = [since EXCEPT ![p] = {x \in trees \X Codes : x[2] \in has[x[1]]}]
  BY DEF IInv, ProcsOK, Lock, Goto, disk, code
<1>2. /\ proc'[p].pc = "read" /\ proc'[p].copies = proc[p].copies
      /\ \A r \in Procs \ {p} : proc'[r] = proc[r] /\ since'[r] = since[r]
      /\ since'[p] = {x \in trees \X Codes : x[2] \in has[x[1]]}
  BY <1>1 DEF IInv, ProcsOK, Proc
<1>3. CASE q # p
  BY <1>1, <1>2, <1>3, Kinds, OthersSort DEF DropInv
<1>4. CASE q = p
  <2>1. DOMAIN proc'[q].copies = {}
    BY <1>1, <1>2, <1>4 DEF DropInv, SortOK
  <2>2. \A x \in since'[q] : x[1] \in trees' /\ x[2] \in has'[x[1]]
    BY <1>1, <1>2, <1>4
  <2> QED BY <1>2, <1>4, <2>1, <2>2, NothingSorted
<1> QED BY <1>3, <1>4

LEMMA ReadSavedSorts ==
  ASSUME IInv, DropInv, NEW p \in Procs, ReadSaved(p)
  PROVE  DropInv'
<1>1. proc[p].pc = "read" /\ UNCHANGED <<disk, code>> /\ proc[p].pc \notin Outside
  BY DEF ReadSaved, Outside
<1>2. CASE file.form \notin {"missing", "ok"}
  BY <1>1, <1>2, EndSorts DEF ReadSaved
<1>3. CASE file.form \in {"missing", "ok"}
  <2> SUFFICES ASSUME NEW q \in Droppers PROVE SortOK(q)' /\ SinceOK(q)'
    BY DEF DropInv
  <2> DEFINE l == IF p \in Adders THEN "write" ELSE "sort"
             kept == IF p \in Adders THEN file.approved \o proc[p].new ELSE <<>>
  <2>1. /\ proc' = [proc EXCEPT ![p].pc = l, ![p].queue = file.approved, ![p].kept = kept]
        /\ UNCHANGED <<since, file, trees, has>> /\ proc \in [Procs -> Proc]
    BY <1>1, <1>3 DEF ReadSaved, IInv, ProcsOK, disk, code
  <2>2. \A r \in Procs \ {p} : proc'[r] = proc[r]
    BY <2>1
  <2>3. CASE q # p
    BY <2>1, <2>2, <2>3, Kinds, OthersSort DEF DropInv
  <2>4. CASE q = p
    <3>1. /\ proc'[q].pc = "sort" /\ proc'[q].queue = file.approved /\ proc'[q].kept = <<>>
          /\ proc'[q].copies = proc[q].copies
      BY <2>1, <2>4, Kinds DEF Proc
    <3>2. DOMAIN proc'[q].copies = {}
      BY <1>1, <2>4, <3>1 DEF DropInv, SortOK
    <3>3. SinceOK(q)'
      BY <2>1, <3>2 DEF DropInv, SinceOK
    <3>4. KeptOf(q, <<>>)'
      BY <3>1, <3>2, DecisionsOfNone DEF KeptOf, Found
    <3>5. <<>> \in DecisionSeqs /\ file'.approved = <<>> \o proc'[q].queue
      <4>1. file.approved \in DecisionSeqs
        BY DEF IInv, DiskOK, SavedFiles
      <4> QED BY <2>1, <3>1, <4>1 DEF DecisionSeqs
    <3>6. SortOK(q)'
      BY <3>1, <3>4, <3>5 DEF SortOK
    <3> QED BY <3>3, <3>6
  <2> QED BY <2>3, <2>4
<1> QED BY <1>2, <1>3

\* One decision more.
LEMMA QueueMoves ==
  ASSUME NEW done \in DecisionSeqs, NEW queue \in DecisionSeqs, queue # <<>>
  PROVE  /\ Append(done, Head(queue)) \in DecisionSeqs
         /\ Append(done, Head(queue)) \o Tail(queue) = done \o queue
<1> HIDE DEF DecisionSet
<1> USE DEF DecisionSeqs
<1>1. /\ Head(queue) \in DecisionSet /\ Tail(queue) \in Seq(DecisionSet)
      /\ <<Head(queue)>> \in Seq(DecisionSet)
  OBVIOUS
<1>2. Append(done, Head(queue)) = done \o <<Head(queue)>>
  BY <1>1, AppendIsConcat
<1>3. (done \o <<Head(queue)>>) \o Tail(queue) = done \o (<<Head(queue)>> \o Tail(queue))
  BY <1>1, ConcatAssociative
<1>4. <<Head(queue)>> \o Tail(queue) = queue
  <2>1. \A i \in 1..Len(Tail(queue)) : Tail(queue)[i] = queue[i + 1]
    OBVIOUS
  <2>2. Len(<<Head(queue)>> \o Tail(queue)) = Len(queue)
    OBVIOUS
  <2>3. \A i \in 1..Len(queue) : (<<Head(queue)>> \o Tail(queue))[i] = queue[i]
    BY <2>1
  <2> QED BY <1>1, <2>2, <2>3, SeqEqual
<1> QED BY <1>1, <1>2, <1>3, <1>4

LEMMA SortOneSorts ==
  ASSUME IInv, DropInv, NEW p \in Procs, SortOne(p)
  PROVE  DropInv'
<1> DEFINE d == Head(proc[p].queue)
           f == d.code[1]
           read == f \notin DOMAIN proc[p].copies
           new == CopiesOf(proc[p].list, f)
           copies == [g \in DOMAIN proc[p].copies \cup {f} |->
                        IF g = f /\ read THEN new ELSE proc[p].copies[g]]
           kept == IF d.code \in copies[f] THEN Append(proc[p].kept, d) ELSE proc[p].kept
           r == [proc[p] EXCEPT !.queue = Tail(@), !.copies = copies, !.kept = kept]
<1>1. /\ proc[p].pc = "sort" /\ proc[p].queue # <<>> /\ UNCHANGED <<file, trees, has, code>>
      /\ proc[p] \in Proc /\ proc \in [Procs -> Proc]
      /\ \/ End(p, "refused")
         \/ /\ proc' = [proc EXCEPT ![p].queue = Tail(@), ![p].copies = copies, ![p].kept = kept]
            /\ since' = since
  BY DEF SortOne, IInv, ProcsOK, disk, code
<1>2. CASE End(p, "refused")
  BY <1>1, <1>2, EndSorts DEF Outside
<1>3. CASE /\ proc' = [proc EXCEPT ![p].queue = Tail(@), ![p].copies = copies, ![p].kept = kept]
           /\ since' = since
  <2> SUFFICES ASSUME NEW q \in Droppers PROVE SortOK(q)' /\ SinceOK(q)'
    BY DEF DropInv
  <2>1. CASE q # p
    <3>1. proc'[q] = proc[q]
      BY <1>1, <1>3, <2>1, Kinds
    <3> QED BY <1>1, <1>3, <3>1, OthersSort DEF DropInv
  <2>2. CASE q = p
    <3>1. /\ proc'[p].pc = "sort" /\ proc'[p].queue = Tail(proc[p].queue)
          /\ proc'[p].copies = copies /\ proc'[p].kept = kept /\ proc'[p].list = proc[p].list
      BY <1>1, <1>3 DEF Proc
    <3>2. d \in DecisionSet /\ proc[p].queue \in DecisionSeqs /\ proc[p].kept \in DecisionSeqs
      BY <1>1, FirstAndRest DEF Proc
    <3>3. d.code \in Codes
      BY <3>2 DEF DecisionSet
    <3> PICK dc : dc = d.code
      OBVIOUS
    <3>4. PICK done \in DecisionSeqs : file.approved = done \o proc[p].queue /\ KeptOf(p, done)
      BY <1>1, <2>2 DEF DropInv, SortOK
    <3>5. PICK more \in DecisionSeqs : more = Append(done, d) /\ file'.approved = more \o proc'[p].queue
      <4>1. /\ Append(done, d) \in DecisionSeqs
            /\ Append(done, d) \o Tail(proc[p].queue) = done \o proc[p].queue
        BY <1>1, <3>2, <3>4, QueueMoves
      <4>2. file'.approved = done \o proc[p].queue
        BY <1>1, <3>4
      <4> QED BY <3>1, <4>1, <4>2
    <3>6. \A c \in Codes : c[1] # f \/ ~read => (Found(p, c)' <=> Found(p, c))
      BY <3>1 DEF Found
    <3>7. f \in DOMAIN copies /\ DOMAIN copies = DOMAIN proc[p].copies \cup {f}
      OBVIOUS
    <3>8. Found(p, dc)' <=> dc \in copies[f]
      <4>1. dc[1] = f
        OBVIOUS
      <4> QED BY <3>1, <3>7, <4>1 DEF Found
    <3> HIDE DEF copies, kept, d
    <3>9. KeptOf(p, more)'
      <4> SUFFICES ASSUME NEW c \in Codes
                   PROVE  /\ Decisions(proc'[p].kept, c) = IF Found(p, c)' THEN Decisions(more, c) ELSE <<>>
                          /\ c[1] \notin DOMAIN proc'[p].copies => Decisions(more, c) = <<>>
        BY DEF KeptOf
      <4>1. /\ Decisions(proc[p].kept, c) = IF Found(p, c) THEN Decisions(done, c) ELSE <<>>
            /\ c[1] \notin DOMAIN proc[p].copies => Decisions(done, c) = <<>>
        BY <3>4 DEF KeptOf
      <4>2. Decisions(more, c) = IF d.code = c THEN Append(Decisions(done, c), d) ELSE Decisions(done, c)
        BY <3>2, <3>4, <3>5, DecisionsOfMore DEF DecisionSeqs
      <4>3. Decisions(kept, c) = IF d.code \in copies[f] /\ d.code = c
                                 THEN Append(Decisions(proc[p].kept, c), d) ELSE Decisions(proc[p].kept, c)
        BY <3>2, DecisionsOfMore DEF DecisionSeqs, kept
      <4>4. CASE d.code = c
        <5>1. Decisions(proc[p].kept, c) = Decisions(done, c) \/ ~Found(p, c)'
          BY <3>6, <4>1, <4>4
        <5>2. ~Found(p, c)' => Decisions(proc[p].kept, c) = <<>>
          BY <3>6, <4>1, <4>4 DEF Found
        <5>3. c[1] \in DOMAIN proc'[p].copies
          BY <3>1, <3>7, <4>4
        <5> QED BY <3>1, <3>8, <4>2, <4>3, <4>4, <5>1, <5>2, <5>3
      <4>5. CASE d.code # c
        <5>1. Decisions(more, c) = Decisions(done, c) /\ Decisions(kept, c) = Decisions(proc[p].kept, c)
          BY <4>2, <4>3, <4>5
        <5>2. CASE c[1] = f /\ read
          BY <3>1, <3>7, <4>1, <5>1, <5>2 DEF Found
        <5>3. CASE c[1] # f \/ ~read
          BY <3>1, <3>6, <3>7, <4>1, <5>1, <5>3
        <5> QED BY <5>2, <5>3
      <4> QED BY <4>4, <4>5
    <3>10. SortOK(p)'
      BY <3>1, <3>5, <3>9 DEF SortOK
    <3>11. SinceOK(p)'
      <4> SUFFICES ASSUME NEW x \in since'[p]
                   PROVE  /\ x[1] \in trees' /\ x[2] \in has'[x[1]]
                          /\ x[1] \in proc'[p].list /\ x[2][1] \in DOMAIN proc'[p].copies => Found(p, x[2])'
        BY DEF SinceOK
      <4>1. /\ x \in since[p] /\ x[1] \in trees /\ x[2] \in has[x[1]] /\ x[2] \in Codes
            /\ x[1] \in proc[p].list /\ x[2][1] \in DOMAIN proc[p].copies => Found(p, x[2])
        BY <1>3, <2>2 DEF DropInv, SinceOK, IInv, ProcsOK
      <4>2. ASSUME x[1] \in proc[p].list, x[2][1] = f, read PROVE Found(p, x[2])'
        <5>1. x[2] \in new
          BY <4>1, <4>2 DEF CopiesOf
        <5>2. copies[f] = new
          BY <4>2 DEF copies
        <5> QED BY <3>1, <3>7, <4>2, <5>1, <5>2 DEF Found
      <4> QED BY <1>1, <3>1, <3>6, <3>7, <4>1, <4>2
    <3> QED BY <2>2, <3>10, <3>11
  <2> QED BY <2>1, <2>2
<1> QED BY <1>1, <1>2, <1>3

LEMMA SortedSorts ==
  ASSUME IInv, DropInv, NEW p \in Procs, Sorted(p)
  PROVE  DropInv'
<1>1. /\ proc[p].pc = "sort" /\ proc[p].queue = <<>> /\ UNCHANGED <<file, code>>
      /\ End(p, "nothing") \/ (Goto(p, "backup") /\ UNCHANGED since)
  BY DEF Sorted, disk
<1>2. CASE End(p, "nothing")
  BY <1>1, <1>2, EndSorts DEF Outside
<1>3. CASE Goto(p, "backup") /\ UNCHANGED since
  BY <1>1, <1>3, GotoSorts DEF Pcs
<1> QED BY <1>1, <1>2, <1>3

LEMMA WriteSorts ==
  ASSUME IInv, DropInv, NEW p \in Procs,
         CreateBackup(p) \/ CopyBackup(p) \/ WriteTemp(p) \/ SyncTemp(p)
  PROVE  DropInv'
<1>1. PICK l \in {"copy", "write", "sync", "rename"} :
        /\ proc[p].pc \in {"backup", "copy", "write", "sync"} /\ Goto(p, l)
        /\ UNCHANGED <<file, code, since>>
  BY DEF CreateBackup, CopyBackup, WriteTemp, SyncTemp
<1> QED BY <1>1, GotoSorts DEF Pcs

\* A new file, or none: the others are not past the lock.
LEMMA RenameSorts ==
  ASSUME IInv, DropInv, NEW p \in Procs, Rename(p)
  PROVE  DropInv'
BY EndSorts DEF Rename, Outside

LEMMA FailSorts ==
  ASSUME IInv, DropInv, NEW p \in Procs, Fail(p)
  PROVE  DropInv'
<1>1. CASE proc[p].pc \in Outside
  <2> SUFFICES ASSUME NEW q \in Droppers PROVE SortOK(q)' /\ SinceOK(q)'
    BY DEF DropInv
  <2>1. /\ proc \in [Procs -> Proc] /\ since \in [Procs -> SUBSET (Worktrees \X Codes)]
        /\ UNCHANGED <<file, trees, has>>
    BY DEF IInv, ProcsOK, Fail, disk, code
  <2>2. CASE q = p
    <3>1. proc'[q].pc = "end" /\ DOMAIN proc'[q].copies = {} /\ since'[q] = {}
      BY <2>1, <2>2 DEF Fail, End, Idle
    <3> QED BY <3>1, NothingSorted
  <2>3. CASE q # p
    <3>1. proc'[q] = proc[q] /\ since'[q] = since[q]
      BY <2>1, <2>3, Kinds DEF Fail, End
    <3> QED BY <2>1, <3>1, OthersSort DEF DropInv
  <2> QED BY <2>2, <2>3
<1>2. CASE proc[p].pc \notin Outside
  BY <1>2, EndSorts DEF Fail
<1> QED BY <1>1, <1>2

LEMMA PowerCutSorts ==
  ASSUME IInv, DropInv, PowerCut
  PROVE  DropInv'
<1> SUFFICES ASSUME NEW q \in Droppers PROVE SortOK(q)' /\ SinceOK(q)'
  BY DEF DropInv
<1>1. q \in Procs /\ since'[q] = {}
  BY Kinds DEF PowerCut
<1>2. proc'[q].pc \in {"start", "end"} /\ DOMAIN proc'[q].copies = {}
  BY <1>1 DEF PowerCut, Idle, DropInv, SortOK
<1> QED BY <1>1, <1>2, NothingSorted

LEMMA BreakSorts ==
  ASSUME IInv, DropInv, Break
  PROVE  DropInv'
<1> SUFFICES ASSUME NEW q \in Droppers PROVE SortOK(q)' /\ SinceOK(q)'
  BY DEF DropInv
<1>1. proc[q].pc \in Outside
  BY Kinds DEF Break, IInv, LockOK
<1> QED BY <1>1, OthersSort DEF DropInv, Break, code

LEMMA ChangeSorts ==
  ASSUME IInv, DropInv, NEW w \in Worktrees, ChangeCode(w) \/ ChangeTrees(w)
  PROVE  DropInv'
<1> SUFFICES ASSUME NEW q \in Droppers PROVE SortOK(q)' /\ SinceOK(q)'
  BY DEF DropInv
<1>1. q \in Procs /\ SortOK(q) /\ SinceOK(q)
  BY Kinds DEF DropInv
<1>2. file' = file /\ proc' = proc
  BY DEF ChangeCode, ChangeTrees, disk
<1>3. \A c : Found(q, c)' = Found(q, c)
  BY <1>2 DEF Found
<1>4. \A done : KeptOf(q, done)' <=> KeptOf(q, done)
  BY <1>2, <1>3 DEF KeptOf
<1>5. SortOK(q)'
  BY <1>1, <1>2, <1>4 DEF SortOK
<1>6. \A x \in since'[q] : x \in since[q] /\ x[1] \in trees' /\ x[2] \in has'[x[1]]
  <2>1. CASE ChangeCode(w)
    BY <1>1, <2>1 DEF ChangeCode, SinceOK
  <2>2. CASE ChangeTrees(w)
    BY <1>1, <2>2 DEF ChangeTrees, SinceOK
  <2> QED BY <2>1, <2>2
<1>7. SinceOK(q)'
  BY <1>1, <1>2, <1>3, <1>6 DEF SinceOK
<1> QED BY <1>5, <1>7

LEMMA InitSorts == Init => DropInv
BY Kinds DEF Init, DropInv, SortOK, SinceOK, Idle

LEMMA StepSorts == IInv /\ DropInv /\ [Next]_vars => DropInv'
<1> SUFFICES ASSUME IInv, DropInv, [Next]_vars PROVE DropInv'
  OBVIOUS
<1>1. ASSUME NEW p \in Procs, Add(p) \/ ListWorktrees(p) \/ Lock(p) \/ ReadSaved(p) PROVE DropInv'
  BY <1>1, AddSorts, ListWorktreesSorts, LockSorts, ReadSavedSorts
<1>2. ASSUME NEW p \in Procs, SortOne(p) \/ Sorted(p) \/ CreateBackup(p) \/ CopyBackup(p) PROVE DropInv'
  BY <1>2, SortOneSorts, SortedSorts, WriteSorts
<1>3. ASSUME NEW p \in Procs, WriteTemp(p) \/ SyncTemp(p) \/ Rename(p) \/ Fail(p) PROVE DropInv'
  BY <1>3, WriteSorts, RenameSorts, FailSorts
<1>4. CASE PowerCut \/ Break
  BY <1>4, PowerCutSorts, BreakSorts
<1>5. ASSUME NEW w \in Worktrees, ChangeCode(w) \/ ChangeTrees(w) PROVE DropInv'
  BY <1>5, ChangeSorts
<1>6. CASE UNCHANGED vars
  BY <1>6, OthersSort DEF vars, DropInv
<1> QED BY <1>1, <1>2, <1>3, <1>4, <1>5, <1>6 DEF Next

\* What a comment is depends on the decisions about its code.
LEMMA SameStatus ==
  ASSUME NEW a, NEW b, NEW c, NEW t
  PROVE  /\ Decisions(a, c) = Decisions(b, c) => Compare(a, c, t) = Compare(b, c, t)
         /\ Decisions(a, c) = <<>> => Compare(a, c, t) = "undecided"
BY DEF Compare

LEMMA DropIsRight ==
  ASSUME IInv, DropInv, NEW p \in Droppers, Rename(p)
  PROVE  DropsWhole(p) /\ LiveKept(p)
<1>1. file'.approved = proc[p].kept /\ proc[p].pc = "rename" /\ p \in Procs
  BY Kinds DEF Rename, IInv, WholeOK
<1>2. \A c \in Codes :
        /\ Decisions(file'.approved, c) = IF Found(p, c) THEN Decisions(file.approved, c) ELSE <<>>
        /\ c[1] \notin DOMAIN proc[p].copies => Decisions(file.approved, c) = <<>>
  BY <1>1 DEF DropInv, SortOK, KeptOf
<1>3. DropsWhole(p)
  <2> SUFFICES ASSUME NEW c \in Codes, NEW t
               PROVE  \/ Compare(file'.approved, c, t) = Compare(file.approved, c, t)
                      \/ Compare(file'.approved, c, t) = "undecided"
    BY DEF DropsWhole
  <2> QED BY <1>2, SameStatus
<1>4. LiveKept(p)
  <2> SUFFICES ASSUME NEW x \in since[p], x[1] \in proc[p].list
               PROVE  Decisions(file'.approved, x[2]) = Decisions(file.approved, x[2])
    BY DEF LiveKept
  <2>1. x[2] \in Codes /\ (x[2][1] \in DOMAIN proc[p].copies => Found(p, x[2]))
    BY <1>1 DEF IInv, ProcsOK, DropInv, SinceOK
  <2> QED BY <1>2, <2>1
<1> QED BY <1>3, <1>4

\* A drop takes all decisions about some code or none, so no comment the user cut
\* becomes an approved one, and it takes none about code a worktree it listed had
\* all the time (drop_gone_approvals.rs:28 and 36).
THEOREM DropsAreRight == Spec => DropsGoneOnly
<1>1. Init => DropInv
  BY InitSorts
<1>2. IInv /\ DropInv /\ [Next]_vars => DropInv'
  BY StepSorts
<1>3. IInv /\ DropInv /\ [Next]_vars => [\A p \in Droppers : Rename(p) => DropsWhole(p) /\ LiveKept(p)]_vars
  BY DropIsRight
<1> QED BY <1>1, <1>2, <1>3, InvHolds, PTL DEF Spec, DropsGoneOnly
=============================================================================
