--------------------------- MODULE WriteBack_proofs ---------------------------
(***************************************************************************)
(* The answers are written whole or not at all, their originals are saved  *)
(* and no edit is lost unseen, for any number of files, edits, failures    *)
(* and reviews; and so the write-back implements its promise.  Last, how   *)
(* FileComments matches requests with the comments of a file.              *)
(***************************************************************************)
EXTENDS WriteBackProps, Integers, FiniteSetTheorems, WellFoundedInduction, TLAPS

Pcs == {"idle", "return", "matched", "mark", "folder", "save", "discard", "write", "check", "swap",
        "undo", "recheck", "swapback", "done", "remove", "unlist", "refuse", "release"}
BeforePcs == {"folder", "save", "discard"}
WritePcs == {"write", "check", "swap"}
UndoPcs == {"undo", "recheck", "swapback"}

\* The files of a pass in path order that it has behind it.
Passed(S, c) == {f \in S : c = 0 \/ f < c}

DiskOK ==
  /\ disk \in [Files -> Contents] /\ temp \subseteq Files
  /\ edits \in 0 .. MaxEdits /\ reviews \in Nat
BackupTyped ==
  /\ backup = [made |-> backup.made, has |-> backup.has]
  /\ backup.made \in BOOLEAN /\ DOMAIN backup.has \subseteq Changed
  /\ \A f \in DOMAIN backup.has : backup.has[f] \in Contents
  /\ ~backup.made => DOMAIN backup.has = {}
SessionOK ==
  /\ status \in {"waiting", "notes", "writing", "done"}
  /\ werr \in BOOLEAN /\ decided \in BOOLEAN /\ listed \in BOOLEAN
ProgramOK ==
  /\ pc \in Pcs
  /\ DOMAIN read \subseteq Changed /\ \A f \in DOMAIN read : read[f] \in Contents
  /\ written \subseteq Changed /\ left \subseteq written /\ current \in Changed \cup {0}
  /\ caught \in BOOLEAN

\* What the program knows where it is.
StatusOK ==
  /\ pc \in {"return", "matched", "mark"} => status = "waiting"
  /\ pc \in BeforePcs \cup WritePcs \cup UndoPcs \cup {"done"} => status = "writing"
  /\ pc = "remove" => status = "done"
  /\ pc \in BeforePcs \cup WritePcs \cup UndoPcs \cup {"refuse"} => ~decided
  /\ pc = "refuse" => status \in {"waiting", "writing"}
  /\ pc = "done" => decided
ReadOK ==
  /\ pc \in {"mark", "folder", "save"} \cup WritePcs \cup UndoPcs => DOMAIN read = Changed
  /\ pc \in {"check", "swap", "recheck", "swapback"} => current # 0
  /\ pc \in {"idle", "return", "matched", "mark", "folder", "save"} => written = {} /\ left = {}

\* The files that hold answers are those a pass has written and not put back.
PutOK ==
  /\ pc \in BeforePcs \cup {"refuse"} => put = {}
  /\ pc \in WritePcs => written = Passed(Changed, current) /\ put = written /\ left = {}
  /\ pc \in UndoPcs =>
       /\ current \in written \cup {0} /\ left \subseteq Passed(written, current)
       /\ put = left \cup (written \ Passed(written, current))

\* The backup holds what was read, and nothing else needs the folder.
BackupOK ==
  /\ pc \in {"save", "discard", "done", "remove"} \cup WritePcs \cup UndoPcs => DOMAIN owed = {}
  /\ pc = "save" => backup.made /\ DOMAIN backup.has = Passed(Changed, current)
  /\ pc \in WritePcs \cup UndoPcs => backup.made /\ DOMAIN backup.has = Changed
  /\ pc \in {"save"} \cup WritePcs \cup UndoPcs =>
       \A f \in DOMAIN backup.has : backup.has[f] = read[f]

\* Since its last comparison a file holds only edits of the gap more.
GapOK ==
  pc \in {"swap", "swapback"} => disk[current].edits \subseteq read[current].edits \cup gap

OriginalsKept == put \subseteq DOMAIN orig /\ OriginalsSaved

TypeInv == DiskOK /\ BackupTyped /\ SessionOK /\ ProgramOK
IInv ==
  /\ TypeInv /\ StatusOK /\ ReadOK /\ PutOK /\ BackupOK /\ GapOK
  /\ OriginalsKept /\ AllWrittenOrNone /\ EditsSurvive

-----------------------------------------------------------------------------
\* The order in which a pass takes its files.

LEMMA Least ==
  ASSUME NEW S \in SUBSET Nat, S # {}
  PROVE  \E x \in S : \A y \in S : x <= y
<1> DEFINE R == OpToRel(<, Nat)
<1>1. IsWellFoundedOn(R, Nat)
  BY NatLessThanWellFounded
<1>2. \A x, y \in Nat : x < y => <<x, y>> \in R
  BY DEF OpToRel
<1> HIDE DEF R
<1>3. \E x \in S : \A y \in S : ~ (<<y, x>> \in R)
  BY <1>1, WFMin
<1>4. PICK x \in S : \A y \in S : ~ (<<y, x>> \in R)
  BY <1>3
<1>5. ASSUME NEW y \in S PROVE x <= y
  <2>1. x \in Nat /\ y \in Nat
    OBVIOUS
  <2>2. ~(y < x)
    BY <1>2, <1>4, <2>1
  <2> QED BY <2>1, <2>2
<1> QED BY <1>5

LEMMA NextInIs ==
  ASSUME NEW S \in SUBSET (1 .. NumFiles), NEW c \in 0 .. NumFiles
  PROVE  \/ NextIn(S, c) = 0 /\ \A g \in S : g <= c
         \/ NextIn(S, c) \in S /\ NextIn(S, c) > c /\ \A g \in S : g > c => NextIn(S, c) <= g
<1>1. NumFiles \in Nat
  BY WriteBackAssumption
<1>2. CASE \E g \in S : g > c
  <2> DEFINE T == {g \in S : g > c}
  <2>1. T \in SUBSET Nat /\ T # {}
    <3>1. \A g \in S : g \in Nat
      BY <1>1
    <3> QED BY <1>2, <3>1
  <2>2. \E g \in S : g > c /\ \A h \in S : h > c => g <= h
    BY <2>1, Least
  <2> QED BY <1>2, <2>2 DEF NextIn
<1>3. CASE ~ \E g \in S : g > c
  BY <1>1, <1>3 DEF NextIn
<1> QED BY <1>2, <1>3

\* A pass starts with nothing behind it, each file adds itself, and none is left
\* out at the end.
LEMMA PassStarts ==
  ASSUME NEW S \in SUBSET Changed
  PROVE  /\ NextIn(S, 0) \in S \cup {0} /\ Passed(S, NextIn(S, 0)) = {}
<1>1. NumFiles \in Nat /\ S \in SUBSET (1 .. NumFiles) /\ 0 \in 0 .. NumFiles
  BY WriteBackAssumption DEF Changed, Files
<1>2. \/ NextIn(S, 0) = 0 /\ \A g \in S : g <= 0
      \/ NextIn(S, 0) \in S /\ \A g \in S : g > 0 => NextIn(S, 0) <= g
  BY <1>1, NextInIs
<1>3. \A g \in S : g \in Nat /\ g > 0
  BY <1>1
<1> QED BY <1>2, <1>3 DEF Passed

LEMMA PassGoesOn ==
  ASSUME NEW S \in SUBSET Changed, NEW c \in S
  PROVE  /\ NextIn(S, c) \in S \cup {0}
         /\ Passed(S, NextIn(S, c)) = Passed(S, c) \cup {c}
         /\ c \notin Passed(S, c) /\ c # 0
<1>1. NumFiles \in Nat /\ S \in SUBSET (1 .. NumFiles) /\ c \in 0 .. NumFiles
  BY WriteBackAssumption DEF Changed, Files
<1>2. \/ NextIn(S, c) = 0 /\ \A g \in S : g <= c
      \/ NextIn(S, c) \in S /\ NextIn(S, c) > c /\ \A g \in S : g > c => NextIn(S, c) <= g
  BY <1>1, NextInIs
<1>3. \A g \in S : g \in Nat /\ g > 0
  BY <1>1
<1>4. Passed(S, c) \cup {c} = {g \in S : g <= c}
  BY <1>3 DEF Passed
<1>5. CASE NextIn(S, c) = 0 /\ \A g \in S : g <= c
  BY <1>3, <1>4, <1>5 DEF Passed
<1>6. CASE NextIn(S, c) \in S /\ NextIn(S, c) > c /\ \A g \in S : g > c => NextIn(S, c) <= g
  <2>1. NextIn(S, c) # 0 /\ NextIn(S, c) \in Nat
    BY <1>3, <1>6
  <2>2. \A g \in S : g < NextIn(S, c) <=> g <= c
    BY <1>3, <1>6, <2>1
  <2> QED BY <1>3, <1>4, <1>6, <2>1, <2>2 DEF Passed
<1> QED BY <1>2, <1>5, <1>6

LEMMA PassEnds ==
  ASSUME NEW S
  PROVE  Passed(S, 0) = S
BY DEF Passed

-----------------------------------------------------------------------------
LEMMA InitStep == Init => IInv
<1> SUFFICES ASSUME Init PROVE IInv
  OBVIOUS
<1>1. disk \in [Files -> Contents] /\ temp \subseteq Files /\ edits \in 0 .. MaxEdits /\ reviews \in Nat
  BY WriteBackAssumption DEF Init, Contents
<1>2. DOMAIN <<>> = {}
  OBVIOUS
<1>3. BackupTyped
  BY <1>2 DEF Init, BackupTyped, NoFolder
<1>4. TypeInv
  BY <1>1, <1>2, <1>3 DEF Init, TypeInv, DiskOK, SessionOK, ProgramOK, Pcs
<1>5. StatusOK /\ ReadOK /\ PutOK /\ BackupOK /\ GapOK
  BY DEF Init, StatusOK, ReadOK, PutOK, BackupOK, GapOK, BeforePcs, WritePcs, UndoPcs
<1>6. OriginalsKept /\ AllWrittenOrNone /\ EditsSurvive
  BY <1>2 DEF Init, OriginalsKept, OriginalsSaved, AllWrittenOrNone, EditsSurvive
<1> QED BY <1>4, <1>5, <1>6 DEF IInv

\* A folder that is gone holds nothing, like one just made.
LEMMA NoneIn == DOMAIN <<>> = {} /\ NoFolder.made = FALSE /\ DOMAIN NoFolder.has = {}
BY DEF NoFolder

LEMMA FolderGoes ==
  ASSUME TypeInv, backup' = NoFolder \/ UNCHANGED backup
  PROVE  BackupTyped'
<1>1. CASE backup' = NoFolder
  <2>1. backup'.made = FALSE /\ DOMAIN backup'.has = {}
    BY <1>1, NoneIn
  <2>2. backup' = [made |-> backup'.made, has |-> backup'.has]
    BY <1>1 DEF NoFolder
  <2> QED BY <2>1, <2>2 DEF BackupTyped
<1>2. CASE UNCHANGED backup
  BY <1>2 DEF TypeInv, BackupTyped
<1> QED BY <1>1, <1>2

\* Steps before anything is written.

LEMMA BeginStep ==
  ASSUME IInv, Begin
  PROVE  IInv'
<1> USE DEF Begin, session, program, history, bounds, Goto, Works, Fails, Quiet
<1>1. TypeInv'
  <2>1. DiskOK'
    BY DEF IInv, TypeInv, DiskOK
  <2>2. BackupTyped'
    BY DEF IInv, TypeInv, BackupTyped
  <2>3. SessionOK'
    BY DEF IInv, TypeInv, SessionOK
  <2>4. ProgramOK'
    BY DEF IInv, TypeInv, ProgramOK, Pcs
  <2> QED BY <2>1, <2>2, <2>3, <2>4 DEF TypeInv
<1>2. StatusOK' /\ ReadOK'
  BY DEF IInv, StatusOK, ReadOK, AllWrittenOrNone, BeforePcs, WritePcs, UndoPcs
<1>3. PutOK'
  BY DEF IInv, TypeInv, ProgramOK, PutOK, StatusOK, ReadOK, AllWrittenOrNone, BeforePcs, WritePcs, UndoPcs
<1>4. BackupOK'
  BY DEF IInv, TypeInv, BackupTyped, ProgramOK, BackupOK, ReadOK, BeforePcs, WritePcs, UndoPcs
<1>5. GapOK'
  BY DEF IInv, GapOK
<1>6. OriginalsKept'
  <2>1. put' \subseteq DOMAIN orig'
    BY DEF IInv, OriginalsKept
  <2>2. OriginalsSaved'
    BY DEF IInv, StatusOK, PutOK, AllWrittenOrNone, OriginalsKept, OriginalsSaved, HasOriginal, BeforePcs, WritePcs, UndoPcs
  <2> QED BY <2>1, <2>2 DEF OriginalsKept
<1>7. AllWrittenOrNone' /\ EditsSurvive'
  BY DEF IInv, StatusOK, PutOK, AllWrittenOrNone, EditsSurvive, BeforePcs, WritePcs, UndoPcs
<1> QED BY <1>1, <1>2, <1>3, <1>4, <1>5, <1>6, <1>7 DEF IInv

LEMMA ReturnStep ==
  ASSUME IInv, Return
  PROVE  IInv'
<1> USE DEF Return, session, program, history, bounds, Goto, Works, Fails, Quiet
<1>1. TypeInv'
  <2>1. DiskOK'
    BY DEF IInv, TypeInv, DiskOK
  <2>2. BackupTyped'
    BY DEF IInv, TypeInv, BackupTyped
  <2>3. SessionOK'
    BY DEF IInv, TypeInv, SessionOK
  <2>4. ProgramOK'
    BY DEF IInv, TypeInv, ProgramOK, Pcs
  <2> QED BY <2>1, <2>2, <2>3, <2>4 DEF TypeInv
<1>2. StatusOK' /\ ReadOK'
  BY DEF IInv, StatusOK, ReadOK, AllWrittenOrNone, BeforePcs, WritePcs, UndoPcs
<1>3. PutOK'
  BY DEF IInv, TypeInv, ProgramOK, PutOK, StatusOK, ReadOK, AllWrittenOrNone, BeforePcs, WritePcs, UndoPcs
<1>4. BackupOK'
  BY DEF IInv, TypeInv, BackupTyped, ProgramOK, BackupOK, ReadOK, BeforePcs, WritePcs, UndoPcs
<1>5. GapOK'
  BY DEF IInv, GapOK
<1>6. OriginalsKept'
  <2>1. put' \subseteq DOMAIN orig'
    BY DEF IInv, OriginalsKept
  <2>2. OriginalsSaved'
    BY DEF IInv, StatusOK, PutOK, AllWrittenOrNone, OriginalsKept, OriginalsSaved, HasOriginal, BeforePcs, WritePcs, UndoPcs
  <2> QED BY <2>1, <2>2 DEF OriginalsKept
<1>7. AllWrittenOrNone' /\ EditsSurvive'
  BY DEF IInv, StatusOK, PutOK, AllWrittenOrNone, EditsSurvive, BeforePcs, WritePcs, UndoPcs
<1> QED BY <1>1, <1>2, <1>3, <1>4, <1>5, <1>6, <1>7 DEF IInv

LEMMA RewriteStep ==
  ASSUME IInv, Rewrite
  PROVE  IInv'
<1> USE DEF Rewrite, session, program, history, bounds, Goto, Works, Fails, Quiet
<1>1. TypeInv'
  <2>1. DiskOK'
    BY DEF IInv, TypeInv, DiskOK
  <2>2. BackupTyped'
    BY DEF IInv, TypeInv, BackupTyped
  <2>3. SessionOK'
    BY DEF IInv, TypeInv, SessionOK
  <2>4. ProgramOK'
    <3>1. DOMAIN read' \subseteq Changed /\ \A f \in DOMAIN read' : read'[f] \in Contents
      <4>1. CASE UNCHANGED read
        BY <4>1 DEF IInv, TypeInv, ProgramOK
      <4>2. CASE read' = [f \in Changed |-> disk[f]]
        BY <4>2 DEF IInv, TypeInv, DiskOK, Changed
      <4> QED BY <4>1, <4>2
    <3> QED BY <3>1 DEF IInv, TypeInv, ProgramOK, Pcs
  <2> QED BY <2>1, <2>2, <2>3, <2>4 DEF TypeInv
<1>2. StatusOK' /\ ReadOK'
  BY DEF IInv, StatusOK, ReadOK, AllWrittenOrNone, BeforePcs, WritePcs, UndoPcs
<1>3. PutOK'
  BY DEF IInv, TypeInv, ProgramOK, PutOK, StatusOK, ReadOK, AllWrittenOrNone, BeforePcs, WritePcs, UndoPcs
<1>4. BackupOK'
  BY DEF IInv, TypeInv, BackupTyped, ProgramOK, BackupOK, ReadOK, BeforePcs, WritePcs, UndoPcs
<1>5. GapOK'
  BY DEF IInv, GapOK
<1>6. OriginalsKept'
  <2>1. put' \subseteq DOMAIN orig'
    BY DEF IInv, OriginalsKept
  <2>2. OriginalsSaved'
    BY DEF IInv, StatusOK, PutOK, AllWrittenOrNone, OriginalsKept, OriginalsSaved, HasOriginal, BeforePcs, WritePcs, UndoPcs
  <2> QED BY <2>1, <2>2 DEF OriginalsKept
<1>7. AllWrittenOrNone' /\ EditsSurvive'
  BY DEF IInv, StatusOK, PutOK, AllWrittenOrNone, EditsSurvive, BeforePcs, WritePcs, UndoPcs
<1> QED BY <1>1, <1>2, <1>3, <1>4, <1>5, <1>6, <1>7 DEF IInv

LEMMA CannotReadStep ==
  ASSUME IInv, CannotRead
  PROVE  IInv'
<1> USE DEF CannotRead, session, program, history, bounds, Goto, Works, Fails, Quiet
<1>1. TypeInv'
  <2>1. DiskOK'
    BY DEF IInv, TypeInv, DiskOK
  <2>2. BackupTyped'
    BY DEF IInv, TypeInv, BackupTyped
  <2>3. SessionOK'
    BY DEF IInv, TypeInv, SessionOK
  <2>4. ProgramOK'
    BY DEF IInv, TypeInv, ProgramOK, Pcs
  <2> QED BY <2>1, <2>2, <2>3, <2>4 DEF TypeInv
<1>2. StatusOK' /\ ReadOK'
  BY DEF IInv, StatusOK, ReadOK, AllWrittenOrNone, BeforePcs, WritePcs, UndoPcs
<1>3. PutOK'
  BY DEF IInv, TypeInv, ProgramOK, PutOK, StatusOK, ReadOK, AllWrittenOrNone, BeforePcs, WritePcs, UndoPcs
<1>4. BackupOK'
  BY DEF IInv, TypeInv, BackupTyped, ProgramOK, BackupOK, ReadOK, BeforePcs, WritePcs, UndoPcs
<1>5. GapOK'
  BY DEF IInv, GapOK
<1>6. OriginalsKept'
  <2>1. put' \subseteq DOMAIN orig'
    BY DEF IInv, OriginalsKept
  <2>2. OriginalsSaved'
    BY DEF IInv, StatusOK, PutOK, AllWrittenOrNone, OriginalsKept, OriginalsSaved, HasOriginal, BeforePcs, WritePcs, UndoPcs
  <2> QED BY <2>1, <2>2 DEF OriginalsKept
<1>7. AllWrittenOrNone' /\ EditsSurvive'
  BY DEF IInv, StatusOK, PutOK, AllWrittenOrNone, EditsSurvive, BeforePcs, WritePcs, UndoPcs
<1> QED BY <1>1, <1>2, <1>3, <1>4, <1>5, <1>6, <1>7 DEF IInv

LEMMA MarkStep ==
  ASSUME IInv, Mark
  PROVE  IInv'
<1> USE DEF Mark, session, program, history, bounds, Goto, Works, Fails, Quiet
<1>1. TypeInv'
  <2>1. DiskOK'
    BY DEF IInv, TypeInv, DiskOK
  <2>2. BackupTyped'
    BY DEF IInv, TypeInv, BackupTyped
  <2>3. SessionOK'
    BY DEF IInv, TypeInv, SessionOK
  <2>4. ProgramOK'
    BY DEF IInv, TypeInv, ProgramOK, Pcs
  <2> QED BY <2>1, <2>2, <2>3, <2>4 DEF TypeInv
<1>2. StatusOK' /\ ReadOK'
  BY DEF IInv, StatusOK, ReadOK, AllWrittenOrNone, BeforePcs, WritePcs, UndoPcs
<1>3. PutOK'
  BY DEF IInv, TypeInv, ProgramOK, PutOK, StatusOK, ReadOK, AllWrittenOrNone, BeforePcs, WritePcs, UndoPcs
<1>4. BackupOK'
  BY DEF IInv, TypeInv, BackupTyped, ProgramOK, BackupOK, ReadOK, BeforePcs, WritePcs, UndoPcs
<1>5. GapOK'
  BY DEF IInv, GapOK
<1>6. OriginalsKept'
  <2>1. put' \subseteq DOMAIN orig'
    BY DEF IInv, OriginalsKept
  <2>2. OriginalsSaved'
    BY DEF IInv, StatusOK, PutOK, AllWrittenOrNone, OriginalsKept, OriginalsSaved, HasOriginal, BeforePcs, WritePcs, UndoPcs
  <2> QED BY <2>1, <2>2 DEF OriginalsKept
<1>7. AllWrittenOrNone' /\ EditsSurvive'
  BY DEF IInv, StatusOK, PutOK, AllWrittenOrNone, EditsSurvive, BeforePcs, WritePcs, UndoPcs
<1> QED BY <1>1, <1>2, <1>3, <1>4, <1>5, <1>6, <1>7 DEF IInv

LEMMA MakeFolderStep ==
  ASSUME IInv, MakeFolder
  PROVE  IInv'
<1> USE DEF MakeFolder, session, program, history, bounds, Goto, Works, Fails, Quiet
<1>1. TypeInv'
  <2>1. DiskOK'
    BY DEF IInv, TypeInv, DiskOK
  <2>2. BackupTyped'
    <3>1. CASE UNCHANGED backup
      BY <3>1 DEF IInv, TypeInv, BackupTyped
    <3>2. CASE backup' = [made |-> TRUE, has |-> <<>>]
      <4>1. backup'.made = TRUE /\ DOMAIN backup'.has = {}
        BY <3>2, NoneIn
      <4> QED BY <3>2, <4>1 DEF BackupTyped
    <3> QED BY <3>1, <3>2
  <2>3. SessionOK'
    BY DEF IInv, TypeInv, SessionOK
  <2>4. ProgramOK'
    <3>1. current' \in Changed \cup {0}
      BY PassStarts
    <3> QED BY <3>1 DEF IInv, TypeInv, ProgramOK, Pcs
  <2> QED BY <2>1, <2>2, <2>3, <2>4 DEF TypeInv
<1>2. StatusOK' /\ ReadOK'
  BY DEF IInv, StatusOK, ReadOK, AllWrittenOrNone, BeforePcs, WritePcs, UndoPcs
<1>3. PutOK'
  BY DEF IInv, TypeInv, ProgramOK, PutOK, StatusOK, ReadOK, AllWrittenOrNone, BeforePcs, WritePcs, UndoPcs
<1>4. BackupOK'
  <2>1. CASE pc' = "save"
    <3>1. backup'.made /\ DOMAIN backup'.has = {} /\ ~backup.made
      BY <2>1, NoneIn
    <3>2. Passed(Changed, current') = {}
      BY PassStarts
    <3>3. DOMAIN backup.has = {} /\ DOMAIN owed = {}
      BY <3>1 DEF IInv, TypeInv, BackupTyped, OriginalsKept, OriginalsSaved, HasOriginal
    <3> QED BY <2>1, <3>1, <3>2, <3>3 DEF BackupOK, WritePcs, UndoPcs
  <2>2. CASE pc' = "refuse"
    BY <2>2 DEF BackupOK, WritePcs, UndoPcs
  <2> QED BY <2>1, <2>2
<1>5. GapOK'
  BY DEF IInv, GapOK
<1>6. OriginalsKept'
  <2>1. put' \subseteq DOMAIN orig'
    BY DEF IInv, OriginalsKept
  <2>2. OriginalsSaved'
    <3>1. put' = {}
      BY DEF IInv, PutOK, BeforePcs
    <3>2. CASE UNCHANGED backup
      BY <3>1, <3>2 DEF IInv, OriginalsKept, OriginalsSaved, HasOriginal
    <3>3. CASE ~backup.made
      <4>1. DOMAIN owed = {}
        BY <3>3 DEF IInv, TypeInv, BackupTyped, OriginalsKept, OriginalsSaved, HasOriginal
      <4> QED BY <3>1, <4>1 DEF OriginalsSaved
    <3> QED BY <3>2, <3>3
  <2> QED BY <2>1, <2>2 DEF OriginalsKept
<1>7. AllWrittenOrNone' /\ EditsSurvive'
  BY DEF IInv, StatusOK, PutOK, AllWrittenOrNone, EditsSurvive, BeforePcs, WritePcs, UndoPcs
<1> QED BY <1>1, <1>2, <1>3, <1>4, <1>5, <1>6, <1>7 DEF IInv

LEMMA SaveOriginalStep ==
  ASSUME IInv, SaveOriginal
  PROVE  IInv'
<1> USE DEF SaveOriginal, session, program, history, bounds, Goto, Works, Fails, Quiet
<1> DEFINE Saved == [f \in DOMAIN backup.has \cup {current} |-> read[f]]
<1>1. TypeInv'
  <2>1. DiskOK'
    BY DEF IInv, TypeInv, DiskOK
  <2>2. BackupTyped'
    <3>1. CASE UNCHANGED backup
      BY <3>1 DEF IInv, TypeInv, BackupTyped
    <3>2. CASE backup' = [backup EXCEPT !.has = Saved] /\ current # 0
      <4>1. backup' = [made |-> backup.made, has |-> Saved] /\ DOMAIN Saved = DOMAIN backup.has \cup {current}
        BY <3>2 DEF IInv, TypeInv, BackupTyped
      <4>2. current \in Changed /\ DOMAIN read = Changed
        BY <3>2 DEF IInv, TypeInv, ProgramOK, ReadOK
      <4>3. \A f \in DOMAIN Saved : Saved[f] \in Contents
        BY <4>1, <4>2 DEF IInv, TypeInv, BackupTyped, ProgramOK
      <4>4. backup.made
        BY DEF IInv, BackupOK
      <4> HIDE DEF Saved
      <4>5. backup'.made = backup.made /\ backup'.has = Saved
        BY <4>1
      <4> QED BY <4>1, <4>2, <4>3, <4>4, <4>5 DEF IInv, TypeInv, BackupTyped
    <3> QED BY <3>1, <3>2
  <2>3. SessionOK'
    BY DEF IInv, TypeInv, SessionOK
  <2>4. ProgramOK'
    <3>1. current' \in Changed \cup {0}
      BY PassStarts, PassGoesOn DEF IInv, TypeInv, ProgramOK
    <3> QED BY <3>1 DEF IInv, TypeInv, ProgramOK, Pcs
  <2> QED BY <2>1, <2>2, <2>3, <2>4 DEF TypeInv
<1>2. StatusOK' /\ ReadOK'
  BY DEF IInv, StatusOK, ReadOK, AllWrittenOrNone, BeforePcs, WritePcs, UndoPcs
<1>3. PutOK'
  <2>1. put' = {} /\ written' = {} /\ left' = {}
    BY DEF IInv, PutOK, ReadOK, BeforePcs
  <2>2. pc' = "write" => Passed(Changed, current') = {}
    BY PassStarts
  <2>3. pc' \in {"save", "discard", "write"}
    OBVIOUS
  <2> QED BY <2>1, <2>2, <2>3 DEF PutOK, BeforePcs, WritePcs, UndoPcs
<1>4. BackupOK'
  <2>1. CASE current = 0
    <3>1. DOMAIN backup.has = Changed
      BY <2>1, PassEnds DEF IInv, BackupOK
    <3> QED BY <2>1, <3>1 DEF IInv, BackupOK, WritePcs, UndoPcs
  <2>2. CASE pc' = "save"
    <3>1. current # 0 /\ current \in Changed /\ current' = NextIn(Changed, current)
      BY <2>2 DEF IInv, TypeInv, ProgramOK
    <3>2. backup'.has = Saved /\ backup'.made = backup.made /\ read' = read /\ owed' = owed
      BY <2>2, <3>1 DEF IInv, TypeInv, BackupTyped
    <3>3. DOMAIN Saved = Passed(Changed, current')
      BY <3>1, PassGoesOn DEF IInv, BackupOK
    <3>4. \A f \in DOMAIN Saved : Saved[f] = read[f]
      OBVIOUS
    <3> HIDE DEF Saved
    <3> QED BY <2>2, <3>2, <3>3, <3>4 DEF IInv, BackupOK, WritePcs, UndoPcs
  <2>3. CASE pc' = "discard"
    BY <2>3 DEF IInv, BackupOK, WritePcs, UndoPcs
  <2> QED BY <2>1, <2>2, <2>3
<1>5. GapOK'
  BY DEF IInv, GapOK
<1>6. OriginalsKept'
  <2>1. put' \subseteq DOMAIN orig'
    BY DEF IInv, OriginalsKept
  <2>2. OriginalsSaved'
    <3>1. put' = {} /\ DOMAIN owed' = {}
      BY DEF IInv, PutOK, BackupOK, BeforePcs
    <3> QED BY <3>1 DEF OriginalsSaved
  <2> QED BY <2>1, <2>2 DEF OriginalsKept
<1>7. AllWrittenOrNone' /\ EditsSurvive'
  BY DEF IInv, StatusOK, PutOK, AllWrittenOrNone, EditsSurvive, BeforePcs, WritePcs, UndoPcs
<1> QED BY <1>1, <1>2, <1>3, <1>4, <1>5, <1>6, <1>7 DEF IInv

LEMMA DiscardStep ==
  ASSUME IInv, Discard
  PROVE  IInv'
<1> USE DEF Discard, RemoveFolder, NoFolder, session, program, history, bounds, Goto, Works, Fails, Quiet
<1>1. TypeInv'
  <2>1. DiskOK'
    BY DEF IInv, TypeInv, DiskOK
  <2>2. BackupTyped'
    BY FolderGoes DEF IInv
  <2>3. SessionOK'
    BY DEF IInv, TypeInv, SessionOK
  <2>4. ProgramOK'
    BY DEF IInv, TypeInv, ProgramOK, Pcs
  <2> QED BY <2>1, <2>2, <2>3, <2>4 DEF TypeInv
<1>2. StatusOK' /\ ReadOK'
  BY DEF IInv, StatusOK, ReadOK, AllWrittenOrNone, BeforePcs, WritePcs, UndoPcs
<1>3. PutOK'
  BY DEF IInv, TypeInv, ProgramOK, PutOK, StatusOK, ReadOK, AllWrittenOrNone, BeforePcs, WritePcs, UndoPcs
<1>4. BackupOK'
  BY DEF IInv, TypeInv, BackupTyped, ProgramOK, BackupOK, ReadOK, BeforePcs, WritePcs, UndoPcs
<1>5. GapOK'
  BY DEF IInv, GapOK
<1>6. OriginalsKept'
  <2>1. put' \subseteq DOMAIN orig'
    BY DEF IInv, OriginalsKept
  <2>2. OriginalsSaved'
    <3>1. put' = {} /\ DOMAIN owed' = {}
      BY DEF IInv, PutOK, BackupOK, BeforePcs
    <3> QED BY <3>1 DEF OriginalsSaved
  <2> QED BY <2>1, <2>2 DEF OriginalsKept
<1>7. AllWrittenOrNone' /\ EditsSurvive'
  BY DEF IInv, StatusOK, PutOK, AllWrittenOrNone, EditsSurvive, BeforePcs, WritePcs, UndoPcs
<1> QED BY <1>1, <1>2, <1>3, <1>4, <1>5, <1>6, <1>7 DEF IInv

LEMMA DecideStep ==
  ASSUME IInv, Decide
  PROVE  IInv'
<1> USE DEF Decide, Undone, session, program, history, bounds, Goto, Works, Fails, Quiet
<1>1. TypeInv'
  <2>1. DiskOK'
    BY DEF IInv, TypeInv, DiskOK
  <2>2. BackupTyped'
    BY DEF IInv, TypeInv, BackupTyped
  <2>3. SessionOK'
    BY DEF IInv, TypeInv, SessionOK
  <2>4. ProgramOK'
    <3>1. current' \in Changed \cup {0} /\ left' \subseteq written'
      BY PassStarts DEF IInv, TypeInv, ProgramOK
    <3> QED BY <3>1 DEF IInv, TypeInv, ProgramOK, Pcs
  <2> QED BY <2>1, <2>2, <2>3, <2>4 DEF TypeInv
<1>2. StatusOK' /\ ReadOK'
  BY DEF IInv, StatusOK, ReadOK, AllWrittenOrNone, BeforePcs, WritePcs, UndoPcs
<1>3. PutOK'
  <2>1. CASE pc' = "done"
    BY <2>1 DEF PutOK, BeforePcs, WritePcs, UndoPcs
  <2>2. CASE pc' = "undo"
    <3>1. current' = NextIn(written, 0) /\ written' = written /\ left' = left /\ put' = put
      BY <2>2
    <3>2. written \in SUBSET Changed
      BY DEF IInv, TypeInv, ProgramOK
    <3>3. current' \in written \cup {0} /\ Passed(written, current') = {}
      BY <3>1, <3>2, PassStarts
    <3>4. put = written /\ left = {}
      BY DEF IInv, PutOK, WritePcs
    <3>5. put' = left' \cup (written' \ Passed(written', current'))
      BY <3>1, <3>3, <3>4
    <3> QED BY <2>2, <3>1, <3>3, <3>4, <3>5 DEF PutOK, BeforePcs, WritePcs, UndoPcs
  <2> QED BY <2>1, <2>2
<1>4. BackupOK'
  BY DEF IInv, TypeInv, BackupTyped, ProgramOK, BackupOK, ReadOK, BeforePcs, WritePcs, UndoPcs
<1>5. GapOK'
  BY DEF IInv, GapOK
<1>6. OriginalsKept'
  <2>1. put' \subseteq DOMAIN orig'
    BY DEF IInv, OriginalsKept
  <2>2. OriginalsSaved'
    BY DEF IInv, StatusOK, PutOK, AllWrittenOrNone, OriginalsKept, OriginalsSaved, HasOriginal, BeforePcs, WritePcs, UndoPcs
  <2> QED BY <2>1, <2>2 DEF OriginalsKept
<1>7. AllWrittenOrNone' /\ EditsSurvive'
  <2>1. put = Changed /\ status = "writing"
    BY PassEnds DEF IInv, PutOK, StatusOK, WritePcs
  <2> QED BY <2>1 DEF IInv, AllWrittenOrNone, EditsSurvive
<1> QED BY <1>1, <1>2, <1>3, <1>4, <1>5, <1>6, <1>7 DEF IInv

LEMMA DoneStep ==
  ASSUME IInv, Done
  PROVE  IInv'
<1> USE DEF Done, session, program, history, bounds, Goto, Works, Fails, Quiet
<1>1. TypeInv'
  <2>1. DiskOK'
    BY DEF IInv, TypeInv, DiskOK
  <2>2. BackupTyped'
    BY DEF IInv, TypeInv, BackupTyped
  <2>3. SessionOK'
    BY DEF IInv, TypeInv, SessionOK
  <2>4. ProgramOK'
    BY DEF IInv, TypeInv, ProgramOK, Pcs
  <2> QED BY <2>1, <2>2, <2>3, <2>4 DEF TypeInv
<1>2. StatusOK' /\ ReadOK'
  BY DEF IInv, StatusOK, ReadOK, AllWrittenOrNone, BeforePcs, WritePcs, UndoPcs
<1>3. PutOK'
  BY DEF IInv, TypeInv, ProgramOK, PutOK, StatusOK, ReadOK, AllWrittenOrNone, BeforePcs, WritePcs, UndoPcs
<1>4. BackupOK'
  BY DEF IInv, TypeInv, BackupTyped, ProgramOK, BackupOK, ReadOK, BeforePcs, WritePcs, UndoPcs
<1>5. GapOK'
  BY DEF IInv, GapOK
<1>6. OriginalsKept'
  <2>1. put' \subseteq DOMAIN orig'
    BY DEF IInv, OriginalsKept
  <2>2. OriginalsSaved'
    BY DEF IInv, StatusOK, PutOK, AllWrittenOrNone, OriginalsKept, OriginalsSaved, HasOriginal, BeforePcs, WritePcs, UndoPcs
  <2> QED BY <2>1, <2>2 DEF OriginalsKept
<1>7. AllWrittenOrNone' /\ EditsSurvive'
  BY DEF IInv, StatusOK, PutOK, AllWrittenOrNone, EditsSurvive, BeforePcs, WritePcs, UndoPcs
<1> QED BY <1>1, <1>2, <1>3, <1>4, <1>5, <1>6, <1>7 DEF IInv

LEMMA RemoveStep ==
  ASSUME IInv, Remove
  PROVE  IInv'
<1> USE DEF Remove, RemoveFolder, NoFolder, session, program, history, bounds, Goto, Works, Fails, Quiet
<1>1. TypeInv'
  <2>1. DiskOK'
    BY DEF IInv, TypeInv, DiskOK
  <2>2. BackupTyped'
    BY FolderGoes DEF IInv
  <2>3. SessionOK'
    BY DEF IInv, TypeInv, SessionOK
  <2>4. ProgramOK'
    BY DEF IInv, TypeInv, ProgramOK, Pcs
  <2> QED BY <2>1, <2>2, <2>3, <2>4 DEF TypeInv
<1>2. StatusOK' /\ ReadOK'
  BY DEF IInv, StatusOK, ReadOK, AllWrittenOrNone, BeforePcs, WritePcs, UndoPcs
<1>3. PutOK'
  BY DEF IInv, TypeInv, ProgramOK, PutOK, StatusOK, ReadOK, AllWrittenOrNone, BeforePcs, WritePcs, UndoPcs
<1>4. BackupOK'
  BY DEF IInv, TypeInv, BackupTyped, ProgramOK, BackupOK, ReadOK, BeforePcs, WritePcs, UndoPcs
<1>5. GapOK'
  BY DEF IInv, GapOK
<1>6. OriginalsKept'
  <2>1. put' \subseteq DOMAIN orig'
    BY DEF IInv, OriginalsKept
  <2>2. OriginalsSaved'
    <3>1. status' # "writing" /\ DOMAIN owed' = {}
      BY DEF IInv, StatusOK, BackupOK
    <3> QED BY <3>1 DEF OriginalsSaved
  <2> QED BY <2>1, <2>2 DEF OriginalsKept
<1>7. AllWrittenOrNone' /\ EditsSurvive'
  BY DEF IInv, StatusOK, PutOK, AllWrittenOrNone, EditsSurvive, BeforePcs, WritePcs, UndoPcs
<1> QED BY <1>1, <1>2, <1>3, <1>4, <1>5, <1>6, <1>7 DEF IInv

LEMMA UnlistStep ==
  ASSUME IInv, Unlist
  PROVE  IInv'
<1> USE DEF Unlist, session, program, history, bounds, Goto, Works, Fails, Quiet
<1>1. TypeInv'
  <2>1. DiskOK'
    BY DEF IInv, TypeInv, DiskOK
  <2>2. BackupTyped'
    BY DEF IInv, TypeInv, BackupTyped
  <2>3. SessionOK'
    BY DEF IInv, TypeInv, SessionOK
  <2>4. ProgramOK'
    BY DEF IInv, TypeInv, ProgramOK, Pcs
  <2> QED BY <2>1, <2>2, <2>3, <2>4 DEF TypeInv
<1>2. StatusOK' /\ ReadOK'
  BY DEF IInv, StatusOK, ReadOK, AllWrittenOrNone, BeforePcs, WritePcs, UndoPcs
<1>3. PutOK'
  BY DEF IInv, TypeInv, ProgramOK, PutOK, StatusOK, ReadOK, AllWrittenOrNone, BeforePcs, WritePcs, UndoPcs
<1>4. BackupOK'
  BY DEF IInv, TypeInv, BackupTyped, ProgramOK, BackupOK, ReadOK, BeforePcs, WritePcs, UndoPcs
<1>5. GapOK'
  BY DEF IInv, GapOK
<1>6. OriginalsKept'
  <2>1. put' \subseteq DOMAIN orig'
    BY DEF IInv, OriginalsKept
  <2>2. OriginalsSaved'
    BY DEF IInv, StatusOK, PutOK, AllWrittenOrNone, OriginalsKept, OriginalsSaved, HasOriginal, BeforePcs, WritePcs, UndoPcs
  <2> QED BY <2>1, <2>2 DEF OriginalsKept
<1>7. AllWrittenOrNone' /\ EditsSurvive'
  BY DEF IInv, StatusOK, PutOK, AllWrittenOrNone, EditsSurvive, BeforePcs, WritePcs, UndoPcs
<1> QED BY <1>1, <1>2, <1>3, <1>4, <1>5, <1>6, <1>7 DEF IInv

LEMMA RefuseStep ==
  ASSUME IInv, Refuse
  PROVE  IInv'
<1> USE DEF Refuse, session, program, history, bounds, Goto, Works, Fails, Quiet
<1>1. TypeInv'
  <2>1. DiskOK'
    BY DEF IInv, TypeInv, DiskOK
  <2>2. BackupTyped'
    BY DEF IInv, TypeInv, BackupTyped
  <2>3. SessionOK'
    BY DEF IInv, TypeInv, SessionOK
  <2>4. ProgramOK'
    BY DEF IInv, TypeInv, ProgramOK, Pcs
  <2> QED BY <2>1, <2>2, <2>3, <2>4 DEF TypeInv
<1>2. StatusOK' /\ ReadOK'
  BY DEF IInv, StatusOK, ReadOK, AllWrittenOrNone, BeforePcs, WritePcs, UndoPcs
<1>3. PutOK'
  BY DEF IInv, TypeInv, ProgramOK, PutOK, StatusOK, ReadOK, AllWrittenOrNone, BeforePcs, WritePcs, UndoPcs
<1>4. BackupOK'
  BY DEF IInv, TypeInv, BackupTyped, ProgramOK, BackupOK, ReadOK, BeforePcs, WritePcs, UndoPcs
<1>5. GapOK'
  BY DEF IInv, GapOK
<1>6. OriginalsKept'
  <2>1. put' \subseteq DOMAIN orig'
    BY DEF IInv, OriginalsKept
  <2>2. OriginalsSaved'
    BY DEF IInv, StatusOK, PutOK, AllWrittenOrNone, OriginalsKept, OriginalsSaved, HasOriginal, BeforePcs, WritePcs, UndoPcs
  <2> QED BY <2>1, <2>2 DEF OriginalsKept
<1>7. AllWrittenOrNone' /\ EditsSurvive'
  BY DEF IInv, StatusOK, PutOK, AllWrittenOrNone, EditsSurvive, BeforePcs, WritePcs, UndoPcs
<1> QED BY <1>1, <1>2, <1>3, <1>4, <1>5, <1>6, <1>7 DEF IInv

LEMMA ReleaseStep ==
  ASSUME IInv, Release
  PROVE  IInv'
<1> USE DEF Release, Ended, session, program, history, bounds, Goto, Works, Fails, Quiet
<1>1. TypeInv'
  <2>1. DiskOK'
    BY DEF IInv, TypeInv, DiskOK
  <2>2. BackupTyped'
    BY DEF IInv, TypeInv, BackupTyped
  <2>3. SessionOK'
    BY DEF IInv, TypeInv, SessionOK
  <2>4. ProgramOK'
    BY NoneIn DEF IInv, TypeInv, ProgramOK, Pcs
  <2> QED BY <2>1, <2>2, <2>3, <2>4 DEF TypeInv
<1>2. StatusOK' /\ ReadOK'
  BY DEF IInv, StatusOK, ReadOK, AllWrittenOrNone, BeforePcs, WritePcs, UndoPcs
<1>3. PutOK'
  BY DEF IInv, TypeInv, ProgramOK, PutOK, StatusOK, ReadOK, AllWrittenOrNone, BeforePcs, WritePcs, UndoPcs
<1>4. BackupOK'
  BY DEF IInv, TypeInv, BackupTyped, ProgramOK, BackupOK, ReadOK, BeforePcs, WritePcs, UndoPcs
<1>5. GapOK'
  BY DEF IInv, GapOK
<1>6. OriginalsKept'
  <2>1. put' \subseteq DOMAIN orig'
    BY DEF IInv, OriginalsKept
  <2>2. OriginalsSaved'
    BY DEF IInv, StatusOK, PutOK, AllWrittenOrNone, OriginalsKept, OriginalsSaved, HasOriginal, BeforePcs, WritePcs, UndoPcs
  <2> QED BY <2>1, <2>2 DEF OriginalsKept
<1>7. AllWrittenOrNone' /\ EditsSurvive'
  BY DEF IInv, StatusOK, PutOK, AllWrittenOrNone, EditsSurvive, BeforePcs, WritePcs, UndoPcs
<1> QED BY <1>1, <1>2, <1>3, <1>4, <1>5, <1>6, <1>7 DEF IInv

LEMMA UndoEndsStep ==
  ASSUME IInv, UndoEnds
  PROVE  IInv'
<1> USE DEF UndoEnds, RemoveFolder, NoFolder, session, program, history, bounds, Goto, Works, Fails, Quiet
<1>1. TypeInv'
  <2>1. DiskOK'
    BY DEF IInv, TypeInv, DiskOK
  <2>2. BackupTyped'
    BY FolderGoes DEF IInv
  <2>3. SessionOK'
    BY DEF IInv, TypeInv, SessionOK
  <2>4. ProgramOK'
    BY DEF IInv, TypeInv, ProgramOK, Pcs
  <2> QED BY <2>1, <2>2, <2>3, <2>4 DEF TypeInv
<1>2. StatusOK' /\ ReadOK'
  BY DEF IInv, StatusOK, ReadOK, AllWrittenOrNone, BeforePcs, WritePcs, UndoPcs
<1>3. PutOK'
  <2>1. Passed(written, 0) = written
    BY PassEnds
  <2>2. pc' = "refuse" => put = {}
    BY <2>1 DEF IInv, PutOK, UndoPcs
  <2> QED BY <2>2 DEF PutOK, BeforePcs, WritePcs, UndoPcs
<1>4. BackupOK'
  BY DEF IInv, TypeInv, BackupTyped, ProgramOK, BackupOK, ReadOK, BeforePcs, WritePcs, UndoPcs
<1>5. GapOK'
  BY DEF IInv, GapOK
<1>6. OriginalsKept'
  <2>1. put' \subseteq DOMAIN orig'
    BY DEF IInv, OriginalsKept
  <2>2. OriginalsSaved'
    <3>1. CASE left = {}
      <4>1. put' = {} /\ DOMAIN owed' = {}
        BY <3>1, PassEnds DEF IInv, PutOK, BackupOK, UndoPcs
      <4> QED BY <4>1 DEF OriginalsSaved
    <3>2. CASE left # {}
      BY <3>2 DEF IInv, OriginalsKept, OriginalsSaved, HasOriginal
    <3> QED BY <3>1, <3>2
  <2> QED BY <2>1, <2>2 DEF OriginalsKept
<1>7. AllWrittenOrNone' /\ EditsSurvive'
  BY DEF IInv, StatusOK, PutOK, AllWrittenOrNone, EditsSurvive, BeforePcs, WritePcs, UndoPcs
<1> QED BY <1>1, <1>2, <1>3, <1>4, <1>5, <1>6, <1>7 DEF IInv

LEMMA SignalStep ==
  ASSUME IInv, Signal
  PROVE  IInv'
<1> USE DEF Signal, session, program, history, bounds, Goto, Works, Fails, Quiet
<1>1. TypeInv'
  <2>1. DiskOK'
    BY DEF IInv, TypeInv, DiskOK
  <2>2. BackupTyped'
    BY DEF IInv, TypeInv, BackupTyped
  <2>3. SessionOK'
    BY DEF IInv, TypeInv, SessionOK
  <2>4. ProgramOK'
    BY DEF IInv, TypeInv, ProgramOK, Pcs
  <2> QED BY <2>1, <2>2, <2>3, <2>4 DEF TypeInv
<1>2. StatusOK' /\ ReadOK'
  BY DEF IInv, StatusOK, ReadOK, AllWrittenOrNone, BeforePcs, WritePcs, UndoPcs
<1>3. PutOK'
  BY DEF IInv, TypeInv, ProgramOK, PutOK, StatusOK, ReadOK, AllWrittenOrNone, BeforePcs, WritePcs, UndoPcs
<1>4. BackupOK'
  BY DEF IInv, TypeInv, BackupTyped, ProgramOK, BackupOK, ReadOK, BeforePcs, WritePcs, UndoPcs
<1>5. GapOK'
  BY DEF IInv, GapOK
<1>6. OriginalsKept'
  <2>1. put' \subseteq DOMAIN orig'
    BY DEF IInv, OriginalsKept
  <2>2. OriginalsSaved'
    BY DEF IInv, StatusOK, PutOK, AllWrittenOrNone, OriginalsKept, OriginalsSaved, HasOriginal, BeforePcs, WritePcs, UndoPcs
  <2> QED BY <2>1, <2>2 DEF OriginalsKept
<1>7. AllWrittenOrNone' /\ EditsSurvive'
  BY DEF IInv, StatusOK, PutOK, AllWrittenOrNone, EditsSurvive, BeforePcs, WritePcs, UndoPcs
<1> QED BY <1>1, <1>2, <1>3, <1>4, <1>5, <1>6, <1>7 DEF IInv

LEMMA KilledStep ==
  ASSUME IInv, Killed
  PROVE  IInv'
<1> USE DEF Killed, Ended, session, program, history, bounds, Goto, Works, Fails, Quiet
<1>1. TypeInv'
  <2>1. DiskOK'
    BY DEF IInv, TypeInv, DiskOK
  <2>2. BackupTyped'
    BY DEF IInv, TypeInv, BackupTyped
  <2>3. SessionOK'
    BY DEF IInv, TypeInv, SessionOK
  <2>4. ProgramOK'
    BY NoneIn DEF IInv, TypeInv, ProgramOK, Pcs
  <2> QED BY <2>1, <2>2, <2>3, <2>4 DEF TypeInv
<1>2. StatusOK' /\ ReadOK'
  BY DEF IInv, StatusOK, ReadOK, AllWrittenOrNone, BeforePcs, WritePcs, UndoPcs
<1>3. PutOK'
  BY DEF IInv, TypeInv, ProgramOK, PutOK, StatusOK, ReadOK, AllWrittenOrNone, BeforePcs, WritePcs, UndoPcs
<1>4. BackupOK'
  BY DEF IInv, TypeInv, BackupTyped, ProgramOK, BackupOK, ReadOK, BeforePcs, WritePcs, UndoPcs
<1>5. GapOK'
  BY DEF IInv, GapOK
<1>6. OriginalsKept'
  <2>1. put' \subseteq DOMAIN orig'
    BY DEF IInv, OriginalsKept
  <2>2. OriginalsSaved'
    BY DEF IInv, StatusOK, PutOK, AllWrittenOrNone, OriginalsKept, OriginalsSaved, HasOriginal, BeforePcs, WritePcs, UndoPcs
  <2> QED BY <2>1, <2>2 DEF OriginalsKept
<1>7. AllWrittenOrNone' /\ EditsSurvive'
  BY DEF IInv, StatusOK, PutOK, AllWrittenOrNone, EditsSurvive, BeforePcs, WritePcs, UndoPcs
<1> QED BY <1>1, <1>2, <1>3, <1>4, <1>5, <1>6, <1>7 DEF IInv

LEMMA CleanUpStep ==
  ASSUME IInv, CleanUp
  PROVE  IInv'
<1> USE DEF CleanUp, NoFolder, session, program, history, bounds, Goto, Works, Fails, Quiet
<1>1. TypeInv'
  <2>1. DiskOK'
    BY DEF IInv, TypeInv, DiskOK
  <2>2. BackupTyped'
    BY DEF IInv, TypeInv, BackupTyped
  <2>3. SessionOK'
    BY DEF IInv, TypeInv, SessionOK
  <2>4. ProgramOK'
    BY DEF IInv, TypeInv, ProgramOK, Pcs
  <2> QED BY <2>1, <2>2, <2>3, <2>4 DEF TypeInv
<1>2. StatusOK' /\ ReadOK'
  BY DEF IInv, StatusOK, ReadOK, AllWrittenOrNone, BeforePcs, WritePcs, UndoPcs
<1>3. PutOK'
  BY DEF IInv, TypeInv, ProgramOK, PutOK, StatusOK, ReadOK, AllWrittenOrNone, BeforePcs, WritePcs, UndoPcs
<1>4. BackupOK'
  BY DEF IInv, TypeInv, BackupTyped, ProgramOK, BackupOK, ReadOK, BeforePcs, WritePcs, UndoPcs
<1>5. GapOK'
  BY DEF IInv, GapOK
<1>6. OriginalsKept'
  <2>1. put' \subseteq DOMAIN orig'
    BY DEF IInv, OriginalsKept
  <2>2. OriginalsSaved'
    BY DEF IInv, StatusOK, PutOK, AllWrittenOrNone, OriginalsKept, OriginalsSaved, HasOriginal, BeforePcs, WritePcs, UndoPcs
  <2> QED BY <2>1, <2>2 DEF OriginalsKept
<1>7. AllWrittenOrNone' /\ EditsSurvive'
  BY DEF IInv, StatusOK, PutOK, AllWrittenOrNone, EditsSurvive, BeforePcs, WritePcs, UndoPcs
<1> QED BY <1>1, <1>2, <1>3, <1>4, <1>5, <1>6, <1>7 DEF IInv

LEMMA NextReviewStep ==
  ASSUME IInv, NextReview
  PROVE  IInv'
<1> USE DEF NextReview, session, program, history, bounds, Goto, Works, Fails, Quiet
<1>1. TypeInv'
  <2>1. DiskOK'
    <3>1. ASSUME NEW f \in Files PROVE [disk[f] EXCEPT !.text = "asked"] \in Contents
      BY DEF IInv, TypeInv, DiskOK, Contents
    <3> QED BY <3>1 DEF IInv, TypeInv, DiskOK
  <2>2. BackupTyped'
    BY DEF IInv, TypeInv, BackupTyped
  <2>3. SessionOK'
    BY DEF IInv, TypeInv, SessionOK
  <2>4. ProgramOK'
    BY DEF IInv, TypeInv, ProgramOK, Pcs
  <2> QED BY <2>1, <2>2, <2>3, <2>4 DEF TypeInv
<1>2. StatusOK' /\ ReadOK'
  BY DEF IInv, StatusOK, ReadOK, AllWrittenOrNone, BeforePcs, WritePcs, UndoPcs
<1>3. PutOK'
  BY DEF IInv, TypeInv, ProgramOK, PutOK, StatusOK, ReadOK, AllWrittenOrNone, BeforePcs, WritePcs, UndoPcs
<1>4. BackupOK'
  BY DEF IInv, TypeInv, BackupTyped, ProgramOK, BackupOK, ReadOK, BeforePcs, WritePcs, UndoPcs
<1>5. GapOK'
  BY DEF IInv, GapOK
<1>6. OriginalsKept'
  <2>1. put' \subseteq DOMAIN orig'
    BY DEF IInv, OriginalsKept
  <2>2. OriginalsSaved'
    BY DEF IInv, StatusOK, PutOK, AllWrittenOrNone, OriginalsKept, OriginalsSaved, HasOriginal, BeforePcs, WritePcs, UndoPcs
  <2> QED BY <2>1, <2>2 DEF OriginalsKept
<1>7. AllWrittenOrNone' /\ EditsSurvive'
  BY DEF IInv, StatusOK, PutOK, AllWrittenOrNone, EditsSurvive, BeforePcs, WritePcs, UndoPcs
<1> QED BY <1>1, <1>2, <1>3, <1>4, <1>5, <1>6, <1>7 DEF IInv

-----------------------------------------------------------------------------
\* Replacing the files and putting them back.

\* The step before a comparison, and one that finds what was expected.
LEMMA GoesOnStep ==
  ASSUME IInv, current # 0, temp' \subseteq Files,
         \/ pc = "write" /\ pc' = "check"
         \/ pc = "check" /\ pc' = "swap" /\ disk[current] = read[current]
         \/ pc = "undo" /\ pc' = "recheck"
         \/ pc = "recheck" /\ pc' = "swapback" /\ disk[current] = NewContents(current),
         UNCHANGED <<disk, backup, status, werr, decided, listed>>,
         UNCHANGED <<read, written, current, left, caught, put, orig, owed, lost, gap, edits, reviews>>
  PROVE  IInv'
<1>1. TypeInv'
  <2>1. DiskOK'
    BY DEF IInv, TypeInv, DiskOK
  <2>2. BackupTyped'
    BY DEF IInv, TypeInv, BackupTyped
  <2>3. SessionOK'
    BY DEF IInv, TypeInv, SessionOK
  <2>4. ProgramOK'
    BY DEF IInv, TypeInv, ProgramOK, Pcs
  <2> QED BY <2>1, <2>2, <2>3, <2>4 DEF TypeInv
<1>2. StatusOK' /\ ReadOK'
  BY DEF IInv, StatusOK, ReadOK, BeforePcs, WritePcs, UndoPcs
<1>3. PutOK'
  BY DEF IInv, PutOK, BeforePcs, WritePcs, UndoPcs
<1>4. BackupOK'
  BY DEF IInv, BackupOK, WritePcs, UndoPcs
<1>5. GapOK'
  <2>1. CASE pc' \in {"swap", "swapback"}
    <3>1. disk[current].edits = read[current].edits
      <4>1. current \in Changed /\ DOMAIN read = Changed
        BY <2>1 DEF IInv, TypeInv, ProgramOK, ReadOK, WritePcs, UndoPcs
      <4>2. read[current] \in Contents
        BY <4>1 DEF IInv, TypeInv, ProgramOK
      <4>3. NewContents(current).edits = read[current].edits
        BY <4>2 DEF NewContents, Contents
      <4> QED BY <2>1, <4>3
    <3> QED BY <3>1 DEF GapOK
  <2>2. CASE pc' \notin {"swap", "swapback"}
    BY <2>2 DEF GapOK
  <2> QED BY <2>1, <2>2
<1>6. OriginalsKept' /\ AllWrittenOrNone' /\ EditsSurvive'
  BY DEF IInv, OriginalsKept, OriginalsSaved, HasOriginal, AllWrittenOrNone, EditsSurvive
<1> QED BY <1>1, <1>2, <1>3, <1>4, <1>5, <1>6 DEF IInv

\* A write that stops short turns to its first file.
LEMMA UndoneStep ==
  ASSUME IInv, pc \in WritePcs, Undone, temp' \subseteq Files,
         UNCHANGED <<disk, backup, status, werr, decided, listed>>,
         UNCHANGED <<read, written, caught, put, orig, owed, lost, gap, edits, reviews>>
  PROVE  IInv'
<1> USE DEF Undone, Goto
<1>0. written \in SUBSET Changed
  BY DEF IInv, TypeInv, ProgramOK
<1>1. current' \in written \cup {0} /\ Passed(written, current') = {}
  BY <1>0, PassStarts
<1>2. TypeInv'
  <2>1. DiskOK'
    BY DEF IInv, TypeInv, DiskOK
  <2>2. BackupTyped'
    BY DEF IInv, TypeInv, BackupTyped
  <2>3. SessionOK'
    BY DEF IInv, TypeInv, SessionOK
  <2>4. ProgramOK'
    BY <1>1 DEF IInv, TypeInv, ProgramOK, Pcs
  <2> QED BY <2>1, <2>2, <2>3, <2>4 DEF TypeInv
<1>3. StatusOK' /\ ReadOK' /\ GapOK'
  BY DEF IInv, StatusOK, ReadOK, GapOK, BeforePcs, WritePcs, UndoPcs
<1>4. PutOK'
  <2>1. put' = written' /\ left' = {} /\ written' = written
    BY DEF IInv, PutOK
  <2>2. put' = left' \cup (written' \ Passed(written', current'))
    BY <1>1, <2>1
  <2> QED BY <1>1, <2>1, <2>2 DEF PutOK, BeforePcs, WritePcs, UndoPcs
<1>5. BackupOK'
  BY DEF IInv, BackupOK, WritePcs, UndoPcs
<1>6. OriginalsKept' /\ AllWrittenOrNone' /\ EditsSurvive'
  BY DEF IInv, OriginalsKept, OriginalsSaved, HasOriginal, AllWrittenOrNone, EditsSurvive
<1> QED BY <1>2, <1>3, <1>4, <1>5, <1>6 DEF IInv

\* A file that cannot be put back is left with its answer.
LEMMA LeftBehindStep ==
  ASSUME IInv, pc \in UndoPcs, current # 0, LeftBehind, temp' \subseteq Files,
         UNCHANGED <<disk, backup, status, werr, decided, listed>>,
         UNCHANGED <<read, written, caught, put, orig, owed, lost, gap, edits, reviews>>
  PROVE  IInv'
<1> USE DEF LeftBehind, Goto
<1>0. written \in SUBSET Changed /\ current \in written
  BY DEF IInv, TypeInv, ProgramOK, PutOK
<1>1. /\ current' \in written \cup {0} /\ current \notin Passed(written, current)
      /\ Passed(written, current') = Passed(written, current) \cup {current}
  BY <1>0, PassGoesOn
<1>2. TypeInv'
  <2>1. DiskOK'
    BY DEF IInv, TypeInv, DiskOK
  <2>2. BackupTyped'
    BY DEF IInv, TypeInv, BackupTyped
  <2>3. SessionOK'
    BY DEF IInv, TypeInv, SessionOK
  <2>4. ProgramOK'
    BY <1>0, <1>1 DEF IInv, TypeInv, ProgramOK, Pcs
  <2> QED BY <2>1, <2>2, <2>3, <2>4 DEF TypeInv
<1>3. StatusOK' /\ ReadOK' /\ GapOK'
  BY DEF IInv, StatusOK, ReadOK, GapOK, BeforePcs, WritePcs, UndoPcs
<1>4. PutOK'
  <2>1. left \subseteq Passed(written, current) /\ put = left \cup (written \ Passed(written, current))
    BY DEF IInv, PutOK
  <2>2. put' = left' \cup (written' \ Passed(written', current')) /\ left' \subseteq Passed(written', current')
    BY <1>0, <1>1, <2>1
  <2> QED BY <1>1, <2>2 DEF PutOK, BeforePcs, WritePcs, UndoPcs
<1>5. BackupOK'
  BY DEF IInv, BackupOK, WritePcs, UndoPcs
<1>6. OriginalsKept' /\ AllWrittenOrNone' /\ EditsSurvive'
  BY DEF IInv, OriginalsKept, OriginalsSaved, HasOriginal, AllWrittenOrNone, EditsSurvive
<1> QED BY <1>2, <1>3, <1>4, <1>5, <1>6 DEF IInv

\* What a rename overwrites was in the file when it was last compared, but for
\* edits of the gap.
LEMMA ReplaceKeeps ==
  ASSUME IInv, pc \in {"swap", "swapback"}, NEW contents,
         contents \in Contents, contents.edits = read[current].edits, Replace(contents)
  PROVE  disk' \in [Files -> Contents] /\ temp' \subseteq Files /\ EditsSurvive'
<1>1. disk[current].edits \subseteq read[current].edits \cup gap
  BY DEF IInv, GapOK
<1>2. EditsSurvive'
  BY <1>1 DEF Replace, IInv, EditsSurvive
<1> QED BY <1>2 DEF Replace, IInv, TypeInv, DiskOK

LEMMA SwapStep ==
  ASSUME IInv, Swap
  PROVE  IInv'
<1> USE DEF Swap, session, Goto, Works, Quiet
<1>1. current \in Changed /\ current # 0 /\ DOMAIN read = Changed /\ current \in Files
  BY DEF IInv, TypeInv, ProgramOK, ReadOK, WritePcs, Changed
<1>2. read[current] \in Contents
  BY <1>1 DEF IInv, TypeInv, ProgramOK
<1>3. NewContents(current) \in Contents /\ NewContents(current).edits = read[current].edits
  BY <1>2 DEF NewContents, Contents
<1>4. disk' \in [Files -> Contents] /\ temp' \subseteq Files /\ EditsSurvive'
  BY <1>3, ReplaceKeeps
<1>5. owed' = owed /\ gap' = gap
  BY DEF Replace
<1>6. written' = written \cup {current} /\ put' = put \cup {current} /\ left' = left /\ left = {}
  BY DEF IInv, PutOK, WritePcs
<1>7. written' \in SUBSET Changed /\ put' = written'
  BY <1>1, <1>6 DEF IInv, TypeInv, ProgramOK, PutOK, WritePcs
<1>8. \/ /\ pc' = "undo" /\ current' \in written' \cup {0} /\ Passed(written', current') = {}
      \/ /\ pc' = "write" /\ current' \in Changed \cup {0} /\ written' = Passed(Changed, current')
  <2>1. CASE caught
    BY <1>7, <2>1, PassStarts
  <2>2. CASE ~caught
    <3>1. written = Passed(Changed, current)
      BY DEF IInv, PutOK, WritePcs
    <3> QED BY <1>1, <1>6, <2>2, <3>1, PassGoesOn
  <2> QED BY <2>1, <2>2
<1>9. TypeInv'
  <2>1. DiskOK'
    BY <1>4 DEF IInv, TypeInv, DiskOK
  <2>2. BackupTyped'
    BY DEF IInv, TypeInv, BackupTyped
  <2>3. SessionOK'
    BY DEF IInv, TypeInv, SessionOK
  <2>4. ProgramOK'
    <3>1. current' \in Changed \cup {0} /\ left' \subseteq written' /\ pc' \in Pcs
      BY <1>6, <1>7, <1>8 DEF Pcs
    <3> QED BY <1>7, <3>1 DEF IInv, TypeInv, ProgramOK
  <2> QED BY <2>1, <2>2, <2>3, <2>4 DEF TypeInv
<1>10. StatusOK' /\ ReadOK' /\ GapOK'
  BY <1>1, <1>8 DEF IInv, StatusOK, ReadOK, GapOK, BeforePcs, WritePcs, UndoPcs
<1>11. PutOK'
  <2>1. CASE pc' = "undo"
    <3>1. put' = left' \cup (written' \ Passed(written', current'))
      BY <1>6, <1>7, <1>8, <2>1
    <3> QED BY <1>6, <1>8, <2>1, <3>1 DEF PutOK, BeforePcs, WritePcs, UndoPcs
  <2>2. CASE pc' = "write"
    BY <1>6, <1>7, <1>8, <2>2 DEF PutOK, BeforePcs, WritePcs, UndoPcs
  <2> QED BY <1>8, <2>1, <2>2
<1>12. BackupOK'
  BY <1>5, <1>8 DEF IInv, BackupOK, WritePcs, UndoPcs
<1>13. OriginalsKept'
  <2>1. DOMAIN orig' = DOMAIN orig \cup {current} /\ orig'[current] = disk[current]
    OBVIOUS
  <2>2. \A f \in DOMAIN orig' : f # current => orig'[f] = orig[f]
    OBVIOUS
  <2>3. put' \subseteq DOMAIN orig'
    BY <1>6, <2>1 DEF IInv, OriginalsKept
  <2>4. HasOriginal(current, orig'[current])
    <3>1. current \in DOMAIN backup.has /\ backup.has[current] = read[current]
      BY <1>1 DEF IInv, BackupOK, WritePcs
    <3>2. disk[current].edits \subseteq read[current].edits \cup gap
      BY DEF IInv, GapOK
    <3> QED BY <2>1, <3>1, <3>2 DEF HasOriginal
  <2>5. ASSUME NEW f \in put, f # current PROVE HasOriginal(f, orig'[f])
    <3>1. HasOriginal(f, orig[f]) /\ f \in DOMAIN orig'
      BY <2>1 DEF IInv, StatusOK, OriginalsKept, OriginalsSaved, WritePcs
    <3> QED BY <2>2, <2>5, <3>1
  <2>6. \A f \in put' : HasOriginal(f, orig'[f])
    BY <1>6, <2>4, <2>5
  <2>7. \A f \in DOMAIN owed : HasOriginal(f, owed[f])
    BY DEF IInv, OriginalsKept, OriginalsSaved
  <2> QED BY <1>5, <2>3, <2>6, <2>7 DEF OriginalsKept, OriginalsSaved, HasOriginal
<1>14. AllWrittenOrNone'
  BY DEF IInv, StatusOK, AllWrittenOrNone, WritePcs
<1> QED BY <1>4, <1>9, <1>10, <1>11, <1>12, <1>13, <1>14 DEF IInv

LEMMA SwapBackStep ==
  ASSUME IInv, SwapBack
  PROVE  IInv'
<1> USE DEF SwapBack, session, Goto, Works, Quiet
<1>1. current \in written /\ current # 0 /\ DOMAIN read = Changed /\ written \in SUBSET Changed
  BY DEF IInv, TypeInv, ProgramOK, ReadOK, PutOK, UndoPcs
<1>2. read[current] \in Contents
  BY <1>1 DEF IInv, TypeInv, ProgramOK
<1>3. disk' \in [Files -> Contents] /\ temp' \subseteq Files /\ EditsSurvive'
  BY <1>2, ReplaceKeeps
<1>4. owed' = owed /\ gap' = gap
  BY DEF Replace
<1>5. /\ current' \in written \cup {0} /\ current \notin Passed(written, current)
      /\ Passed(written, current') = Passed(written, current) \cup {current}
  BY <1>1, PassGoesOn
<1>6. TypeInv'
  <2>1. DiskOK'
    BY <1>3 DEF IInv, TypeInv, DiskOK
  <2>2. BackupTyped'
    BY DEF IInv, TypeInv, BackupTyped
  <2>3. SessionOK'
    BY DEF IInv, TypeInv, SessionOK
  <2>4. ProgramOK'
    BY <1>1, <1>5 DEF IInv, TypeInv, ProgramOK, Pcs
  <2> QED BY <2>1, <2>2, <2>3, <2>4 DEF TypeInv
<1>7. StatusOK' /\ ReadOK' /\ GapOK'
  BY DEF IInv, StatusOK, ReadOK, GapOK, BeforePcs, WritePcs, UndoPcs
<1>8. PutOK'
  <2>1. left \subseteq Passed(written, current) /\ put = left \cup (written \ Passed(written, current))
    BY DEF IInv, PutOK, UndoPcs
  <2>2. put' = left' \cup (written' \ Passed(written', current')) /\ left' \subseteq Passed(written', current')
    BY <1>5, <2>1
  <2> QED BY <1>5, <2>2 DEF PutOK, BeforePcs, WritePcs, UndoPcs
<1>9. BackupOK'
  BY <1>4 DEF IInv, BackupOK, WritePcs, UndoPcs
<1>10. OriginalsKept'
  BY <1>4 DEF IInv, OriginalsKept, OriginalsSaved, HasOriginal
<1>11. AllWrittenOrNone'
  BY DEF IInv, StatusOK, AllWrittenOrNone, UndoPcs
<1> QED BY <1>3, <1>6, <1>7, <1>8, <1>9, <1>10, <1>11 DEF IInv

LEMMA WriteFileStep ==
  ASSUME IInv, WriteFile
  PROVE  IInv'
<1> USE DEF session, history, Goto, Works, Fails, Quiet
<1>0. temp \subseteq Files /\ Changed \subseteq Files /\ current \in Changed \cup {0}
  BY DEF IInv, TypeInv, DiskOK, ProgramOK, Changed
<1>1. CASE CreateTemp("write", "check")
  BY <1>0, <1>1, GoesOnStep DEF CreateTemp
<1>2. CASE NoTemp("write", Undone)
  BY <1>0, <1>2, UndoneStep DEF NoTemp, WritePcs
<1>3. CASE Matches("check", read[current], "swap")
  <2>1. current # 0
    BY <1>3 DEF Matches, IInv, ReadOK
  <2> QED BY <1>0, <1>3, <2>1, GoesOnStep DEF Matches
<1>4. CASE Differs("check", read[current], Undone)
  BY <1>0, <1>4, UndoneStep DEF Differs, WritePcs
<1>5. CASE RenameFails("swap", Undone)
  BY <1>0, <1>5, UndoneStep DEF RenameFails, WritePcs
<1> QED BY <1>1, <1>2, <1>3, <1>4, <1>5, SwapStep DEF WriteFile

LEMMA PutBackStep ==
  ASSUME IInv, PutBack
  PROVE  IInv'
<1> USE DEF session, history, Goto, Works, Fails, Quiet
<1>0. /\ temp \subseteq Files /\ Changed \subseteq Files /\ current \in Changed \cup {0}
      /\ pc \in {"recheck", "swapback"} => current # 0
  BY DEF IInv, TypeInv, DiskOK, ProgramOK, ReadOK, Changed
<1>1. CASE CreateTemp("undo", "recheck")
  BY <1>0, <1>1, GoesOnStep DEF CreateTemp
<1>2. CASE NoTemp("undo", LeftBehind)
  BY <1>0, <1>2, LeftBehindStep DEF NoTemp, UndoPcs
<1>3. CASE Matches("recheck", NewContents(current), "swapback")
  BY <1>0, <1>3, GoesOnStep DEF Matches
<1>4. CASE Differs("recheck", NewContents(current), LeftBehind)
  BY <1>0, <1>4, LeftBehindStep DEF Differs, UndoPcs
<1>5. CASE RenameFails("swapback", LeftBehind)
  BY <1>0, <1>5, LeftBehindStep DEF RenameFails, UndoPcs
<1> QED BY <1>1, <1>2, <1>3, <1>4, <1>5, SwapBackStep DEF PutBack

LEMMA EditStep ==
  ASSUME IInv, NEW f \in Files, Edit(f)
  PROVE  IInv'
<1> USE DEF Edit, session, program
<1>1. gap \subseteq gap'
  OBVIOUS
<1>2. TypeInv'
  <2>1. DiskOK'
    <3>1. PICK text \in {disk[f].text, "asked", "other"} :
            disk' = [disk EXCEPT ![f] = [text |-> text, edits |-> disk[f].edits \cup {edits + 1}]]
      OBVIOUS
    <3>2. disk[f] \in Contents
      BY DEF IInv, TypeInv, DiskOK
    <3>3. edits + 1 \in 1 .. MaxEdits /\ edits + 1 \in 0 .. MaxEdits
      BY WriteBackAssumption DEF IInv, TypeInv, DiskOK
    <3>4. [text |-> text, edits |-> disk[f].edits \cup {edits + 1}] \in Contents
      BY <3>2, <3>3 DEF Contents
    <3> QED BY <3>1, <3>3, <3>4 DEF IInv, TypeInv, DiskOK
  <2>2. BackupTyped'
    BY DEF IInv, TypeInv, BackupTyped
  <2>3. SessionOK'
    BY DEF IInv, TypeInv, SessionOK
  <2>4. ProgramOK'
    BY DEF IInv, TypeInv, ProgramOK
  <2> QED BY <2>1, <2>2, <2>3, <2>4 DEF TypeInv
<1>3. StatusOK' /\ ReadOK' /\ PutOK' /\ BackupOK'
  BY DEF IInv, StatusOK, ReadOK, PutOK, BackupOK
<1>4. GapOK'
  <2> SUFFICES ASSUME pc \in {"swap", "swapback"}
               PROVE  disk'[current].edits \subseteq read[current].edits \cup gap'
    BY DEF GapOK
  <2>1. disk[current].edits \subseteq read[current].edits \cup gap
    BY DEF IInv, GapOK
  <2>2. CASE current = f
    <3>1. disk'[current].edits = disk[current].edits \cup {edits + 1}
      BY <2>2 DEF IInv, TypeInv, DiskOK
    <3> QED BY <2>1, <2>2, <3>1
  <2>3. CASE current # f
    <3>1. disk'[current] = disk[current]
      BY <2>3 DEF IInv, TypeInv, DiskOK
    <3> QED BY <1>1, <2>1, <3>1
  <2> QED BY <2>2, <2>3
<1>5. OriginalsKept' /\ AllWrittenOrNone' /\ EditsSurvive'
  BY <1>1 DEF IInv, OriginalsKept, OriginalsSaved, HasOriginal, AllWrittenOrNone, EditsSurvive
<1> QED BY <1>2, <1>3, <1>4, <1>5 DEF IInv

-----------------------------------------------------------------------------
LEMMA StepKeeps == IInv /\ [Next]_vars => IInv'
<1> SUFFICES ASSUME IInv, [Next]_vars PROVE IInv'
  OBVIOUS
<1>1. CASE Begin
  BY <1>1, BeginStep
<1>2. CASE Step
  BY <1>2, ReturnStep, RewriteStep, CannotReadStep, MarkStep, MakeFolderStep, SaveOriginalStep,
     DiscardStep, WriteFileStep, PutBackStep, UndoEndsStep, DecideStep, DoneStep, RemoveStep,
     UnlistStep, RefuseStep, ReleaseStep DEF Step
<1>3. CASE Signal \/ Killed \/ CleanUp \/ NextReview
  BY <1>3, SignalStep, KilledStep, CleanUpStep, NextReviewStep
<1>4. CASE \E f \in Files : Edit(f)
  BY <1>4, EditStep
<1>5. CASE UNCHANGED vars
  <2> USE <1>5 DEF vars, session, program, history, bounds
  <2>1. TypeInv'
    BY DEF IInv, TypeInv, DiskOK, BackupTyped, SessionOK, ProgramOK
  <2>2. StatusOK' /\ ReadOK' /\ PutOK' /\ BackupOK' /\ GapOK'
    BY DEF IInv, StatusOK, ReadOK, PutOK, BackupOK, GapOK
  <2>3. OriginalsKept' /\ AllWrittenOrNone' /\ EditsSurvive'
    BY DEF IInv, OriginalsKept, OriginalsSaved, HasOriginal, AllWrittenOrNone, EditsSurvive
  <2> QED BY <2>1, <2>2, <2>3 DEF IInv
<1> QED BY <1>1, <1>2, <1>3, <1>4, <1>5 DEF Next

LEMMA InvHolds == Spec => []IInv
BY InitStep, StepKeeps, PTL DEF Spec

\* Every reachable state of the write, its files and its backup is well formed.
THEOREM TypeCorrect == Spec => []TypeOK
<1>1. IInv => TypeOK
  BY DEF IInv, TypeInv, DiskOK, BackupTyped, SessionOK, ProgramOK, TypeOK, Pcs
<1> QED BY <1>1, InvHolds, PTL

\* A waiting review has changed and decided nothing, a finished one everything.
THEOREM WrittenOrNot == Spec => []AllWrittenOrNone
<1>1. IInv => AllWrittenOrNone
  BY DEF IInv
<1> QED BY <1>1, InvHolds, PTL

\* While answers are in the files and the write has not finished, the originals
\* are in the backup folder, also after another review began.
THEOREM OriginalsStay == Spec => []OriginalsSaved
<1>1. IInv => OriginalsSaved
  BY DEF IInv, OriginalsKept
<1> QED BY <1>1, InvHolds, PTL

\* A rename overwrites no edit made before the file was last compared.
THEOREM EditsStay == Spec => []EditsSurvive
<1>1. IInv => EditsSurvive
  BY DEF IInv
<1> QED BY <1>1, InvHolds, PTL

-----------------------------------------------------------------------------
\* The promise.  Only the steps that save the session change its status, and
\* only those of an unfinished write change what is written and decided.

LEMMA WhatSteps ==
  ASSUME IInv, [Next]_vars
  PROVE  \/ UNCHANGED <<status, put, decided>>
         \/ status = "writing" /\ status' = "writing" /\ reviews' = reviews
         \/ Mark /\ status' = "writing" /\ UNCHANGED <<put, decided>>
         \/ Refuse /\ status' = "waiting" /\ UNCHANGED <<put, decided>>
         \/ Done /\ status' = "done" /\ UNCHANGED <<put, decided>>
         \/ Return /\ status' = "notes" /\ UNCHANGED <<put, decided>>
         \/ NextReview
<1> USE DEF session, program, history, bounds, Goto, Works, Fails, Quiet
<1>1. CASE Begin \/ Rewrite \/ CannotRead
  BY <1>1 DEF Begin, Rewrite, CannotRead
<1>2. CASE MakeFolder \/ SaveOriginal \/ Discard \/ UndoEnds \/ Remove \/ Unlist \/ Release
  BY <1>2 DEF MakeFolder, SaveOriginal, Discard, UndoEnds, Remove, Unlist, Release
<1>3. CASE Mark \/ Refuse \/ Done \/ Return
  BY <1>3 DEF Mark, Refuse, Done, Return
<1>4. CASE Swap \/ SwapBack \/ Decide
  <2>1. status = "writing"
    BY <1>4 DEF Swap, SwapBack, Decide, IInv, StatusOK, WritePcs, UndoPcs
  <2> QED BY <1>4, <2>1 DEF Swap, SwapBack, Decide
<1>5. CASE WriteFile \/ PutBack
  BY <1>4, <1>5 DEF WriteFile, PutBack, CreateTemp, NoTemp, Matches, Differs, RenameFails
<1>6. CASE Signal \/ Killed \/ CleanUp \/ UNCHANGED vars
  BY <1>6 DEF Signal, Killed, CleanUp, vars
<1>7. CASE \E f \in Files : Edit(f)
  BY <1>7 DEF Edit
<1> QED BY <1>1, <1>2, <1>3, <1>4, <1>5, <1>6, <1>7 DEF Next, Step

\* What a file holds changes only under a status that says so.
THEOREM WritesAreMarked == Spec => WritingIsMarked
<1>1. IInv /\ [Next]_vars => (put' # put /\ reviews' = reviews => status = "writing")
  <2> SUFFICES ASSUME IInv, [Next]_vars, put' # put, reviews' = reviews
               PROVE  status = "writing"
    OBVIOUS
  <2>1. CASE NextReview
    BY <2>1 DEF NextReview, IInv, TypeInv, DiskOK
  <2> QED BY <2>1, WhatSteps
<1> QED BY <1>1, InvHolds, PTL DEF Spec, WritingIsMarked

\* The write-back implements its promise: none of the answers or all of them.
THEOREM Implements == Spec => KeepsPromise
<1>1. Init => Promise!Init
  BY DEF Init, Promise!Init, Effect
<1>2. IInv /\ [Next]_vars => [Promise!Next]_<<status, Effect>>
  <2> SUFFICES ASSUME IInv, [Next]_vars PROVE [Promise!Next]_<<status, Effect>>
    OBVIOUS
  <2>1. Effect \in {"none", "some", "all"} /\ Effect' \in {"none", "some", "all"}
    BY DEF Effect
  <2>2. UNCHANGED <<put, decided>> => Effect' = Effect
    BY DEF Effect
  <2>3. CASE UNCHANGED <<status, put, decided>>
    BY <2>2, <2>3
  <2>4. CASE status = "writing" /\ status' = "writing" /\ reviews' = reviews
    BY <2>1, <2>4 DEF Promise!Next, Promise!Work
  <2>5. CASE Mark /\ status' = "writing" /\ UNCHANGED <<put, decided>>
    <3>1. status = "waiting"
      BY <2>5 DEF Mark, IInv, StatusOK
    <3> QED BY <2>2, <2>5, <3>1 DEF Promise!Next, Promise!Start
  <2>6. CASE Refuse /\ status' = "waiting" /\ UNCHANGED <<put, decided>>
    <3>1. status \in {"waiting", "writing"} /\ put = {} /\ ~decided
      BY <2>6 DEF Refuse, IInv, StatusOK, PutOK
    <3>2. Effect = "none"
      BY <3>1 DEF Effect
    <3> QED BY <2>2, <2>6, <3>1, <3>2 DEF Promise!Next, Promise!GiveUp
  <2>7. CASE Done /\ status' = "done" /\ UNCHANGED <<put, decided>>
    <3>1. status = "writing" /\ put = Changed /\ decided
      BY <2>7 DEF Done, IInv, StatusOK, AllWrittenOrNone
    <3>2. Effect = "all"
      BY <3>1 DEF Effect
    <3> QED BY <2>2, <2>7, <3>1, <3>2 DEF Promise!Next, Promise!Finish
  <2>8. CASE Return /\ status' = "notes" /\ UNCHANGED <<put, decided>>
    <3>1. status = "waiting"
      BY <2>8 DEF Return, IInv, StatusOK
    <3> QED BY <2>2, <2>8, <3>1 DEF Promise!Next, Promise!HandBack
  <2>9. CASE NextReview
    <3>1. status # "waiting" /\ status' = "waiting" /\ put' = {} /\ ~decided'
      BY <2>9 DEF NextReview
    <3>2. Effect' = "none"
      BY <3>1 DEF Effect
    <3> QED BY <3>1, <3>2 DEF Promise!Next, Promise!NextReview
  <2> QED BY <2>3, <2>4, <2>5, <2>6, <2>7, <2>8, <2>9, WhatSteps
<1> QED BY <1>1, <1>2, InvHolds, PTL DEF Spec, KeepsPromise, Promise!Spec

-----------------------------------------------------------------------------
\* Matching the requests with the comments of a file.

CONSTANT Names
Comments == INSTANCE FileComments

\* Each has a line.
Lined(s) == Len(s) \in Nat /\ \A i \in 1 .. Len(s) : s[i].line \in Nat
\* The matchings, with 0 for no comment.
Matchings(cs, rs) == [1 .. Len(rs) -> 0 .. Len(cs)]

\* There is a least number in a set of some.
LEMMA LeastNumber ==
  ASSUME NEW S, S \subseteq Nat, S # {}
  PROVE  \E x \in S : \A y \in S : x <= y
<1> DEFINE R == OpToRel(<, Nat)
<1>1. IsWellFoundedOn(R, Nat)
  BY NatLessThanWellFounded
<1>2. \A x, y \in Nat : <<x, y>> \in R <=> x < y
  BY DEF OpToRel
<1> HIDE DEF R
<1>3. PICK x \in S : \A y \in S : ~ (<<y, x>> \in R)
  BY <1>1, WFMin
<1>4. ASSUME NEW y \in S PROVE x <= y
  <2>1. x \in Nat /\ y \in Nat /\ <<y, x>> \notin R
    BY <1>3
  <2>2. ~(y < x)
    BY <1>2, <2>1
  <2> QED BY <2>1, <2>2
<1> QED BY <1>4

\* How far apart a pair is.
LEMMA DistanceIs ==
  ASSUME NEW cs, NEW rs, Lined(cs), Lined(rs), NEW r \in 1 .. Len(rs), NEW c \in 1 .. Len(cs)
  PROVE  Comments!Distance(cs, rs, <<r, c>>) \in Nat
<1>1. cs[c].line \in Nat /\ rs[r].line \in Nat
  BY DEF Lined
<1> QED BY <1>1 DEF Comments!Distance, Comments!AbsDiff

\* A pair is of a request and a comment.
LEMMA PairIs ==
  ASSUME NEW cs, NEW rs, Lined(cs), Lined(rs), NEW p \in Comments!Pairs(cs, rs)
  PROVE  /\ p = <<p[1], p[2]>> /\ p[1] \in 1 .. Len(rs) /\ p[2] \in 1 .. Len(cs)
         /\ Comments!Fits(rs[p[1]], cs[p[2]]) /\ Comments!Distance(cs, rs, p) \in Nat
<1>1. p \in (1 .. Len(rs)) \X (1 .. Len(cs)) /\ Comments!Fits(rs[p[1]], cs[p[2]])
  BY DEF Comments!Pairs
<1>2. p = <<p[1], p[2]>> /\ p[1] \in 1 .. Len(rs) /\ p[2] \in 1 .. Len(cs)
  BY <1>1
<1>3. Comments!Distance(cs, rs, <<p[1], p[2]>>) \in Nat
  BY <1>2, DistanceIs
<1> QED BY <1>1, <1>2, <1>3

\* The first of some pairs is one of them, and none is nearer.
LEMMA FirstIs ==
  ASSUME NEW cs, NEW rs, Lined(cs), Lined(rs), NEW S \in SUBSET Comments!Pairs(cs, rs), S # {}
  PROVE  /\ Comments!First(cs, rs, S) \in S
         /\ \A q \in S : Comments!Distance(cs, rs, Comments!First(cs, rs, S)) <= Comments!Distance(cs, rs, q)
<1>1. \A q \in S : /\ q = <<q[1], q[2]>> /\ q[1] \in Nat /\ q[2] \in Nat
                   /\ Comments!Distance(cs, rs, q) \in Nat
  BY PairIs
<1>2. PICK d \in {Comments!Distance(cs, rs, q) : q \in S} : \A e \in {Comments!Distance(cs, rs, q) : q \in S} : d <= e
  <2> DEFINE D == {Comments!Distance(cs, rs, q) : q \in S}
  <2>1. D \subseteq Nat /\ D # {}
    BY <1>1
  <2> HIDE DEF D
  <2>2. \E d \in D : \A e \in D : d <= e
    BY <2>1, LeastNumber
  <2> QED BY <2>2 DEF D
<1> DEFINE Near == {q \in S : Comments!Distance(cs, rs, q) = d}
<1>3. PICK r \in {q[1] : q \in Near} : \A e \in {q[1] : q \in Near} : r <= e
  <2> DEFINE D == {q[1] : q \in Near}
  <2>1. D \subseteq Nat /\ D # {}
    BY <1>1, <1>2
  <2> HIDE DEF D
  <2>2. \E e \in D : \A g \in D : e <= g
    BY <2>1, LeastNumber
  <2> QED BY <2>2 DEF D
<1> DEFINE Early == {q \in Near : q[1] = r}
<1>4. PICK c \in {q[2] : q \in Early} : \A e \in {q[2] : q \in Early} : c <= e
  <2> DEFINE D == {q[2] : q \in Early}
  <2>1. D \subseteq Nat /\ D # {}
    BY <1>1, <1>3
  <2> HIDE DEF D
  <2>2. \E e \in D : \A g \in D : e <= g
    BY <2>1, LeastNumber
  <2> QED BY <2>2 DEF D
<1>5. PICK p \in Early : p[2] = c
  BY <1>4
<1>6. p \in S /\ Comments!Distance(cs, rs, p) = d /\ p[1] = r /\ p[2] = c
  BY <1>5
<1>7. ASSUME NEW q \in S PROVE p = q \/ Comments!Precedes(cs, rs, p, q)
  <2>1. d <= Comments!Distance(cs, rs, q)
    BY <1>2
  <2>2. CASE Comments!Distance(cs, rs, q) # d
    <3>1. d < Comments!Distance(cs, rs, q)
      BY <1>1, <1>6, <2>1, <2>2
    <3> QED BY <1>6, <3>1 DEF Comments!Precedes
  <2>3. CASE q \in Near /\ q[1] # r
    <3>1. r <= q[1]
      BY <1>3, <2>3
    <3>2. r < q[1]
      BY <1>1, <1>6, <2>3, <3>1
    <3> QED BY <1>6, <2>3, <3>2 DEF Comments!Precedes
  <2>4. CASE q \in Early
    <3>1. c <= q[2] /\ q[1] = p[1]
      BY <1>4, <1>6, <2>4
    <3>2. CASE q[2] = c
      BY <1>1, <1>6, <3>1, <3>2
    <3>3. CASE q[2] # c
      <4>1. p[2] < q[2]
        BY <1>1, <1>6, <3>1, <3>3
      <4> QED BY <1>6, <2>4, <3>1, <4>1 DEF Comments!Precedes
    <3> QED BY <3>2, <3>3
  <2> QED BY <2>2, <2>3, <2>4
<1> HIDE DEF Near, Early
<1> DEFINE next == Comments!First(cs, rs, S)
<1>8. next \in S /\ \A q \in S : next = q \/ Comments!Precedes(cs, rs, next, q)
  BY <1>6, <1>7 DEF Comments!First
<1> HIDE DEF next
<1>9. ASSUME NEW q \in S PROVE Comments!Distance(cs, rs, next) <= Comments!Distance(cs, rs, q)
  BY <1>1, <1>8 DEF Comments!Precedes
<1> QED BY <1>8, <1>9 DEF next

\* A comment goes to one request at most.
GivenOnce(cs, rs, m) ==
  /\ m \in Matchings(cs, rs)
  /\ \A r, h \in 1 .. Len(rs) : m[r] = m[h] /\ m[r] # 0 => r = h
\* The request of p, or its comment, got what fits and is no further.
Served(cs, rs, m, p) ==
  \/ /\ m[p[1]] # 0 /\ Comments!Fits(rs[p[1]], cs[m[p[1]]])
     /\ Comments!Distance(cs, rs, <<p[1], m[p[1]]>>) <= Comments!Distance(cs, rs, p)
  \/ \E h \in 1 .. Len(rs) :
       /\ m[h] = p[2] /\ Comments!Fits(rs[h], cs[p[2]])
       /\ Comments!Distance(cs, rs, <<h, p[2]>>) <= Comments!Distance(cs, rs, p)
\* After some pairs were taken.
Took(cs, rs, m) ==
  /\ GivenOnce(cs, rs, m)
  /\ \A p \in Comments!Pairs(cs, rs) : p \in Comments!Left(cs, rs, m) \/ Served(cs, rs, m, p)
\* After all were.
TookAll(cs, rs, m) ==
  GivenOnce(cs, rs, m) /\ \A p \in Comments!Pairs(cs, rs) : Served(cs, rs, m, p)

\* A comment that nobody has goes to a request that has none: who was served still is.
LEMMA GiveOne ==
  ASSUME NEW cs, NEW rs, Lined(cs), Lined(rs), NEW m, GivenOnce(cs, rs, m),
         NEW r \in 1 .. Len(rs), NEW c \in 1 .. Len(cs), m[r] = 0, c \notin Comments!ToSet(m)
  PROVE  LET new == [m EXCEPT ![r] = c]
         IN  /\ GivenOnce(cs, rs, new)
             /\ new[r] = c /\ \A h \in 1 .. Len(rs) : h # r => new[h] = m[h]
             /\ \A p \in Comments!Pairs(cs, rs) : Served(cs, rs, m, p) => Served(cs, rs, new, p)
<1> DEFINE new == [m EXCEPT ![r] = c]
<1>1. m \in Matchings(cs, rs) /\ DOMAIN m = 1 .. Len(rs)
  BY DEF GivenOnce, Matchings
<1>2. new \in Matchings(cs, rs) /\ new[r] = c /\ \A h \in 1 .. Len(rs) : h # r => new[h] = m[h]
  BY <1>1 DEF Matchings, Lined
<1>3. \A h \in 1 .. Len(rs) : m[h] # c
  BY <1>1 DEF Comments!ToSet
<1> HIDE DEF new
<1>4. ASSUME NEW g \in 1 .. Len(rs), NEW h \in 1 .. Len(rs), new[g] = new[h], new[g] # 0
      PROVE  g = h
  BY <1>2, <1>3, <1>4 DEF GivenOnce
<1>5. ASSUME NEW p \in Comments!Pairs(cs, rs), Served(cs, rs, m, p) PROVE Served(cs, rs, new, p)
  <2>1. p[1] \in 1 .. Len(rs) /\ p[2] # 0
    BY PairIs DEF Lined
  <2>2. CASE /\ m[p[1]] # 0 /\ Comments!Fits(rs[p[1]], cs[m[p[1]]])
             /\ Comments!Distance(cs, rs, <<p[1], m[p[1]]>>) <= Comments!Distance(cs, rs, p)
    <3>1. new[p[1]] = m[p[1]]
      BY <1>2, <2>1, <2>2
    <3> QED BY <2>2, <3>1 DEF Served
  <2>3. ASSUME NEW h \in 1 .. Len(rs), m[h] = p[2], Comments!Fits(rs[h], cs[p[2]]),
               Comments!Distance(cs, rs, <<h, p[2]>>) <= Comments!Distance(cs, rs, p)
        PROVE  Served(cs, rs, new, p)
    <3>1. new[h] = p[2]
      BY <1>2, <2>1, <2>3
    <3> QED BY <2>3, <3>1 DEF Served
  <2> QED BY <1>5, <2>2, <2>3 DEF Served
<1>6. GivenOnce(cs, rs, new)
  BY <1>2, <1>4 DEF GivenOnce
<1> QED BY <1>2, <1>5, <1>6 DEF new

\* The requests that have a comment.
Assigned(rs, m) == {r \in 1 .. Len(rs) : m[r] # 0}

\* Taking one more pair.
LEMMA TakePairKeeps ==
  ASSUME NEW cs, NEW rs, Lined(cs), Lined(rs), NEW m, Took(cs, rs, m)
  PROVE  /\ Took(cs, rs, Comments!TakePair(cs, rs, m))
         /\ Comments!Left(cs, rs, m) = {} => Comments!TakePair(cs, rs, m) = m
         /\ Comments!Left(cs, rs, m) # {} =>
              Cardinality(Assigned(rs, Comments!TakePair(cs, rs, m))) = Cardinality(Assigned(rs, m)) + 1
<1>1. CASE Comments!Left(cs, rs, m) = {}
  BY <1>1 DEF Comments!TakePair
<1>2. CASE Comments!Left(cs, rs, m) # {}
  <2> DEFINE next == Comments!First(cs, rs, Comments!Left(cs, rs, m))
             r == next[1]
             c == next[2]
             new == [m EXCEPT ![r] = c]
  <2>1. next \in Comments!Left(cs, rs, m) /\ \A q \in Comments!Left(cs, rs, m) : Comments!Distance(cs, rs, next) <= Comments!Distance(cs, rs, q)
    <3>1. Comments!Left(cs, rs, m) \in SUBSET Comments!Pairs(cs, rs)
      BY DEF Comments!Left
    <3> QED BY <1>2, <3>1, FirstIs
  <2>2. Comments!TakePair(cs, rs, m) = new
    BY <1>2 DEF Comments!TakePair
  <2> HIDE DEF next
  <2>3. next \in Comments!Pairs(cs, rs) /\ m[r] = 0 /\ c \notin Comments!ToSet(m)
    BY <2>1 DEF Comments!Left
  <2>4. next = <<r, c>> /\ r \in 1 .. Len(rs) /\ c \in 1 .. Len(cs) /\ Comments!Fits(rs[r], cs[c])
    BY <2>3, PairIs
  <2>5. GivenOnce(cs, rs, m)
    BY DEF Took
  <2>6. /\ GivenOnce(cs, rs, new)
        /\ new[r] = c /\ \A h \in 1 .. Len(rs) : h # r => new[h] = m[h]
        /\ \A p \in Comments!Pairs(cs, rs) : Served(cs, rs, m, p) => Served(cs, rs, new, p)
    <3> HIDE DEF r, c
    <3> QED BY <2>3, <2>4, <2>5, GiveOne
  <2> HIDE DEF new, r, c
  <2>7. ASSUME NEW p \in Comments!Pairs(cs, rs) PROVE p \in Comments!Left(cs, rs, new) \/ Served(cs, rs, new, p)
    <3>1. CASE Served(cs, rs, m, p)
      BY <2>6, <3>1
    <3>2. CASE p \in Comments!Left(cs, rs, m)
      <4>1. Comments!Distance(cs, rs, <<r, c>>) <= Comments!Distance(cs, rs, p)
        BY <2>1, <2>4, <3>2
      <4>2. p = <<p[1], p[2]>> /\ p[1] \in 1 .. Len(rs) /\ p[2] \in 1 .. Len(cs)
        BY PairIs
      <4>3. CASE p[1] = r
        <5>1. c # 0
          BY <2>4
        <5> QED BY <2>4, <2>6, <4>1, <4>3, <5>1 DEF Served
      <4>4. CASE p[2] = c
        BY <2>4, <2>6, <4>1, <4>4 DEF Served
      <4>5. CASE p[1] # r /\ p[2] # c
        <5>1. new[p[1]] = 0
          BY <2>6, <3>2, <4>2, <4>5 DEF Comments!Left
        <5>2. \A h \in 1 .. Len(rs) : m[h] # p[2]
          BY <2>5, <3>2 DEF Comments!Left, GivenOnce, Matchings, Comments!ToSet
        <5>3. \A h \in 1 .. Len(rs) : new[h] # p[2]
          BY <2>6, <4>5, <5>2
        <5>4. p[2] \notin Comments!ToSet(new)
          BY <2>6, <5>3 DEF GivenOnce, Matchings, Comments!ToSet
        <5> QED BY <5>1, <5>4 DEF Comments!Left
      <4> QED BY <4>3, <4>4, <4>5
    <3> QED BY <3>1, <3>2 DEF Took
  <2>8. Took(cs, rs, new)
    BY <2>6, <2>7 DEF Took
  <2>9. Cardinality(Assigned(rs, new)) = Cardinality(Assigned(rs, m)) + 1
    <3>1. Assigned(rs, new) = Assigned(rs, m) \cup {r} /\ r \notin Assigned(rs, m)
      BY <2>3, <2>4, <2>6 DEF Assigned
    <3>2. IsFiniteSet(Assigned(rs, m))
      <4>1. 1 \in Int /\ Len(rs) \in Int
        BY DEF Lined
      <4>2. IsFiniteSet(1 .. Len(rs))
        BY <4>1, FS_Interval
      <4>3. Assigned(rs, m) \subseteq 1 .. Len(rs)
        BY DEF Assigned
      <4> QED BY <4>2, <4>3, FS_Subset
    <3> QED BY <3>1, <3>2, FS_AddElement
  <2> QED BY <1>2, <2>2, <2>8, <2>9
<1> QED BY <1>1, <1>2

\* f takes n pairs, one after the other.
TakesPairs(cs, rs, n, f) ==
  f = [k \in 0 .. n |-> IF k = 0 THEN [r \in 1 .. Len(rs) |-> 0] ELSE Comments!TakePair(cs, rs, f[k - 1])]

\* Induction, for a property given as the set of the numbers that have it.
LEMMA NumbersFrom ==
  ASSUME NEW S, 0 \in S, \A n \in Nat : n \in S => n + 1 \in S
  PROVE  Nat \subseteq S
<1> SUFFICES ASSUME Nat \ S # {} PROVE FALSE
  OBVIOUS
<1>1. PICK x \in Nat \ S : \A y \in Nat \ S : x <= y
  BY LeastNumber
<1>2. x - 1 \in Nat /\ x - 1 \in S
  BY <1>1
<1> QED BY <1>1, <1>2

\* There is such an f.
LEMMA TakesExist ==
  ASSUME NEW cs, NEW rs, NEW n \in Nat
  PROVE  \E f : TakesPairs(cs, rs, n, f)
<1> DEFINE S == {k \in Nat : \E f : TakesPairs(cs, rs, k, f)}
<1>1. 0 \in S
  <2>1. TakesPairs(cs, rs, 0, [k \in 0 .. 0 |-> [r \in 1 .. Len(rs) |-> 0]])
    BY DEF TakesPairs
  <2> QED BY <2>1
<1>2. ASSUME NEW k \in Nat, k \in S PROVE k + 1 \in S
  <2>1. PICK f : TakesPairs(cs, rs, k, f)
    BY <1>2
  <2> DEFINE none == [r \in 1 .. Len(rs) |-> 0]
             last == Comments!TakePair(cs, rs, f[k])
             g == [i \in 0 .. (k + 1) |-> IF i = k + 1 THEN last ELSE f[i]]
  <2>2. \A i \in 0 .. k : f[i] = IF i = 0 THEN none ELSE Comments!TakePair(cs, rs, f[i - 1])
    BY <2>1, Zenon DEF TakesPairs
  <2> HIDE DEF none
  <2>3. ASSUME NEW i \in 0 .. (k + 1)
        PROVE  g[i] = IF i = 0 THEN none ELSE Comments!TakePair(cs, rs, g[i - 1])
    <3>1. CASE i = 0
      BY <2>2, <3>1
    <3>2. CASE i = k + 1
      BY <3>2
    <3>3. CASE i \in 1 .. k
      BY <2>2, <3>3
    <3> QED BY <3>1, <3>2, <3>3
  <2>4. TakesPairs(cs, rs, k + 1, g)
    <3> HIDE DEF last
    <3>1. g = [i \in 0 .. (k + 1) |-> g[i]]
      OBVIOUS
    <3> HIDE DEF g
    <3> QED BY <2>3, <3>1 DEF TakesPairs, none
  <2> HIDE DEF g
  <2> QED BY <2>4
<1> HIDE DEF S
<1>3. n \in S
  BY <1>1, <1>2, NumbersFrom
<1> QED BY <1>3 DEF S

\* After as many pairs as there are requests, none is left.
LEMMA PairsTaken ==
  ASSUME NEW cs, NEW rs, Lined(cs), Lined(rs)
  PROVE  TookAll(cs, rs, Comments!TakePairs(cs, rs))
<1> DEFINE n == Len(rs)
           none == [r \in 1 .. Len(rs) |-> 0]
           f == CHOOSE f : TakesPairs(cs, rs, n, f)
<1>1. n \in Nat
  BY DEF Lined
<1>2. TakesPairs(cs, rs, n, f)
  BY <1>1, TakesExist
<1>3. Comments!TakePairs(cs, rs) = f[n]
  BY DEF Comments!TakePairs, TakesPairs
<1> HIDE DEF f
<1>4. \A i \in 0 .. n : f[i] = IF i = 0 THEN none ELSE Comments!TakePair(cs, rs, f[i - 1])
  BY <1>2, Zenon DEF TakesPairs
<1>5. Took(cs, rs, none) /\ Cardinality(Assigned(rs, none)) = 0
  <2>1. none \in Matchings(cs, rs)
    BY DEF Matchings, Lined
  <2>2. Comments!ToSet(none) \subseteq {0}
    BY DEF Comments!ToSet
  <2>3. ASSUME NEW p \in Comments!Pairs(cs, rs) PROVE p \in Comments!Left(cs, rs, none)
    <3>1. p[1] \in 1 .. Len(rs) /\ p[2] # 0
      BY PairIs
    <3> QED BY <2>2, <3>1 DEF Comments!Left
  <2>4. Assigned(rs, none) = {}
    BY DEF Assigned
  <2> QED BY <2>1, <2>3, <2>4, FS_EmptySet DEF Took, GivenOnce
<1> HIDE DEF none
<1> DEFINE OK(k) == /\ Took(cs, rs, f[k])
                    /\ Comments!Left(cs, rs, f[k]) = {} \/ Cardinality(Assigned(rs, f[k])) = k
           S == {k \in Nat : k <= n => OK(k)}
<1>6. 0 \in S
  BY <1>1, <1>4, <1>5
<1>7. ASSUME NEW k \in Nat, k \in S PROVE k + 1 \in S
  <2> SUFFICES ASSUME k + 1 <= n PROVE OK(k + 1)
    OBVIOUS
  <2>1. OK(k) /\ f[k + 1] = Comments!TakePair(cs, rs, f[k])
    BY <1>1, <1>4, <1>7
  <2> QED BY <2>1, TakePairKeeps
<1>8. OK(n)
  <2> HIDE DEF S, OK
  <2>1. n \in S
    BY <1>1, <1>6, <1>7, NumbersFrom
  <2> QED BY <1>1, <2>1 DEF S
<1>9. Comments!Left(cs, rs, f[n]) = {}
  <2> SUFFICES ASSUME Cardinality(Assigned(rs, f[n])) = n PROVE Comments!Left(cs, rs, f[n]) = {}
    BY <1>8
  <2>1. IsFiniteSet(1 .. n) /\ Cardinality(1 .. n) = n /\ Assigned(rs, f[n]) \subseteq 1 .. n
    <3> HIDE DEF n, OK, S
    <3>1. 1 \in Int /\ n \in Int /\ n >= 0
      BY <1>1
    <3>2. IsFiniteSet(1 .. n) /\ Cardinality(1 .. n) = IF 1 > n THEN 0 ELSE n - 1 + 1
      BY <3>1, FS_Interval
    <3>3. Cardinality(1 .. n) = n
      BY <3>1, <3>2
    <3>4. Assigned(rs, f[n]) \subseteq 1 .. n
      BY DEF Assigned, n
    <3> QED BY <3>2, <3>3, <3>4
  <2>2. Assigned(rs, f[n]) = 1 .. n
    BY <2>1, FS_Subset
  <2>3. \A p \in Comments!Pairs(cs, rs) : p[1] \in 1 .. n
    BY PairIs
  <2> QED BY <2>2, <2>3 DEF Comments!Left, Assigned
<1> QED BY <1>3, <1>8, <1>9 DEF Took, TookAll

\* A reworded comment's request.
LEMMA TakeAtLineKeeps ==
  ASSUME NEW cs, NEW rs, Lined(cs), Lined(rs), NEW m, TookAll(cs, rs, m), NEW r \in 1 .. Len(rs)
  PROVE  TookAll(cs, rs, Comments!TakeAtLine(cs, rs, m, r))
<1> DEFINE at == Comments!Min(Comments!AtLine(cs, rs[r]))
<1>1. CASE m[r] = 0 /\ rs[r].name = Comments!None /\ Comments!AtLine(cs, rs[r]) # {} /\ at \notin Comments!ToSet(m)
  <2>1. Comments!AtLine(cs, rs[r]) \subseteq 1 .. Len(cs)
    BY DEF Comments!AtLine
  <2>2. at \in 1 .. Len(cs)
    <3>1. Comments!AtLine(cs, rs[r]) \subseteq Nat
      BY <2>1
    <3>2. \E x \in Comments!AtLine(cs, rs[r]) : \A y \in Comments!AtLine(cs, rs[r]) : x <= y
      BY <1>1, <3>1, LeastNumber
    <3>3. at \in Comments!AtLine(cs, rs[r])
      BY <3>2 DEF Comments!Min
    <3> QED BY <2>1, <3>3
  <2>3. Comments!TakeAtLine(cs, rs, m, r) = [m EXCEPT ![r] = at]
    BY <1>1 DEF Comments!TakeAtLine
  <2> DEFINE new == [m EXCEPT ![r] = at]
  <2> HIDE DEF at
  <2>4. GivenOnce(cs, rs, m)
    BY DEF TookAll
  <2>5. /\ GivenOnce(cs, rs, new)
        /\ \A p \in Comments!Pairs(cs, rs) : Served(cs, rs, m, p) => Served(cs, rs, new, p)
    BY <1>1, <2>2, <2>4, GiveOne
  <2> HIDE DEF new
  <2>6. TookAll(cs, rs, new)
    BY <2>5 DEF TookAll
  <2> QED BY <2>3, <2>6 DEF new
<1>2. CASE ~(m[r] = 0 /\ rs[r].name = Comments!None /\ Comments!AtLine(cs, rs[r]) # {} /\ at \notin Comments!ToSet(m))
  <2>1. Comments!TakeAtLine(cs, rs, m, r) = m
    BY <1>2 DEF Comments!TakeAtLine
  <2> QED BY <2>1
<1> QED BY <1>1, <1>2

\* f gives the first n requests what is at their line.
TakesLines(cs, rs, n, f) ==
  f = [k \in 0 .. n |-> IF k = 0 THEN Comments!TakePairs(cs, rs) ELSE Comments!TakeAtLine(cs, rs, f[k - 1], k)]

\* There is such an f.
LEMMA LinesExist ==
  ASSUME NEW cs, NEW rs, NEW n \in Nat
  PROVE  \E f : TakesLines(cs, rs, n, f)
<1> DEFINE S == {k \in Nat : \E f : TakesLines(cs, rs, k, f)}
           none == Comments!TakePairs(cs, rs)
<1>1. 0 \in S
  <2>1. TakesLines(cs, rs, 0, [k \in 0 .. 0 |-> none])
    <3> HIDE DEF none
    <3>1. [k \in 0 .. 0 |-> none] =
            [k \in 0 .. 0 |-> IF k = 0 THEN none ELSE Comments!TakeAtLine(cs, rs, [j \in 0 .. 0 |-> none][k - 1], k)]
      OBVIOUS
    <3> QED BY <3>1, Zenon DEF TakesLines, none
  <2> QED BY <2>1
<1>2. ASSUME NEW k \in Nat, k \in S PROVE k + 1 \in S
  <2>1. PICK f : TakesLines(cs, rs, k, f)
    BY <1>2
  <2> DEFINE last == Comments!TakeAtLine(cs, rs, f[k], k + 1)
             g == [i \in 0 .. (k + 1) |-> IF i = k + 1 THEN last ELSE f[i]]
  <2>2. \A i \in 0 .. k : f[i] = IF i = 0 THEN none ELSE Comments!TakeAtLine(cs, rs, f[i - 1], i)
    BY <2>1, Zenon DEF TakesLines
  <2> HIDE DEF none
  <2>3. ASSUME NEW i \in 0 .. (k + 1)
        PROVE  g[i] = IF i = 0 THEN none ELSE Comments!TakeAtLine(cs, rs, g[i - 1], i)
    <3>1. CASE i = 0
      BY <2>2, <3>1
    <3>2. CASE i = k + 1
      BY <3>2
    <3>3. CASE i \in 1 .. k
      BY <2>2, <3>3
    <3> QED BY <3>1, <3>2, <3>3
  <2>4. TakesLines(cs, rs, k + 1, g)
    <3> HIDE DEF last
    <3>1. g = [i \in 0 .. (k + 1) |-> g[i]]
      OBVIOUS
    <3> HIDE DEF g
    <3> QED BY <2>3, <3>1 DEF TakesLines, none
  <2> HIDE DEF g
  <2> QED BY <2>4
<1> HIDE DEF S
<1>3. n \in S
  BY <1>1, <1>2, NumbersFrom
<1> QED BY <1>3 DEF S

\* The whole matching serves every pair.
LEMMA RequestsMatched ==
  ASSUME NEW cs, NEW rs, Lined(cs), Lined(rs)
  PROVE  TookAll(cs, rs, Comments!MatchRequests(cs, rs))
<1> DEFINE n == Len(rs)
           f == CHOOSE f : TakesLines(cs, rs, n, f)
           none == Comments!TakePairs(cs, rs)
<1>1. n \in Nat
  BY DEF Lined
<1>2. TakesLines(cs, rs, n, f)
  BY <1>1, LinesExist
<1>3. Comments!MatchRequests(cs, rs) = f[n]
  BY DEF Comments!MatchRequests, TakesLines
<1> HIDE DEF f
<1>4. \A i \in 0 .. n : f[i] = IF i = 0 THEN none ELSE Comments!TakeAtLine(cs, rs, f[i - 1], i)
  BY <1>2, Zenon DEF TakesLines
<1>5. TookAll(cs, rs, none)
  BY PairsTaken
<1> HIDE DEF none
<1> DEFINE S == {k \in Nat : k <= n => TookAll(cs, rs, f[k])}
<1>6. 0 \in S
  BY <1>1, <1>4, <1>5
<1>7. ASSUME NEW k \in Nat, k \in S PROVE k + 1 \in S
  <2> SUFFICES ASSUME k + 1 <= n PROVE TookAll(cs, rs, f[k + 1])
    OBVIOUS
  <2>1. TookAll(cs, rs, f[k]) /\ f[k + 1] = Comments!TakeAtLine(cs, rs, f[k], k + 1) /\ k + 1 \in 1 .. n
    BY <1>1, <1>4, <1>7
  <2> QED BY <2>1, TakeAtLineKeeps
<1>8. TookAll(cs, rs, f[n])
  <2> HIDE DEF S
  <2>1. n \in S
    BY <1>1, <1>6, <1>7, NumbersFrom
  <2> QED BY <1>1, <2>1 DEF S
<1> QED BY <1>3, <1>8

\* The requests of a list are matched with the comments of a file closest first, for any
\* of either: none gets what another got, and no request and comment that fit are both
\* nearer to each other than to what they got (comments.rs:423, 437).
THEOREM MatchingIsStable ==
  ASSUME NEW cs, NEW rs, Lined(cs), Lined(rs)
  PROVE  Comments!IsStable(cs, rs, Comments!MatchRequests(cs, rs))
<1> DEFINE m == Comments!MatchRequests(cs, rs)
<1>1. TookAll(cs, rs, m)
  BY RequestsMatched
<1> HIDE DEF m
<1>2. ASSUME NEW p \in Comments!Pairs(cs, rs), Comments!Prefers(cs, rs, m, p), Comments!HoldersGiveUp(cs, rs, m, p)
      PROVE  FALSE
  <2>1. Served(cs, rs, m, p)
    BY <1>1 DEF TookAll
  <2>2. p[1] \in 1 .. Len(rs) /\ Comments!Distance(cs, rs, p) \in Nat
    BY PairIs
  <2>3. CASE /\ m[p[1]] # 0 /\ Comments!Fits(rs[p[1]], cs[m[p[1]]])
             /\ Comments!Distance(cs, rs, <<p[1], m[p[1]]>>) <= Comments!Distance(cs, rs, p)
    <3>1. Comments!Distance(cs, rs, p) < Comments!Distance(cs, rs, <<p[1], m[p[1]]>>)
      BY <1>2, <2>3 DEF Comments!Prefers, Comments!FitsOwn
    <3>2. m[p[1]] \in 1 .. Len(cs)
      BY <1>1, <2>2, <2>3 DEF TookAll, GivenOnce, Matchings, Lined
    <3>3. Comments!Distance(cs, rs, <<p[1], m[p[1]]>>) \in Nat
      BY <2>2, <3>2, DistanceIs
    <3> QED BY <2>2, <2>3, <3>1, <3>3
  <2>4. ASSUME NEW h \in 1 .. Len(rs), m[h] = p[2], Comments!Fits(rs[h], cs[p[2]]),
               Comments!Distance(cs, rs, <<h, p[2]>>) <= Comments!Distance(cs, rs, p)
        PROVE  FALSE
    <3>1. p[2] \in 1 .. Len(cs)
      BY PairIs
    <3>2. Comments!Distance(cs, rs, p) < Comments!Distance(cs, rs, <<h, p[2]>>)
      BY <1>2, <2>4, <3>1 DEF Comments!HoldersGiveUp, Comments!FitsOwn
    <3>3. Comments!Distance(cs, rs, <<h, p[2]>>) \in Nat
      BY <3>1, DistanceIs
    <3> QED BY <2>2, <2>4, <3>2, <3>3
  <2> QED BY <2>1, <2>3, <2>4 DEF Served
<1> QED BY <1>1, <1>2 DEF Comments!IsStable, TookAll, GivenOnce, m
=============================================================================
