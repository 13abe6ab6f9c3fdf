---------------------------- MODULE ApprovalsFile ----------------------------
(***************************************************************************)
(* The approvals file every worktree of a clone shares.  Write-backs add   *)
(* the user's decisions to it and `drop-gone-approvals` removes those      *)
(* whose code no worktree has; both replace the whole file under a lock    *)
(* kept beside it.  Processes die at any step, power is cut, the file is   *)
(* broken by hand or written by a newer version, and code comes and goes   *)
(* in the worktrees meanwhile.                                             *)
(***************************************************************************)
EXTENDS Naturals, Sequences, FiniteSets, SequencesExt

CONSTANTS
  Adders,      \* the processes that add one decision each
  Droppers,    \* the runs of drop-gone-approvals
  Worktrees,   \* worktrees the clone ever has
  Codes,       \* the named code comments describe: <<file, name>>
  Saved,       \* what the file may hold at first: a set of sequences of decisions
  Faults       \* subset of {"crash", "power", "disk", "broken", "unparsed"}

Procs == Adders \cup Droppers
Files == {c[1] : c \in Codes}

VARIABLES
  file,     \* the approvals file: how it reads, the decisions, is it on disk whole
  temp,     \* the temporary file
  backups,  \* the backups, in the order of their numbers
  older,    \* the folder as a power cut may leave it: before changes to its names
            \* that may not be on disk yet
  lock,     \* the process that holds the lock
  trees,    \* the worktrees Git lists
  has,      \* each worktree: the code in it
  bad,      \* the files of a worktree that do not parse
  proc,     \* each process: where it is and what it holds
  result,   \* each process: what it returned, or that a power cut undid its save
  since     \* the code each process could have found ever since it has the lock

disk == <<file, temp, backups, older>>
code == <<trees, has, bad>>
vars == <<file, temp, backups, older, lock, trees, has, bad, proc, result, since>>

None == "none"
Texts == {"text", "cut"}     \* an empty text is a cut
Decision(c, t, by) == [code |-> c, text |-> t, by |-> by]

ASSUME ApprovalsAssumption ==
  /\ None \notin Procs /\ Adders \cap Droppers = {}
  /\ Saved \subseteq Seq([code : Codes, text : Texts, by : {None}])

NoFile == [form |-> "missing", approved |-> <<>>, synced |-> TRUE]
Idle == [pc |-> "start", new |-> <<>>, list |-> {}, queue |-> <<>>, kept |-> <<>>,
         copies |-> [f \in {} |-> {}]]

Init ==
  /\ \E s \in Saved : file = IF s = <<>> THEN NoFile
                             ELSE [form |-> "ok", approved |-> s, synced |-> TRUE]
  /\ temp = NoFile
  /\ backups = <<>> /\ older = {}
  /\ lock = None
  /\ trees \in SUBSET Worktrees
  /\ has \in [Worktrees -> SUBSET Codes]
  /\ bad = {}
  /\ proc = [p \in Procs |-> Idle]
  /\ result = [p \in Procs |-> None]
  /\ since = [p \in Procs |-> {}]

Goto(p, pc) == proc' = [proc EXCEPT ![p].pc = pc]

-----------------------------------------------------------------------------
\* The status a comment has against the decisions, which the steps read.

\* The decisions about some code, in their order.
Decisions(approved, c) ==
  LET ofFirst[n \in 0..Len(approved)] ==
        IF n = 0 THEN <<>>
        ELSE IF approved[n].code = c THEN Append(ofFirst[n - 1], approved[n])
        ELSE ofFirst[n - 1]
  IN  ofFirst[Len(approved)]
Compare(approved, c, text) ==
  LET ds == Decisions(approved, c)
  IN  IF ds = <<>> THEN "undecided"
      ELSE IF ds[Len(ds)].text = "cut" THEN "was_cut"
      ELSE IF \E i \in DOMAIN ds : ds[i].text = text THEN "approved"
      ELSE "differs"

-----------------------------------------------------------------------------
\* Both commands.

\* The process ends, and its lock with it.
End(p, outcome) ==
  /\ result' = [result EXCEPT ![p] = outcome]
  /\ proc' = [proc EXCEPT ![p] = [Idle EXCEPT !.pc = "end"]]
  /\ lock' = IF lock = p THEN None ELSE lock
  /\ since' = [since EXCEPT ![p] = {}]

Add(p) ==
  /\ p \in Adders /\ proc[p].pc = "start"
  /\ \E c \in Codes, t \in Texts :
       proc' = [proc EXCEPT ![p].pc = "lock", ![p].new = <<Decision(c, t, p)>>]
  /\ UNCHANGED <<disk, lock, code, result, since>>

\* drop_gone_approvals lists the worktrees before it waits for the lock.
ListWorktrees(p) ==
  /\ p \in Droppers /\ proc[p].pc = "start"
  /\ proc' = [proc EXCEPT ![p].pc = "lock", ![p].list = trees]
  /\ UNCHANGED <<disk, lock, code, result, since>>

\* Mutant: the lock guards the file that is replaced, so nobody waits.
LockFree(p) ==
  /\ proc[p].pc = "lock"
  /\ lock' = p
  /\ since' = [since EXCEPT ![p] = {x \in trees \X Codes : x[2] \in has[x[1]]}]
  /\ Goto(p, "read")
  /\ UNCHANGED <<disk, code, result>>
Lock(p) ==
  /\ proc[p].pc = "lock"
  /\ lock = None
  /\ lock' = p
  /\ since' = [since EXCEPT ![p] = {x \in trees \X Codes : x[2] \in has[x[1]]}]
  /\ Goto(p, "read")
  /\ UNCHANGED <<disk, code, result>>

\* A file that does not read, or that holds a field this version does not know,
\* is refused and kept.
ReadSaved(p) ==
  /\ proc[p].pc = "read"
  /\ IF file.form \in {"missing", "ok"}
     THEN /\ proc' = [proc EXCEPT ![p].pc = IF p \in Adders THEN "write" ELSE "sort",
                                  ![p].queue = file.approved,
                                  ![p].kept = IF p \in Adders
                                              THEN file.approved \o proc[p].new ELSE <<>>]
          /\ UNCHANGED <<lock, result, since>>
     ELSE End(p, "refused")
  /\ UNCHANGED <<disk, code>>

-----------------------------------------------------------------------------
\* drop-gone-approvals.

\* Mutant: code counts only when every listed worktree has it.
CopiesInAll(list, f) == {c \in Codes : c[1] = f /\ \A w \in list \cap trees : c \in has[w]}

\* What the copies of one file in the listed worktrees hold: a worktree that is
\* gone has none.
CopiesOf(list, f) == {c \in Codes : c[1] = f /\ \E w \in list \cap trees : c \in has[w]}
Unparsed(list, f) == \E w \in list \cap trees : <<w, f>> \in bad

\* One decision: its file is read in every listed worktree, once for all the
\* decisions in it.
SortOne(p) ==
  LET d == Head(proc[p].queue)
      f == d.code[1]
      read == f \notin DOMAIN proc[p].copies
      copies == [g \in DOMAIN proc[p].copies \cup {f} |->
                   IF g = f /\ read THEN CopiesOf(proc[p].list, f) ELSE proc[p].copies[g]]
  IN  /\ proc[p].pc = "sort" /\ proc[p].queue # <<>>
      /\ IF read /\ Unparsed(proc[p].list, f)
         THEN End(p, "refused")
         ELSE /\ proc' = [proc EXCEPT ![p].queue = Tail(@),
                                      ![p].copies = copies,
                                      ![p].kept = IF d.code \in copies[f] THEN Append(@, d) ELSE @]
              /\ UNCHANGED <<lock, result, since>>
      /\ UNCHANGED <<disk, code>>

\* Without a gone decision nothing is written; the lock kept others off the
\* file, so it is as it was read.
Sorted(p) ==
  /\ proc[p].pc = "sort" /\ proc[p].queue = <<>>
  /\ IF proc[p].kept = file.approved
     THEN End(p, "nothing")
     ELSE Goto(p, "backup") /\ UNCHANGED <<lock, result, since>>
  /\ UNCHANGED <<disk, code>>

\* The folder with the names it has now, and whose save they hold.
Folder == [file |-> file, backups |-> backups, saved |-> {p \in Procs : result[p] = "saved"}]

\* The first free backup name is taken, then the contents are written and synced.
\* Only the contents: no step syncs the folder, so its names may be the old ones
\* after a power cut.
CreateBackup(p) ==
  /\ proc[p].pc = "backup"
  /\ older' = older \cup {Folder}
  /\ backups' = Append(backups, [whole |-> FALSE, approved |-> <<>>])
  /\ Goto(p, "copy")
  /\ UNCHANGED <<file, temp, lock, code, result, since>>

CopyBackup(p) ==
  /\ proc[p].pc = "copy"
  /\ backups' = [backups EXCEPT ![Len(backups)] = [whole |-> TRUE, approved |-> file.approved]]
  /\ Goto(p, "write")
  /\ UNCHANGED <<file, temp, older, lock, code, result, since>>

-----------------------------------------------------------------------------
\* write_saved_file.

\* Mutant: the temporary file is not synced.
WriteTempOnly(p) ==
  /\ proc[p].pc = "write"
  /\ temp' = [form |-> "ok", approved |-> proc[p].kept, synced |-> FALSE]
  /\ Goto(p, "rename")
  /\ UNCHANGED <<file, backups, older, lock, code, result, since>>
WriteTemp(p) ==
  /\ proc[p].pc = "write"
  /\ temp' = [form |-> "ok", approved |-> proc[p].kept, synced |-> FALSE]
  /\ Goto(p, "sync")
  /\ UNCHANGED <<file, backups, older, lock, code, result, since>>

SyncTemp(p) ==
  /\ proc[p].pc = "sync"
  /\ temp' = [temp EXCEPT !.synced = TRUE]
  /\ Goto(p, "rename")
  /\ UNCHANGED <<file, backups, older, lock, code, result, since>>

Rename(p) ==
  /\ proc[p].pc = "rename"
  /\ older' = older \cup {Folder}
  /\ file' = temp
  /\ temp' = NoFile
  /\ End(p, "saved")
  /\ UNCHANGED <<backups, code>>

-----------------------------------------------------------------------------
\* What else happens.

\* A step of the disk or of Git fails, or the process dies: the files stay as they are.
Fail(p) ==
  /\ proc[p].pc \notin {"start", "end"}
  /\ \/ "disk" \in Faults /\ End(p, "failed")
     \/ "crash" \in Faults /\ End(p, "killed")
  /\ UNCHANGED <<disk, code>>

\* Contents that were not synced are gone after a power cut, and the names in the
\* folder are those after some of the changes made to them, the first ones first.
AfterCut(f) == IF f.synced THEN f ELSE [form |-> "cut_short", approved |-> <<>>, synced |-> TRUE]
PowerCut ==
  /\ "power" \in Faults
  /\ older # {} \/ \E p \in Procs : proc[p].pc \notin {"start", "end"}
  /\ \E left \in older \cup {Folder} :
       /\ file' = AfterCut(left.file)
       /\ backups' = left.backups
       /\ result' = [p \in Procs |->
                       IF proc[p].pc \notin {"start", "end"} THEN "killed"
                       ELSE IF result[p] = "saved" /\ p \notin left.saved THEN "undone"
                       ELSE result[p]]
  /\ temp' = AfterCut(temp)
  /\ older' = {}
  /\ lock' = None
  /\ proc' = [p \in Procs |-> IF proc[p].pc = "start" THEN proc[p] ELSE [Idle EXCEPT !.pc = "end"]]
  /\ since' = [p \in Procs |-> {}]
  /\ UNCHANGED code

\* The user breaks the file, or a newer version adds a field to it, and someone
\* puts it right.
Break ==
  /\ "broken" \in Faults /\ lock = None /\ file.form \in {"ok", "broken"}
  /\ file' = [file EXCEPT !.form = IF @ = "ok" THEN "broken" ELSE "ok"]
  /\ UNCHANGED <<temp, backups, older, lock, code, proc, result, since>>

\* An agent changes the code of a worktree.
ChangeCode(w) ==
  /\ w \in trees
  /\ \/ /\ \E c \in Codes : has' = [has EXCEPT ![w] = (@ \cup {c}) \ (@ \cap {c})]
        /\ UNCHANGED bad
     \/ /\ "unparsed" \in Faults
        /\ \E f \in Files : bad' = (bad \cup {<<w, f>>}) \ (bad \cap {<<w, f>>})
        /\ UNCHANGED has
  /\ since' = [p \in Procs |-> {x \in since[p] : x[2] \in has'[x[1]]}]
  /\ UNCHANGED <<disk, lock, trees, proc, result>>

ChangeTrees(w) ==
  /\ trees' = (trees \cup {w}) \ (trees \cap {w})
  /\ since' = [p \in Procs |-> {x \in since[p] : x[1] # w}]
  /\ UNCHANGED <<disk, lock, has, bad, proc, result>>

Next ==
  \/ \E p \in Procs :
       \/ Add(p) \/ ListWorktrees(p) \/ Lock(p) \/ ReadSaved(p) \/ SortOne(p) \/ Sorted(p)
       \/ CreateBackup(p) \/ CopyBackup(p) \/ WriteTemp(p) \/ SyncTemp(p) \/ Rename(p) \/ Fail(p)
  \/ PowerCut \/ Break
  \/ \E w \in Worktrees : ChangeCode(w) \/ ChangeTrees(w)

Spec == Init /\ [][Next]_vars
=============================================================================
