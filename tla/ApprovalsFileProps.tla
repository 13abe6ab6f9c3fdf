------------------------- MODULE ApprovalsFileProps -------------------------
(***************************************************************************)
(* What the approvals file keeps of the user's decisions.                  *)
(***************************************************************************)
EXTENDS ApprovalsFile

DecisionSet == [code : Codes, text : Texts, by : Procs \cup {None}]

\* The shape of every variable; only the one who has the lock is past it.
TypeOK ==
  /\ file.form \in {"missing", "ok", "broken", "cut_short"}
  /\ ToSet(file.approved) \cup ToSet(temp.approved) \subseteq DecisionSet
  /\ temp.form \in {"missing", "ok", "cut_short"}
  /\ \A i \in DOMAIN backups : ToSet(backups[i].approved) \subseteq DecisionSet
  /\ \A left \in older :
       ToSet(left.file.approved) \subseteq DecisionSet /\ left.saved \subseteq Procs
  /\ lock \in Procs \cup {None}
  /\ trees \subseteq Worktrees
  /\ has \in [Worktrees -> SUBSET Codes] /\ bad \subseteq Worktrees \X Files
  /\ \A p \in Procs :
       /\ proc[p].pc \in {"start", "lock", "read", "sort", "backup", "copy", "write",
                          "sync", "rename", "end"}
       /\ proc[p].pc \in {"start", "lock", "end"} <=> lock # p
       /\ result[p] \in {None, "saved", "nothing", "refused", "failed", "killed", "undone"}
  /\ since \in [Procs -> SUBSET (Worktrees \X Codes)]

\* A crash or a power cut leaves a whole approvals file, old or new
\* (approvals.rs:235).
FileWhole == file.form # "cut_short"

Held(approved) == {d.by : d \in ToSet(approved)}
BackedUp == UNION {Held(backups[i].approved) : i \in {j \in DOMAIN backups : backups[j].whole}}

\* A decision whose add returned is in the file, or in a whole backup once a drop
\* removed it: no other add or drop, crash, broken file or failing step loses it
\* (approvals.rs:36 and 53).  A power cut loses it only together with the rename that
\* saved it, which nothing forces to the disk (approvals.rs:244): the file is then an
\* older one, and still holds, with the backups, what was added before.
NoneLost == {p \in Adders : result[p] = "saved"} \subseteq Held(file.approved) \cup BackedUp

\* What a drop writes.  It takes all decisions about some code or none, whatever
\* happens to that code while it reads them: no comment the user cut turns into an
\* approved one because its cut was dropped and an older approval was not
\* (drop_gone_approvals.rs:36).
DropsWhole(p) ==
  \A c \in Codes, t \in Texts \ {"cut"} :
    Compare(file'.approved, c, t) \in {Compare(file.approved, c, t), "undecided"}

\* A drop keeps the decisions about code that some worktree it listed has had ever
\* since the drop took the lock (drop_gone_approvals.rs:28).
LiveKept(p) ==
  \A x \in since[p] :
    x[1] \in proc[p].list => Decisions(file'.approved, x[2]) = Decisions(file.approved, x[2])

\* The two together, of the step in which a drop replaces the file: a drop neither
\* revives a cut comment nor forgets one that is still there, with the code and the
\* worktrees changing while it reads.
DropsGoneOnly == [][\A p \in Droppers : Rename(p) => DropsWhole(p) /\ LiveKept(p)]_vars
=============================================================================
