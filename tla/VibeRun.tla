------------------------------ MODULE VibeRun ------------------------------
(***************************************************************************)
(* `vibe run`: runs of an agent in a managed worktree.  All runs here have *)
(* keys that make one slug, so they share its lock, key file, branch,      *)
(* worktree and index.  A run claims the slug, prepares the worktree,      *)
(* keeps a record while it goes through its phases, starts the agent in a  *)
(* container, commits what the agent left and writes the record, the views *)
(* of it and the index.  Any call may fail; vibe may be killed anywhere,   *)
(* which frees its lock and may leave the container running.               *)
(***************************************************************************)
EXTENDS Integers, Sequences, FiniteSets

CONSTANTS
  Runs,        \* calls of `vibe run`
  KeyOf,       \* the key each was given
  BaseGiven,   \* runs with --base
  NoRun,       \* no run, no key
  HasApprovals,  \* does the main checkout hold comment approvals to copy?
  MaxFaults,   \* bound: calls that fail
  MaxSnaps,    \* bound: snapshots by all agents
  MaxUser,     \* bound: changes by the user between runs
  Kills,       \* may vibe be killed?
  Orphans,     \* does the container outlive a killed vibe?
  Interrupts,  \* may a snapshot stop before it takes its commit back?
  PathRank,    \* the order of the paths of the runs' records
  QuickRuns    \* may two runs start within one second?

ASSUME VibeAssumption ==
  /\ NoRun \notin Runs /\ KeyOf \in [Runs -> STRING] /\ \A r \in Runs : KeyOf[r] # NoRun
  /\ BaseGiven \subseteq Runs
  /\ HasApprovals \in BOOLEAN /\ Kills \in BOOLEAN /\ Orphans \in BOOLEAN /\ Interrupts \in BOOLEAN
  /\ PathRank \in [Runs -> Nat] /\ QuickRuns \in BOOLEAN
  /\ \A r, s \in Runs : PathRank[r] = PathRank[s] => r = s
  /\ MaxFaults \in Nat /\ MaxSnaps \in Nat /\ MaxUser \in Nat

VARIABLES
  lock,     \* who holds run.lock
  key,      \* the key file
  wt,       \* the branch and the worktree: are they there, with the approvals?
  log,      \* commits, oldest first: who made each and whose changes it holds
  head,     \* the commit the branch is at; 0 is its base
  dirty,    \* whose uncommitted changes the worktree holds
  index,    \* runs in runs_index.jsonl
  files,    \* each run's folder: its record, its views, its snapshot log
  pc,       \* each run: where it is
  out,      \* each run: its outcome, then its result
  agent,    \* each run's container
  started,  \* runs in the order of their records, and the second of each
  faults, user

git == <<wt, log, head, dirty>>
vars == <<lock, key, git, index, files, pc, out, agent, started, faults, user>>

Phases == {"preparing_artifacts", "copying_prompt", "checking_dirty", "reading_pre_run_commit",
           "preparing_sandbox", "running_agent", "reading_snapshots", "committing_result", "finished"}
Statuses == {"completed", "noop", "agent_failed", "commit_failed", "refused_dirty",
             "snapshot_failed", "wrapper_failed", "setup_error"}

NoCommit == -1
Nothing == [phase |-> "none", status |-> "none", pre |-> NoCommit, commit |-> NoCommit,
            snaps |-> {}, perr |-> FALSE]
NoFiles == [record |-> Nothing, summary |-> Nothing, result |-> Nothing, snaps |-> {}, snaplog |-> FALSE]
NoOutcome == [Nothing EXCEPT !.phase = "finished"]

Init ==
  /\ lock = NoRun /\ key = NoRun
  /\ wt = [branch |-> FALSE, made |-> FALSE, approvals |-> FALSE]
  /\ log = <<>> /\ head = 0 /\ dirty = {}
  /\ index = {}
  /\ files = [r \in Runs |-> NoFiles]
  /\ pc = [r \in Runs |-> "idle"]
  /\ out = [r \in Runs |-> NoOutcome]
  /\ agent = [r \in Runs |-> "none"]
  /\ started = <<>>
  /\ faults = 0 /\ user = 0

-----------------------------------------------------------------------------
Fails == faults < MaxFaults /\ faults' = faults + 1
Works == UNCHANGED faults
Goto(r, l) == pc' = [pc EXCEPT ![r] = l]
Record(r) == files[r].record
HasRecord(r) == Record(r).phase # "none"

\* A step before the record exists ends the run with a setup error.
Give(r, status) == out' = [out EXCEPT ![r].status = status]
SetupError(r) == Give(r, "setup_error") /\ Goto(r, "emit")

\* Mutant: only the status is kept.
FailBare(r, status) == out' = [out EXCEPT ![r] = [NoOutcome EXCEPT !.status = status]] /\ Goto(r, "terminal")

\* A stage fails: the values collected so far stay in the outcome.
Fail(r, status) == Give(r, status) /\ Goto(r, "terminal")

Lock(r) ==
  /\ pc[r] = "idle"
  /\ \/ Works /\ lock = NoRun /\ lock' = r /\ Goto(r, "claim") /\ UNCHANGED out
     \/ Works /\ lock # NoRun /\ SetupError(r) /\ UNCHANGED lock
     \/ Fails /\ SetupError(r) /\ UNCHANGED lock
  /\ UNCHANGED <<key, git, index, files, agent, started, user>>

\* The first key claims the slug; it is checked and written under the lock.
Claim(r) ==
  /\ pc[r] = "claim"
  /\ \/ Works /\ key \in {NoRun, KeyOf[r]} /\ key' = KeyOf[r] /\ Goto(r, "setup") /\ UNCHANGED out
     \/ Works /\ key \notin {NoRun, KeyOf[r]} /\ SetupError(r) /\ UNCHANGED key
     \/ Fails /\ SetupError(r) /\ UNCHANGED key
  /\ UNCHANGED <<lock, git, index, files, agent, started, user>>

\* --base only seeds a branch and worktree that are new.
BaseFits(r) == r \in BaseGiven => ~wt.made /\ ~wt.branch

\* Inputs, prompt, base, provider, skills and image, none of which changes state here.
Setup(r) ==
  /\ pc[r] = "setup"
  /\ \/ Works /\ BaseFits(r) /\ Goto(r, "worktree") /\ UNCHANGED out
     \/ Works /\ ~BaseFits(r) /\ SetupError(r)
     \/ Fails /\ SetupError(r)
  /\ UNCHANGED <<lock, key, git, index, files, agent, started, user>>

\* A worktree on the branch is used as it is; one is added otherwise, on the
\* branch when it is there and on a new one at the base when it is not.
EnsureWorktree(r) ==
  /\ pc[r] = "worktree"
  /\ \/ Works /\ wt.made /\ BaseFits(r) /\ Goto(r, "artifacts") /\ UNCHANGED <<wt, out>>
     \/ Works /\ ~wt.made /\ BaseFits(r)
        /\ wt' = [branch |-> TRUE, made |-> TRUE, approvals |-> FALSE]
        /\ Goto(r, "approvals") /\ UNCHANGED out
     \/ Works /\ ~BaseFits(r) /\ SetupError(r) /\ UNCHANGED wt
     \/ Fails /\ SetupError(r) /\ UNCHANGED wt
  /\ UNCHANGED <<lock, key, log, head, dirty, index, files, agent, started, user>>

CopyApprovals(r) ==
  /\ pc[r] = "approvals"
  /\ \/ Works /\ wt' = [wt EXCEPT !.approvals = HasApprovals] /\ Goto(r, "artifacts") /\ UNCHANGED out
     \/ Fails /\ HasApprovals /\ SetupError(r) /\ UNCHANGED wt
  /\ UNCHANGED <<lock, key, log, head, dirty, index, files, agent, started, user>>

\* The repository's skills are looked at and the run's folder made.
CreateArtifacts(r) ==
  /\ pc[r] = "artifacts"
  /\ \/ Works /\ files' = [files EXCEPT ![r].snaplog = TRUE] /\ Goto(r, "start") /\ UNCHANGED out
     \/ Fails /\ SetupError(r) /\ UNCHANGED files
  /\ UNCHANGED <<lock, key, git, index, agent, started, user>>

\* created_at counts whole seconds.
Seconds ==
  LET last == IF started = <<>> THEN 0 ELSE started[Len(started)].at
  IN  {last + 1} \cup (IF QuickRuns THEN {last} ELSE {})

\* A record that cannot be started leaves none to finish.
StartRun(r) ==
  /\ pc[r] = "start"
  /\ \/ /\ Works
        /\ files' = [files EXCEPT ![r].record = [Nothing EXCEPT !.phase = "preparing_artifacts"]]
        /\ \E now \in Seconds : started' = Append(started, [run |-> r, at |-> now])
        /\ Goto(r, "prompt") /\ UNCHANGED out
     \/ Fails /\ Give(r, "wrapper_failed") /\ Goto(r, "result") /\ UNCHANGED <<files, started>>
  /\ UNCHANGED <<lock, key, git, index, agent, user>>

-----------------------------------------------------------------------------
\* The stages.  The record names the phase before its work is done; a phase that
\* cannot be saved, or be noted in the log, fails the stage.

PersistPhase(r, here, phase, next) ==
  /\ pc[r] = here
  /\ \/ Works /\ files' = [files EXCEPT ![r].record.phase = phase] /\ Goto(r, next) /\ UNCHANGED out
     \/ Fails /\ Fail(r, "wrapper_failed")
        /\ files' \in {files, [files EXCEPT ![r].record.phase = phase]}
  /\ UNCHANGED <<lock, key, git, index, agent, started, user>>

\* The prompt's files are written between the two phases.
CopyPrompt(r) == PersistPhase(r, "prompt", "copying_prompt", "dirty")
CheckingDirty(r) == PersistPhase(r, "dirty", "checking_dirty", "refuse")

\* Mutant: a dirty worktree is taken over.
DirtyTaken(r) ==
  /\ pc[r] = "refuse"
  /\ Works /\ Goto(r, "reading") /\ UNCHANGED out
  /\ UNCHANGED <<lock, key, git, index, files, agent, started, user>>

RefuseIfDirty(r) ==
  /\ pc[r] = "refuse"
  /\ \/ Works /\ dirty = {} /\ Goto(r, "reading") /\ UNCHANGED out
     \/ Works /\ dirty # {} /\ Fail(r, "refused_dirty")
     \/ Fails /\ Fail(r, "refused_dirty")
  /\ UNCHANGED <<lock, key, git, index, files, agent, started, user>>

ReadingPreRunCommit(r) == PersistPhase(r, "reading", "reading_pre_run_commit", "pre")

\* The outcome keeps the commit once the record holds it.
PreRunCommit(r) ==
  /\ pc[r] = "pre"
  /\ \/ /\ Works
        /\ files' = [files EXCEPT ![r].record.pre = head]
        /\ out' = [out EXCEPT ![r].pre = head]
        /\ Goto(r, "sandbox")
     \/ Fails /\ Fail(r, "wrapper_failed") /\ UNCHANGED files
  /\ UNCHANGED <<lock, key, git, index, agent, started, user>>

PreparingSandbox(r) == PersistPhase(r, "sandbox", "preparing_sandbox", "phase_agent")
RunningAgent(r) == PersistPhase(r, "phase_agent", "running_agent", "spawn")

\* The container starts, or its arguments, its mounts or docker refuse it.
RunAgent(r) ==
  /\ pc[r] = "spawn"
  /\ \/ Works /\ agent' = [agent EXCEPT ![r] = "runs"] /\ Goto(r, "wait") /\ UNCHANGED out
     \/ Fails /\ Fail(r, "wrapper_failed") /\ UNCHANGED agent
  /\ UNCHANGED <<lock, key, git, index, files, started, user>>

\* The container has ended; an exit code of its own says that it had no prompt.
AgentExit(r) ==
  /\ pc[r] = "wait"
  /\ agent[r] \in {"ended", "failed", "no_prompt"}
  /\ IF agent[r] = "no_prompt" THEN Fail(r, "wrapper_failed") ELSE Goto(r, "snapshots") /\ UNCHANGED out
  /\ UNCHANGED <<lock, key, git, index, files, agent, started, faults, user>>

ReadingSnapshots(r) == PersistPhase(r, "snapshots", "reading_snapshots", "snaplog")

ReadSnapshots(r) ==
  /\ pc[r] = "snaplog"
  /\ \/ Works /\ files[r].snaplog
        /\ out' = [out EXCEPT ![r].snaps = files[r].snaps] /\ Goto(r, "is_dirty")
     \/ Works /\ ~files[r].snaplog /\ Fail(r, "snapshot_failed")
     \/ Fails /\ Fail(r, "snapshot_failed")
  /\ UNCHANGED <<lock, key, git, index, files, agent, started, user>>

\* What the agent's exit makes of a run with nothing to commit, and of one with.
Clean(r) == IF agent[r] = "ended" THEN "noop" ELSE "agent_failed"
Dirty(r) == IF agent[r] = "ended" THEN "completed" ELSE "agent_failed"

IsDirty(r) ==
  /\ pc[r] = "is_dirty"
  /\ \/ Works /\ dirty = {} /\ Give(r, Clean(r)) /\ Goto(r, "terminal")
     \/ Works /\ dirty # {} /\ Goto(r, "phase_commit") /\ UNCHANGED out
     \/ Fails /\ Fail(r, "wrapper_failed")
  /\ UNCHANGED <<lock, key, git, index, files, agent, started, user>>

CommittingResult(r) == PersistPhase(r, "phase_commit", "committing_result", "commit")

CommitDirty(by) ==
  /\ log' = Append(log, [by |-> by, has |-> dirty])
  /\ head' = Len(log) + 1
  /\ dirty' = {}
  /\ UNCHANGED wt

\* The commit may also succeed and its ID not be read.
CommitResult(r) ==
  /\ pc[r] = "commit"
  /\ \/ Works /\ CommitDirty(r)
        /\ out' = [out EXCEPT ![r].status = Dirty(r), ![r].commit = Len(log) + 1]
     \/ Fails /\ UNCHANGED git /\ Give(r, "commit_failed")
     \/ Fails /\ CommitDirty(r) /\ Give(r, "commit_failed")
  /\ Goto(r, "changed")
  /\ UNCHANGED <<lock, key, index, files, agent, started, user>>

\* A list of changed files that cannot be made is only an error beside the result.
ChangedFiles(r) ==
  /\ pc[r] = "changed"
  /\ \/ Works /\ UNCHANGED out
     \/ Fails /\ out' = [out EXCEPT ![r].perr = TRUE]
  /\ Goto(r, "terminal")
  /\ UNCHANGED <<lock, key, git, index, files, agent, started, user>>

-----------------------------------------------------------------------------
\* The end: the record first, then what is made from it.

TerminalRecord(r) ==
  /\ pc[r] = "terminal"
  /\ \/ Works /\ files' = [files EXCEPT ![r].record = out[r]] /\ Goto(r, "summary") /\ UNCHANGED out
     \/ Fails /\ out' = [out EXCEPT ![r].perr = TRUE] /\ Goto(r, "repair") /\ UNCHANGED files
  /\ UNCHANGED <<lock, key, git, index, agent, started, user>>

\* A summary that cannot be written is noted in the record, and the index left.
Summary(r) ==
  /\ pc[r] = "summary"
  /\ \/ Works /\ files' = [files EXCEPT ![r].summary = Record(r)] /\ Goto(r, "index") /\ UNCHANGED out
     \/ /\ Fails
        /\ out' = [out EXCEPT ![r].perr = TRUE]
        /\ files' = [files EXCEPT ![r].record.perr = TRUE] /\ Goto(r, "result")
     \/ /\ faults + 1 < MaxFaults /\ faults' = faults + 2
        /\ out' = [out EXCEPT ![r].perr = TRUE]
        /\ UNCHANGED files /\ Goto(r, "repair")
  /\ UNCHANGED <<lock, key, git, index, agent, started, user>>

AppendIndex(r) ==
  /\ pc[r] = "index"
  /\ \/ Works /\ index' = index \cup {r} /\ Goto(r, "result") /\ UNCHANGED out
     \/ Fails /\ out' = [out EXCEPT ![r].perr = TRUE] /\ Goto(r, "repair_index") /\ UNCHANGED index
  /\ UNCHANGED <<lock, key, git, files, agent, started, user>>

\* A late error goes into the record and the summary as far as they can be written.
RecordLateError(r, here, done, failed) ==
  /\ pc[r] = here
  /\ LET noted == [files EXCEPT ![r].record.perr = TRUE]
         viewed == [noted EXCEPT ![r].summary = noted[r].record]
     IN  \/ Works /\ HasRecord(r) /\ files' = viewed /\ Goto(r, done)
         \/ Works /\ ~HasRecord(r) /\ UNCHANGED files /\ Goto(r, failed)
         \/ Fails /\ HasRecord(r) /\ files' \in {files, noted} /\ Goto(r, failed)
  /\ UNCHANGED <<lock, key, git, index, out, agent, started, user>>

\* After the index a second try is made, whose failure is only in the result.
Repair(r) ==
  \/ RecordLateError(r, "repair_index", "result", "repair")
  \/ RecordLateError(r, "repair", "result", "result")
  \/ RecordLateError(r, "repair_result", "emit", "emit")

\* Mutant: a result file that cannot be written is passed over.
ResultFileQuiet(r) ==
  /\ pc[r] = "result"
  /\ \/ Works /\ Record(r).status # "none" /\ files' = [files EXCEPT ![r].result = Record(r)]
     \/ Works /\ Record(r).status = "none" /\ UNCHANGED files
     \/ Fails /\ UNCHANGED files
  /\ Goto(r, "emit") /\ UNCHANGED out
  /\ UNCHANGED <<lock, key, git, index, agent, started, user>>

\* The result file is made from the record, which must be terminal.
ResultFile(r) ==
  /\ pc[r] = "result"
  /\ \/ /\ Works /\ Record(r).status # "none"
        /\ files' = [files EXCEPT ![r].result = Record(r)]
        /\ Goto(r, "emit") /\ UNCHANGED out
     \/ /\ IF Record(r).status = "none" THEN Works ELSE Fails
        /\ out' = [out EXCEPT ![r].perr = TRUE]
        /\ Goto(r, "repair_result") /\ UNCHANGED files
  /\ UNCHANGED <<lock, key, git, index, agent, started, user>>

\* The lock goes and the result is printed.
Emit(r) ==
  /\ pc[r] = "emit"
  /\ lock' = IF lock = r THEN NoRun ELSE lock
  /\ Goto(r, "done")
  /\ UNCHANGED <<key, git, index, files, out, agent, started, faults, user>>

RunStep(r) ==
  \/ Lock(r) \/ Claim(r) \/ Setup(r) \/ EnsureWorktree(r) \/ CopyApprovals(r)
  \/ CreateArtifacts(r) \/ StartRun(r)
  \/ CopyPrompt(r) \/ CheckingDirty(r) \/ RefuseIfDirty(r) \/ ReadingPreRunCommit(r)
  \/ PreRunCommit(r) \/ PreparingSandbox(r) \/ RunningAgent(r) \/ RunAgent(r) \/ AgentExit(r)
  \/ ReadingSnapshots(r) \/ ReadSnapshots(r) \/ IsDirty(r) \/ CommittingResult(r)
  \/ CommitResult(r) \/ ChangedFiles(r)
  \/ TerminalRecord(r) \/ Summary(r) \/ AppendIndex(r) \/ Repair(r) \/ ResultFile(r) \/ Emit(r)

\* What `vibe status` shows: the newest record that the index or the runs folder
\* has, by its second and then by its path.
Newer(a, b) == a.at > b.at \/ (a.at = b.at /\ PathRank[a.run] > PathRank[b.run])
NewestOf(runs) ==
  LET some == {i \in DOMAIN started : started[i].run \in runs}
  IN  IF some = {} THEN NoRun
      ELSE started[CHOOSE i \in some : \A j \in some \ {i} : Newer(started[i], started[j])].run

\* Mutant: only the index is read.
LatestIndexed == NewestOf(index)

Latest == NewestOf(index \cup {r \in Runs : HasRecord(r)})

-----------------------------------------------------------------------------
\* The agent in its container, and the user.

AgentEdits(r) ==
  /\ agent[r] = "runs"
  /\ dirty' = dirty \cup {r}
  /\ UNCHANGED <<lock, key, wt, log, head, index, files, pc, out, agent, started, faults, user>>

\* A snapshot commits, logs the commit and takes it back, keeping its changes; one
\* that is stopped in between leaves the branch at it.
Snapshot(r) ==
  /\ agent[r] = "runs"
  /\ dirty # {}
  /\ Cardinality(UNION {files[q].snaps : q \in Runs}) < MaxSnaps
  /\ files' = [files EXCEPT ![r].snaps = @ \cup {Len(log) + 1}]
  /\ log' = Append(log, [by |-> r, has |-> dirty])
  /\ \/ UNCHANGED <<head, dirty>>
     \/ Interrupts /\ head' = Len(log) + 1 /\ dirty' = {}
  /\ UNCHANGED <<lock, key, wt, index, pc, out, agent, started, faults, user>>

\* The agent may remove what is in the run's folder, except the record.
SnapshotLogGone(r) ==
  /\ agent[r] = "runs"
  /\ files[r].snaplog
  /\ files' = [files EXCEPT ![r].snaplog = FALSE]
  /\ UNCHANGED <<lock, key, git, index, pc, out, agent, started, faults, user>>

AgentEnds(r) ==
  /\ agent[r] = "runs"
  /\ \E code \in {"ended", "failed"} \cup (IF dirty = {} THEN {"no_prompt"} ELSE {}) :
       agent' = [agent EXCEPT ![r] = code]
  /\ UNCHANGED <<lock, key, git, index, files, pc, out, started, faults, user>>

\* vibe is killed.  Where Orphans is FALSE its container ends with it, which is
\* assumed of the environment: docker run is given nothing to this end, and a
\* container goes on when its client dies.
Killed(r) ==
  /\ Kills
  /\ pc[r] \notin {"idle", "done", "dead"}
  /\ Goto(r, "dead")
  /\ lock' = IF lock = r THEN NoRun ELSE lock
  /\ agent' = IF Orphans \/ agent[r] # "runs" THEN agent ELSE [agent EXCEPT ![r] = "failed"]
  /\ UNCHANGED <<key, git, index, files, out, started, faults, user>>

\* Between runs the user edits or cleans the worktree, or removes it.
UserActs ==
  /\ lock = NoRun /\ wt.made
  /\ user < MaxUser /\ user' = user + 1
  /\ \/ dirty' = {"user"} /\ UNCHANGED <<wt, log, head>>
     \/ dirty # {} /\ dirty' = {} /\ UNCHANGED <<wt, log, head>>
     \/ wt' = [wt EXCEPT !.made = FALSE, !.approvals = FALSE] /\ dirty' = {} /\ UNCHANGED <<log, head>>
  /\ UNCHANGED <<lock, key, index, files, pc, out, agent, started, faults>>

Next ==
  \/ \E r \in Runs : RunStep(r) \/ AgentEdits(r) \/ Snapshot(r) \/ SnapshotLogGone(r)
                     \/ AgentEnds(r) \/ Killed(r)
  \/ UserActs

Spec == Init /\ [][Next]_vars

-----------------------------------------------------------------------------
\* Properties.

Ended(r) == pc[r] = "done"
Labels == {"idle", "claim", "setup", "worktree", "approvals", "artifacts", "start", "prompt", "dirty",
           "refuse", "reading", "pre", "sandbox", "phase_agent", "spawn", "wait", "snapshots", "snaplog",
           "is_dirty", "phase_commit", "commit", "changed", "terminal", "summary", "index",
           "repair_index", "repair", "result", "repair_result", "emit", "done", "dead"}
Changes == Runs \cup {"user"}
View == [phase : Phases \cup {"none"}, status : Statuses \cup {"none"},
         pre : 0 .. Len(log) \cup {NoCommit}, commit : 1 .. Len(log) \cup {NoCommit},
         snaps : SUBSET (1 .. Len(log)), perr : BOOLEAN]
Folder == [record : View, summary : View, result : View, snaps : SUBSET (1 .. Len(log)), snaplog : BOOLEAN]

\* Every variable holds a value of its type.
TypeOK ==
  /\ lock \in Runs \cup {NoRun}
  /\ key \in {KeyOf[r] : r \in Runs} \cup {NoRun}
  /\ wt \in [branch : BOOLEAN, made : BOOLEAN, approvals : BOOLEAN]
  /\ log \in Seq([by : Runs, has : SUBSET Changes]) /\ head \in 0 .. Len(log)
  /\ dirty \subseteq Changes
  /\ index \subseteq Runs
  /\ files \in [Runs -> Folder]
  /\ pc \in [Runs -> Labels]
  /\ out \in [Runs -> View]
  /\ agent \in [Runs -> {"none", "runs", "ended", "failed", "no_prompt"}]
  /\ started \in Seq([run : Runs, at : Nat])
  /\ faults \in Nat /\ user \in Nat

\* Runs under different keys never share a branch, a worktree or a state folder,
\* although their keys make one slug (check_stored_key, acquire_run_lock_in).
OneKeyPerSlug == \A i, j \in DOMAIN started : KeyOf[started[i].run] = KeyOf[started[j].run]

\* A result commit holds only what its own run's agent changed, never what an
\* earlier run or the user left in the worktree (refuse_if_dirty, the run lock).
\* Only where no container outlives its vibe (Orphans = FALSE): an orphan's agent
\* goes on changing the worktree under the next run.
OwnChanges == \A r \in Runs :
  out[r].commit # NoCommit => log[out[r].commit] = [by |-> r, has |-> {r}]

\* No two agents work in one worktree: the lock is held while a run uses the slug
\* (acquire_run_lock, docs/reference/state-layout.md).  Only where no container
\* outlives its vibe (Orphans = FALSE): the lock goes with vibe, not with the agent.
OneAgent == \A r, s \in Runs : agent[r] = "runs" /\ agent[s] = "runs" => r = s

\* A slug is one key's, one agent's at a time, and each commit of a result the work
\* of its own agent, whoever else used or left something in the worktree, and
\* wherever runs were killed if the kill ends the container too (Orphans = FALSE);
\* with an orphan only OneKeyPerSlug is left.
SlugIsOwned == OneKeyPerSlug /\ OneAgent /\ OwnChanges

\* A view never tells more than the record: a summary or a saved result with a
\* status was made from a record with that status (persist_terminal_run, "one
\* record carries the run truth").
ViewsFollow == \A r \in Runs :
  /\ files[r].summary.status # "none" => files[r].summary.status = Record(r).status
  /\ files[r].result.status # "none" => files[r].result.status = Record(r).status

\* A result without a persistence error means that nothing is missing: the record
\* is terminal and says the same, its views are there, and the index finds it
\* (fallback_result, record_late_persistence_error, persist_emitted_result).
NothingSwallowed == \A r \in Runs :
  Ended(r) /\ out[r].status # "setup_error" /\ ~out[r].perr
    => /\ Record(r) = out[r]
       /\ files[r].summary = out[r] /\ files[r].result = out[r]
       /\ r \in index

\* The status a run reports is the one its record carries, whatever could not be
\* written (persistence_error "does not change the execution status").
StatusKept == \A r \in Runs :
  Ended(r) /\ Record(r).status # "none" => Record(r).status = out[r].status

\* After a run that got to its end the branch is where the result says: at the
\* commit before it, at its own commit or at one of its snapshots.
HeadKnown == \A r \in Runs :
  Ended(r) /\ lock = NoRun /\ started # <<>> /\ started[Len(started)].run = r
    /\ out[r].status \in {"completed", "noop", "agent_failed"}
    => head \in {out[r].pre, out[r].commit} \cup out[r].snaps

\* The record, its views, the index and the branch agree with the result a run gave,
\* with any calls failing.
ResultsAreTrue == TypeOK /\ ViewsFollow /\ NothingSwallowed /\ StatusKept /\ HeadKnown

\* `vibe status` shows the run that started last, while it goes on and after it,
\* also when the index misses it; of runs that started within one second it may
\* show any (latest_run_json_for_target, "Show the latest persisted run state for
\* one key").
StatusIsNewest ==
  started # <<>> => \E i \in DOMAIN started : /\ started[i].run = Latest
                                              /\ started[i].at = started[Len(started)].at

\* What no step does: the commit before the run is never lost from a record that
\* held it, whichever stage fails (run_stages, "failures retain the pre-run commit").
PreRunCommitKept == \A r \in Runs : Record(r).pre # NoCommit => Record(r)'.pre = Record(r).pre

\* PreRunCommitKept, of every step.
KeepsPreRunCommit == [][PreRunCommitKept]_vars

=============================================================================
