--------------------------- MODULE VibeRun_proofs ---------------------------
(***************************************************************************)
(* Proofs about VibeRun, for any runs, keys and bounds: what a result says *)
(* is what is on disk, the status shown is the newest run's, and a slug    *)
(* has one key, one agent and commits of its own runs' work.               *)
(* Then about VibeLaunch: a container gets what was checked.               *)
(***************************************************************************)
EXTENDS VibeProcess, TLAPS

Before == {"claim", "setup", "worktree", "approvals", "artifacts", "start"}
AfterPre == {"sandbox", "phase_agent", "spawn", "wait", "snapshots", "snaplog", "is_dirty",
             "phase_commit", "commit", "changed"}
ToCommit == {"reading", "pre"} \cup (AfterPre \ {"changed"})
Stages == {"prompt", "dirty", "refuse", "reading", "pre"} \cup AfterPre
Ending == {"terminal", "summary", "index", "repair_index", "repair", "result", "repair_result"}
InRun == Before \cup Stages \cup Ending
Early == {"idle"} \cup Before \cup Stages \cup {"terminal"}

-----------------------------------------------------------------------------
\* One run's own state: its record, its views and its outcome, by where it is.

Complete(r) == Record(r) = out[r] /\ files[r].summary = out[r] /\ r \in index
NoLoss(r) == ~out[r].perr /\ Record(r).status # "none" => Complete(r)

\* The record's status is the outcome's and the views have the record's, once they
\* have one; before the terminal write none has.
StatusInv(r) ==
  /\ out[r].phase = "finished"
  /\ Record(r).status \in {"none", out[r].status}
  /\ files[r].summary.status \in {"none", Record(r).status}
  /\ files[r].result.status \in {"none", Record(r).status}
  /\ pc[r] \in Early => /\ Record(r).status = "none" /\ files[r].summary.status = "none"
                        /\ files[r].result.status = "none"
  /\ pc[r] \in Ending => files[r].result.status = "none"

\* What is missing is known: up to the end by the step the run is at or by its error.
LossInv(r) ==
  /\ pc[r] = "summary" => Record(r) = out[r]
  /\ pc[r] = "index" => Record(r) = out[r] /\ files[r].summary = out[r]
  /\ pc[r] \in {"repair_index", "repair", "repair_result"} => out[r].perr
  /\ pc[r] = "result" => NoLoss(r)
  /\ pc[r] \in {"emit", "done"} /\ out[r].status # "setup_error" /\ ~out[r].perr
       => Complete(r) /\ files[r].result = out[r]

\* The record exists from the start on; its pre-run commit is the outcome's.
RecordInv(r) ==
  /\ pc[r] \in {"idle"} \cup Before => Record(r) = Nothing
  /\ pc[r] \in Stages \cup {"terminal"} => HasRecord(r)
  /\ pc[r] \in Early => Record(r).pre = out[r].pre
  /\ pc[r] \in Early \ (AfterPre \cup {"terminal"}) => out[r].pre = NoCommit

OneRun(r) == StatusInv(r) /\ LossInv(r) /\ RecordInv(r)

-----------------------------------------------------------------------------
\* The runs that have a record, and the newest of them.

StartedInv ==
  /\ \A i \in DOMAIN started : HasRecord(started[i].run)
  /\ \A i, j \in DOMAIN started : started[i].run = started[j].run => i = j
  /\ \A i \in DOMAIN started : started[i].at <= started[Len(started)].at
  /\ started # <<>> =>
       \E i \in DOMAIN started : \A j \in DOMAIN started \ {i} : Newer(started[i], started[j])

-----------------------------------------------------------------------------
\* The slug.

LastStarted(r) == started # <<>> /\ started[Len(started)].run = r

LockInv == \A r \in Runs : /\ pc[r] \in InRun => lock = r
                           /\ pc[r] \in Stages => LastStarted(r)

KeyInv ==
  /\ \A r \in Runs : pc[r] \in InRun \ {"claim"} => key = KeyOf[r]
  /\ \A i \in DOMAIN started : KeyOf[started[i].run] = key

AgentInv(r) == agent[r] = "runs" => pc[r] = "wait"

DirtyInv(r) ==
  /\ pc[r] \in ToCommit => dirty \subseteq {r}
  /\ pc[r] \in {"phase_commit", "commit"} => dirty # {}

\* The branch: at the pre-run commit, then also at a snapshot, then also at the result.
Prepared == {"sandbox", "phase_agent", "spawn"}
WithAgent == {"wait", "snapshots", "snaplog"}
ToResult == {"is_dirty", "phase_commit", "commit"}
AfterResult == Ending \cup {"changed", "emit", "done"}
AtEnd == {"completed", "noop", "agent_failed"}
HeadInv(r) ==
  /\ pc[r] \in Prepared => head = out[r].pre
  /\ pc[r] \in WithAgent => head \in {out[r].pre} \cup files[r].snaps
  /\ pc[r] \in ToResult => head \in {out[r].pre} \cup out[r].snaps
  /\ pc[r] \in AfterResult /\ LastStarted(r) /\ out[r].status \in AtEnd
       => head \in {out[r].pre, out[r].commit} \cup out[r].snaps

CommitInv(r) == out[r].commit # NoCommit => log[out[r].commit] = [by |-> r, has |-> {r}]

\* What a run's agent does to the slug, unless its container outlives vibe.
SlugOf(r) == AgentInv(r) /\ DirtyInv(r) /\ HeadInv(r) /\ CommitInv(r)

-----------------------------------------------------------------------------
\* Types.

\* What may be set in a view or a folder.
LEMMA ViewFields ==
  ASSUME NEW v \in View
  PROVE  /\ \A x \in Phases \cup {"none"} : [v EXCEPT !.phase = x] \in View
         /\ \A x \in Statuses \cup {"none"} : [v EXCEPT !.status = x] \in View
         /\ \A x \in 0 .. Len(log) \cup {NoCommit} : [v EXCEPT !.pre = x] \in View
         /\ \A x \in 1 .. Len(log) \cup {NoCommit} : [v EXCEPT !.commit = x] \in View
         /\ \A x \in SUBSET (1 .. Len(log)) : [v EXCEPT !.snaps = x] \in View
         /\ \A x \in BOOLEAN : [v EXCEPT !.perr = x] \in View
BY DEF View

LEMMA FolderFields ==
  ASSUME NEW f \in Folder
  PROVE  /\ \A x \in View : [f EXCEPT !.record = x] \in Folder
         /\ \A x \in View : [f EXCEPT !.summary = x] \in Folder
         /\ \A x \in View : [f EXCEPT !.result = x] \in Folder
         /\ \A x \in SUBSET (1 .. Len(log)) : [f EXCEPT !.snaps = x] \in Folder
         /\ \A x \in BOOLEAN : [f EXCEPT !.snaplog = x] \in Folder
BY DEF Folder

LEMMA NothingIsView == Nothing \in View /\ NoOutcome \in View /\ NoFiles \in Folder
BY DEF Nothing, NoOutcome, NoFiles, View, Folder, NoCommit, Phases, Statuses

\* The views of the shorter log are views of the longer.
LEMMA ViewsGrow ==
  ASSUME Len(log) \in Nat, Len(log)' = Len(log) + 1
  PROVE  View \subseteq View' /\ Folder \subseteq Folder'
<1>1. 0 .. Len(log) \subseteq 0 .. Len(log)' /\ 1 .. Len(log) \subseteq 1 .. Len(log)'
  OBVIOUS
<1>2. View \subseteq View'
  BY <1>1 DEF View
<1>3. QED
  BY <1>1, <1>2 DEF Folder

LEMMA SameLog == ASSUME log' = log PROVE View' = View /\ Folder' = Folder
BY DEF View, Folder

\* TypeOK without the commits, of a state whose log stays.
LEMMA PartsTyped ==
  ASSUME TypeOK, NEW r \in Runs
  PROVE  /\ files[r] \in Folder /\ out[r] \in View /\ pc[r] \in Labels
         /\ files[r].record \in View /\ files[r].summary \in View /\ files[r].result \in View
         /\ files[r].snaps \in SUBSET (1 .. Len(log)) /\ files[r].snaplog \in BOOLEAN
         /\ head \in 0 .. Len(log) \cup {NoCommit}
BY DEF TypeOK, Folder

LEMMA Goes ==
  ASSUME TypeOK, NEW r \in Runs, NEW l \in Labels, Goto(r, l)
  PROVE  pc' \in [Runs -> Labels]
BY DEF Goto, TypeOK

LEMMA Gives ==
  ASSUME TypeOK, NEW r \in Runs, NEW x \in Statuses, Give(r, x)
  PROVE  out' \in [Runs -> View]
BY ViewFields DEF Give, TypeOK

LEMMA Notes ==
  ASSUME TypeOK, NEW r \in Runs
  PROVE  /\ [out EXCEPT ![r].perr = TRUE] \in [Runs -> View]
         /\ [files EXCEPT ![r].record.perr = TRUE] \in [Runs -> Folder]
         /\ \A x \in Phases : [files EXCEPT ![r].record.phase = x] \in [Runs -> Folder]
<1>1. /\ [out[r] EXCEPT !.perr = TRUE] \in View
      /\ [files[r].record EXCEPT !.perr = TRUE] \in View
      /\ \A x \in Phases : [files[r].record EXCEPT !.phase = x] \in View
  BY PartsTyped, ViewFields
<1>2. [out EXCEPT ![r].perr = TRUE] \in [Runs -> View]
  BY <1>1 DEF TypeOK
<1>3. [files EXCEPT ![r].record.perr = TRUE] \in [Runs -> Folder]
  BY <1>1, PartsTyped, FolderFields DEF TypeOK
<1>4. \A x \in Phases : [files EXCEPT ![r].record.phase = x] \in [Runs -> Folder]
  BY <1>1, PartsTyped, FolderFields DEF TypeOK
<1>5. QED
  BY <1>2, <1>3, <1>4

LEMMA FaultsCounted ==
  ASSUME TypeOK, Fails \/ Works
  PROVE  faults' \in Nat
BY DEF Fails, Works, TypeOK

LEMMA PersistTyped ==
  ASSUME TypeOK, NEW r \in Runs, NEW here, NEW phase \in Phases, NEW next \in Labels,
         PersistPhase(r, here, phase, next)
  PROVE  TypeOK'
<1>1. log' = log
  BY DEF PersistPhase, git
<1>2. out' \in [Runs -> View]
  BY Gives DEF PersistPhase, Fail, Statuses, TypeOK
<1>3. files' \in [Runs -> Folder]
  <2>1. [files EXCEPT ![r].record.phase = phase] \in [Runs -> Folder]
    BY Notes
  <2>2. files \in [Runs -> Folder]
    BY DEF TypeOK
  <2>3. QED
    BY <2>1, <2>2 DEF PersistPhase
<1>4. pc' \in [Runs -> Labels]
  BY Goes DEF PersistPhase, Fail, Labels
<1>5. faults' \in Nat
  BY FaultsCounted DEF PersistPhase
<1>6. QED
  BY <1>1, <1>2, <1>3, <1>4, <1>5, SameLog DEF PersistPhase, git, TypeOK

\* A step whose log stays keeps the types when what it changes has them.
LEMMA JoinTyped ==
  ASSUME TypeOK, log' = log, files' \in [Runs -> Folder], out' \in [Runs -> View],
         pc' \in [Runs -> Labels], faults' \in Nat, user' = user,
         lock' \in Runs \cup {NoRun}, key' \in {KeyOf[r] : r \in Runs} \cup {NoRun},
         wt' \in [branch : BOOLEAN, made : BOOLEAN, approvals : BOOLEAN],
         head' = head, dirty' = dirty, index' \subseteq Runs,
         agent' \in [Runs -> {"none", "runs", "ended", "failed", "no_prompt"}],
         started' \in Seq([run : Runs, at : Nat])
  PROVE  TypeOK'
BY SameLog DEF TypeOK

\* A run's step goes on, or gives a status and goes where that leads.
LEMMA StepTyped ==
  ASSUME TypeOK, NEW r \in Runs,
         \/ UNCHANGED out /\ \E l \in Labels : Goto(r, l)
         \/ SetupError(r)
         \/ \E x \in Statuses : Fail(r, x)
         \/ Give(r, "wrapper_failed") /\ Goto(r, "result")
         \/ \E x \in Statuses : Give(r, x) /\ \E l \in Labels : Goto(r, l)
         \/ out' = [out EXCEPT ![r].perr = TRUE] /\ \E l \in Labels : Goto(r, l)
  PROVE  out' \in [Runs -> View] /\ pc' \in [Runs -> Labels]
<1>1. {"emit", "terminal", "result"} \subseteq Labels /\ {"setup_error", "wrapper_failed"} \subseteq Statuses
  BY DEF Labels, Statuses
<1>2. out' \in [Runs -> View]
  <2>1. CASE UNCHANGED out
    BY <2>1 DEF TypeOK
  <2>2. CASE \E x \in Statuses : Give(r, x)
    BY <2>2, Gives
  <2>3. CASE out' = [out EXCEPT ![r].perr = TRUE]
    BY <2>3, Notes
  <2>4. QED
    BY <1>1, <2>1, <2>2, <2>3 DEF SetupError, Fail
<1>3. pc' \in [Runs -> Labels]
  BY <1>1, Goes DEF SetupError, Fail
<1>4. QED
  BY <1>2, <1>3

LEMMA LockTyped == ASSUME TypeOK, NEW r \in Runs, Lock(r) PROVE TypeOK'
<1>1. out' \in [Runs -> View] /\ pc' \in [Runs -> Labels]
  BY StepTyped DEF Lock, Labels
<1>2. faults' \in Nat
  BY FaultsCounted DEF Lock
<1>3. QED
  BY <1>1, <1>2, JoinTyped DEF Lock, git, TypeOK

LEMMA ClaimTyped == ASSUME TypeOK, NEW r \in Runs, Claim(r) PROVE TypeOK'
<1>1. out' \in [Runs -> View] /\ pc' \in [Runs -> Labels]
  BY StepTyped DEF Claim, Labels
<1>2. faults' \in Nat
  BY FaultsCounted DEF Claim
<1>3. QED
  BY <1>1, <1>2, JoinTyped DEF Claim, git, TypeOK

LEMMA SetupTyped == ASSUME TypeOK, NEW r \in Runs, Setup(r) PROVE TypeOK'
<1>1. out' \in [Runs -> View] /\ pc' \in [Runs -> Labels]
  BY StepTyped DEF Setup, Labels
<1>2. faults' \in Nat
  BY FaultsCounted DEF Setup
<1>3. QED
  BY <1>1, <1>2, JoinTyped DEF Setup, git, TypeOK

LEMMA EnsureTyped == ASSUME TypeOK, NEW r \in Runs, EnsureWorktree(r) PROVE TypeOK'
<1>1. out' \in [Runs -> View] /\ pc' \in [Runs -> Labels]
  BY StepTyped DEF EnsureWorktree, Labels
<1>2. faults' \in Nat
  BY FaultsCounted DEF EnsureWorktree
<1>3. wt' \in [branch : BOOLEAN, made : BOOLEAN, approvals : BOOLEAN]
  <2>1. wt' \in {wt, [branch |-> TRUE, made |-> TRUE, approvals |-> FALSE]}
    BY DEF EnsureWorktree
  <2>2. wt \in [branch : BOOLEAN, made : BOOLEAN, approvals : BOOLEAN]
    BY DEF TypeOK
  <2>3. [branch |-> TRUE, made |-> TRUE, approvals |-> FALSE]
          \in [branch : BOOLEAN, made : BOOLEAN, approvals : BOOLEAN]
    OBVIOUS
  <2>4. QED
    BY <2>1, <2>2, <2>3
<1>4. QED
  BY <1>1, <1>2, <1>3, JoinTyped DEF EnsureWorktree, TypeOK

LEMMA CopyApprovalsTyped == ASSUME TypeOK, NEW r \in Runs, CopyApprovals(r) PROVE TypeOK'
<1>1. out' \in [Runs -> View] /\ pc' \in [Runs -> Labels]
  BY StepTyped DEF CopyApprovals, Labels
<1>2. faults' \in Nat
  BY FaultsCounted DEF CopyApprovals
<1>3. wt' \in [branch : BOOLEAN, made : BOOLEAN, approvals : BOOLEAN]
  BY VibeAssumption DEF CopyApprovals, TypeOK
<1>4. QED
  BY <1>1, <1>2, <1>3, JoinTyped DEF CopyApprovals, TypeOK

LEMMA CreateTyped == ASSUME TypeOK, NEW r \in Runs, CreateArtifacts(r) PROVE TypeOK'
<1>1. out' \in [Runs -> View] /\ pc' \in [Runs -> Labels]
  BY StepTyped DEF CreateArtifacts, Labels
<1>2. faults' \in Nat
  BY FaultsCounted DEF CreateArtifacts
<1>3. files' \in [Runs -> Folder]
  <2>1. [files[r] EXCEPT !.snaplog = TRUE] \in Folder
    BY PartsTyped, FolderFields
  <2>2. QED
    BY <2>1 DEF CreateArtifacts, TypeOK
<1>4. QED
  BY <1>1, <1>2, <1>3, JoinTyped DEF CreateArtifacts, git, TypeOK

LEMMA LastIn ==
  ASSUME NEW S, NEW s \in Seq(S), s # <<>>
  PROVE  Len(s) \in 1 .. Len(s) /\ s[Len(s)] \in S
OBVIOUS

LEMMA SecondsTyped == ASSUME TypeOK PROVE Seconds \subseteq Nat
<1>1. CASE started = <<>>
  BY <1>1 DEF Seconds
<1>2. CASE started # <<>>
  <2>1. started[Len(started)] \in [run : Runs, at : Nat]
    <3>1. started \in Seq([run : Runs, at : Nat])
      BY DEF TypeOK
    <3>2. QED
      BY <1>2, <3>1, LastIn
  <2>2. QED
    BY <1>2, <2>1 DEF Seconds
<1>3. QED
  BY <1>1, <1>2

LEMMA StartTyped == ASSUME TypeOK, NEW r \in Runs, StartRun(r) PROVE TypeOK'
<1>1. out' \in [Runs -> View] /\ pc' \in [Runs -> Labels]
  BY StepTyped DEF StartRun, Labels, Statuses
<1>2. faults' \in Nat
  BY FaultsCounted DEF StartRun
<1>3. files' \in [Runs -> Folder]
  <2>1. [Nothing EXCEPT !.phase = "preparing_artifacts"] \in View
    BY NothingIsView, ViewFields DEF Phases
  <2>2. [files[r] EXCEPT !.record = [Nothing EXCEPT !.phase = "preparing_artifacts"]] \in Folder
    BY <2>1, PartsTyped, FolderFields
  <2>3. QED
    BY <2>2 DEF StartRun, TypeOK
<1>4. Seconds \subseteq Nat
  BY SecondsTyped
<1>5. started' \in Seq([run : Runs, at : Nat])
  <2>1. CASE UNCHANGED started
    BY <2>1 DEF TypeOK
  <2>2. CASE \E now \in Seconds : started' = Append(started, [run |-> r, at |-> now])
    BY <2>2, <1>4 DEF TypeOK
  <2>3. QED
    BY <2>1, <2>2 DEF StartRun
<1>6. QED
  BY <1>1, <1>2, <1>3, <1>5, JoinTyped DEF StartRun, git, TypeOK

LEMMA RefuseTyped == ASSUME TypeOK, NEW r \in Runs, RefuseIfDirty(r) PROVE TypeOK'
<1>1. out' \in [Runs -> View] /\ pc' \in [Runs -> Labels]
  BY StepTyped DEF RefuseIfDirty, Labels, Statuses
<1>2. faults' \in Nat
  BY FaultsCounted DEF RefuseIfDirty
<1>3. QED
  BY <1>1, <1>2, JoinTyped DEF RefuseIfDirty, git, TypeOK

LEMMA PreTyped == ASSUME TypeOK, NEW r \in Runs, PreRunCommit(r) PROVE TypeOK'
<1>1. /\ [out[r] EXCEPT !.pre = head] \in View
      /\ [files[r] EXCEPT !.record = [files[r].record EXCEPT !.pre = head]] \in Folder
  BY PartsTyped, ViewFields, FolderFields
<1>2. faults' \in Nat
  BY FaultsCounted DEF PreRunCommit
<1>3. CASE Works
  <2>1. files' \in [Runs -> Folder] /\ out' \in [Runs -> View] /\ pc' \in [Runs -> Labels]
    <3>1. CASE Fails
      BY <3>1, <1>3 DEF Fails, Works, TypeOK
    <3>2. CASE ~Fails
      BY <3>2, <1>1, Goes DEF PreRunCommit, TypeOK, Labels
    <3>3. QED
      BY <3>1, <3>2
  <2>2. QED
    BY <2>1, <1>2, JoinTyped DEF PreRunCommit, git, TypeOK
<1>4. CASE Fails /\ Fail(r, "wrapper_failed") /\ UNCHANGED files
  <2>1. out' \in [Runs -> View] /\ pc' \in [Runs -> Labels]
    BY <1>4, StepTyped DEF Statuses
  <2>2. QED
    BY <1>2, <1>4, <2>1, JoinTyped DEF PreRunCommit, git, TypeOK
<1>5. QED
  BY <1>3, <1>4 DEF PreRunCommit

LEMMA SpawnTyped == ASSUME TypeOK, NEW r \in Runs, RunAgent(r) PROVE TypeOK'
<1>1. out' \in [Runs -> View] /\ pc' \in [Runs -> Labels]
  BY StepTyped DEF RunAgent, Labels, Statuses
<1>2. faults' \in Nat
  BY FaultsCounted DEF RunAgent
<1>3. agent' \in [Runs -> {"none", "runs", "ended", "failed", "no_prompt"}]
  BY DEF RunAgent, TypeOK
<1>4. QED
  BY <1>1, <1>2, <1>3, JoinTyped DEF RunAgent, git, TypeOK

LEMMA AgentExitTyped == ASSUME TypeOK, NEW r \in Runs, AgentExit(r) PROVE TypeOK'
<1>1. out' \in [Runs -> View] /\ pc' \in [Runs -> Labels]
  BY StepTyped DEF AgentExit, Labels, Statuses
<1>2. QED
  BY <1>1, JoinTyped DEF AgentExit, git, TypeOK

LEMMA ReadTyped == ASSUME TypeOK, NEW r \in Runs, ReadSnapshots(r) PROVE TypeOK'
<1>1. faults' \in Nat
  BY FaultsCounted DEF ReadSnapshots
<1>2. out' \in [Runs -> View] /\ pc' \in [Runs -> Labels]
  <2>1. CASE Fail(r, "snapshot_failed")
    BY <2>1, StepTyped DEF Statuses
  <2>2. CASE out' = [out EXCEPT ![r].snaps = files[r].snaps] /\ Goto(r, "is_dirty")
    <3>1. [out[r] EXCEPT !.snaps = files[r].snaps] \in View
      BY PartsTyped, ViewFields
    <3>2. QED
      BY <2>2, <3>1, Goes DEF TypeOK, Labels
  <2>3. QED
    BY <2>1, <2>2 DEF ReadSnapshots
<1>3. QED
  BY <1>1, <1>2, JoinTyped DEF ReadSnapshots, git, TypeOK

LEMMA IsDirtyTyped == ASSUME TypeOK, NEW r \in Runs, IsDirty(r) PROVE TypeOK'
<1>1. out' \in [Runs -> View] /\ pc' \in [Runs -> Labels]
  <2>1. Clean(r) \in Statuses /\ {"terminal", "phase_commit"} \subseteq Labels
        /\ "wrapper_failed" \in Statuses
    BY DEF Clean, Statuses, Labels
  <2>2. QED
    BY <2>1, StepTyped DEF IsDirty
<1>2. faults' \in Nat
  BY FaultsCounted DEF IsDirty
<1>3. QED
  BY <1>1, <1>2, JoinTyped DEF IsDirty, git, TypeOK

\* A commit adds one to the log; what held before holds of the longer log.
LEMMA CommitTyped ==
  ASSUME TypeOK, NEW r \in Runs, CommitDirty(r)
  PROVE  /\ log' \in Seq([by : Runs, has : SUBSET Changes]) /\ Len(log)' = Len(log) + 1
         /\ head' \in 0 .. Len(log)' /\ dirty' \subseteq Changes /\ wt' = wt
         /\ View \subseteq View' /\ Folder \subseteq Folder'
         /\ Len(log) + 1 \in 1 .. Len(log)'
<1>1. [by |-> r, has |-> dirty] \in [by : Runs, has : SUBSET Changes]
  BY DEF TypeOK
<1>2. log \in Seq([by : Runs, has : SUBSET Changes]) /\ Len(log) \in Nat
  BY DEF TypeOK
<1>3. log' \in Seq([by : Runs, has : SUBSET Changes]) /\ Len(log)' = Len(log) + 1
  BY <1>1, <1>2 DEF CommitDirty
<1>4. QED
  BY <1>2, <1>3, ViewsGrow DEF CommitDirty

LEMMA ResultTyped == ASSUME TypeOK, NEW r \in Runs, CommitResult(r) PROVE TypeOK'
<1>1. pc' \in [Runs -> Labels]
  BY Goes DEF CommitResult, Labels
<1>2. faults' \in Nat
  BY FaultsCounted DEF CommitResult
<1>3. CASE Fails /\ UNCHANGED git /\ Give(r, "commit_failed")
  <2>1. out' \in [Runs -> View]
    BY <1>3, Gives DEF Statuses
  <2>2. QED
    BY <1>1, <1>2, <1>3, <2>1, JoinTyped DEF CommitResult, git, TypeOK
<1>4. CASE CommitDirty(r)
  <2>1. out' \in [Runs -> View']
    <3>1. CASE Give(r, "commit_failed")
      BY <1>4, <3>1, Gives, CommitTyped DEF Statuses
    <3>2. CASE out' = [out EXCEPT ![r].status = Dirty(r), ![r].commit = Len(log) + 1]
      <4>1. Dirty(r) \in Statuses
        BY DEF Dirty, Statuses
      <4>2. [out[r] EXCEPT !.status = Dirty(r), !.commit = Len(log) + 1] \in View'
        <5>1. out[r] \in View' /\ Len(log) + 1 \in 1 .. Len(log)'
          BY <1>4, PartsTyped, CommitTyped
        <5>2. QED
          BY <4>1, <5>1 DEF View
      <4>3. out \in [Runs -> View']
        BY <1>4, CommitTyped DEF TypeOK
      <4>4. QED
        BY <3>2, <4>2, <4>3
    <3>3. CASE UNCHANGED git
      BY <1>4, <3>3, CommitTyped DEF git, TypeOK
    <3>4. QED
      BY <3>1, <3>2, <3>3 DEF CommitResult
  <2>2. files' \in [Runs -> Folder']
    BY <1>4, CommitTyped DEF CommitResult, TypeOK
  <2>3. QED
    BY <1>1, <1>2, <1>4, <2>1, <2>2, CommitTyped DEF CommitResult, TypeOK
<1>5. QED
  BY <1>3, <1>4 DEF CommitResult

LEMMA ChangedTyped == ASSUME TypeOK, NEW r \in Runs, ChangedFiles(r) PROVE TypeOK'
<1>1. out' \in [Runs -> View] /\ pc' \in [Runs -> Labels]
  BY StepTyped DEF ChangedFiles, Labels
<1>2. faults' \in Nat
  BY FaultsCounted DEF ChangedFiles
<1>3. QED
  BY <1>1, <1>2, JoinTyped DEF ChangedFiles, git, TypeOK

LEMMA TerminalTyped == ASSUME TypeOK, NEW r \in Runs, TerminalRecord(r) PROVE TypeOK'
<1>1. out' \in [Runs -> View] /\ pc' \in [Runs -> Labels]
  BY StepTyped DEF TerminalRecord, Labels
<1>2. faults' \in Nat
  BY FaultsCounted DEF TerminalRecord
<1>3. files' \in [Runs -> Folder]
  <2>1. [files[r] EXCEPT !.record = out[r]] \in Folder
    BY PartsTyped, FolderFields
  <2>2. QED
    BY <2>1 DEF TerminalRecord, TypeOK
<1>4. QED
  BY <1>1, <1>2, <1>3, JoinTyped DEF TerminalRecord, git, TypeOK

LEMMA SummaryTyped == ASSUME TypeOK, NEW r \in Runs, Summary(r) PROVE TypeOK'
<1>1. out' \in [Runs -> View] /\ pc' \in [Runs -> Labels]
  BY StepTyped DEF Summary, Labels
<1>2. faults' \in Nat
  BY FaultsCounted DEF Summary, TypeOK
<1>3. files' \in [Runs -> Folder]
  <2>1. [files[r] EXCEPT !.summary = Record(r)] \in Folder
    BY PartsTyped, FolderFields DEF Record
  <2>2. [files EXCEPT ![r].summary = Record(r)] \in [Runs -> Folder]
    BY <2>1 DEF TypeOK
  <2>3. [files EXCEPT ![r].record.perr = TRUE] \in [Runs -> Folder]
    BY Notes
  <2>4. files \in [Runs -> Folder]
    BY DEF TypeOK
  <2>5. QED
    BY <2>2, <2>3, <2>4 DEF Summary
<1>4. QED
  BY <1>1, <1>2, <1>3, JoinTyped DEF Summary, git, TypeOK

LEMMA IndexTyped == ASSUME TypeOK, NEW r \in Runs, AppendIndex(r) PROVE TypeOK'
<1>1. out' \in [Runs -> View] /\ pc' \in [Runs -> Labels]
  BY StepTyped DEF AppendIndex, Labels
<1>2. faults' \in Nat
  BY FaultsCounted DEF AppendIndex
<1>3. index' \subseteq Runs
  BY DEF AppendIndex, TypeOK
<1>4. QED
  BY <1>1, <1>2, <1>3, JoinTyped DEF AppendIndex, git, TypeOK

LEMMA LateTyped ==
  ASSUME TypeOK, NEW r \in Runs, NEW here, NEW done \in Labels, NEW failed \in Labels,
         RecordLateError(r, here, done, failed)
  PROVE  TypeOK'
<1> DEFINE noted == [files EXCEPT ![r].record.perr = TRUE]
<1>1. pc' \in [Runs -> Labels]
  BY Goes DEF RecordLateError
<1>2. faults' \in Nat
  BY FaultsCounted DEF RecordLateError
<1>3. noted \in [Runs -> Folder] /\ files \in [Runs -> Folder]
  BY Notes DEF TypeOK
<1>4. [noted EXCEPT ![r].summary = noted[r].record] \in [Runs -> Folder]
  <2>1. noted[r] \in Folder /\ noted[r].record \in View
    BY <1>3 DEF Folder
  <2> HIDE DEF noted
  <2>2. [noted[r] EXCEPT !.summary = noted[r].record] \in Folder
    BY <2>1, FolderFields
  <2>3. QED
    BY <2>2, <1>3
<1>5. files' \in [Runs -> Folder]
  BY <1>3, <1>4 DEF RecordLateError
<1>6. out' \in [Runs -> View]
  BY DEF RecordLateError, TypeOK
<1>7. QED
  BY <1>1, <1>2, <1>5, <1>6, JoinTyped DEF RecordLateError, git, TypeOK

LEMMA FileTyped == ASSUME TypeOK, NEW r \in Runs, ResultFile(r) PROVE TypeOK'
<1>1. out' \in [Runs -> View] /\ pc' \in [Runs -> Labels]
  BY StepTyped DEF ResultFile, Labels
<1>2. faults' \in Nat
  BY FaultsCounted DEF ResultFile
<1>3. files' \in [Runs -> Folder]
  <2>1. [files[r] EXCEPT !.result = Record(r)] \in Folder
    BY PartsTyped, FolderFields DEF Record
  <2>2. [files EXCEPT ![r].result = Record(r)] \in [Runs -> Folder]
    BY <2>1 DEF TypeOK
  <2>3. files \in [Runs -> Folder]
    BY DEF TypeOK
  <2>4. QED
    BY <2>2, <2>3 DEF ResultFile
<1>4. QED
  BY <1>1, <1>2, <1>3, JoinTyped DEF ResultFile, git, TypeOK

LEMMA EmitTyped == ASSUME TypeOK, NEW r \in Runs, Emit(r) PROVE TypeOK'
<1>1. pc' \in [Runs -> Labels]
  BY Goes DEF Emit, Labels
<1>2. QED
  BY <1>1, JoinTyped DEF Emit, git, TypeOK

LEMMA SnapshotTyped == ASSUME TypeOK, NEW r \in Runs, Snapshot(r) PROVE TypeOK'
<1>1. [by |-> r, has |-> dirty] \in [by : Runs, has : SUBSET Changes]
  BY DEF TypeOK
<1>2. log \in Seq([by : Runs, has : SUBSET Changes]) /\ Len(log) \in Nat
  BY DEF TypeOK
<1>3. log' \in Seq([by : Runs, has : SUBSET Changes]) /\ Len(log)' = Len(log) + 1
  BY <1>1, <1>2 DEF Snapshot
<1>4. View \subseteq View' /\ Folder \subseteq Folder'
  BY <1>2, <1>3, ViewsGrow
<1>5. head' \in 0 .. Len(log)' /\ dirty' \subseteq Changes
  BY <1>2, <1>3 DEF Snapshot, TypeOK
<1>6. files' \in [Runs -> Folder']
  <2>1. files[r].snaps \cup {Len(log) + 1} \in SUBSET (1 .. Len(log)')
    BY <1>2, <1>3, PartsTyped
  <2>2. files[r] \in Folder'
    BY <1>4, PartsTyped
  <2>3. [files[r] EXCEPT !.snaps = files[r].snaps \cup {Len(log) + 1}] \in Folder'
    BY <2>1, <2>2 DEF Folder
  <2>4. files \in [Runs -> Folder']
    BY <1>4 DEF TypeOK
  <2>5. QED
    BY <2>3, <2>4 DEF Snapshot
<1>7. out' \in [Runs -> View']
  BY <1>4 DEF Snapshot, TypeOK
<1>8. QED
  BY <1>3, <1>5, <1>6, <1>7 DEF Snapshot, TypeOK

LEMMA GoneTyped == ASSUME TypeOK, NEW r \in Runs, SnapshotLogGone(r) PROVE TypeOK'
<1>1. files' \in [Runs -> Folder]
  <2>1. [files[r] EXCEPT !.snaplog = FALSE] \in Folder
    BY PartsTyped, FolderFields
  <2>2. QED
    BY <2>1 DEF SnapshotLogGone, TypeOK
<1>2. QED
  BY <1>1, JoinTyped DEF SnapshotLogGone, git, TypeOK

LEMMA EditsTyped == ASSUME TypeOK, NEW r \in Runs, AgentEdits(r) PROVE TypeOK'
<1>1. View' = View /\ Folder' = Folder
  BY SameLog DEF AgentEdits
<1>2. QED
  BY <1>1 DEF AgentEdits, TypeOK, Changes

LEMMA EndsTyped == ASSUME TypeOK, NEW r \in Runs, AgentEnds(r) PROVE TypeOK'
<1>1. agent' \in [Runs -> {"none", "runs", "ended", "failed", "no_prompt"}]
  BY DEF AgentEnds, TypeOK
<1>2. QED
  BY <1>1, JoinTyped DEF AgentEnds, git, TypeOK

LEMMA KilledTyped == ASSUME TypeOK, NEW r \in Runs, Killed(r) PROVE TypeOK'
<1>1. pc' \in [Runs -> Labels]
  BY Goes DEF Killed, Labels
<1>2. agent' \in [Runs -> {"none", "runs", "ended", "failed", "no_prompt"}]
  BY DEF Killed, TypeOK
<1>3. QED
  BY <1>1, <1>2, JoinTyped DEF Killed, git, TypeOK

LEMMA UserTyped == ASSUME TypeOK, UserActs PROVE TypeOK'
<1>1. View' = View /\ Folder' = Folder
  BY SameLog DEF UserActs
<1>2. wt' \in [branch : BOOLEAN, made : BOOLEAN, approvals : BOOLEAN]
  <2>1. wt' \in {wt, [wt EXCEPT !.made = FALSE, !.approvals = FALSE]}
    BY DEF UserActs
  <2>2. QED
    BY <2>1 DEF TypeOK
<1>3. dirty' \subseteq Changes /\ user' \in Nat
  BY DEF UserActs, TypeOK, Changes
<1>4. QED
  BY <1>1, <1>2, <1>3 DEF UserActs, TypeOK

\* The steps that save a phase.
Persists(r) ==
  \/ CopyPrompt(r) \/ CheckingDirty(r) \/ ReadingPreRunCommit(r) \/ PreparingSandbox(r)
  \/ RunningAgent(r) \/ ReadingSnapshots(r) \/ CommittingResult(r)

LEMMA PersistsTyped == ASSUME TypeOK, NEW r \in Runs, Persists(r) PROVE TypeOK'
BY PersistTyped DEF Persists, CopyPrompt, CheckingDirty, ReadingPreRunCommit, PreparingSandbox,
   RunningAgent, ReadingSnapshots, CommittingResult, Phases, Labels

LEMMA RepairTyped == ASSUME TypeOK, NEW r \in Runs, Repair(r) PROVE TypeOK'
BY LateTyped DEF Repair, Labels

LEMMA StepsTyped == ASSUME TypeOK, NEW r \in Runs, RunStep(r) PROVE TypeOK'
BY LockTyped, ClaimTyped, SetupTyped, EnsureTyped, CopyApprovalsTyped, CreateTyped, StartTyped,
   PersistsTyped, RefuseTyped, PreTyped, SpawnTyped, AgentExitTyped, ReadTyped, IsDirtyTyped,
   ResultTyped, ChangedTyped, TerminalTyped, SummaryTyped, IndexTyped, RepairTyped, FileTyped,
   EmitTyped DEF RunStep, Persists

LEMMA TypeInit == Init => TypeOK
<1> SUFFICES ASSUME Init PROVE TypeOK
  OBVIOUS
<1>2. log \in Seq([by : Runs, has : SUBSET Changes]) /\ started \in Seq([run : Runs, at : Nat])
  BY DEF Init
<1>3. head \in 0 .. Len(log)
  BY DEF Init
<1>4. files \in [Runs -> Folder] /\ out \in [Runs -> View]
  BY NothingIsView DEF Init
<1>5. pc \in [Runs -> Labels]
  BY DEF Init, Labels
<1>6. QED
  BY <1>2, <1>3, <1>4, <1>5 DEF Init, TypeOK

LEMMA TypeStep == TypeOK /\ [Next]_vars => TypeOK'
<1>1. SUFFICES ASSUME TypeOK, [Next]_vars PROVE TypeOK'
  OBVIOUS
<1>2. ASSUME NEW r \in Runs, RunStep(r) PROVE TypeOK'
  BY <1>1, <1>2, StepsTyped
<1>3. ASSUME NEW r \in Runs, AgentEdits(r) \/ Snapshot(r) \/ SnapshotLogGone(r)
                             \/ AgentEnds(r) \/ Killed(r)
      PROVE  TypeOK'
  BY <1>1, <1>3, EditsTyped, SnapshotTyped, GoneTyped, EndsTyped, KilledTyped
<1>4. CASE UserActs
  BY <1>1, <1>4, UserTyped
<1>5. CASE UNCHANGED vars
  BY <1>1, <1>5, SameLog DEF vars, git, TypeOK
<1>6. QED
  BY <1>1, <1>2, <1>3, <1>4, <1>5 DEF Next

\* Every variable holds a value of its type in every reachable state of the runs.
THEOREM RunsTyped == Spec => []TypeOK
BY TypeInit, TypeStep, PTL DEF Spec

-----------------------------------------------------------------------------
\* What the pieces of an action do to its run, and that they leave the others alone.

LEMMA GotoAt ==
  ASSUME TypeOK, NEW r \in Runs, NEW l, Goto(r, l)
  PROVE  pc'[r] = l /\ \A q \in Runs \ {r} : pc'[q] = pc[q]
BY DEF Goto, TypeOK

LEMMA GiveAt ==
  ASSUME TypeOK, NEW r \in Runs, NEW x, Give(r, x)
  PROVE  /\ out'[r].status = x /\ out'[r].phase = out[r].phase /\ out'[r].pre = out[r].pre
         /\ out'[r].commit = out[r].commit /\ out'[r].snaps = out[r].snaps
         /\ out'[r].perr = out[r].perr
         /\ \A q \in Runs \ {r} : out'[q] = out[q]
<1>1. out[r] \in View /\ out \in [Runs -> View]
  BY DEF TypeOK
<1>2. out' = [out EXCEPT ![r] = [out[r] EXCEPT !.status = x]]
  BY DEF Give
<1>3. out'[r] = [out[r] EXCEPT !.status = x]
  BY <1>1, <1>2
<1>4. QED
  BY <1>1, <1>2, <1>3 DEF View

LEMMA PerrAt ==
  ASSUME TypeOK, NEW r \in Runs, out' = [out EXCEPT ![r].perr = TRUE]
  PROVE  /\ out'[r].status = out[r].status /\ out'[r].phase = out[r].phase /\ out'[r].pre = out[r].pre
         /\ out'[r].commit = out[r].commit /\ out'[r].snaps = out[r].snaps
         /\ out'[r].perr
         /\ \A q \in Runs \ {r} : out'[q] = out[q]
<1>1. out[r] \in View /\ out \in [Runs -> View]
  BY DEF TypeOK
<1>2. out' = [out EXCEPT ![r] = [out[r] EXCEPT !.perr = TRUE]]
  OBVIOUS
<1>3. out'[r] = [out[r] EXCEPT !.perr = TRUE]
  BY <1>1, <1>2
<1>4. QED
  BY <1>1, <1>2, <1>3 DEF View

\* The folder of the run that a step writes.
LEMMA RecordAt ==
  ASSUME TypeOK, NEW r \in Runs, NEW x, files' = [files EXCEPT ![r].record = x]
  PROVE  /\ files'[r].record = x
         /\ files'[r].summary = files[r].summary /\ files'[r].result = files[r].result
         /\ files'[r].snaps = files[r].snaps /\ files'[r].snaplog = files[r].snaplog
         /\ \A q \in Runs \ {r} : files'[q] = files[q]
<1>1. files[r] \in Folder /\ files \in [Runs -> Folder]
  BY DEF TypeOK
<1>2. files'[r] = [files[r] EXCEPT !.record = x]
  BY <1>1
<1>3. QED
  BY <1>1, <1>2 DEF Folder

LEMMA PhaseAt ==
  ASSUME TypeOK, NEW r \in Runs, NEW x, files' = [files EXCEPT ![r].record.phase = x]
  PROVE  /\ files'[r].record.phase = x /\ files'[r].record.status = files[r].record.status
         /\ files'[r].record.pre = files[r].record.pre
         /\ files'[r].summary = files[r].summary /\ files'[r].result = files[r].result
         /\ files'[r].snaps = files[r].snaps
         /\ \A q \in Runs \ {r} : files'[q] = files[q]
<1> DEFINE new == [files[r].record EXCEPT !.phase = x]
<1>1. files' = [files EXCEPT ![r].record = new]
  OBVIOUS
<1>2. files[r].record \in View
  BY PartsTyped
<1>3. new.phase = x /\ new.status = files[r].record.status /\ new.pre = files[r].record.pre
  BY <1>2 DEF View
<1> HIDE DEF new
<1>4. QED
  BY <1>1, <1>3, RecordAt

LEMMA NotedAt ==
  ASSUME TypeOK, NEW r \in Runs, files' = [files EXCEPT ![r].record.perr = TRUE]
  PROVE  /\ files'[r].record.phase = files[r].record.phase
         /\ files'[r].record.status = files[r].record.status
         /\ files'[r].record.pre = files[r].record.pre
         /\ files'[r].summary = files[r].summary /\ files'[r].result = files[r].result
         /\ files'[r].snaps = files[r].snaps
         /\ \A q \in Runs \ {r} : files'[q] = files[q]
<1>1. files' = [files EXCEPT ![r].record = [files[r].record EXCEPT !.perr = TRUE]]
  OBVIOUS
<1>2. files[r].record \in View
  BY PartsTyped
<1>3. QED
  BY <1>1, <1>2, RecordAt DEF View

LEMMA SummaryAt ==
  ASSUME TypeOK, NEW r \in Runs, NEW x, files' = [files EXCEPT ![r].summary = x]
  PROVE  /\ files'[r].summary = x
         /\ files'[r].record = files[r].record /\ files'[r].result = files[r].result
         /\ files'[r].snaps = files[r].snaps
         /\ \A q \in Runs \ {r} : files'[q] = files[q]
<1>1. files[r] \in Folder /\ files \in [Runs -> Folder]
  BY DEF TypeOK
<1>2. files'[r] = [files[r] EXCEPT !.summary = x]
  BY <1>1
<1>3. QED
  BY <1>1, <1>2 DEF Folder

LEMMA ResultAt ==
  ASSUME TypeOK, NEW r \in Runs, NEW x, files' = [files EXCEPT ![r].result = x]
  PROVE  /\ files'[r].result = x
         /\ files'[r].record = files[r].record /\ files'[r].summary = files[r].summary
         /\ files'[r].snaps = files[r].snaps
         /\ \A q \in Runs \ {r} : files'[q] = files[q]
<1>1. files[r] \in Folder /\ files \in [Runs -> Folder]
  BY DEF TypeOK
<1>2. files'[r] = [files[r] EXCEPT !.result = x]
  BY <1>1
<1>3. QED
  BY <1>1, <1>2 DEF Folder

LEMMA SnapsAt ==
  ASSUME TypeOK, NEW r \in Runs, NEW x, files' = [files EXCEPT ![r].snaps = x]
  PROVE  /\ files'[r].record = files[r].record /\ files'[r].summary = files[r].summary
         /\ files'[r].result = files[r].result /\ files'[r].snaps = x
         /\ \A q \in Runs \ {r} : files'[q] = files[q]
<1>1. files[r] \in Folder /\ files \in [Runs -> Folder]
  BY DEF TypeOK
<1>2. files'[r] = [files[r] EXCEPT !.snaps = x]
  BY <1>1
<1>3. QED
  BY <1>1, <1>2 DEF Folder

LEMMA SnaplogAt ==
  ASSUME TypeOK, NEW r \in Runs, NEW x, files' = [files EXCEPT ![r].snaplog = x]
  PROVE  /\ files'[r].record = files[r].record /\ files'[r].summary = files[r].summary
         /\ files'[r].result = files[r].result /\ files'[r].snaps = files[r].snaps
         /\ \A q \in Runs \ {r} : files'[q] = files[q]
<1>1. files[r] \in Folder /\ files \in [Runs -> Folder]
  BY DEF TypeOK
<1>2. files'[r] = [files[r] EXCEPT !.snaplog = x]
  BY <1>1
<1>3. QED
  BY <1>1, <1>2 DEF Folder

\* The error of a late write: in the record, in both, or nowhere.
LEMMA LateAt ==
  ASSUME TypeOK, NEW r \in Runs, NEW here, NEW done, NEW failed, RecordLateError(r, here, done, failed)
  PROVE  /\ pc[r] = here /\ pc'[r] \in {done, failed} /\ UNCHANGED <<out, index, started>>
         /\ files'[r].record.phase = files[r].record.phase
         /\ files'[r].record.status = files[r].record.status
         /\ files'[r].record.pre = files[r].record.pre
         /\ files'[r].summary \in {files[r].summary, files'[r].record}
         /\ files'[r].result = files[r].result
         /\ files'[r].snaps = files[r].snaps
         /\ \A q \in Runs \ {r} : files'[q] = files[q] /\ pc'[q] = pc[q]
<1> DEFINE noted == [files EXCEPT ![r].record.perr = TRUE]
<1>1. /\ noted[r].record.phase = files[r].record.phase
      /\ noted[r].record.status = files[r].record.status
      /\ noted[r].record.pre = files[r].record.pre
      /\ noted[r].summary = files[r].summary /\ noted[r].result = files[r].result
      /\ noted[r].snaps = files[r].snaps
      /\ \A q \in Runs \ {r} : noted[q] = files[q]
      /\ noted \in [Runs -> Folder]
  <2>1. noted = [files EXCEPT ![r] = [files[r] EXCEPT !.record = [files[r].record EXCEPT !.perr = TRUE]]]
    OBVIOUS
  <2>2. files[r].record \in View /\ files[r] \in Folder /\ files \in [Runs -> Folder]
    BY PartsTyped DEF TypeOK
  <2>3. noted[r] = [files[r] EXCEPT !.record = [files[r].record EXCEPT !.perr = TRUE]]
    BY <2>1, <2>2
  <2>4. noted \in [Runs -> Folder]
    BY Notes
  <2>5. QED
    BY <2>1, <2>2, <2>3, <2>4 DEF Folder, View
<1> HIDE DEF noted
<1>2. files' \in {files, noted, [noted EXCEPT ![r].summary = noted[r].record]}
  BY DEF RecordLateError, noted
<1>3. CASE files' = [noted EXCEPT ![r].summary = noted[r].record]
  <2>1. files'[r] = [noted[r] EXCEPT !.summary = noted[r].record] /\ noted[r] \in Folder
    BY <1>1, <1>3
  <2>2. \A q \in Runs \ {r} : files'[q] = noted[q]
    BY <1>1, <1>3
  <2>3. QED
    BY <1>1, <2>1, <2>2, GotoAt DEF Folder, RecordLateError
<1>4. CASE files' \in {files, noted}
  BY <1>1, <1>4, GotoAt DEF RecordLateError
<1>5. QED
  BY <1>2, <1>3, <1>4

-----------------------------------------------------------------------------
\* OneRun is kept.

\* What a step leaves alone.
Apart(r) == files'[r] = files[r] /\ out'[r] = out[r] /\ pc'[r] = pc[r] /\ (r \in index => r \in index')

LEMMA OneRunApart ==
  ASSUME NEW r \in Runs, OneRun(r), Apart(r)
  PROVE  OneRun(r)'
BY DEF OneRun, StatusInv, LossInv, RecordInv, Complete, NoLoss, Record, HasRecord, Apart

\* Before the record: a run goes on, or ends with a setup error.
LEMMA BeforeOneRun ==
  ASSUME TypeOK, NEW r \in Runs, OneRun(r), pc[r] \in {"idle"} \cup Before, UNCHANGED <<files, index>>,
         \/ UNCHANGED out /\ \E l \in Before : Goto(r, l)
         \/ SetupError(r)
  PROVE  OneRun(r)'
BY GotoAt, GiveAt DEF OneRun, StatusInv, LossInv, RecordInv, Complete, NoLoss, Record, HasRecord,
   SetupError, Before, Early, Stages, AfterPre, Ending, Nothing

LEMMA BeforeSteps ==
  ASSUME TypeOK, NEW r \in Runs, OneRun(r),
         Lock(r) \/ Claim(r) \/ Setup(r) \/ EnsureWorktree(r) \/ CopyApprovals(r)
  PROVE  OneRun(r)'
<1>1. CASE Lock(r)
  BY <1>1, BeforeOneRun DEF Lock, Before
<1>2. CASE Claim(r)
  BY <1>2, BeforeOneRun DEF Claim, Before
<1>3. CASE Setup(r)
  BY <1>3, BeforeOneRun DEF Setup, Before
<1>4. CASE EnsureWorktree(r)
  BY <1>4, BeforeOneRun DEF EnsureWorktree, Before
<1>5. CASE CopyApprovals(r)
  BY <1>5, BeforeOneRun DEF CopyApprovals, Before
<1>6. QED
  BY <1>1, <1>2, <1>3, <1>4, <1>5

LEMMA CreateOneRun ==
  ASSUME TypeOK, NEW r \in Runs, OneRun(r), CreateArtifacts(r)
  PROVE  OneRun(r)'
<1>1. /\ files'[r].record = files[r].record /\ files'[r].summary = files[r].summary
      /\ files'[r].result = files[r].result
  BY SnaplogAt DEF CreateArtifacts
<1>2. pc[r] = "artifacts" /\ index' = index /\ ((UNCHANGED out /\ Goto(r, "start")) \/ SetupError(r))
  BY DEF CreateArtifacts
<1>3. QED
  BY <1>1, <1>2, GotoAt, GiveAt DEF OneRun, StatusInv, LossInv, RecordInv, Complete, NoLoss, Record,
     HasRecord, SetupError, Before, Early, Stages, AfterPre, Ending, Nothing

LEMMA StartOneRun ==
  ASSUME TypeOK, NEW r \in Runs, OneRun(r), StartRun(r)
  PROVE  OneRun(r)'
<1>1. pc[r] = "start" /\ index' = index
  BY DEF StartRun
<1>2. CASE files' = [files EXCEPT ![r].record = [Nothing EXCEPT !.phase = "preparing_artifacts"]]
           /\ Goto(r, "prompt") /\ UNCHANGED out
  <2>1. /\ files'[r].record.status = "none" /\ files'[r].record.pre = NoCommit
        /\ files'[r].record.phase = "preparing_artifacts"
        /\ files'[r].summary = files[r].summary /\ files'[r].result = files[r].result
    <3> DEFINE new == [Nothing EXCEPT !.phase = "preparing_artifacts"]
    <3>1. new.status = "none" /\ new.pre = NoCommit /\ new.phase = "preparing_artifacts"
      BY DEF Nothing
    <3> HIDE DEF new
    <3>2. QED
      BY <1>2, <3>1, RecordAt DEF new
  <2>2. QED
    BY <1>1, <1>2, <2>1, GotoAt DEF OneRun, StatusInv, LossInv, RecordInv, Complete, NoLoss, Record,
       HasRecord, Before, Early, Stages, AfterPre, Ending, Nothing
<1>3. CASE Give(r, "wrapper_failed") /\ Goto(r, "result") /\ UNCHANGED files
  BY <1>1, <1>3, GotoAt, GiveAt DEF OneRun, StatusInv, LossInv, RecordInv, Complete, NoLoss, Record,
     HasRecord, Before, Early, Stages, AfterPre, Ending, Nothing
<1>4. QED
  BY <1>2, <1>3 DEF StartRun

\* A stage goes on or fails; the record keeps its status and its pre-run commit.
LEMMA StageOneRun ==
  ASSUME NEW r \in Runs, OneRun(r), pc[r] \in Stages, index' = index,
         pc'[r] \in Stages \cup {"terminal"},
         pc[r] \in AfterPre => pc'[r] \in AfterPre \cup {"terminal"},
         pc[r] = "pre" => pc'[r] = "terminal",
         files'[r].record.status = files[r].record.status,
         files'[r].record.pre = files[r].record.pre,
         files'[r].record.phase # "none",
         files'[r].summary = files[r].summary, files'[r].result = files[r].result,
         out'[r].phase = out[r].phase, out'[r].pre = out[r].pre
  PROVE  OneRun(r)'
BY DEF OneRun, StatusInv, LossInv, RecordInv, Complete, NoLoss, Record, HasRecord, Before, Early,
   Stages, AfterPre, Ending

LEMMA PersistOneRun ==
  ASSUME TypeOK, NEW r \in Runs, OneRun(r), NEW here \in Stages, NEW phase \in Phases,
         NEW next \in Stages, here \in AfterPre => next \in AfterPre, here # "pre",
         PersistPhase(r, here, phase, next)
  PROVE  OneRun(r)'
<1>1. pc[r] = here /\ index' = index
  BY DEF PersistPhase
<1>2. phase # "none" /\ HasRecord(r)
  BY <1>1 DEF Phases, OneRun, RecordInv
<1>3. /\ files'[r].record.status = files[r].record.status
      /\ files'[r].record.pre = files[r].record.pre
      /\ files'[r].record.phase # "none"
      /\ files'[r].summary = files[r].summary /\ files'[r].result = files[r].result
  <2>1. CASE files' = files
    BY <1>2, <2>1 DEF HasRecord, Record
  <2>2. CASE files' = [files EXCEPT ![r].record.phase = phase]
    BY <1>2, <2>2, PhaseAt
  <2>3. QED
    BY <2>1, <2>2 DEF PersistPhase
<1>4. /\ out'[r].phase = out[r].phase /\ out'[r].pre = out[r].pre
      /\ pc'[r] \in {next, "terminal"}
  BY GotoAt, GiveAt DEF PersistPhase, Fail
<1>5. QED
  BY <1>1, <1>3, <1>4, StageOneRun

LEMMA PersistsOneRun ==
  ASSUME TypeOK, NEW r \in Runs, OneRun(r), Persists(r)
  PROVE  OneRun(r)'
BY PersistOneRun DEF Persists, CopyPrompt, CheckingDirty, ReadingPreRunCommit, PreparingSandbox,
   RunningAgent, ReadingSnapshots, CommittingResult, Phases, Stages, AfterPre

LEMMA PreOneRun ==
  ASSUME TypeOK, NEW r \in Runs, OneRun(r), PreRunCommit(r)
  PROVE  OneRun(r)'
<1>1. pc[r] = "pre" /\ index' = index
  BY DEF PreRunCommit
<1>2. CASE Fail(r, "wrapper_failed") /\ UNCHANGED files
  BY <1>1, <1>2, GiveAt, GotoAt, StageOneRun
     DEF Fail, Stages, AfterPre, OneRun, RecordInv, HasRecord, Record
<1>3. CASE /\ files' = [files EXCEPT ![r].record.pre = head]
           /\ out' = [out EXCEPT ![r].pre = head]
           /\ Goto(r, "sandbox")
  <2>1. files[r].record \in View /\ out[r] \in View
    BY PartsTyped
  <2>2. files' = [files EXCEPT ![r].record = [files[r].record EXCEPT !.pre = head]]
        /\ out' = [out EXCEPT ![r] = [out[r] EXCEPT !.pre = head]]
    BY <1>3
  <2>3. /\ files'[r].record = [files[r].record EXCEPT !.pre = head]
        /\ files'[r].summary = files[r].summary /\ files'[r].result = files[r].result
    BY <2>2, RecordAt
  <2>4. out'[r] = [out[r] EXCEPT !.pre = head]
    BY <2>2 DEF TypeOK
  <2>5. /\ files'[r].record.pre = head /\ out'[r].pre = head
        /\ files'[r].record.phase = files[r].record.phase
        /\ files'[r].record.status = files[r].record.status
        /\ out'[r].phase = out[r].phase /\ out'[r].status = out[r].status
    BY <2>1, <2>3, <2>4 DEF View
  <2>6. pc'[r] = "sandbox"
    BY <1>3, GotoAt
  <2>7. QED
    BY <1>1, <2>3, <2>5, <2>6 DEF OneRun, StatusInv, LossInv, RecordInv, Record, HasRecord, Before,
       Early, Stages, AfterPre, Ending
<1>4. QED
  BY <1>2, <1>3 DEF PreRunCommit

LEMMA StagesOneRun ==
  ASSUME TypeOK, NEW r \in Runs, OneRun(r),
         \/ RefuseIfDirty(r) \/ RunAgent(r) \/ AgentExit(r) \/ ReadSnapshots(r) \/ IsDirty(r)
         \/ CommitResult(r) \/ ChangedFiles(r)
  PROVE  OneRun(r)'
<1>1. files' = files /\ index' = index
  BY DEF RefuseIfDirty, RunAgent, AgentExit, ReadSnapshots, IsDirty, CommitResult, ChangedFiles
<1>2. pc[r] \in Stages \ {"pre"} /\ (pc[r] = "refuse" \/ pc[r] \in AfterPre)
  BY DEF RefuseIfDirty, RunAgent, AgentExit, ReadSnapshots, IsDirty, CommitResult, ChangedFiles,
     Stages, AfterPre
<1>3. /\ pc'[r] \in Stages \cup {"terminal"}
      /\ pc[r] \in AfterPre => pc'[r] \in AfterPre \cup {"terminal"}
  BY GotoAt DEF RefuseIfDirty, RunAgent, AgentExit, ReadSnapshots, IsDirty, CommitResult, ChangedFiles,
     Fail, Stages, AfterPre
<1>4. out'[r].phase = out[r].phase /\ out'[r].pre = out[r].pre
  <2>1. CASE ReadSnapshots(r)
    <3>1. CASE out' = [out EXCEPT ![r].snaps = files[r].snaps]
      <4>1. out'[r] = [out[r] EXCEPT !.snaps = files[r].snaps] /\ out[r] \in View
        BY <3>1 DEF TypeOK
      <4>2. QED
        BY <4>1 DEF View
    <3>2. CASE Give(r, "snapshot_failed")
      BY <3>2, GiveAt
    <3>3. QED
      BY <2>1, <3>1, <3>2 DEF ReadSnapshots, Fail
  <2>2. CASE CommitResult(r)
    <3>1. CASE out' = [out EXCEPT ![r].status = Dirty(r), ![r].commit = Len(log) + 1]
      <4>1. out'[r] = [out[r] EXCEPT !.status = Dirty(r), !.commit = Len(log) + 1] /\ out[r] \in View
        BY <3>1 DEF TypeOK
      <4>2. QED
        BY <4>1 DEF View
    <3>2. CASE Give(r, "commit_failed")
      BY <3>2, GiveAt
    <3>3. QED
      BY <2>2, <3>1, <3>2 DEF CommitResult
  <2>3. CASE ChangedFiles(r)
    BY <2>3, PerrAt DEF ChangedFiles
  <2>4. CASE RefuseIfDirty(r) \/ RunAgent(r) \/ AgentExit(r) \/ IsDirty(r)
    BY <2>4, GiveAt DEF RefuseIfDirty, RunAgent, AgentExit, IsDirty, Fail
  <2>5. QED
    BY <2>1, <2>2, <2>3, <2>4
<1>5. files'[r].record.phase # "none"
  BY <1>1, <1>2 DEF OneRun, RecordInv, HasRecord, Record
<1>6. QED
  BY <1>1, <1>2, <1>3, <1>4, <1>5, StageOneRun

LEMMA TerminalOneRun ==
  ASSUME TypeOK, NEW r \in Runs, OneRun(r), TerminalRecord(r)
  PROVE  OneRun(r)'
<1>1. pc[r] = "terminal" /\ index' = index
  BY DEF TerminalRecord
<1>2. CASE files' = [files EXCEPT ![r].record = out[r]] /\ Goto(r, "summary") /\ UNCHANGED out
  <2>1. /\ files'[r].record = out[r] /\ files'[r].summary = files[r].summary
        /\ files'[r].result = files[r].result /\ pc'[r] = "summary"
    BY <1>2, RecordAt, GotoAt
  <2>2. QED
    BY <1>1, <1>2, <2>1 DEF OneRun, StatusInv, LossInv, NoLoss, Complete, RecordInv, Record, HasRecord,
       Before, Early, Stages, AfterPre, Ending
<1>3. CASE out' = [out EXCEPT ![r].perr = TRUE] /\ Goto(r, "repair") /\ UNCHANGED files
  <2>1. /\ out'[r].status = out[r].status /\ out'[r].phase = out[r].phase /\ out'[r].pre = out[r].pre
        /\ out'[r].perr /\ pc'[r] = "repair"
    BY <1>3, PerrAt, GotoAt
  <2>2. QED
    BY <1>1, <1>3, <2>1 DEF OneRun, StatusInv, LossInv, NoLoss, Complete, RecordInv, Record, HasRecord,
       Before, Early, Stages, AfterPre, Ending
<1>4. QED
  BY <1>2, <1>3 DEF TerminalRecord

LEMMA SummaryOneRun ==
  ASSUME TypeOK, NEW r \in Runs, OneRun(r), Summary(r)
  PROVE  OneRun(r)'
<1>1. pc[r] = "summary" /\ index' = index
  BY DEF Summary
<1>2. CASE files' = [files EXCEPT ![r].summary = Record(r)] /\ Goto(r, "index") /\ UNCHANGED out
  <2>1. /\ files'[r].summary = Record(r) /\ files'[r].record = files[r].record
        /\ files'[r].result = files[r].result /\ pc'[r] = "index"
    BY <1>2, SummaryAt, GotoAt
  <2>2. QED
    BY <1>1, <1>2, <2>1 DEF OneRun, StatusInv, LossInv, NoLoss, Complete, RecordInv, Record, HasRecord,
       Before, Early, Stages, AfterPre, Ending
<1>3. CASE /\ out' = [out EXCEPT ![r].perr = TRUE] /\ Goto(r, "result")
           /\ files' = [files EXCEPT ![r].record.perr = TRUE]
  <2>1. /\ out'[r].status = out[r].status /\ out'[r].phase = out[r].phase /\ out'[r].pre = out[r].pre
        /\ out'[r].perr /\ pc'[r] = "result"
        /\ files'[r].record.phase = files[r].record.phase
        /\ files'[r].record.status = files[r].record.status
        /\ files'[r].record.pre = files[r].record.pre
        /\ files'[r].summary = files[r].summary /\ files'[r].result = files[r].result
    BY <1>3, PerrAt, NotedAt, GotoAt
  <2>2. QED
    BY <1>1, <1>3, <2>1 DEF OneRun, StatusInv, LossInv, NoLoss, Complete, RecordInv, Record, HasRecord,
       Before, Early, Stages, AfterPre, Ending
<1>4. CASE out' = [out EXCEPT ![r].perr = TRUE] /\ UNCHANGED files /\ Goto(r, "repair")
  <2>1. /\ out'[r].status = out[r].status /\ out'[r].phase = out[r].phase /\ out'[r].pre = out[r].pre
        /\ out'[r].perr /\ pc'[r] = "repair"
    BY <1>4, PerrAt, GotoAt
  <2>2. QED
    BY <1>1, <1>4, <2>1 DEF OneRun, StatusInv, LossInv, NoLoss, Complete, RecordInv, Record, HasRecord,
       Before, Early, Stages, AfterPre, Ending
<1>5. QED
  BY <1>2, <1>3, <1>4 DEF Summary

LEMMA IndexOneRun ==
  ASSUME TypeOK, NEW r \in Runs, OneRun(r), AppendIndex(r)
  PROVE  OneRun(r)'
<1>1. pc[r] = "index" /\ files' = files
  BY DEF AppendIndex
<1>2. CASE index' = index \cup {r} /\ Goto(r, "result") /\ UNCHANGED out
  <2>1. r \in index' /\ out' = out /\ pc'[r] = "result"
    BY <1>2, GotoAt
  <2>2. QED
    BY <1>1, <1>2, <2>1 DEF OneRun, StatusInv, LossInv, NoLoss, Complete, RecordInv, Record, HasRecord,
       Before, Early, Stages, AfterPre, Ending
<1>3. CASE out' = [out EXCEPT ![r].perr = TRUE] /\ Goto(r, "repair_index") /\ UNCHANGED index
  <2>1. /\ out'[r].status = out[r].status /\ out'[r].phase = out[r].phase /\ out'[r].pre = out[r].pre
        /\ out'[r].perr /\ pc'[r] = "repair_index"
    BY <1>3, PerrAt, GotoAt
  <2>2. QED
    BY <1>1, <1>3, <2>1 DEF OneRun, StatusInv, LossInv, NoLoss, Complete, RecordInv, Record, HasRecord,
       Before, Early, Stages, AfterPre, Ending
<1>4. QED
  BY <1>2, <1>3 DEF AppendIndex

LEMMA FileOneRun ==
  ASSUME TypeOK, NEW r \in Runs, OneRun(r), ResultFile(r)
  PROVE  OneRun(r)'
<1>1. pc[r] = "result" /\ index' = index
  BY DEF ResultFile
<1>2. CASE /\ Record(r).status # "none" /\ files' = [files EXCEPT ![r].result = Record(r)]
           /\ Goto(r, "emit") /\ UNCHANGED out
  <2>1. /\ files'[r].result = Record(r) /\ files'[r].record = files[r].record
        /\ files'[r].summary = files[r].summary /\ pc'[r] = "emit"
    BY <1>2, ResultAt, GotoAt
  <2>2. QED
    BY <1>1, <1>2, <2>1 DEF OneRun, StatusInv, LossInv, NoLoss, Complete, RecordInv, Record, HasRecord,
       Before, Early, Stages, AfterPre, Ending
<1>3. CASE out' = [out EXCEPT ![r].perr = TRUE] /\ Goto(r, "repair_result") /\ UNCHANGED files
  <2>1. /\ out'[r].status = out[r].status /\ out'[r].phase = out[r].phase /\ out'[r].pre = out[r].pre
        /\ out'[r].perr /\ pc'[r] = "repair_result"
    BY <1>3, PerrAt, GotoAt
  <2>2. QED
    BY <1>1, <1>3, <2>1 DEF OneRun, StatusInv, LossInv, NoLoss, Complete, RecordInv, Record, HasRecord,
       Before, Early, Stages, AfterPre, Ending
<1>4. QED
  BY <1>2, <1>3 DEF ResultFile

LEMMA LateOneRun ==
  ASSUME TypeOK, NEW r \in Runs, OneRun(r),
         NEW here \in {"repair_index", "repair", "repair_result"},
         NEW done \in {"result", "repair", "emit"}, NEW failed \in {"result", "repair", "emit"},
         here # "repair_result" => done # "emit" /\ failed # "emit",
         here = "repair_result" => done = "emit" /\ failed = "emit",
         RecordLateError(r, here, done, failed)
  PROVE  OneRun(r)'
<1>1. /\ pc[r] = here /\ pc'[r] \in {done, failed} /\ UNCHANGED <<out, index>>
      /\ files'[r].record.phase = files[r].record.phase
      /\ files'[r].record.status = files[r].record.status
      /\ files'[r].record.pre = files[r].record.pre
      /\ files'[r].summary \in {files[r].summary, files'[r].record}
      /\ files'[r].result = files[r].result
  BY LateAt
<1>2. QED
  BY <1>1 DEF OneRun, StatusInv, LossInv, NoLoss, RecordInv, Record, HasRecord, Before, Early,
     Stages, AfterPre, Ending

LEMMA RepairOneRun ==
  ASSUME TypeOK, NEW r \in Runs, OneRun(r), Repair(r)
  PROVE  OneRun(r)'
BY LateOneRun DEF Repair

LEMMA EmitOneRun ==
  ASSUME TypeOK, NEW r \in Runs, OneRun(r), Emit(r)
  PROVE  OneRun(r)'
BY GotoAt DEF Emit, OneRun, StatusInv, LossInv, NoLoss, Complete, RecordInv, Record, HasRecord,
   Before, Early, Stages, AfterPre, Ending

LEMMA KilledOneRun ==
  ASSUME TypeOK, NEW r \in Runs, OneRun(r), Killed(r)
  PROVE  OneRun(r)'
BY GotoAt DEF Killed, OneRun, StatusInv, LossInv, NoLoss, Complete, RecordInv, Record, HasRecord,
   Before, Early, Stages, AfterPre, Ending

\* The agent writes in the run's folder, where the record and its views are not.
LEMMA AgentOneRun ==
  ASSUME TypeOK, NEW r \in Runs, OneRun(r),
         AgentEdits(r) \/ Snapshot(r) \/ SnapshotLogGone(r) \/ AgentEnds(r)
  PROVE  OneRun(r)'
<1>1. /\ files'[r].record = files[r].record /\ files'[r].summary = files[r].summary
      /\ files'[r].result = files[r].result
  BY SnapsAt, SnaplogAt DEF AgentEdits, Snapshot, SnapshotLogGone, AgentEnds
<1>2. pc' = pc /\ out' = out /\ index' = index
  BY DEF AgentEdits, Snapshot, SnapshotLogGone, AgentEnds
<1>3. QED
  BY <1>1, <1>2 DEF OneRun, StatusInv, LossInv, NoLoss, Complete, RecordInv, Record, HasRecord

LEMMA StepOneRun ==
  ASSUME TypeOK, NEW r \in Runs, OneRun(r), RunStep(r)
  PROVE  OneRun(r)'
BY BeforeSteps, CreateOneRun, StartOneRun, PersistsOneRun, PreOneRun, StagesOneRun, TerminalOneRun,
   SummaryOneRun, IndexOneRun, RepairOneRun, FileOneRun, EmitOneRun DEF RunStep, Persists

\* A run's step leaves the other runs alone.
LEMMA PersistsApart ==
  ASSUME TypeOK, NEW r \in Runs, NEW q \in Runs \ {r}, NEW here, NEW phase, NEW next,
         PersistPhase(r, here, phase, next)
  PROVE  Apart(q)
BY GotoAt, GiveAt, PhaseAt DEF PersistPhase, Fail, Apart

LEMMA StepApart ==
  ASSUME TypeOK, NEW r \in Runs, NEW q \in Runs \ {r}, RunStep(r)
  PROVE  Apart(q)
<1>1. CASE Lock(r) \/ Claim(r) \/ Setup(r) \/ EnsureWorktree(r) \/ CopyApprovals(r)
  BY <1>1, GotoAt, GiveAt DEF Lock, Claim, Setup, EnsureWorktree, CopyApprovals, SetupError, Apart
<1>2. CASE CreateArtifacts(r) \/ StartRun(r)
  BY <1>2, GotoAt, GiveAt, RecordAt, SnaplogAt DEF CreateArtifacts, StartRun, SetupError, Apart
<1>3. CASE Persists(r)
  BY <1>3, PersistsApart DEF Persists, CopyPrompt, CheckingDirty, ReadingPreRunCommit,
     PreparingSandbox, RunningAgent, ReadingSnapshots, CommittingResult
<1>4. CASE PreRunCommit(r)
  <2>1. CASE files' = [files EXCEPT ![r].record.pre = head] /\ out' = [out EXCEPT ![r].pre = head]
             /\ Goto(r, "sandbox")
    BY <1>4, <2>1, GotoAt DEF PreRunCommit, Apart, TypeOK
  <2>2. CASE Fail(r, "wrapper_failed") /\ UNCHANGED files
    BY <1>4, <2>2, GotoAt, GiveAt DEF PreRunCommit, Apart, Fail
  <2>3. QED
    BY <1>4, <2>1, <2>2 DEF PreRunCommit
<1>5. CASE RefuseIfDirty(r) \/ RunAgent(r) \/ AgentExit(r) \/ IsDirty(r) \/ ChangedFiles(r)
  BY <1>5, GotoAt, GiveAt, PerrAt DEF RefuseIfDirty, RunAgent, AgentExit, IsDirty, ChangedFiles, Fail, Apart
<1>6. CASE ReadSnapshots(r) \/ CommitResult(r)
  <2>1. files' = files /\ index' = index /\ pc'[q] = pc[q]
    BY <1>6, GotoAt DEF ReadSnapshots, CommitResult, Fail
  <2>2. CASE \E x : Give(r, x)
    BY <2>1, <2>2, GiveAt DEF Apart
  <2>3. CASE \/ out' = [out EXCEPT ![r].snaps = files[r].snaps]
             \/ out' = [out EXCEPT ![r].status = Dirty(r), ![r].commit = Len(log) + 1]
    <3>1. out'[q] = out[q]
      BY <2>3 DEF TypeOK
    <3>2. QED
      BY <2>1, <3>1 DEF Apart
  <2>4. QED
    BY <1>6, <2>2, <2>3 DEF ReadSnapshots, CommitResult, Fail
<1>7. CASE TerminalRecord(r) \/ Summary(r) \/ AppendIndex(r) \/ ResultFile(r) \/ Emit(r)
  BY <1>7, GotoAt, PerrAt, RecordAt, NotedAt, SummaryAt, ResultAt
     DEF TerminalRecord, Summary, AppendIndex, ResultFile, Emit, Apart
<1>8. CASE Repair(r)
  BY <1>8, LateAt DEF Repair, Apart
<1>9. QED
  BY <1>1, <1>2, <1>3, <1>4, <1>5, <1>6, <1>7, <1>8 DEF RunStep, Persists

LEMMA AgentApart ==
  ASSUME TypeOK, NEW r \in Runs, NEW q \in Runs \ {r},
         AgentEdits(r) \/ Snapshot(r) \/ SnapshotLogGone(r) \/ AgentEnds(r) \/ Killed(r)
  PROVE  Apart(q)
BY GotoAt, SnapsAt, SnaplogAt DEF AgentEdits, Snapshot, SnapshotLogGone, AgentEnds, Killed, Apart

RunsInv == TypeOK /\ \A r \in Runs : OneRun(r)

LEMMA RunsInit == Init => RunsInv
<1>1. ASSUME Init, NEW r \in Runs PROVE OneRun(r)
  BY <1>1 DEF Init, OneRun, StatusInv, LossInv, RecordInv, Record, NoFiles, NoOutcome, Nothing,
     Before, Early, Stages, AfterPre, Ending
<1>2. QED
  BY <1>1, TypeInit DEF RunsInv

LEMMA RunsStep == RunsInv /\ [Next]_vars => RunsInv'
<1>1. SUFFICES ASSUME RunsInv, [Next]_vars, NEW r \in Runs PROVE OneRun(r)'
  BY TypeStep DEF RunsInv
<1>2. TypeOK /\ OneRun(r)
  BY <1>1 DEF RunsInv
<1>3. ASSUME NEW s \in Runs, RunStep(s) PROVE OneRun(r)'
  <2>1. CASE s = r
    BY <1>2, <1>3, <2>1, StepOneRun
  <2>2. CASE s # r
    BY <1>2, <1>3, <2>2, StepApart, OneRunApart
  <2>3. QED
    BY <2>1, <2>2
<1>4. ASSUME NEW s \in Runs,
             AgentEdits(s) \/ Snapshot(s) \/ SnapshotLogGone(s) \/ AgentEnds(s) \/ Killed(s)
      PROVE  OneRun(r)'
  <2>1. CASE s = r
    BY <1>2, <1>4, <2>1, AgentOneRun, KilledOneRun
  <2>2. CASE s # r
    BY <1>2, <1>4, <2>2, AgentApart, OneRunApart
  <2>3. QED
    BY <2>1, <2>2
<1>5. CASE UserActs \/ UNCHANGED vars
  <2>1. Apart(r)
    BY <1>5 DEF UserActs, vars, Apart
  <2>2. QED
    BY <1>2, <2>1, OneRunApart
<1>6. QED
  BY <1>1, <1>3, <1>4, <1>5 DEF Next

LEMMA RunsAlways == Spec => []RunsInv
BY RunsInit, RunsStep, PTL DEF Spec

-----------------------------------------------------------------------------
\* What follows for the records.

\* Whatever stage fails and whatever cannot be written: a view that has a status has
\* its record's, a result without a persistence error misses nothing, and the status
\* reported is the record's, also when the container outlives a killed vibe.
THEOREM ReportsAreTrue == Spec => [](ViewsFollow /\ NothingSwallowed /\ StatusKept)
<1>1. RunsInv => ViewsFollow /\ NothingSwallowed /\ StatusKept
  <2>1. SUFFICES ASSUME RunsInv PROVE ViewsFollow /\ NothingSwallowed /\ StatusKept
    OBVIOUS
  <2>2. \A r \in Runs : StatusInv(r) /\ LossInv(r)
    BY <2>1 DEF RunsInv, OneRun
  <2>3. ViewsFollow
    BY <2>2 DEF StatusInv, ViewsFollow
  <2>4. NothingSwallowed
    BY <2>2 DEF LossInv, Complete, NothingSwallowed, Ended
  <2>5. StatusKept
    BY <2>2 DEF StatusInv, StatusKept, Ended
  <2>6. QED
    BY <2>3, <2>4, <2>5
<1>2. QED
  BY <1>1, RunsAlways, PTL

\* A record stays, and so does the pre-run commit in it.
RecordStays(r) ==
  /\ HasRecord(r) => HasRecord(r)'
  /\ Record(r).pre # NoCommit => Record(r)'.pre = Record(r).pre

LEMMA PersistStays ==
  ASSUME TypeOK, NEW r \in Runs, NEW here, NEW phase \in Phases, NEW next,
         PersistPhase(r, here, phase, next)
  PROVE  RecordStays(r)
BY PhaseAt DEF PersistPhase, RecordStays, HasRecord, Record, Phases

LEMMA StepStays ==
  ASSUME TypeOK, NEW r \in Runs, OneRun(r), RunStep(r)
  PROVE  RecordStays(r)
<1>1. CASE files'[r].record = files[r].record
  BY <1>1 DEF RecordStays, HasRecord, Record
<1>2. CASE Lock(r) \/ Claim(r) \/ Setup(r) \/ EnsureWorktree(r) \/ CopyApprovals(r) \/ RefuseIfDirty(r)
           \/ RunAgent(r) \/ AgentExit(r) \/ ReadSnapshots(r) \/ IsDirty(r) \/ CommitResult(r)
           \/ ChangedFiles(r) \/ AppendIndex(r) \/ Emit(r)
  <2>1. files' = files
    BY <1>2 DEF Lock, Claim, Setup, EnsureWorktree, CopyApprovals, RefuseIfDirty, RunAgent, AgentExit,
       ReadSnapshots, IsDirty, CommitResult, ChangedFiles, AppendIndex, Emit
  <2>2. QED
    BY <2>1, <1>1
<1>3. CASE CreateArtifacts(r)
  BY <1>1, <1>3, SnaplogAt DEF CreateArtifacts
<1>4. CASE StartRun(r)
  <2>1. Record(r) = Nothing
    BY <1>4 DEF StartRun, OneRun, RecordInv, Before
  <2>2. QED
    BY <2>1 DEF RecordStays, HasRecord, Nothing
<1>5. CASE Persists(r)
  BY <1>5, PersistStays DEF Persists, CopyPrompt, CheckingDirty, ReadingPreRunCommit, PreparingSandbox,
     RunningAgent, ReadingSnapshots, CommittingResult, Phases
<1>6. CASE PreRunCommit(r)
  <2>1. Record(r).pre = NoCommit
    BY <1>6 DEF PreRunCommit, OneRun, RecordInv, Early, Stages, AfterPre
  <2>2. CASE files' = [files EXCEPT ![r].record.pre = head]
    <3>1. files' = [files EXCEPT ![r].record = [files[r].record EXCEPT !.pre = head]]
      BY <2>2
    <3>2. files'[r].record = [files[r].record EXCEPT !.pre = head] /\ files[r].record \in View
      BY <3>1, RecordAt, PartsTyped
    <3>3. files'[r].record.phase = files[r].record.phase
      BY <3>2 DEF View
    <3>4. QED
      BY <2>1, <3>3 DEF RecordStays, HasRecord, Record
  <2>3. QED
    BY <1>1, <1>6, <2>2 DEF PreRunCommit
<1>7. CASE TerminalRecord(r)
  <2>1. CASE files' = [files EXCEPT ![r].record = out[r]]
    <3>1. files'[r].record = out[r] /\ pc[r] = "terminal"
      BY <1>7, <2>1, RecordAt DEF TerminalRecord
    <3>2. out[r].pre = Record(r).pre /\ out[r].phase = "finished"
      BY <3>1 DEF OneRun, RecordInv, StatusInv, Early
    <3>3. QED
      BY <3>1, <3>2 DEF RecordStays, HasRecord, Record
  <2>2. QED
    BY <1>1, <1>7, <2>1 DEF TerminalRecord
<1>8. CASE Summary(r)
  BY <1>8, SummaryAt, NotedAt DEF Summary, RecordStays, HasRecord, Record
<1>9. CASE Repair(r)
  BY <1>9, LateAt DEF Repair, RecordStays, HasRecord, Record
<1>10. CASE ResultFile(r)
  BY <1>1, <1>10, ResultAt DEF ResultFile
<1>11. QED
  BY <1>2, <1>3, <1>4, <1>5, <1>6, <1>7, <1>8, <1>9, <1>10 DEF RunStep, Persists

LEMMA AllStays == RunsInv /\ [Next]_vars => \A r \in Runs : RecordStays(r)
<1>1. SUFFICES ASSUME RunsInv, [Next]_vars, NEW r \in Runs PROVE RecordStays(r)
  OBVIOUS
<1>2. TypeOK /\ OneRun(r)
  BY <1>1 DEF RunsInv
<1>3. CASE files'[r].record = files[r].record
  BY <1>3 DEF RecordStays, HasRecord, Record
<1>4. ASSUME NEW s \in Runs, RunStep(s) PROVE RecordStays(r)
  <2>1. CASE s = r
    BY <1>2, <1>4, <2>1, StepStays
  <2>2. CASE s # r
    BY <1>2, <1>3, <1>4, <2>2, StepApart DEF Apart
  <2>3. QED
    BY <2>1, <2>2
<1>5. ASSUME NEW s \in Runs,
             AgentEdits(s) \/ Snapshot(s) \/ SnapshotLogGone(s) \/ AgentEnds(s) \/ Killed(s)
      PROVE  RecordStays(r)
  <2>1. CASE s = r
    BY <1>2, <1>3, <1>5, <2>1, SnapsAt, SnaplogAt DEF AgentEdits, Snapshot, SnapshotLogGone, AgentEnds, Killed
  <2>2. CASE s # r
    BY <1>2, <1>3, <1>5, <2>2, AgentApart DEF Apart
  <2>3. QED
    BY <2>1, <2>2
<1>6. CASE UserActs \/ UNCHANGED vars
  BY <1>3, <1>6 DEF UserActs, vars
<1>7. QED
  BY <1>1, <1>4, <1>5, <1>6 DEF Next

\* No step, and no failing one, loses the pre-run commit from a record that held it.
THEOREM PreRunCommitIsKept == Spec => KeepsPreRunCommit
<1>1. RunsInv /\ [Next]_vars => PreRunCommitKept
  BY AllStays DEF PreRunCommitKept, RecordStays
<1>2. QED
  BY <1>1, RunsAlways, PTL DEF Spec, KeepsPreRunCommit

-----------------------------------------------------------------------------
\* Who started, and the newest of them.

\* Only a run that had no record starts, after the last one.
LEMMA StartShape ==
  ASSUME RunsInv, [Next]_vars, started' # started
  PROVE  \E r \in Runs : \E now \in Seconds :
           /\ StartRun(r) /\ started' = Append(started, [run |-> r, at |-> now])
           /\ ~HasRecord(r) /\ HasRecord(r)' /\ pc'[r] = "prompt"
<1>1. \E r \in Runs : StartRun(r)
  <2>1. CASE UserActs \/ UNCHANGED vars
    BY <2>1 DEF UserActs, vars
  <2>2. ASSUME NEW r \in Runs,
               AgentEdits(r) \/ Snapshot(r) \/ SnapshotLogGone(r) \/ AgentEnds(r) \/ Killed(r)
        PROVE  FALSE
    BY <2>2 DEF AgentEdits, Snapshot, SnapshotLogGone, AgentEnds, Killed
  <2>3. ASSUME NEW r \in Runs, RunStep(r) PROVE StartRun(r)
    <3>1. CASE Persists(r)
      BY <3>1 DEF Persists, PersistPhase, CopyPrompt, CheckingDirty, ReadingPreRunCommit,
         PreparingSandbox, RunningAgent, ReadingSnapshots, CommittingResult
    <3>2. CASE Repair(r)
      BY <3>2 DEF Repair, RecordLateError
    <3>3. CASE Lock(r) \/ Claim(r) \/ Setup(r) \/ EnsureWorktree(r) \/ CopyApprovals(r)
               \/ CreateArtifacts(r) \/ RefuseIfDirty(r) \/ PreRunCommit(r) \/ RunAgent(r) \/ AgentExit(r)
      BY <3>3 DEF Lock, Claim, Setup, EnsureWorktree, CopyApprovals, CreateArtifacts, RefuseIfDirty,
         PreRunCommit, RunAgent, AgentExit
    <3>4. CASE ReadSnapshots(r) \/ IsDirty(r) \/ CommitResult(r) \/ ChangedFiles(r) \/ TerminalRecord(r)
               \/ Summary(r) \/ AppendIndex(r) \/ ResultFile(r) \/ Emit(r)
      BY <3>4 DEF ReadSnapshots, IsDirty, CommitResult, ChangedFiles, TerminalRecord, Summary,
         AppendIndex, ResultFile, Emit
    <3>5. QED
      BY <2>3, <3>1, <3>2, <3>3, <3>4 DEF RunStep, Persists
  <2>4. QED
    BY <2>1, <2>2, <2>3 DEF Next
<1>2. PICK r \in Runs : StartRun(r)
  BY <1>1
<1>3. TypeOK /\ OneRun(r)
  BY DEF RunsInv
<1>4. PICK now \in Seconds : /\ started' = Append(started, [run |-> r, at |-> now])
                             /\ Goto(r, "prompt")
                             /\ files' = [files EXCEPT ![r].record = [Nothing EXCEPT !.phase = "preparing_artifacts"]]
  BY <1>2 DEF StartRun
<1>5. ~HasRecord(r)
  BY <1>2, <1>3 DEF StartRun, OneRun, RecordInv, Before, HasRecord, Nothing
<1>6. HasRecord(r)'
  <2>1. files'[r].record = [Nothing EXCEPT !.phase = "preparing_artifacts"]
    BY <1>3, <1>4, RecordAt
  <2>2. QED
    BY <2>1 DEF HasRecord, Record, Nothing
<1>7. pc'[r] = "prompt"
  BY <1>3, <1>4, GotoAt
<1>8. QED
  BY <1>2, <1>4, <1>5, <1>6, <1>7

LEMMA SeqFacts ==
  ASSUME NEW S, NEW s \in Seq(S)
  PROVE  DOMAIN s = 1 .. Len(s) /\ Len(s) \in Nat /\ \A i \in DOMAIN s : s[i] \in S
OBVIOUS

LEMMA AppendFacts ==
  ASSUME NEW S, NEW s \in Seq(S), NEW e \in S
  PROVE  /\ Len(s) \in Nat /\ Len(Append(s, e)) = Len(s) + 1
         /\ DOMAIN s = 1 .. Len(s) /\ DOMAIN Append(s, e) = 1 .. (Len(s) + 1)
         /\ \A i \in DOMAIN s : Append(s, e)[i] = s[i] /\ s[i] \in S
         /\ Append(s, e)[Len(s) + 1] = e
OBVIOUS

\* The seconds a run may start in are not before the last one's.
LEMMA SecondsGrow ==
  ASSUME TypeOK, started # <<>>, NEW now \in Seconds
  PROVE  now \in Nat /\ started[Len(started)].at \in Nat /\ started[Len(started)].at <= now
<1>1. started \in Seq([run : Runs, at : Nat])
  BY DEF TypeOK
<1>2. started[Len(started)] \in [run : Runs, at : Nat]
  BY <1>1, LastIn
<1>3. QED
  BY <1>2 DEF Seconds

LEMMA StartedStep == RunsInv /\ StartedInv /\ [Next]_vars => StartedInv'
<1>1. SUFFICES ASSUME RunsInv, StartedInv, [Next]_vars PROVE StartedInv'
  OBVIOUS
<1>2. TypeOK /\ started \in Seq([run : Runs, at : Nat])
  BY <1>1 DEF RunsInv, TypeOK
<1>3. /\ DOMAIN started = 1 .. Len(started) /\ Len(started) \in Nat
      /\ \A i \in DOMAIN started : started[i] \in [run : Runs, at : Nat]
  BY <1>2, SeqFacts
<1>4. \A r \in Runs : HasRecord(r) => HasRecord(r)'
  BY <1>1, AllStays DEF RecordStays
<1>5. CASE started' = started
  BY <1>1, <1>3, <1>4, <1>5 DEF StartedInv, Newer
<1>6. CASE started' # started
  <2>1. PICK r \in Runs, now \in Seconds :
          /\ started' = Append(started, [run |-> r, at |-> now])
          /\ ~HasRecord(r) /\ HasRecord(r)'
    BY <1>1, <1>6, StartShape
  <2> DEFINE e == [run |-> r, at |-> now]
             n == Len(started) + 1
  <2>2. now \in Nat /\ e \in [run : Runs, at : Nat]
    BY <1>2, SecondsTyped
  <2>3. /\ DOMAIN started' = 1 .. n /\ Len(started') = n
        /\ \A i \in DOMAIN started : started'[i] = started[i]
        /\ started'[n] = e
    BY <1>2, <2>1, <2>2, AppendFacts
  <2>4. \A i \in DOMAIN started' : i = n \/ i \in DOMAIN started
    BY <1>3, <2>3
  <2>5. n \notin DOMAIN started /\ n \in DOMAIN started' /\ DOMAIN started \subseteq DOMAIN started'
    BY <1>3, <2>3
  <2>6. \A i \in DOMAIN started : /\ HasRecord(started[i].run) /\ started[i].run # r
                                  /\ started[i].run \in Runs /\ started[i].at \in Nat
                                  /\ started[i].at <= now
    <3>1. \A i \in DOMAIN started : /\ HasRecord(started[i].run) /\ started[i].run # r
                                    /\ started[i].run \in Runs /\ started[i].at \in Nat
      BY <1>1, <1>3, <2>1 DEF StartedInv
    <3>2. ASSUME NEW i \in DOMAIN started PROVE started[i].at <= now
      <4>1. started # <<>>
        BY <1>3, <3>2
      <4>2. started[Len(started)].at \in Nat /\ started[Len(started)].at <= now
        BY <1>2, <4>1, SecondsGrow
      <4>3. started[i].at <= started[Len(started)].at
        BY <1>1 DEF StartedInv
      <4>4. QED
        BY <2>2, <3>1, <4>2, <4>3
    <3>3. QED
      BY <3>1, <3>2
  <2>7. \A i \in DOMAIN started' : files'[started'[i].run].record.phase # "none"
    BY <1>4, <2>1, <2>3, <2>4, <2>6 DEF HasRecord, Record
  <2>8. \A i, j \in DOMAIN started' : started'[i].run = started'[j].run => i = j
    BY <1>1, <2>3, <2>4, <2>6 DEF StartedInv
  <2>9. \A i \in DOMAIN started' : started'[i].at <= started'[Len(started')].at
    BY <2>2, <2>3, <2>4, <2>6
  <2>10. \E i \in DOMAIN started' : \A j \in DOMAIN started' \ {i} : Newer(started'[i], started'[j])
    <3>1. CASE started = <<>>
      <4>1. DOMAIN started' = {n}
        BY <1>3, <2>3, <3>1
      <4>2. QED
        BY <4>1
    <3>2. CASE started # <<>>
      <4>1. PICK i \in DOMAIN started : \A j \in DOMAIN started \ {i} : Newer(started[i], started[j])
        BY <1>1, <3>2 DEF StartedInv
      <4>2. /\ PathRank[r] \in Nat /\ PathRank[started[i].run] \in Nat
            /\ PathRank[r] # PathRank[started[i].run]
        BY <2>6, VibeAssumption
      <4>3. \A j \in DOMAIN started : PathRank[started[j].run] \in Nat
        BY <2>6, VibeAssumption
      <4>4. CASE Newer(started[i], e)
        BY <2>3, <2>4, <2>5, <4>1, <4>4
      <4>5. CASE Newer(e, started[i])
        <5>1. \A j \in DOMAIN started : Newer(e, started[j])
          BY <2>2, <2>6, <4>1, <4>2, <4>3, <4>5 DEF Newer
        <5>2. QED
          BY <2>3, <2>4, <2>5, <5>1
      <4>6. Newer(started[i], e) \/ Newer(e, started[i])
        BY <2>2, <2>6, <4>2 DEF Newer
      <4>7. QED
        BY <4>4, <4>5, <4>6
    <3>3. QED
      BY <3>1, <3>2
  <2>11. QED
    BY <2>7, <2>8, <2>9, <2>10 DEF StartedInv, HasRecord, Record, Newer
<1>7. QED
  BY <1>5, <1>6

LEMMA StartedInit == Init => StartedInv
BY DEF Init, StartedInv

LEMMA StartedAlways == Spec => [](RunsInv /\ StartedInv)
<1>1. Init => RunsInv /\ StartedInv
  BY RunsInit, StartedInit
<1>2. RunsInv /\ StartedInv /\ [Next]_vars => (RunsInv /\ StartedInv)'
  BY RunsStep, StartedStep
<1>3. QED
  BY <1>1, <1>2, PTL DEF Spec

\* `vibe status` shows the run that started last, or one of the same second, with
\* runs killed anywhere and an index that misses some of them: every run that started
\* has a record, and of any runs one is the newest by second and path.
THEOREM StatusShowsTheNewest == Spec => []StatusIsNewest
<1>1. RunsInv /\ StartedInv => StatusIsNewest
  <2>1. SUFFICES ASSUME RunsInv, StartedInv, started # <<>>
                 PROVE  \E i \in DOMAIN started : /\ started[i].run = Latest
                                                  /\ started[i].at = started[Len(started)].at
    BY DEF StatusIsNewest
  <2>2. started \in Seq([run : Runs, at : Nat])
    BY <2>1 DEF RunsInv, TypeOK
  <2>3. /\ DOMAIN started = 1 .. Len(started) /\ Len(started) \in DOMAIN started
        /\ \A i \in DOMAIN started : started[i].run \in Runs /\ started[i].at \in Nat
    <3>1. \A i \in DOMAIN started : started[i] \in [run : Runs, at : Nat]
      BY <2>2, SeqFacts
    <3>2. QED
      BY <2>1, <2>2, <3>1, LastIn, SeqFacts
  <2> DEFINE all == {i \in DOMAIN started : started[i].run \in index \cup {r \in Runs : HasRecord(r)}}
             best == CHOOSE i \in all : \A j \in all \ {i} : Newer(started[i], started[j])
  <2>4. all = DOMAIN started
    BY <2>1, <2>3 DEF StartedInv
  <2>5. \E i \in all : \A j \in all \ {i} : Newer(started[i], started[j])
    BY <2>1, <2>4 DEF StartedInv
  <2>6. best \in all /\ \A j \in all \ {best} : Newer(started[best], started[j])
    BY <2>5
  <2>7. Latest = started[best].run
    BY <2>3, <2>4 DEF Latest, NewestOf
  <2> HIDE DEF all, best
  <2>8. started[best].at <= started[Len(started)].at
    BY <2>1, <2>4, <2>6 DEF StartedInv
  <2>9. best = Len(started) \/ started[best].at >= started[Len(started)].at
    BY <2>3, <2>4, <2>6 DEF Newer
  <2>10. QED
    BY <2>3, <2>4, <2>6, <2>7, <2>8, <2>9
<1>2. QED
  BY <1>1, StartedAlways, PTL

-----------------------------------------------------------------------------
\* The lock and the key of the slug.

\* How a run's step uses the lock: it takes it when it is free, goes on with it, or
\* gives it back.
LEMMA PersistShape ==
  ASSUME TypeOK, NEW r \in Runs, NEW here \in Stages, NEW phase, NEW next \in Stages,
         PersistPhase(r, here, phase, next)
  PROVE  /\ pc[r] \in Stages /\ UNCHANGED <<lock, key, started>>
         /\ pc'[r] \in Stages \cup {"terminal"}
BY GotoAt DEF PersistPhase, Fail

Takes(r) == pc[r] = "idle" /\ lock = NoRun /\ lock' = r /\ pc'[r] = "claim" /\ UNCHANGED <<key, started>>
Without(r) == pc[r] = "idle" /\ pc'[r] = "emit" /\ UNCHANGED <<lock, key, started>>
GivesBack(r) == /\ pc[r] = "emit" /\ pc'[r] = "done" /\ lock' = (IF lock = r THEN NoRun ELSE lock)
                /\ UNCHANGED <<key, started>>
With(r) ==
  /\ pc[r] \in InRun /\ lock' = lock
  /\ pc'[r] \in InRun \cup {"emit"} /\ pc'[r] # "claim"
  /\ \/ UNCHANGED <<key, started>> /\ (pc'[r] \in Stages => pc[r] \in Stages)
        /\ (pc[r] = "claim" => pc'[r] = "emit" \/ key = KeyOf[r])
     \/ pc[r] = "claim" /\ key \in {NoRun, KeyOf[r]} /\ key' = KeyOf[r] /\ UNCHANGED started
        /\ pc'[r] = "setup"
     \/ pc[r] = "start" /\ UNCHANGED key /\ \E now \in Seconds : started' = Append(started, [run |-> r, at |-> now])

LEMMA StepShape ==
  ASSUME TypeOK, NEW r \in Runs, RunStep(r)
  PROVE  Takes(r) \/ Without(r) \/ With(r) \/ GivesBack(r)
<1>1. CASE Lock(r)
  BY <1>1, GotoAt DEF Lock, SetupError, Takes, Without
<1>2. CASE Emit(r)
  BY <1>2, GotoAt DEF Emit, GivesBack
<1>3. CASE Claim(r)
  BY <1>3, GotoAt DEF Claim, SetupError, With, InRun, Before, Stages, AfterPre, Ending
<1>4. CASE Setup(r) \/ EnsureWorktree(r) \/ CopyApprovals(r) \/ CreateArtifacts(r)
  BY <1>4, GotoAt DEF Setup, EnsureWorktree, CopyApprovals, CreateArtifacts, SetupError, With, InRun,
     Before, Stages, AfterPre, Ending
<1>5. CASE StartRun(r)
  <2>1. pc[r] = "start" /\ UNCHANGED <<lock, key>>
    BY <1>5 DEF StartRun
  <2>2. CASE pc'[r] = "result" /\ UNCHANGED started
    BY <2>1, <2>2 DEF With, InRun, Before, Stages, AfterPre, Ending
  <2>3. CASE pc'[r] = "prompt" /\ \E now \in Seconds : started' = Append(started, [run |-> r, at |-> now])
    BY <2>1, <2>3 DEF With, InRun, Before, Stages, AfterPre, Ending
  <2>4. QED
    BY <1>5, <2>2, <2>3, GotoAt DEF StartRun
<1>6. CASE Persists(r)
  <2>1. /\ pc[r] \in Stages /\ UNCHANGED <<lock, key, started>>
        /\ pc'[r] \in Stages \cup {"terminal"}
    BY <1>6, PersistShape DEF Persists, CopyPrompt, CheckingDirty, ReadingPreRunCommit,
       PreparingSandbox, RunningAgent, ReadingSnapshots, CommittingResult, Stages, AfterPre
  <2>2. QED
    BY <2>1 DEF With, InRun, Before, Stages, AfterPre, Ending
<1>7. CASE RefuseIfDirty(r) \/ PreRunCommit(r) \/ RunAgent(r) \/ AgentExit(r) \/ ReadSnapshots(r)
           \/ IsDirty(r) \/ CommitResult(r) \/ ChangedFiles(r)
  <2>1. pc[r] \in Stages /\ UNCHANGED <<lock, key, started>>
    BY <1>7 DEF RefuseIfDirty, PreRunCommit, RunAgent, AgentExit, ReadSnapshots, IsDirty, CommitResult,
       ChangedFiles, Stages, AfterPre
  <2>2. pc'[r] \in Stages \cup {"terminal"}
    BY <1>7, GotoAt DEF RefuseIfDirty, PreRunCommit, RunAgent, AgentExit, ReadSnapshots, IsDirty,
       CommitResult, ChangedFiles, Fail, Stages, AfterPre
  <2>3. QED
    BY <2>1, <2>2 DEF With, InRun, Before, Stages, AfterPre, Ending
<1>8. CASE TerminalRecord(r) \/ Summary(r) \/ AppendIndex(r) \/ ResultFile(r)
  BY <1>8, GotoAt DEF TerminalRecord, Summary, AppendIndex, ResultFile, With, InRun, Before, Stages,
     AfterPre, Ending
<1>9. CASE Repair(r)
  <2>1. pc[r] \in Ending /\ pc'[r] \in Ending \cup {"emit"} /\ UNCHANGED <<lock, key, started>>
    BY <1>9, LateAt DEF Repair, RecordLateError, Ending
  <2>2. QED
    BY <2>1 DEF With, InRun, Before, Stages, AfterPre, Ending
<1>10. QED
  BY <1>1, <1>2, <1>3, <1>4, <1>5, <1>6, <1>7, <1>8, <1>9 DEF RunStep, Persists

OwnerInv == LockInv /\ KeyInv

LEMMA LastAppended ==
  ASSUME TypeOK, NEW r \in Runs, NEW now \in Seconds, started' = Append(started, [run |-> r, at |-> now])
  PROVE  LastStarted(r)'
<1>1. started \in Seq([run : Runs, at : Nat]) /\ [run |-> r, at |-> now] \in [run : Runs, at : Nat]
  BY SecondsTyped DEF TypeOK
<1>2. /\ Len(started) \in Nat /\ Len(started') = Len(started) + 1
      /\ started'[Len(started) + 1] = [run |-> r, at |-> now]
      /\ DOMAIN started' = 1 .. (Len(started) + 1)
  BY <1>1, AppendFacts
<1>3. started' # <<>>
  BY <1>2
<1>4. QED
  BY <1>2, <1>3 DEF LastStarted

\* The keys of the runs that started, when one more starts or none.
LEMMA KeysKept ==
  ASSUME TypeOK, NEW k, \A i \in DOMAIN started : KeyOf[started[i].run] = k,
         \/ started' = started
         \/ \E r \in Runs : \E now \in Seconds :
              started' = Append(started, [run |-> r, at |-> now]) /\ KeyOf[r] = k
  PROVE  \A i \in DOMAIN started' : KeyOf[started'[i].run] = k
<1>1. CASE started' = started
  BY <1>1
<1>2. CASE \E r \in Runs : \E now \in Seconds :
             started' = Append(started, [run |-> r, at |-> now]) /\ KeyOf[r] = k
  <2>1. PICK r \in Runs, now \in Seconds :
          started' = Append(started, [run |-> r, at |-> now]) /\ KeyOf[r] = k
    BY <1>2
  <2>2. started \in Seq([run : Runs, at : Nat]) /\ [run |-> r, at |-> now] \in [run : Runs, at : Nat]
    BY SecondsTyped DEF TypeOK
  <2>3. /\ DOMAIN started = 1 .. Len(started) /\ DOMAIN started' = 1 .. (Len(started) + 1)
        /\ Len(started) \in Nat
        /\ \A i \in DOMAIN started : started'[i] = started[i]
        /\ started'[Len(started) + 1] = [run |-> r, at |-> now]
    BY <2>1, <2>2, AppendFacts
  <2>4. \A i \in DOMAIN started' : i \in DOMAIN started \/ i = Len(started) + 1
    BY <2>3
  <2>5. started'[Len(started) + 1].run = r
    BY <2>3
  <2>6. ASSUME NEW i \in DOMAIN started' PROVE KeyOf[started'[i].run] = k
    <3>1. CASE i \in DOMAIN started
      BY <2>3, <3>1
    <3>2. CASE i = Len(started) + 1
      BY <2>1, <2>5, <3>2
    <3>3. QED
      BY <2>4, <3>1, <3>2
  <2>7. QED
    BY <2>6
<1>3. QED
  BY <1>1, <1>2

LEMMA OwnerStep == RunsInv /\ OwnerInv /\ [Next]_vars => OwnerInv'
<1>1. SUFFICES ASSUME RunsInv, OwnerInv, [Next]_vars PROVE OwnerInv'
  OBVIOUS
<1>2. TypeOK /\ NoRun \notin Runs
  BY <1>1, VibeAssumption DEF RunsInv
<1>3. ASSUME NEW s \in Runs, RunStep(s) PROVE OwnerInv'
  <2>1. Takes(s) \/ Without(s) \/ With(s) \/ GivesBack(s)
    BY <1>2, <1>3, StepShape
  <2>2. \A q \in Runs \ {s} : pc'[q] = pc[q]
    BY <1>2, <1>3, StepApart DEF Apart
  <2>3. \A q \in Runs : pc[q] \in InRun => lock = q
    BY <1>1 DEF OwnerInv, LockInv
  <2>4. "idle" \notin InRun /\ "emit" \notin InRun /\ "done" \notin InRun /\ "claim" \notin Stages
        /\ Stages \subseteq InRun
    BY DEF InRun, Before, Stages, AfterPre, Ending
  <2>5. \A q \in Runs : pc'[q] \in InRun => lock' = q
    BY <1>2, <2>1, <2>2, <2>3, <2>4 DEF Takes, Without, With, GivesBack
  <2>6. \A q \in Runs : pc'[q] \in Stages => LastStarted(q)'
    <3>1. SUFFICES ASSUME NEW q \in Runs, pc'[q] \in Stages PROVE LastStarted(q)'
      OBVIOUS
    <3>2. CASE ~(With(s) /\ \E now \in Seconds : started' = Append(started, [run |-> s, at |-> now]))
      <4>1. started' = started
        BY <2>1, <3>2 DEF Takes, Without, With, GivesBack
      <4>2. CASE q = s
        <5>1. CASE UNCHANGED <<key, started>> /\ (pc'[s] \in Stages => pc[s] \in Stages)
          BY <1>1, <3>1, <4>1, <4>2, <5>1 DEF OwnerInv, LockInv, LastStarted
        <5>2. CASE pc'[s] \in {"claim", "emit", "done", "setup"}
          BY <3>1, <4>2, <5>2 DEF Stages, AfterPre
        <5>3. QED
          BY <2>1, <3>2, <5>1, <5>2 DEF Takes, Without, With, GivesBack
      <4>3. CASE q # s
        BY <1>1, <2>2, <3>1, <4>1, <4>3 DEF OwnerInv, LockInv, LastStarted
      <4>4. QED
        BY <4>2, <4>3
    <3>3. CASE With(s) /\ \E now \in Seconds : started' = Append(started, [run |-> s, at |-> now])
      <4>1. q = s
        BY <2>2, <2>3, <2>4, <3>1, <3>3 DEF With
      <4>2. QED
        BY <1>2, <3>3, <4>1, LastAppended
    <3>4. QED
      BY <3>2, <3>3
  <2>7. \A q \in Runs : pc'[q] \in InRun \ {"claim"} => key' = KeyOf[q]
    <3>1. SUFFICES ASSUME NEW q \in Runs, pc'[q] \in InRun \ {"claim"} PROVE key' = KeyOf[q]
      OBVIOUS
    <3>2. \A p \in Runs : pc[p] \in InRun \ {"claim"} => key = KeyOf[p]
      BY <1>1 DEF OwnerInv, KeyInv
    <3>3. CASE q = s
      BY <2>1, <2>4, <3>1, <3>2, <3>3 DEF Takes, Without, With, GivesBack
    <3>4. CASE q # s
      <4>1. pc[q] \in InRun \ {"claim"} /\ key = KeyOf[q]
        BY <2>2, <3>1, <3>2, <3>4
      <4>2. ~With(s)
        BY <2>3, <3>4, <4>1 DEF With
      <4>3. QED
        BY <2>1, <4>1, <4>2 DEF Takes, Without, GivesBack
    <3>5. QED
      BY <3>3, <3>4
  <2>8. \A i \in DOMAIN started' : KeyOf[started'[i].run] = key'
    <3>1. \A i \in DOMAIN started : KeyOf[started[i].run] = key
      BY <1>1 DEF OwnerInv, KeyInv
    <3>2. CASE key' = key
      <4>1. \/ started' = started
            \/ \E now \in Seconds : started' = Append(started, [run |-> s, at |-> now]) /\ KeyOf[s] = key
        <5>1. pc[s] = "start" => key = KeyOf[s]
          BY <1>1 DEF OwnerInv, KeyInv, InRun, Before
        <5>2. QED
          BY <2>1, <5>1 DEF Takes, Without, With, GivesBack
      <4>2. QED
        BY <1>2, <3>1, <3>2, <4>1, KeysKept
    <3>3. CASE key' # key
      <4>1. key = NoRun /\ started' = started
        BY <2>1, <3>3 DEF Takes, Without, With, GivesBack
      <4>2. \A i \in DOMAIN started : started[i].run \in Runs
        <5>1. \A i \in DOMAIN started : started[i] \in [run : Runs, at : Nat]
          BY <1>2, SeqFacts DEF TypeOK
        <5>2. QED
          BY <5>1
      <4>3. DOMAIN started = {}
        BY <3>1, <4>1, <4>2, VibeAssumption
      <4>4. QED
        BY <4>1, <4>3
    <3>4. QED
      BY <3>2, <3>3
  <2>9. QED
    BY <2>5, <2>6, <2>7, <2>8 DEF OwnerInv, LockInv, KeyInv
<1>4. ASSUME NEW s \in Runs, Killed(s) PROVE OwnerInv'
  <2>1. pc'[s] = "dead" /\ \A q \in Runs \ {s} : pc'[q] = pc[q]
    BY <1>2, <1>4, GotoAt DEF Killed
  <2>2. lock' = (IF lock = s THEN NoRun ELSE lock) /\ UNCHANGED <<key, started>>
    BY <1>4 DEF Killed
  <2>3. "dead" \notin InRun /\ "dead" \notin Stages
    BY DEF InRun, Before, Stages, AfterPre, Ending
  <2>4. QED
    BY <1>1, <2>1, <2>2, <2>3 DEF OwnerInv, LockInv, KeyInv, LastStarted
<1>5. ASSUME UNCHANGED <<lock, key, pc, started>> PROVE OwnerInv'
  BY <1>1, <1>5 DEF OwnerInv, LockInv, KeyInv, LastStarted
<1>6. ASSUME NEW s \in Runs, AgentEdits(s) \/ Snapshot(s) \/ SnapshotLogGone(s) \/ AgentEnds(s)
      PROVE  OwnerInv'
  BY <1>5, <1>6 DEF AgentEdits, Snapshot, SnapshotLogGone, AgentEnds
<1>7. CASE UserActs \/ UNCHANGED vars
  BY <1>5, <1>7 DEF UserActs, vars
<1>8. QED
  BY <1>1, <1>3, <1>4, <1>6, <1>7 DEF Next

LEMMA OwnerInit == Init => OwnerInv
BY DEF Init, OwnerInv, LockInv, KeyInv, InRun, Before, Stages, AfterPre, Ending

LEMMA OwnerAlways == Spec => [](RunsInv /\ OwnerInv)
<1>1. Init => RunsInv /\ OwnerInv
  BY RunsInit, OwnerInit
<1>2. RunsInv /\ OwnerInv /\ [Next]_vars => (RunsInv /\ OwnerInv)'
  BY RunsStep, OwnerStep
<1>3. QED
  BY <1>1, <1>2, PTL DEF Spec

\* Runs whose keys make one slug but differ never both start, also when vibe is killed
\* anywhere and its container goes on.
THEOREM OneKeyHasTheSlug == Spec => []OneKeyPerSlug
<1>1. OwnerInv => OneKeyPerSlug
  BY DEF OwnerInv, KeyInv, OneKeyPerSlug
<1>2. QED
  BY <1>1, OwnerAlways, PTL

-----------------------------------------------------------------------------
\* The agent, the worktree, the branch and the result commits, while no container
\* outlives its vibe.

\* A step that leaves the branch and the worktree, and does not end the agent's turn.
LEMMA SlugKept ==
  ASSUME NEW r \in Runs, SlugOf(r), UNCHANGED <<log, head, dirty, started>>,
         agent'[r] = agent[r] \/ agent'[r] # "runs", agent[r] = "runs" => pc'[r] = "wait" \/ agent'[r] # "runs",
         out'[r].pre = out[r].pre, out'[r].commit = out[r].commit, out'[r].snaps = out[r].snaps,
         files'[r].snaps = files[r].snaps,
         pc'[r] \in ToCommit => pc[r] \in ToCommit \/ dirty = {},
         pc'[r] \in {"phase_commit", "commit"} => pc[r] \in {"phase_commit", "commit"},
         pc'[r] \in Prepared => pc[r] \in Prepared,
         pc'[r] \in WithAgent => pc[r] \in Prepared \cup WithAgent,
         pc'[r] \in ToResult => pc[r] \in ToResult,
         pc'[r] \in AfterResult => \/ out'[r].status \notin AtEnd
                                   \/ pc[r] \in AfterResult /\ out'[r].status = out[r].status
  PROVE  SlugOf(r)'
<1>1. AgentInv(r)'
  BY DEF SlugOf, AgentInv
<1>2. DirtyInv(r)'
  BY DEF SlugOf, DirtyInv
<1>3. HeadInv(r)'
  BY DEF SlugOf, HeadInv, LastStarted
<1>4. CommitInv(r)'
  BY DEF SlugOf, CommitInv
<1>5. QED
  BY <1>1, <1>2, <1>3, <1>4 DEF SlugOf

\* Before the record nothing but the worktree changes.
LEMMA BeforeSlug ==
  ASSUME TypeOK, NEW r \in Runs, SlugOf(r),
         Lock(r) \/ Claim(r) \/ Setup(r) \/ EnsureWorktree(r) \/ CopyApprovals(r) \/ CreateArtifacts(r)
  PROVE  SlugOf(r)'
<1>1. UNCHANGED <<log, head, dirty, started, agent>>
  BY DEF Lock, Claim, Setup, EnsureWorktree, CopyApprovals, CreateArtifacts, git
<1>2. files'[r].snaps = files[r].snaps
  BY SnaplogAt DEF Lock, Claim, Setup, EnsureWorktree, CopyApprovals, CreateArtifacts
<1>3. /\ out'[r].pre = out[r].pre /\ out'[r].commit = out[r].commit /\ out'[r].snaps = out[r].snaps
      /\ \/ pc'[r] \in {"claim", "setup", "worktree", "approvals", "artifacts", "start"}
         \/ pc'[r] = "emit" /\ out'[r].status = "setup_error"
      /\ pc[r] # "wait"
  BY GotoAt, GiveAt DEF Lock, Claim, Setup, EnsureWorktree, CopyApprovals, CreateArtifacts, SetupError
<1>4. agent[r] # "runs"
  BY <1>3 DEF SlugOf, AgentInv
<1>5. QED
  BY <1>1, <1>2, <1>3, <1>4, SlugKept DEF ToCommit, AfterPre, Prepared, WithAgent, ToResult, AfterResult,
     Ending, AtEnd

LEMMA StartSlug ==
  ASSUME TypeOK, NEW r \in Runs, SlugOf(r), StartRun(r)
  PROVE  SlugOf(r)'
<1>1. UNCHANGED <<log, head, dirty, agent>> /\ pc[r] = "start"
  BY DEF StartRun, git
<1>2. /\ out'[r].pre = out[r].pre /\ out'[r].commit = out[r].commit /\ out'[r].snaps = out[r].snaps
      /\ \/ pc'[r] = "prompt"
         \/ pc'[r] = "result" /\ out'[r].status = "wrapper_failed"
  BY GotoAt, GiveAt DEF StartRun
<1>3. agent[r] # "runs"
  BY <1>1 DEF SlugOf, AgentInv
<1>4. QED
  BY <1>1, <1>2, <1>3 DEF SlugOf, AgentInv, DirtyInv, HeadInv, CommitInv, ToCommit, AfterPre, Prepared,
     WithAgent, ToResult, AfterResult, Ending, AtEnd

LEMMA PersistSlug ==
  ASSUME TypeOK, NEW r \in Runs, SlugOf(r), NEW here \in Stages, NEW phase, NEW next \in Stages,
         here # "wait", next # "changed",
         next \in ToCommit => here \in ToCommit,
         next \in {"phase_commit", "commit"} => here \in {"phase_commit", "commit"},
         next \in Prepared => here \in Prepared,
         next \in WithAgent => here \in WithAgent,
         next \in ToResult => here \in ToResult,
         PersistPhase(r, here, phase, next)
  PROVE  SlugOf(r)'
<1>1. UNCHANGED <<log, head, dirty, started, agent>> /\ pc[r] = here
  BY DEF PersistPhase, git
<1>2. files'[r].snaps = files[r].snaps
  BY PhaseAt DEF PersistPhase
<1>3. /\ out'[r].pre = out[r].pre /\ out'[r].commit = out[r].commit /\ out'[r].snaps = out[r].snaps
      /\ \/ pc'[r] = next
         \/ pc'[r] = "terminal" /\ out'[r].status = "wrapper_failed"
  BY GotoAt, GiveAt DEF PersistPhase, Fail
<1>4. agent[r] # "runs"
  BY <1>1 DEF SlugOf, AgentInv
<1>5. next \notin AfterResult
  BY DEF AfterResult, Ending, Stages, AfterPre
<1>6. "terminal" \notin ToCommit \cup Prepared \cup WithAgent \cup ToResult /\ "wrapper_failed" \notin AtEnd
  BY DEF ToCommit, AfterPre, Prepared, WithAgent, ToResult, AtEnd
<1>7. QED
  BY <1>1, <1>2, <1>3, <1>4, <1>5, <1>6, SlugKept

LEMMA PersistsSlug ==
  ASSUME TypeOK, NEW r \in Runs, SlugOf(r), Persists(r)
  PROVE  SlugOf(r)'
<1> USE DEF Stages, ToCommit, AfterPre, Prepared, WithAgent, ToResult
<1>1. CASE CopyPrompt(r)
  BY <1>1, PersistSlug DEF CopyPrompt
<1>2. CASE CheckingDirty(r)
  BY <1>2, PersistSlug DEF CheckingDirty
<1>3. CASE ReadingPreRunCommit(r)
  BY <1>3, PersistSlug DEF ReadingPreRunCommit
<1>4. CASE PreparingSandbox(r)
  BY <1>4, PersistSlug DEF PreparingSandbox
<1>5. CASE RunningAgent(r)
  BY <1>5, PersistSlug DEF RunningAgent
<1>6. CASE ReadingSnapshots(r)
  BY <1>6, PersistSlug DEF ReadingSnapshots
<1>7. CASE CommittingResult(r)
  BY <1>7, PersistSlug DEF CommittingResult
<1>8. QED
  BY <1>1, <1>2, <1>3, <1>4, <1>5, <1>6, <1>7 DEF Persists

\* A stage that fails.
LEMMA FailSlug ==
  ASSUME TypeOK, NEW r \in Runs, SlugOf(r), NEW x, x \notin AtEnd, Fail(r, x),
         agent[r] # "runs", UNCHANGED <<log, head, dirty, started, agent, files>>
  PROVE  SlugOf(r)'
<1>1. /\ out'[r].pre = out[r].pre /\ out'[r].commit = out[r].commit /\ out'[r].snaps = out[r].snaps
      /\ pc'[r] = "terminal" /\ out'[r].status = x
  BY GotoAt, GiveAt DEF Fail
<1>2. QED
  BY <1>1, SlugKept DEF ToCommit, AfterPre, Prepared, WithAgent, ToResult

LEMMA StagesSlug ==
  ASSUME TypeOK, NEW r \in Runs, SlugOf(r), RefuseIfDirty(r) \/ RunAgent(r) \/ AgentExit(r)
  PROVE  SlugOf(r)'
<1>1. UNCHANGED <<log, head, dirty, started, files>>
  BY DEF RefuseIfDirty, RunAgent, AgentExit, git
<1>2. agent[r] # "runs"
  BY DEF RefuseIfDirty, RunAgent, AgentExit, SlugOf, AgentInv
<1>3. CASE \E x \in {"refused_dirty", "wrapper_failed"} : Fail(r, x) /\ UNCHANGED agent
  BY <1>1, <1>2, <1>3, FailSlug DEF AtEnd
<1>4. CASE RefuseIfDirty(r) /\ dirty = {} /\ Goto(r, "reading") /\ UNCHANGED out
  <2>1. pc'[r] = "reading" /\ UNCHANGED agent
    BY <1>4, GotoAt DEF RefuseIfDirty
  <2>2. QED
    BY <1>1, <1>2, <1>4, <2>1, SlugKept DEF Prepared, WithAgent, ToResult, AfterResult, Ending
<1>5. CASE RunAgent(r) /\ Goto(r, "wait") /\ UNCHANGED out
  <2>1. pc'[r] = "wait" /\ pc[r] = "spawn"
    BY <1>5, GotoAt DEF RunAgent
  <2>2. DirtyInv(r)' /\ CommitInv(r)'
    BY <1>1, <1>5, <2>1 DEF SlugOf, DirtyInv, CommitInv, ToCommit, AfterPre
  <2>3. HeadInv(r)'
    BY <1>1, <1>5, <2>1 DEF SlugOf, HeadInv, Prepared, WithAgent, ToResult, AfterResult, Ending
  <2>4. QED
    BY <2>1, <2>2, <2>3 DEF SlugOf, AgentInv
<1>6. CASE AgentExit(r) /\ Goto(r, "snapshots") /\ UNCHANGED out
  <2>1. pc'[r] = "snapshots" /\ pc[r] = "wait" /\ UNCHANGED agent
    BY <1>6, GotoAt DEF AgentExit
  <2>2. QED
    BY <1>1, <1>2, <1>6, <2>1, SlugKept DEF ToCommit, AfterPre, Prepared, WithAgent, ToResult,
       AfterResult, Ending
<1>7. QED
  BY <1>3, <1>4, <1>5, <1>6 DEF RefuseIfDirty, RunAgent, AgentExit

LEMMA PreSlug ==
  ASSUME TypeOK, NEW r \in Runs, SlugOf(r), PreRunCommit(r)
  PROVE  SlugOf(r)'
<1>1. UNCHANGED <<log, head, dirty, started, agent>> /\ pc[r] = "pre"
  BY DEF PreRunCommit, git
<1>2. agent[r] # "runs"
  BY <1>1 DEF SlugOf, AgentInv
<1>3. CASE out' = [out EXCEPT ![r].pre = head] /\ Goto(r, "sandbox")
  <2>1. out'[r] = [out[r] EXCEPT !.pre = head] /\ out[r] \in View
    BY <1>3 DEF TypeOK
  <2>2. out'[r].pre = head /\ out'[r].commit = out[r].commit /\ pc'[r] = "sandbox"
    BY <1>3, <2>1, GotoAt DEF View
  <2>3. QED
    BY <1>1, <1>2, <2>2 DEF SlugOf, AgentInv, DirtyInv, HeadInv, CommitInv, ToCommit, AfterPre,
       Prepared, WithAgent, ToResult, AfterResult, Ending
<1>4. CASE Fail(r, "wrapper_failed") /\ UNCHANGED files
  BY <1>1, <1>2, <1>4, FailSlug DEF AtEnd
<1>5. QED
  BY <1>3, <1>4 DEF PreRunCommit

LEMMA ReadSlug ==
  ASSUME TypeOK, NEW r \in Runs, SlugOf(r), ReadSnapshots(r)
  PROVE  SlugOf(r)'
<1>1. UNCHANGED <<log, head, dirty, started, agent, files>> /\ pc[r] = "snaplog"
  BY DEF ReadSnapshots, git
<1>2. agent[r] # "runs"
  BY <1>1 DEF SlugOf, AgentInv
<1>3. CASE out' = [out EXCEPT ![r].snaps = files[r].snaps] /\ Goto(r, "is_dirty")
  <2>1. out'[r] = [out[r] EXCEPT !.snaps = files[r].snaps] /\ out[r] \in View
    BY <1>3 DEF TypeOK
  <2>2. /\ out'[r].pre = out[r].pre /\ out'[r].commit = out[r].commit /\ pc'[r] = "is_dirty"
        /\ out'[r].snaps = files[r].snaps
    BY <1>3, <2>1, GotoAt DEF View
  <2>3. QED
    BY <1>1, <1>2, <2>2 DEF SlugOf, AgentInv, DirtyInv, HeadInv, CommitInv, ToCommit, AfterPre,
       Prepared, WithAgent, ToResult, AfterResult, Ending
<1>4. CASE Fail(r, "snapshot_failed")
  BY <1>1, <1>2, <1>4, FailSlug DEF AtEnd
<1>5. QED
  BY <1>3, <1>4 DEF ReadSnapshots

LEMMA IsDirtySlug ==
  ASSUME TypeOK, NEW r \in Runs, SlugOf(r), IsDirty(r)
  PROVE  SlugOf(r)'
<1>1. UNCHANGED <<log, head, dirty, started, agent, files>> /\ pc[r] = "is_dirty"
  BY DEF IsDirty, git
<1>2. agent[r] # "runs"
  BY <1>1 DEF SlugOf, AgentInv
<1>3. CASE Give(r, Clean(r)) /\ Goto(r, "terminal")
  <2>1. /\ out'[r].pre = out[r].pre /\ out'[r].commit = out[r].commit /\ out'[r].snaps = out[r].snaps
        /\ pc'[r] = "terminal"
    BY <1>3, GotoAt, GiveAt
  <2>2. QED
    BY <1>1, <1>2, <2>1 DEF SlugOf, AgentInv, DirtyInv, HeadInv, CommitInv, ToCommit, AfterPre,
       Prepared, WithAgent, ToResult, AfterResult, Ending
<1>4. CASE dirty # {} /\ Goto(r, "phase_commit") /\ UNCHANGED out
  <2>1. pc'[r] = "phase_commit"
    BY <1>4, GotoAt
  <2>2. QED
    BY <1>1, <1>2, <1>4, <2>1 DEF SlugOf, AgentInv, DirtyInv, HeadInv, CommitInv, ToCommit, AfterPre,
       Prepared, WithAgent, ToResult, AfterResult, Ending
<1>5. CASE Fail(r, "wrapper_failed")
  BY <1>1, <1>2, <1>5, FailSlug DEF AtEnd
<1>6. QED
  BY <1>3, <1>4, <1>5 DEF IsDirty

\* The result commit holds the worktree's changes, which are the run's own.
LEMMA ResultSlug ==
  ASSUME TypeOK, NEW r \in Runs, SlugOf(r), CommitResult(r)
  PROVE  SlugOf(r)'
<1>1. UNCHANGED <<started, agent, files>> /\ pc[r] = "commit" /\ pc'[r] = "changed"
  BY GotoAt DEF CommitResult
<1>2. agent[r] # "runs"
  BY <1>1 DEF SlugOf, AgentInv
<1>3. AgentInv(r)' /\ DirtyInv(r)'
  BY <1>1, <1>2 DEF AgentInv, DirtyInv, ToCommit, AfterPre
<1>4. CASE CommitDirty(r) /\ out' = [out EXCEPT ![r].status = Dirty(r), ![r].commit = Len(log) + 1]
  <2>1. out'[r] = [out[r] EXCEPT !.status = Dirty(r), !.commit = Len(log) + 1] /\ out[r] \in View
    BY <1>4 DEF TypeOK
  <2>2. out'[r].commit = Len(log) + 1
    BY <2>1 DEF View
  <2>3. dirty = {r}
    BY <1>1 DEF SlugOf, DirtyInv, ToCommit, AfterPre
  <2>4. [by |-> r, has |-> dirty] \in [by : Runs, has : SUBSET Changes]
        /\ log \in Seq([by : Runs, has : SUBSET Changes])
    BY DEF TypeOK
  <2>5. log'[Len(log) + 1] = [by |-> r, has |-> dirty] /\ head' = Len(log) + 1
    BY <1>4, <2>4, AppendFacts DEF CommitDirty
  <2>6. CommitInv(r)'
    BY <2>2, <2>3, <2>5 DEF CommitInv
  <2>7. HeadInv(r)'
    BY <1>1, <2>2, <2>5 DEF HeadInv, Prepared, WithAgent, ToResult
  <2>8. QED
    BY <1>3, <2>6, <2>7 DEF SlugOf
<1>5. CASE Give(r, "commit_failed") /\ (UNCHANGED git \/ CommitDirty(r))
  <2>1. out'[r].commit = out[r].commit /\ out'[r].status = "commit_failed"
    BY <1>5, GiveAt
  <2>2. out[r].commit # NoCommit => log'[out[r].commit] = log[out[r].commit]
    <3>1. out[r].commit \in 1 .. Len(log) \cup {NoCommit}
      BY DEF TypeOK, View
    <3>2. [by |-> r, has |-> dirty] \in [by : Runs, has : SUBSET Changes]
          /\ log \in Seq([by : Runs, has : SUBSET Changes])
      BY DEF TypeOK
    <3>3. CASE CommitDirty(r)
      BY <3>1, <3>2, <3>3, AppendFacts DEF CommitDirty
    <3>4. CASE UNCHANGED git
      BY <3>4 DEF git
    <3>5. QED
      BY <1>5, <3>3, <3>4
  <2>3. CommitInv(r)'
    BY <2>1, <2>2 DEF SlugOf, CommitInv
  <2>4. HeadInv(r)'
    BY <1>1, <2>1 DEF HeadInv, Prepared, WithAgent, ToResult, AtEnd
  <2>5. QED
    BY <1>3, <2>3, <2>4 DEF SlugOf
<1>6. QED
  BY <1>4, <1>5 DEF CommitResult

LEMMA EndSlug ==
  ASSUME TypeOK, NEW r \in Runs, SlugOf(r),
         \/ ChangedFiles(r) \/ TerminalRecord(r) \/ Summary(r) \/ AppendIndex(r) \/ Repair(r)
         \/ ResultFile(r) \/ Emit(r)
  PROVE  SlugOf(r)'
<1>1. CASE Repair(r)
  <2>1. /\ pc[r] \in Ending /\ pc'[r] \in Ending \cup {"emit"} /\ UNCHANGED <<out, started>>
        /\ files'[r].snaps = files[r].snaps
    BY <1>1, LateAt DEF Repair, Ending
  <2>2. UNCHANGED <<log, head, dirty, agent>>
    BY <1>1 DEF Repair, RecordLateError, git
  <2>3. agent[r] # "runs"
    BY <2>1 DEF SlugOf, AgentInv, Ending
  <2>4. QED
    BY <2>1, <2>2, <2>3, SlugKept DEF ToCommit, AfterPre, Prepared, WithAgent, ToResult, AfterResult, Ending
<1>2. CASE ~Repair(r)
  <2>1. UNCHANGED <<log, head, dirty, agent, started>>
    BY <1>2 DEF ChangedFiles, TerminalRecord, Summary, AppendIndex, ResultFile, Emit, git
  <2>2. /\ out'[r].pre = out[r].pre /\ out'[r].commit = out[r].commit /\ out'[r].snaps = out[r].snaps
        /\ out'[r].status = out[r].status
    BY <1>2, PerrAt DEF ChangedFiles, TerminalRecord, Summary, AppendIndex, ResultFile, Emit
  <2>3. files'[r].snaps = files[r].snaps
    BY <1>2, RecordAt, SummaryAt, NotedAt, ResultAt
       DEF ChangedFiles, TerminalRecord, Summary, AppendIndex, ResultFile, Emit
  <2>4. pc[r] \in AfterResult /\ pc'[r] \in AfterResult \ {"changed"}
    BY <1>2, GotoAt DEF ChangedFiles, TerminalRecord, Summary, AppendIndex, ResultFile, Emit,
       AfterResult, Ending
  <2>5. agent[r] # "runs"
    BY <2>4 DEF SlugOf, AgentInv, AfterResult, Ending
  <2>6. QED
    BY <2>1, <2>2, <2>3, <2>4, <2>5, SlugKept DEF ToCommit, AfterPre, Prepared, WithAgent, ToResult,
       AfterResult, Ending
<1>3. QED
  BY <1>1, <1>2

LEMMA OwnStep ==
  ASSUME TypeOK, NEW r \in Runs, SlugOf(r), RunStep(r)
  PROVE  SlugOf(r)'
BY BeforeSlug, StartSlug, PersistsSlug, StagesSlug, PreSlug, ReadSlug, IsDirtySlug, ResultSlug, EndSlug
   DEF RunStep, Persists

\* Only a commit of the result moves the branch or the worktree's changes in a run's step.
LEMMA StepGit ==
  ASSUME TypeOK, NEW r \in Runs, RunStep(r)
  PROVE  UNCHANGED <<log, head, dirty>> \/ CommitResult(r)
<1>1. CASE Persists(r)
  BY <1>1 DEF Persists, PersistPhase, CopyPrompt, CheckingDirty, ReadingPreRunCommit, PreparingSandbox,
     RunningAgent, ReadingSnapshots, CommittingResult, git
<1>2. CASE Repair(r)
  BY <1>2 DEF Repair, RecordLateError, git
<1>3. CASE Lock(r) \/ Claim(r) \/ Setup(r) \/ EnsureWorktree(r) \/ CopyApprovals(r)
           \/ CreateArtifacts(r) \/ StartRun(r) \/ RefuseIfDirty(r) \/ PreRunCommit(r) \/ RunAgent(r)
  BY <1>3 DEF Lock, Claim, Setup, EnsureWorktree, CopyApprovals, CreateArtifacts, StartRun,
     RefuseIfDirty, PreRunCommit, RunAgent, git
<1>4. CASE AgentExit(r) \/ ReadSnapshots(r) \/ IsDirty(r) \/ ChangedFiles(r) \/ TerminalRecord(r)
           \/ Summary(r) \/ AppendIndex(r) \/ ResultFile(r) \/ Emit(r)
  BY <1>4 DEF AgentExit, ReadSnapshots, IsDirty, ChangedFiles, TerminalRecord, Summary, AppendIndex,
     ResultFile, Emit, git
<1>5. QED
  BY <1>1, <1>2, <1>3, <1>4 DEF RunStep, Persists

\* A commit of the log stays when others follow.
LEMMA CommitsStay ==
  ASSUME TypeOK, NEW r \in Runs, NEW e, e \in [by : Runs, has : SUBSET Changes],
         log' = log \/ log' = Append(log, e), out'[r].commit = out[r].commit, CommitInv(r)
  PROVE  CommitInv(r)'
<1>1. out[r].commit \in 1 .. Len(log) \cup {NoCommit}
  BY DEF TypeOK, View
<1>2. log \in Seq([by : Runs, has : SUBSET Changes])
  BY DEF TypeOK
<1>3. out[r].commit # NoCommit => log'[out[r].commit] = log[out[r].commit]
  BY <1>1, <1>2, AppendFacts
<1>4. QED
  BY <1>3 DEF CommitInv

\* What one run does while it has the slug does not touch what is known of another.
LEMMA OthersSlug ==
  ASSUME TypeOK, NEW r \in Runs, NEW q \in Runs \ {r}, SlugOf(q), Apart(q), agent'[q] = agent[q],
         pc[q] \in InRun => UNCHANGED <<head, dirty, started>>,
         LastStarted(q)' => LastStarted(q) /\ head' = head,
         NEW e, e \in [by : Runs, has : SUBSET Changes], log' = log \/ log' = Append(log, e)
  PROVE  SlugOf(q)'
<1>1. files'[q] = files[q] /\ out'[q] = out[q] /\ pc'[q] = pc[q]
  BY DEF Apart
<1>2. ToCommit \cup Prepared \cup WithAgent \cup ToResult \cup {"phase_commit", "commit"} \subseteq InRun
  BY DEF InRun, Stages, ToCommit, AfterPre, Prepared, WithAgent, ToResult
<1>3. CommitInv(q)'
  BY <1>1, CommitsStay DEF SlugOf
<1>4. AgentInv(q)'
  BY <1>1 DEF SlugOf, AgentInv
<1>5. DirtyInv(q)'
  BY <1>1, <1>2 DEF SlugOf, DirtyInv
<1>6. HeadInv(q)'
  BY <1>1, <1>2 DEF SlugOf, HeadInv
<1>7. QED
  BY <1>3, <1>4, <1>5, <1>6 DEF SlugOf

LEMMA StepAgent ==
  ASSUME TypeOK, NEW r \in Runs, NEW q \in Runs \ {r}, RunStep(r)
  PROVE  agent'[q] = agent[q]
<1>1. agent' = agent \/ RunAgent(r)
  BY DEF RunStep, Persists, PersistPhase, CopyPrompt, CheckingDirty, ReadingPreRunCommit,
     PreparingSandbox, RunningAgent, ReadingSnapshots, CommittingResult, Repair, RecordLateError,
     Lock, Claim, Setup, EnsureWorktree, CopyApprovals, CreateArtifacts, StartRun, RefuseIfDirty,
     PreRunCommit, AgentExit, ReadSnapshots, IsDirty, CommitResult, ChangedFiles, TerminalRecord,
     Summary, AppendIndex, ResultFile, Emit
<1>2. QED
  BY <1>1 DEF RunAgent, TypeOK

LEMMA StepOthers ==
  ASSUME RunsInv, OwnerInv, NEW r \in Runs, NEW q \in Runs \ {r}, SlugOf(q), RunStep(r)
  PROVE  SlugOf(q)'
<1>1. TypeOK /\ Apart(q) /\ agent'[q] = agent[q]
  BY StepApart, StepAgent DEF RunsInv
<1>2. Takes(r) \/ Without(r) \/ With(r) \/ GivesBack(r)
  BY <1>1, StepShape
<1>3. (pc[r] \in InRun => lock = r) /\ (pc[q] \in InRun => lock = q)
  BY DEF OwnerInv, LockInv
<1>4. "idle" \notin InRun /\ "emit" \notin InRun /\ "commit" \in Stages /\ Stages \subseteq InRun
  BY DEF InRun, Before, Stages, AfterPre, Ending
<1>5. UNCHANGED <<log, head, dirty>> \/ CommitResult(r)
  BY <1>1, StepGit
<1>6. pc[q] \in InRun => UNCHANGED <<head, dirty, started>>
  <2>1. CASE pc[r] \in InRun
    BY <1>3, <2>1
  <2>2. CASE pc[r] \notin InRun
    BY <1>2, <1>4, <1>5, <2>2 DEF CommitResult, Takes, Without, With, GivesBack
  <2>3. QED
    BY <2>1, <2>2
<1>7. LastStarted(q)' => LastStarted(q) /\ head' = head
  <2>1. CASE \E now \in Seconds : started' = Append(started, [run |-> r, at |-> now])
    BY <1>1, <2>1, LastAppended DEF LastStarted
  <2>2. CASE UNCHANGED started /\ UNCHANGED <<log, head, dirty>>
    BY <2>2 DEF LastStarted
  <2>3. CASE UNCHANGED started /\ CommitResult(r)
    <3>1. LastStarted(r)
      BY <1>4, <2>3 DEF CommitResult, OwnerInv, LockInv
    <3>2. QED
      BY <2>3, <3>1 DEF LastStarted
  <2>4. QED
    BY <1>2, <1>5, <2>1, <2>2, <2>3 DEF Takes, Without, With, GivesBack
<1>8. \E e \in [by : Runs, has : SUBSET Changes] : log' = log \/ log' = Append(log, e)
  <2>1. [by |-> r, has |-> dirty] \in [by : Runs, has : SUBSET Changes]
    BY <1>1 DEF TypeOK
  <2>2. log' = log \/ log' = Append(log, [by |-> r, has |-> dirty])
    BY <1>5 DEF CommitResult, CommitDirty, git
  <2>3. QED
    BY <2>1, <2>2
<1>9. QED
  BY <1>1, <1>6, <1>7, <1>8, OthersSlug

\* The agent of a run changes the worktree and the branch in its run's turn only.
LEMMA AgentsSlug ==
  ASSUME RunsInv, OwnerInv, \A s \in Runs : SlugOf(s), NEW r \in Runs, NEW q \in Runs,
         AgentEdits(r) \/ Snapshot(r)
  PROVE  SlugOf(q)'
<1>1. TypeOK /\ SlugOf(r) /\ SlugOf(q) /\ UNCHANGED <<pc, out, agent, started>>
  BY DEF AgentEdits, Snapshot, RunsInv
<1>2. pc[r] = "wait" /\ lock = r /\ LastStarted(r)
  <2>1. pc[r] = "wait"
    BY <1>1 DEF AgentEdits, Snapshot, SlugOf, AgentInv
  <2>2. "wait" \in Stages /\ "wait" \in InRun
    BY DEF InRun, Stages, AfterPre
  <2>3. QED
    BY <2>1, <2>2 DEF OwnerInv, LockInv
<1>3. CASE q # r
  <2>1. pc[q] \notin InRun /\ ~LastStarted(q)'
    BY <1>1, <1>2, <1>3 DEF OwnerInv, LockInv, LastStarted
  <2>2. Apart(q)
    BY <1>1, <1>3, AgentApart
  <2>3. \E e \in [by : Runs, has : SUBSET Changes] : log' = log \/ log' = Append(log, e)
    <3>1. [by |-> r, has |-> dirty] \in [by : Runs, has : SUBSET Changes]
      BY <1>1 DEF TypeOK
    <3>2. log' = log \/ log' = Append(log, [by |-> r, has |-> dirty])
      BY DEF AgentEdits, Snapshot
    <3>3. QED
      BY <3>1, <3>2
  <2>4. QED
    BY <1>1, <1>3, <2>1, <2>2, <2>3, OthersSlug
<1>4. CASE q = r /\ AgentEdits(r)
  <2>1. UNCHANGED <<log, head, files>> /\ dirty' = dirty \cup {r}
    BY <1>4 DEF AgentEdits
  <2>2. DirtyInv(r)'
    BY <1>1, <1>2, <2>1 DEF SlugOf, DirtyInv, ToCommit, AfterPre
  <2>3. HeadInv(r)' /\ CommitInv(r)' /\ AgentInv(r)'
    BY <1>1, <2>1 DEF SlugOf, HeadInv, CommitInv, AgentInv, LastStarted
  <2>4. QED
    BY <1>4, <2>2, <2>3 DEF SlugOf
<1>5. CASE q = r /\ Snapshot(r)
  <2>1. /\ files' = [files EXCEPT ![r].snaps = files[r].snaps \cup {Len(log) + 1}]
        /\ log' = Append(log, [by |-> r, has |-> dirty])
        /\ \/ UNCHANGED <<head, dirty>>
           \/ head' = Len(log) + 1 /\ dirty' = {}
    BY <1>5 DEF Snapshot
  <2>2. files'[r].snaps = files[r].snaps \cup {Len(log) + 1}
    BY <1>1, <2>1, SnapsAt
  <2>3. DirtyInv(r)' /\ AgentInv(r)'
    BY <1>1, <1>2, <2>1 DEF SlugOf, DirtyInv, AgentInv, ToCommit, AfterPre
  <2>4. HeadInv(r)'
    BY <1>1, <1>2, <2>1, <2>2 DEF SlugOf, HeadInv, Prepared, WithAgent, ToResult, AfterResult, Ending
  <2>5. CommitInv(r)'
    <3>1. [by |-> r, has |-> dirty] \in [by : Runs, has : SUBSET Changes]
      BY <1>1 DEF TypeOK
    <3>2. QED
      BY <1>1, <2>1, <3>1, CommitsStay DEF SlugOf
  <2>6. QED
    BY <1>5, <2>3, <2>4, <2>5 DEF SlugOf
<1>6. QED
  BY <1>3, <1>4, <1>5

\* An agent that ends, or is ended with its vibe, and the user between the runs.
LEMMA RestSlug ==
  ASSUME RunsInv, OwnerInv, ~Orphans, NEW q \in Runs, SlugOf(q),
         \/ \E r \in Runs : SnapshotLogGone(r) \/ AgentEnds(r) \/ Killed(r)
         \/ UserActs
         \/ UNCHANGED vars
  PROVE  SlugOf(q)'
<1>1. TypeOK
  BY DEF RunsInv
<1>2. UNCHANGED <<log, head, started, out>>
  BY DEF SnapshotLogGone, AgentEnds, Killed, UserActs, vars, git
<1>3. files'[q].snaps = files[q].snaps
  BY <1>1, SnaplogAt DEF SnapshotLogGone, AgentEnds, Killed, UserActs, vars
<1>4. pc'[q] = pc[q] \/ (pc'[q] = "dead" /\ agent'[q] # "runs" /\ UNCHANGED dirty)
  <2>1. ASSUME NEW r \in Runs, Killed(r)
        PROVE  pc'[q] = pc[q] \/ (pc'[q] = "dead" /\ agent'[q] # "runs" /\ UNCHANGED dirty)
    BY <1>1, <2>1, GotoAt DEF Killed, TypeOK, git
  <2>2. QED
    BY <2>1 DEF SnapshotLogGone, AgentEnds, UserActs, vars
<1>5. agent'[q] = "runs" => agent[q] = "runs"
  BY <1>1 DEF SnapshotLogGone, AgentEnds, Killed, UserActs, vars, TypeOK
<1>6. dirty' = dirty \/ pc[q] \notin InRun
  <2>1. CASE UserActs
    BY <2>1, VibeAssumption DEF UserActs, OwnerInv, LockInv
  <2>2. QED
    BY <2>1 DEF SnapshotLogGone, AgentEnds, Killed, vars, git
<1>7. "dead" \notin InRun \cup AfterResult \cup {"wait"}
      /\ ToCommit \cup Prepared \cup WithAgent \cup ToResult \cup {"phase_commit", "commit"} \subseteq InRun
  BY DEF InRun, Before, Stages, AfterPre, Ending, AfterResult, ToCommit, Prepared, WithAgent, ToResult
<1>8. AgentInv(q)'
  BY <1>4, <1>5 DEF SlugOf, AgentInv
<1>9. DirtyInv(q)'
  BY <1>4, <1>6, <1>7 DEF SlugOf, DirtyInv
<1>10. HeadInv(q)'
  BY <1>2, <1>3, <1>4, <1>7 DEF SlugOf, HeadInv, LastStarted
<1>11. CommitInv(q)'
  BY <1>2 DEF SlugOf, CommitInv
<1>12. QED
  BY <1>8, <1>9, <1>10, <1>11 DEF SlugOf

SlugInv == \A r \in Runs : SlugOf(r)

LEMMA SlugInit == Init => SlugInv
<1>1. ASSUME Init, NEW r \in Runs PROVE SlugOf(r)
  BY <1>1 DEF Init, SlugOf, AgentInv, DirtyInv, HeadInv, CommitInv, NoOutcome, Nothing, ToCommit,
     AfterPre, Prepared, WithAgent, ToResult, AfterResult, Ending
<1>2. QED
  BY <1>1 DEF SlugInv

LEMMA SlugStep == ~Orphans /\ RunsInv /\ OwnerInv /\ SlugInv /\ [Next]_vars => SlugInv'
<1>1. SUFFICES ASSUME ~Orphans, RunsInv, OwnerInv, SlugInv, [Next]_vars, NEW q \in Runs
               PROVE  SlugOf(q)'
  BY DEF SlugInv
<1>2. TypeOK /\ \A s \in Runs : SlugOf(s)
  BY <1>1 DEF RunsInv, SlugInv
<1>3. ASSUME NEW r \in Runs, RunStep(r) PROVE SlugOf(q)'
  <2>1. CASE q = r
    BY <1>2, <1>3, <2>1, OwnStep
  <2>2. CASE q # r
    BY <1>1, <1>2, <1>3, <2>2, StepOthers
  <2>3. QED
    BY <2>1, <2>2
<1>4. ASSUME NEW r \in Runs, AgentEdits(r) \/ Snapshot(r) PROVE SlugOf(q)'
  BY <1>1, <1>2, <1>4, AgentsSlug
<1>5. CASE \/ \E r \in Runs : SnapshotLogGone(r) \/ AgentEnds(r) \/ Killed(r)
           \/ UserActs
           \/ UNCHANGED vars
  BY <1>1, <1>2, <1>5, RestSlug
<1>6. QED
  BY <1>1, <1>3, <1>4, <1>5 DEF Next

LEMMA SlugAlways == ASSUME ~Orphans PROVE Spec => [](RunsInv /\ OwnerInv /\ SlugInv)
<1>1. Init => RunsInv /\ OwnerInv /\ SlugInv
  BY RunsInit, OwnerInit, SlugInit
<1>2. RunsInv /\ OwnerInv /\ SlugInv /\ [Next]_vars => (RunsInv /\ OwnerInv /\ SlugInv)'
  BY RunsStep, OwnerStep, SlugStep
<1>3. QED
  BY <1>1, <1>2, PTL DEF Spec

\* A slug is one key's and one agent's at a time, and each result commit holds its own
\* run's changes alone, for any runs, keys, failures and kills, provided that no
\* container outlives its vibe: with an orphan two agents do share the worktree.
THEOREM SlugIsOneRuns == ASSUME ~Orphans PROVE Spec => []SlugIsOwned
<1>1. RunsInv /\ OwnerInv /\ SlugInv => SlugIsOwned
  <2>1. SUFFICES ASSUME RunsInv, OwnerInv, SlugInv PROVE SlugIsOwned
    OBVIOUS
  <2>2. OneKeyPerSlug
    BY <2>1 DEF OwnerInv, KeyInv, OneKeyPerSlug
  <2>3. OneAgent
    BY <2>1 DEF OwnerInv, LockInv, SlugInv, SlugOf, AgentInv, OneAgent, InRun, Stages, AfterPre
  <2>4. OwnChanges
    BY <2>1 DEF SlugInv, SlugOf, CommitInv, OwnChanges
  <2>5. QED
    BY <2>2, <2>3, <2>4 DEF SlugIsOwned
<1>2. QED
  BY <1>1, SlugAlways, PTL

\* The record, its views, the index and the branch agree with the result a run gave,
\* whatever fails, provided that no container outlives its vibe and moves the branch.
THEOREM ResultsAgree == ASSUME ~Orphans PROVE Spec => []ResultsAreTrue
<1>1. RunsInv /\ OwnerInv /\ SlugInv => HeadKnown
  BY DEF SlugInv, SlugOf, HeadInv, HeadKnown, Ended, LastStarted, AfterResult, AtEnd
<1>2. RunsInv /\ HeadKnown /\ ViewsFollow /\ NothingSwallowed /\ StatusKept => ResultsAreTrue
  BY DEF RunsInv, ResultsAreTrue
<1>3. QED
  BY <1>1, <1>2, SlugAlways, ReportsAreTrue, PTL

-----------------------------------------------------------------------------
\* What one launch checks: VibeLaunch, for any number of changes and failures.

\* The steps before a skill folder of setup is known, and those before it is mounted.
NoUser == {"auth", "user_look", "user_resolve"}
UserUnmounted == NoUser \cup {"files", "build", "repo_look", "repo_resolve", "head", "stages",
                              "user_again", "user_last"}
NoRepo == NoUser \cup {"files", "build", "repo_look", "repo_resolve"}
RepoUnmounted == UserUnmounted \cup {"repo_again", "repo_last"}

\* What is known of a folder: setup's directory until the launch mounts it.
FolderInv ==
  /\ lpc \in NoUser => seen["user"] = Launch!NoMount
  /\ lpc \in NoRepo => seen["repo"] = Launch!NoMount
  /\ lpc \in UserUnmounted => mounts["user"] = Launch!NoMount
  /\ lpc \in RepoUnmounted => mounts["repo"] = Launch!NoMount

\* A mounted folder is setup's, and as it was when it was last inspected.
MountInv == \A x \in Launch!Skills : mounts[x] # Launch!NoMount =>
  /\ mounts[x] = seen[x] /\ x \notin given.overlap
  /\ x \notin stale => /\ root[x].kind = "directory" /\ root[x].id = seen[x]
                       /\ x = "repo" => root[x].content # "linked"

\* From setup's check on, a repository folder is as in HEAD or was changed since.
SkillsInv ==
  lpc \notin NoRepo \cup {"head", "failed"} /\ seen["repo"] # Launch!NoMount =>
    root["repo"].content = "head" \/ "head" \in stale

AuthInv ==
  lpc \notin {"auth", "failed"} =>
    (given.env \/ pi) /\ (given.provider = "goog" => given.env /\ ~pi)

\* The image is made from the files just written.
FilesInv ==
  /\ lpc = "build" => assets = [text |-> "whole", exec |-> TRUE]
  /\ lpc \notin NoUser \cup {"files", "build", "failed"} => built = [text |-> "whole", exec |-> TRUE]

GivenOK == given \in [provider : {"goog", "known", "unknown"}, env : BOOLEAN, pi : BOOLEAN,
                      overlap : SUBSET Launch!Skills]

LaunchInv == Launch!TypeOK /\ GivenOK /\ FolderInv /\ MountInv /\ SkillsInv /\ AuthInv /\ FilesInv

USE DEF Launch!Skills, Launch!NoMount

LEMMA LaunchBegins == ASSUME Launch!LaunchAssumption PROVE Launch!Init => LaunchInv
<1> SUFFICES ASSUME Launch!Init PROVE LaunchInv
  OBVIOUS
<1>1. Launch!TypeOK
  <2>1. looked \in Launch!Root
    BY DEF Launch!Init, Launch!LaunchAssumption, Launch!NoLook, Launch!Root, Launch!Kinds, Launch!Contents
  <2>2. assets \in Launch!Files /\ built \in Launch!Files
    BY DEF Launch!Init, Launch!Files
  <2>3. root \in [Launch!Skills -> Launch!Root]
    BY DEF Launch!Init
  <2>4. /\ seen \in [Launch!Skills -> 0 .. MaxChanges + 1] /\ mounts \in [Launch!Skills -> 0 .. MaxChanges + 1]
        /\ changes \in 0 .. MaxChanges /\ lfaults \in 0 .. MaxLaunchFaults
    BY DEF Launch!Init, Launch!LaunchAssumption
  <2> QED BY <2>1, <2>2, <2>3, <2>4 DEF Launch!Init, Launch!TypeOK
<1>2. GivenOK /\ FolderInv /\ MountInv /\ SkillsInv /\ AuthInv /\ FilesInv
  BY DEF Launch!Init, GivenOK, FolderInv, MountInv, SkillsInv, AuthInv, FilesInv, NoUser, NoRepo,
         UserUnmounted, RepoUnmounted
<1> QED BY <1>1, <1>2 DEF LaunchInv

LEMMA FailsIn ==
  ASSUME Launch!LaunchAssumption, LaunchInv, Launch!Fails PROVE lpc' = "failed" /\ lfaults' \in 0 .. MaxLaunchFaults
BY DEF Launch!LaunchAssumption, LaunchInv, Launch!TypeOK, Launch!Fails

LEMMA AuthKeeps == ASSUME Launch!LaunchAssumption, LaunchInv, Launch!Auth PROVE LaunchInv'
<1>1. lfaults' \in 0 .. MaxLaunchFaults
  BY FailsIn DEF Launch!Auth, Launch!Goto, Launch!Refused, LaunchInv, Launch!TypeOK
<1>2. lpc = "auth" /\ lpc' \in {"user_look", "failed"} /\ pi' \in BOOLEAN
  BY FailsIn DEF Launch!Auth, Launch!Goto, Launch!Refused, LaunchInv, Launch!TypeOK, GivenOK
<1>3. AuthInv'
  BY FailsIn DEF Launch!Auth, Launch!Goto, Launch!Refused, LaunchInv, GivenOK, AuthInv
<1>4. UNCHANGED <<root, looked, seen, mounts, given, assets, built, stale, changes>>
  BY DEF Launch!Auth
<1>5. Launch!TypeOK' /\ GivenOK'
  BY <1>1, <1>2, <1>4 DEF LaunchInv, Launch!TypeOK, GivenOK
<1>6. (FolderInv /\ MountInv /\ SkillsInv /\ FilesInv)'
  BY <1>2, <1>4 DEF LaunchInv, FolderInv, MountInv, SkillsInv, FilesInv, NoUser, NoRepo, UserUnmounted,
     RepoUnmounted
<1> QED BY <1>3, <1>5, <1>6 DEF LaunchInv

LEMMA LookKeeps ==
  ASSUME Launch!LaunchAssumption, LaunchInv, NEW x \in Launch!Skills, NEW here, NEW next, NEW absent,
         Launch!Look(x, here, next, absent), 
         \/ <<here, next, absent>> = <<"user_look", "user_resolve", "files">>
         \/ <<here, next, absent>> = <<"repo_look", "repo_resolve", "stages">>
         \/ <<here, next, absent>> = <<"user_again", "user_last", "repo_again">>
         \/ <<here, next, absent>> = <<"repo_again", "repo_last", "spawn">>
  PROVE  LaunchInv'
<1>1. lfaults' \in 0 .. MaxLaunchFaults /\ looked' \in Launch!Root
  BY FailsIn DEF Launch!Look, Launch!Goto, LaunchInv, Launch!TypeOK
<1>2. lpc = here /\ lpc' \in {next, absent, "failed"}
  BY FailsIn DEF Launch!Look, Launch!Goto
<1>3. UNCHANGED <<root, seen, mounts, given, pi, assets, built, stale, changes>>
  BY DEF Launch!Look
<1>4. Launch!TypeOK' /\ GivenOK'
  BY <1>1, <1>2, <1>3 DEF LaunchInv, Launch!TypeOK, GivenOK
<1>5. (AuthInv /\ FolderInv)'
  BY <1>2, <1>3 DEF LaunchInv, FolderInv, AuthInv, NoUser, NoRepo, UserUnmounted, RepoUnmounted
<1>6. (MountInv /\ SkillsInv /\ FilesInv)'
  BY <1>2, <1>3 DEF LaunchInv, MountInv, SkillsInv, FilesInv, FolderInv, NoUser, NoRepo
<1> QED BY <1>4, <1>5, <1>6 DEF LaunchInv

LEMMA ResolveKeeps ==
  ASSUME Launch!LaunchAssumption, LaunchInv, NEW x \in Launch!Skills, NEW here, NEW next,
         Launch!ResolveAtSetup(x, here, next),
         \/ <<x, here, next>> = <<"user", "user_resolve", "files">>
         \/ <<x, here, next>> = <<"repo", "repo_resolve", "head">>
  PROVE  LaunchInv'
<1>1. lfaults' \in 0 .. MaxLaunchFaults /\ lpc = here /\ lpc' \in {next, "failed"}
  BY DEF Launch!ResolveAtSetup, Launch!Goto, Launch!Refused, LaunchInv, Launch!TypeOK
<1>2. UNCHANGED <<root, looked, mounts, given, pi, assets, built, stale, changes>>
  BY DEF Launch!ResolveAtSetup
<1>3. /\ seen' \in [Launch!Skills -> 0 .. MaxChanges + 1]
      /\ \A y \in Launch!Skills \ {x} : seen'[y] = seen[y]
      /\ \A y \in Launch!Skills : mounts[y] # Launch!NoMount => seen'[y] = seen[y]
  <2>1. root[x].id \in 0 .. MaxChanges + 1
    BY DEF LaunchInv, Launch!TypeOK, Launch!Root, Launch!LaunchAssumption
  <2>2. mounts[x] = Launch!NoMount
    BY DEF LaunchInv, FolderInv, Launch!ResolveAtSetup, UserUnmounted, RepoUnmounted, NoUser
  <2> QED BY <2>1, <2>2 DEF Launch!ResolveAtSetup, LaunchInv, Launch!TypeOK
<1>4. Launch!TypeOK' /\ GivenOK'
  BY <1>1, <1>2, <1>3 DEF LaunchInv, Launch!TypeOK, GivenOK
<1>5. (AuthInv /\ FolderInv)'
  BY <1>1, <1>2, <1>3 DEF LaunchInv, FolderInv, AuthInv, NoUser, NoRepo, UserUnmounted, RepoUnmounted
<1>6. (SkillsInv /\ FilesInv)'
  BY <1>1, <1>2, <1>3 DEF LaunchInv, SkillsInv, FilesInv, NoUser, NoRepo
<1>7. MountInv'
  BY <1>2, <1>3 DEF LaunchInv, MountInv
<1> QED BY <1>4, <1>5, <1>6, <1>7 DEF LaunchInv

LEMMA WriteKeeps == ASSUME Launch!LaunchAssumption, LaunchInv, Launch!WriteFiles PROVE LaunchInv'
<1>1. /\ lfaults' \in 0 .. MaxLaunchFaults /\ lpc = "files" /\ lpc' \in {"build", "failed"}
      /\ lpc' = "build" => assets' = [text |-> "whole", exec |-> TRUE]
  BY FailsIn DEF Launch!WriteFiles, Launch!Goto, LaunchInv, Launch!TypeOK
<1>2. assets' \in Launch!Files
  <2>1. /\ assets \in Launch!Files
        /\ assets' \in {[text |-> "whole", exec |-> TRUE], assets, [assets EXCEPT !.text = "torn"],
                       [assets EXCEPT !.text = "whole"]}
    BY DEF Launch!WriteFiles, LaunchInv, Launch!TypeOK
  <2>2. PICK w \in {"whole", "torn"}, e \in BOOLEAN : assets = [text |-> w, exec |-> e]
    BY <2>1 DEF Launch!Files
  <2>3. /\ [assets EXCEPT !.text = "torn"] = [text |-> "torn", exec |-> e]
        /\ [assets EXCEPT !.text = "whole"] = [text |-> "whole", exec |-> e]
    BY <2>2
  <2>4. \A t \in {"whole", "torn"}, f \in BOOLEAN : [text |-> t, exec |-> f] \in Launch!Files
    BY DEF Launch!Files
  <2>5. CASE assets' \in {[text |-> "whole", exec |-> TRUE], assets}
    BY <2>1, <2>4, <2>5
  <2>6. CASE assets' \in {[assets EXCEPT !.text = "torn"], [assets EXCEPT !.text = "whole"]}
    BY <2>2, <2>3, <2>4, <2>6
  <2> QED BY <2>1, <2>5, <2>6
<1>3. UNCHANGED <<root, looked, seen, mounts, given, pi, built, stale, changes>>
  BY DEF Launch!WriteFiles
<1>4. Launch!TypeOK' /\ GivenOK'
  BY <1>1, <1>2, <1>3 DEF LaunchInv, Launch!TypeOK, GivenOK
<1>5. (AuthInv /\ FolderInv /\ MountInv)'
  BY <1>1, <1>3 DEF LaunchInv, FolderInv, AuthInv, MountInv, NoUser, NoRepo, UserUnmounted, RepoUnmounted
<1>6. (SkillsInv /\ FilesInv)'
  BY <1>1, <1>3 DEF LaunchInv, SkillsInv, FilesInv, NoUser, NoRepo
<1> QED BY <1>4, <1>5, <1>6 DEF LaunchInv

LEMMA BuildKeeps == ASSUME Launch!LaunchAssumption, LaunchInv, Launch!BuildImage PROVE LaunchInv'
<1>1. /\ lfaults' \in 0 .. MaxLaunchFaults /\ lpc = "build" /\ lpc' \in {"repo_look", "failed"}
      /\ lpc' = "repo_look" => built' = assets
      /\ built' \in Launch!Files
  BY FailsIn DEF Launch!BuildImage, Launch!Goto, LaunchInv, Launch!TypeOK
<1>3. UNCHANGED <<root, looked, seen, mounts, given, pi, assets, stale, changes>>
  BY DEF Launch!BuildImage
<1>4. Launch!TypeOK' /\ GivenOK'
  BY <1>1, <1>3 DEF LaunchInv, Launch!TypeOK, GivenOK
<1>5. (AuthInv /\ FolderInv /\ MountInv)'
  BY <1>1, <1>3 DEF LaunchInv, FolderInv, AuthInv, MountInv, NoUser, NoRepo, UserUnmounted, RepoUnmounted
<1>6. (SkillsInv /\ FilesInv)'
  BY <1>1, <1>3 DEF LaunchInv, SkillsInv, FilesInv, NoUser, NoRepo
<1> QED BY <1>4, <1>5, <1>6 DEF LaunchInv

LEMMA CheckKeeps ==
  ASSUME Launch!LaunchAssumption, LaunchInv, NEW here, NEW next, Launch!CheckHead(here, next),
         <<here, next>> \in {<<"head", "stages">>, <<"stages", "user_again">>}
  PROVE  LaunchInv'
<1>1. /\ lfaults' \in 0 .. MaxLaunchFaults /\ lpc = here /\ lpc' \in {next, "failed"}
      /\ stale' \in {stale, stale \ {"head"}}
      /\ lpc' = next => seen["repo"] = Launch!NoMount \/ root["repo"].content = "head"
  BY FailsIn DEF Launch!CheckHead, Launch!Goto, Launch!Refused, Launch!AtHead, LaunchInv, Launch!TypeOK
<1>3. UNCHANGED <<root, looked, seen, mounts, given, pi, assets, built, changes>>
  BY DEF Launch!CheckHead
<1>4. Launch!TypeOK' /\ GivenOK'
  BY <1>1, <1>3 DEF LaunchInv, Launch!TypeOK, GivenOK
<1>5. (AuthInv /\ FolderInv /\ FilesInv)'
  BY <1>1, <1>3 DEF LaunchInv, FolderInv, AuthInv, FilesInv, NoUser, NoRepo, UserUnmounted, RepoUnmounted
<1>6. SkillsInv'
  BY <1>1, <1>3 DEF LaunchInv, SkillsInv
<1>7. MountInv'
  BY <1>1, <1>3 DEF LaunchInv, MountInv
<1> QED BY <1>4, <1>5, <1>6, <1>7 DEF LaunchInv

LEMMA AgainKeeps ==
  ASSUME Launch!LaunchAssumption, LaunchInv, NEW x \in Launch!Skills, NEW here, NEW next, Launch!Again(x, here, next),
         <<here, next>> \in {<<"user_again", "repo_again">>, <<"repo_again", "spawn">>}
  PROVE  LaunchInv'
<1>1. lpc = here /\ lpc' = next
  BY DEF Launch!Again, Launch!Goto
<1>2. UNCHANGED <<root, looked, seen, mounts, given, pi, assets, built, stale, changes, lfaults>>
  BY DEF Launch!Again, Launch!Goto
<1>4. Launch!TypeOK' /\ GivenOK'
  BY <1>1, <1>2 DEF LaunchInv, Launch!TypeOK, GivenOK
<1>5. (AuthInv /\ FolderInv /\ FilesInv)'
  BY <1>1, <1>2 DEF LaunchInv, FolderInv, AuthInv, FilesInv, NoUser, NoRepo, UserUnmounted, RepoUnmounted
<1>6. (SkillsInv /\ MountInv)'
  BY <1>1, <1>2 DEF LaunchInv, SkillsInv, MountInv, NoUser, NoRepo
<1> QED BY <1>4, <1>5, <1>6 DEF LaunchInv

LEMMA MountKeeps ==
  ASSUME Launch!LaunchAssumption, LaunchInv, NEW x \in Launch!Skills, NEW here, NEW next,
         Launch!ResolveAgain(x, here, next),
         \/ <<x, here, next>> = <<"user", "user_last", "repo_again">>
         \/ <<x, here, next>> = <<"repo", "repo_last", "spawn">>
  PROVE  LaunchInv'
<1>1. lfaults' \in 0 .. MaxLaunchFaults /\ lpc = here /\ lpc' \in {next, "failed"}
  BY FailsIn DEF Launch!ResolveAgain, Launch!Goto, Launch!Refused, LaunchInv, Launch!TypeOK
<1>2. UNCHANGED <<root, looked, seen, given, pi, assets, built, changes>>
  BY DEF Launch!ResolveAgain
<1>3. /\ mounts' \in [Launch!Skills -> 0 .. MaxChanges + 1]
      /\ \A y \in Launch!Skills \ {x} : mounts'[y] = mounts[y]
      /\ stale' \in {stale, stale \ {x}}
      /\ \/ mounts'[x] = mounts[x] /\ stale' = stale
         \/ /\ mounts'[x] = root[x].id
            /\ root[x].kind = "directory" /\ root[x].id = seen[x]
            /\ x \notin given.overlap /\ (x = "repo" => root[x].content # "linked")
  <2>1. root[x].id \in 0 .. MaxChanges + 1
    BY DEF LaunchInv, Launch!TypeOK, Launch!Root, Launch!LaunchAssumption
  <2> QED BY <2>1 DEF Launch!ResolveAgain, Launch!Accepted, Launch!SameAsSeen, Launch!Sound, LaunchInv, Launch!TypeOK
<1>4. Launch!TypeOK' /\ GivenOK'
  BY <1>1, <1>2, <1>3 DEF LaunchInv, Launch!TypeOK, GivenOK
<1>5. (AuthInv /\ FilesInv)'
  BY <1>1, <1>2 DEF LaunchInv, AuthInv, FilesInv, NoUser
<1>6. FolderInv'
  BY <1>1, <1>2, <1>3 DEF LaunchInv, FolderInv, NoUser, NoRepo, UserUnmounted, RepoUnmounted
<1>7. SkillsInv'
  BY <1>1, <1>2, <1>3 DEF LaunchInv, SkillsInv, NoUser, NoRepo
<1>8. MountInv'
  <2> SUFFICES ASSUME NEW y \in Launch!Skills, mounts'[y] # Launch!NoMount
      PROVE  (/\ mounts[y] = seen[y] /\ y \notin given.overlap
              /\ y \notin stale => /\ root[y].kind = "directory" /\ root[y].id = seen[y]
                                   /\ y = "repo" => root[y].content # "linked")'
    BY DEF MountInv
  <2>1. CASE y = x
    BY <1>2, <1>3, <2>1 DEF LaunchInv, MountInv
  <2>2. CASE y # x
    BY <1>2, <1>3, <2>2 DEF LaunchInv, MountInv
  <2> QED BY <2>1, <2>2
<1> QED BY <1>4, <1>5, <1>6, <1>7, <1>8 DEF LaunchInv

LEMMA SpawnKeeps == ASSUME Launch!LaunchAssumption, LaunchInv, Launch!Spawn PROVE LaunchInv'
<1>1. lfaults' \in 0 .. MaxLaunchFaults /\ lpc = "spawn" /\ lpc' \in {"runs", "failed"}
  BY FailsIn DEF Launch!Spawn, Launch!Goto, LaunchInv, Launch!TypeOK
<1>2. UNCHANGED <<root, looked, seen, mounts, given, pi, assets, built, stale, changes>>
  BY DEF Launch!Spawn
<1>4. Launch!TypeOK' /\ GivenOK'
  BY <1>1, <1>2 DEF LaunchInv, Launch!TypeOK, GivenOK
<1>5. (AuthInv /\ FolderInv /\ FilesInv)'
  BY <1>1, <1>2 DEF LaunchInv, FolderInv, AuthInv, FilesInv, NoUser, NoRepo, UserUnmounted, RepoUnmounted
<1>6. (SkillsInv /\ MountInv)'
  BY <1>1, <1>2 DEF LaunchInv, SkillsInv, MountInv, NoUser, NoRepo
<1> QED BY <1>4, <1>5, <1>6 DEF LaunchInv

LEMMA ChangeKeeps ==
  ASSUME Launch!LaunchAssumption, LaunchInv, NEW x \in Launch!Skills, Launch!Change(x) PROVE LaunchInv'
<1>1. /\ changes' \in 0 .. MaxChanges
      /\ root' \in [Launch!Skills -> Launch!Root]
      /\ \A y \in Launch!Skills \ {x} : root'[y] = root[y]
  BY DEF Launch!Change, Launch!LaunchAssumption, LaunchInv, Launch!TypeOK
<1>2. UNCHANGED <<lpc, looked, seen, mounts, given, pi, assets, built, lfaults>>
  BY DEF Launch!Change
<1>3. /\ stale \subseteq stale' /\ x \in stale' /\ stale' \subseteq {"user", "repo", "head"}
      /\ x = "repo" => "head" \in stale'
  BY DEF Launch!Change, LaunchInv, Launch!TypeOK
<1>4. Launch!TypeOK' /\ GivenOK'
  BY <1>1, <1>2, <1>3 DEF LaunchInv, Launch!TypeOK, GivenOK
<1>5. (AuthInv /\ FolderInv /\ FilesInv)'
  BY <1>2 DEF LaunchInv, FolderInv, AuthInv, FilesInv
<1>6. SkillsInv'
  BY <1>1, <1>2, <1>3 DEF LaunchInv, SkillsInv
<1>7. MountInv'
  BY <1>1, <1>2, <1>3 DEF LaunchInv, MountInv
<1> QED BY <1>4, <1>5, <1>6, <1>7 DEF LaunchInv

LEMMA LaunchStep ==
  ASSUME Launch!LaunchAssumption, LaunchInv, [Launch!Next]_(Launch!vars) PROVE LaunchInv'
<1>1. CASE Launch!Auth \/ Launch!WriteFiles \/ Launch!BuildImage \/ Launch!Spawn
  BY <1>1, AuthKeeps, WriteKeeps, BuildKeeps, SpawnKeeps
<1>2. CASE Launch!LookUser \/ Launch!LookRepo
  BY <1>2, LookKeeps DEF Launch!LookUser, Launch!LookRepo
<1>3. CASE Launch!ResolveUser \/ Launch!ResolveRepo
  BY <1>3, ResolveKeeps DEF Launch!ResolveUser, Launch!ResolveRepo
<1>4. CASE Launch!HeadAtSetup \/ Launch!HeadInStages
  BY <1>4, CheckKeeps DEF Launch!HeadAtSetup, Launch!HeadInStages
<1>5. CASE Launch!Relaunch
  <2>1. CASE \/ Launch!Again("user", "user_again", "repo_again")
             \/ Launch!Again("repo", "repo_again", "spawn")
    BY <2>1, AgainKeeps
  <2>2. CASE \/ Launch!LookAgain("user", "user_again", "user_last", "repo_again")
             \/ Launch!LookAgain("repo", "repo_again", "repo_last", "spawn")
    BY <2>2, LookKeeps DEF Launch!LookAgain
  <2>3. CASE \/ Launch!ResolveAgain("user", "user_last", "repo_again")
             \/ Launch!ResolveAgain("repo", "repo_last", "spawn")
    BY <2>3, MountKeeps
  <2> QED BY <1>5, <2>1, <2>2, <2>3 DEF Launch!Relaunch
<1>6. CASE \E x \in Launch!Skills : Launch!Change(x)
  BY <1>6, ChangeKeeps
<1>7. CASE UNCHANGED Launch!vars
  <2>1. UNCHANGED <<lpc, root, looked, seen, mounts, given, pi, assets, built, stale, changes, lfaults>>
    BY <1>7 DEF Launch!vars
  <2> QED BY <2>1 DEF LaunchInv, Launch!TypeOK, GivenOK, FolderInv, MountInv, SkillsInv, AuthInv, FilesInv
<1> QED BY <1>1, <1>2, <1>3, <1>4, <1>5, <1>6, <1>7 DEF Launch!Next, Launch!RunStep

\* What a container gets is what was checked: its mounts are the folders of setup,
\* its skills those of HEAD, its credentials there and its image whole, for any
\* number of changes of the folders in between and of failing calls.
THEOREM LaunchIsChecked ==
  ASSUME Launch!LaunchAssumption PROVE Launch!Spec => []LaunchIsSound
<1>1. Launch!Init => LaunchInv
  BY LaunchBegins
<1>2. LaunchInv /\ [Launch!Next]_(Launch!vars) => LaunchInv'
  BY LaunchStep
<1>3. LaunchInv => LaunchIsSound
  <2> SUFFICES ASSUME LaunchInv PROVE LaunchIsSound
    OBVIOUS
  <2>1. Launch!MountIsInspected /\ Launch!NothingAppears
    BY DEF LaunchInv, MountInv, Launch!MountIsInspected, Launch!NothingAppears
  <2>2. Launch!SkillsWereHead
    BY DEF LaunchInv, SkillsInv, MountInv, NoRepo, NoUser, Launch!Launched, Launch!SkillsWereHead
  <2>3. Launch!EveryLaunchHasAuth /\ Launch!BuiltFromWhole
    BY DEF LaunchInv, AuthInv, FilesInv, NoUser, Launch!Launched, Launch!EveryLaunchHasAuth, Launch!BuiltFromWhole
  <2> QED BY <2>1, <2>2, <2>3 DEF LaunchInv, LaunchIsSound, Launch!LaunchIsSound
<1> QED BY <1>1, <1>2, <1>3, PTL DEF Launch!Spec

=============================================================================
