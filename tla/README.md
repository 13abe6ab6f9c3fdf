# TLA+ models of the personal development environment

This directory holds TLA+ modules, TLC configurations and TLAPS proofs about the
programs of this repository. `src/` paths below are relative to the repository's
checkout. `PROJECT.json` lists the components, the runs with the properties they
check, the source lines behind every definition, the hazards the properties are
aimed at, the disagreements found between code and documentation, and the theorems.

Contents: [components](#components), [how the models are built](#how-the-models-are-built),
[plan](#plan), [filesystem journals](#filesystem-journals),
[approval of pull-request writes](#approval-of-pull-request-writes),
[review session](#review-session), [write of the answers](#write-of-the-answers),
[approvals file](#approvals-file), [review screens](#review-screens),
[comments, pages and style](#comments-pages-and-style), [formatters](#formatters),
[vibe](#vibe), [what must end](#what-must-end),
[what disagrees](#what-disagrees-with-the-documentation),
[not modelled](#not-modelled), [running](#running-the-checks).

## Components

The repository is a set of programs that share files, not memory. The ones with
state that several processes change, or that has to survive a crash, are worth a
model, and so are the algorithms on text whose mistakes reach the user's code.

| Component | State | Operations | Talks to |
|---|---|---|---|
| Installer: journals (`pde-installer/internal/fsutil`) | journal files, one commit-group file, staged and backed-up objects, the managed paths themselves | Activate, RecordCreated/Replaced, AddCleanup, Revert, Rollback, CommitJournals, RecoverJournals | called by every package manager and by the commands |
| Installer: commands (`installer/command.go`, `lock.go`) | `installer.lock` | install, doctor, list: lock, recover, run managers in order, roll back in reverse or commit together | managers return a journal or an error |
| Installer: package managers (npm, builds, direct, aqua, tmux, chezmoi) | a workspace below HOME each | stage, activate, record, verify | download, `npm`, `chezmoi`, `cargo` ... |
| pdev2: approval (`pdev2/internal/approval`, `internal/cmd`) | one JSON record and one lock file per request, PIDs of a runner and a phone question | the agent's `pde-gh-write`, the detached runner, the phone question, the popup and terminal approvers | record and lock; signals; `gh`; `moshi-hook` |
| glimmer: review session (`shared/review_session.rs`, `steps/send_agent_suggestions.rs`) | `review.json` with its lock, the waiting list | the agent's lists, answers and notes from several screens, dismissal and restoring | screens reload it; Ctrl+b e reads the list |
| glimmer: write of the answers (`steps/write_user_feedback.rs`) | the source files, their backup folder, the session's status | mark, back up, replace, decide, finish, or put everything back | session, approvals file, waiting list, signals |
| glimmer: approvals file (`shared/approvals.rs`, `commands/drop_gone_approvals.rs`) | one file for all worktrees of a clone, its lock, temporary file and backup | add decisions, drop those whose code is gone | write-back; the code of every worktree |
| glimmer: review screens (`review_screen/`) | what is drawn, the terminal's queue, the picker's rows, Herdr's tabs and popup, the popup record | keys, saves, reloads, open, dismiss, restore, the two key actions | session, waiting list, Herdr, nvim |
| glimmer: comments and style (`shared/comments.rs`, `shared/style_rules.rs`, `language_rules/`, `steps/check_comments.rs`) | the text of files at the base and on disk, approvals | find, name, match and rewrite comments, plain words and back, the style check | the steps above; Git's diff |
| glimmer: formatters (`language_rules/mod.rs`) | a process group, three pipes, three threads | run with a time limit, kill, judge | gofmt, rustfmt, python3 |
| vibe: runs (`app.rs`, `ledger.rs`, `worktree.rs`, `adapters/git.rs`) | run lock, key file, worktree and branch, run.json, summary, saved result, index | stages of a run, status | Docker, git, the snapshot extension |
| vibe: launch (`adapters/docker/`) | skill folders, runtime files, credentials, image | checks in setup and again at the launch | the host's file system, Docker |
| planner (`guarded.go`, `planpatch/edit.go`) | plan files, lock files, inspect tokens | inspect, guarded edit, new plan | editors of the same file |
| prs (`app/refresh.go`, `cache/cache.go`) | cache files, queue of the refresher | refresh list and entries, remove unlisted | `gh`; screens read the cache |
| skill-lessons (`cli.py`) | lesson store | add, retire, render | git |
| kanban (`card.py`) | card files, stage directories | create, move, update | other card commands |
| Neovim inline shim (`main.go`, `shim.lua`) | backend process, port | start, reach, stop, proxy | concurrent HTTP requests, editors |

What is hard in each, and what makes it right:

- **Journals**: a crash at any point of an install or of a recovery, one step of
  several failing, several journals that must commit together. Right when an install
  is atomic as seen through recovery, no original is lost, and recovery always gets
  through.
- **Approval**: up to five kinds of process on one record, killed at any time;
  answers that come late; PIDs the system reuses; a request that expires while an
  answer waits. Right when `gh` runs at most once and only on a yes, no save undoes
  another's, an answer reaches a runner, and the phone shows one question.
- **Review session**: answers against a list the agent has replaced, edits between any
  two steps, killed calls. Right when an answer stays with the words it was given to,
  only answered words become approved, and a waiting review can be found and moved on.
- **Write of the answers**: a write into many files interrupted anywhere, edits by
  others meanwhile, failures on the way back. Right when all answers are written and
  decided or none is, and no original or edit is lost.
- **Approvals file**: crashes and power cuts in the replacement, code and worktrees that
  change while a drop reads. Right when no saved decision is lost, and a drop never
  turns a cut comment into an approved one.
- **Screens**: keys queued while something is slow, reviews changed by others, one popup
  for the whole of Herdr. Right when no stray key answers, and what is shown is what is saved.
- **Comments and style**: two comments with one text, comments that share a line,
  formatters that move things, text moved between files. Right when only the answered
  comments change, in every rewording, and old text never fails a check.
- **Formatters**: tools that hang or leave processes on their pipes. Right when a run
  ends and its text is used only whole.
- **vibe**: a run's three files under failures; keys that make one slug; folders that
  change between a check and its use. Right when a result holds its own work and misses
  nothing, and a container gets what was checked.
- **planner, kanban, skill-lessons**: read, work, write back, with a check that may be
  stale or no lock at all. Right when no update is lost and no ID or key is given
  twice.
- **prs**: workers of an earlier list while a newer one removes entries. Right when
  the cache converges to the newest list.
- **Inline shim**: concurrent starts, time-outs, takeover. Right when at most one
  backend is started and a waiting request ends.

## How the models are built

| Module | Models | Uses |
|---|---|---|
| `JournalRecords`, `FsJournal`, `FsJournalProps` | the installer's journals and the process that drives them | refine `InstallTxn` |
| `PrApproval`, `PrApprovalProps` | one request and every program that changes it | refine `PostOnce` |
| `ReviewSession` | the session, agent calls, screens, the waiting list of one worktree | |
| `WriteBack`, `WriteBackProps` | step 7, call by call | refine `AllOrNothing` |
| `ApprovalsFile`, `ApprovalsFileProps` | adds and drops on the shared approvals file | |
| `ReviewScreen`, `ReviewPicker`, `ReviewWindows`, `ReviewScreens` | one screen key by key; the picker and the list of all worktrees; Herdr's windows; the three side by side | `ReviewScreens` extends `ReviewWindows`, instantiates `ReviewScreen` and `ReviewPicker` |
| `FileComments`, `CommentReview` | the comments of one file through lists, answers and the write | `CommentReview` extends `FileComments` |
| `LineComments`, `Docstrings`, `EditPage` | a comment as plain words and back, and the page between | each extends the one before |
| `StyleText`, `StyleCheck` | what the style check reads, and the check with the branch | `StyleText` extends `Docstrings` |
| `ToolRun` | one run of a formatter | |
| `VibeRun`, `VibeLaunch`, `VibeProcess` | runs of one slug; one launch of a container; both of a process | `VibeProcess` extends `VibeRun`, instantiates `VibeLaunch` |
| `*_proofs` | theorems and proofs about the module of that name | |
| `MC*` with a `.cfg` each | the instances TLC checks | |

Several runs hold small instances of more than one module, or of one module with
different constants. A variable `part` or `setting`, chosen by the initial state and never
changed, says which instance a behaviour is of, and the variables of the others stay as
they began. The parts share no state, so such a run has the *sum* of their states and each
property speaks of its own part. Components that do interact are put together inside one
module: `ReviewSession` has agent, screens, session, list and write; `WriteBack` has the
session's status, the approvals and the list as the write sees them; `CommentReview` joins
reading, lists, answers and the rewrite.

A passing run checks every property under faults and bounds that are given in the section
on its module. Every counter is bounded by a constant whose name begins with `Max`.

## Plan

Done: the journals, the approval, the review session, the write-back, the approvals file,
the screens, the text rules, the formatters, vibe's runs and launches, in the order of what
a mistake costs: files of the user's home, writes to GitHub, the user's code, bookkeeping.

Left, in this order:

1. `CardStore` (kanban) and `LessonStore` (skill-lessons) against one abstract
   read-modify-write store that loses no update.
2. `PlanEdit` (token, lock file, compare and rename).
3. `PrsRefresh` (queue, workers, removal) and `InlineShim`.
4. Proofs: what a list asks and what a write leaves, for files in which no two comments share a
   line and no name moves, see [what is only model-checked](#not-modelled).

## Filesystem journals

### Modules

| Module | What it holds |
|---|---|
| `JournalRecords` | objects, identities, the changes a journal records, and the decisions of `rollbackChange`/`rollbackActivation` as predicates on what is at the destination and at the side path |
| `FsJournal` | the installer process: one action per system call or durable journal write, `Crash` between any two |
| `FsJournalProps` | the properties, the inductive invariant `CommitInv`, the mapping to `InstallTxn`, fairness |
| `InstallTxn` | the abstract specification: an install happens at once or not at all, as seen through recovery |
| `FsJournal_proofs` | the proofs |
| `MCFsJournal` and its `.cfg` files | the instances TLC checks |

### State

`fs[d]` is the object (inode, content) at destination `d`; `side[<<j, d>>]` the one at
the stage or backup path journal `j` uses for `d`. The code keeps stage and backup
apart in a change's record, but after the exchange the backup *is* the stage path
(`fsutil.Activate` returns it), and a recorder's backup takes the same part, so one
variable stands for both. `files` and `disk` are the journal files, `group` the
commit-group file with `{}` for none. `pc`, `cur`, `todo`, `ret`, `open`, `mem` and
`faults` are the process: where it is, the journal in hand, what its loop has left,
the caller to return to, its named journals, their in-memory state and how many
system calls have failed so far. `Exit` (the end of a command, an error that ends it,
or a crash) forgets these.

The installer lock is held from `Start` to `Exit`, so there is one process at a time;
`internal/installer/lock.go` releases it with the process.

### Actions and the code

- `Start`, `RecoverMember`, `RecoverGroupDone`, `RecoverNext`, `RecoverDone`:
  `mutatingCommand` and `RecoverJournals`. Journal file names are random, so
  `RecoverNext` takes any. doctor and list recover too and then end.
- `Stage`, `ActivateIntent`, `ActivateSwap`, `ActivateEnd`, `ActivateBack`,
  `ActivateBackDrop`: `Journal.Activate` and the `fsutil.Activate`/`Rollback` it calls:
  intent on disk, exchange, completion on disk, and the way back when one fails.
- `CopyBackup`, `Record`, `Mutate`: the chezmoi stage, which copies, records and then
  lets `chezmoi` change the path, in place or by replacing it.
- `AddCleanup`, `ManagerDone`, `ManagerFails`, `Revert`, `Discard`, `FailNext`,
  `FailDone`: what a manager does around its journal, its deferred `RemoveAll`, and
  `fail()` of `reconcile`. Managers that return the error of their first journal
  call without `Revert` (`callFailed`) leave the journal to the next recovery. A manager's local
  flag `tracked`, which keeps its `RemoveAll` from the workspace, is not the journal's cleanup entry: it
  is unset when `AddCleanup` itself fails after it changed the journal in memory, and in tmux and
  the direct tools also while the first `Activate` after it fails (`untracked`).
- `UndoSwap`, `UndoDropDest`, `UndoDropAlt`, `UndoPop`, `UndoConflict`, `FinishDrop`,
  `FinishPop`, `CleanDrop`, `CleanPop`, `RemoveJournal`: `rollback` and `finishCommit`.
  Rollback decides from the filesystem what is still to be done, so each system call is
  an action whose guard is that decision; a crash between two of them leads to the
  same decision being taken again.
- `WriteGroup`, `MarkCommitted`, `RemoveGroup`, `FinishNext`, `FinishDone`:
  `CommitJournals`.
- A failing system call is a disjunct of the action it belongs to, guarded by `Fault`.
  A journal write that fails may or may not have landed (`MayPersist`): the rename
  may be done and the directory sync fail.

### Abstractions

- A crash kills the process between two system calls. What was renamed or written is
  there afterwards: loss of power, which may lose what was not synced, is not modelled.
- Identities are inodes; an inode that is free may be used again, so a stale identity
  can match a new object. Content is one of `Data`.
- A rename or exchange is atomic; `CopyPath` either leaves a complete copy or fails
  and leaves none.
- When a new install starts, what earlier ones left at unjournaled side paths is
  forgotten: workspaces have fresh names. A crash between a manager's first
  activation and `AddCleanup` therefore leaks its workspace; this costs space only.
- Managers change paths of their own (`MayTouch`), except those in `Shared`, and a
  destination is never inside another. Migration of an old Neovim directory and the
  plugin install, which nest, are outside the model.
- In the runs the recorder, as chezmoi in `reconcile`, comes after a manager that
  activates, and with three managers another one follows it, as blink.cmp does.

### Properties and runs

`journal_atomic` (`MCFsJournal.cfg`; three managers of which the second is a recorder,
two destinations, four inodes, two contents, one failing call per process, any number of
crashes and reruns; 352,416 states up to the symmetry of inodes):

- `NoRollbackConflict`: no rollback meets paths that "changed unexpectedly".
- `OriginalKept`: what a rollback must bring back is at the destination or the side path
  until the change is committed.
- `CommitInv`, the inductive invariant of the proofs, which contains that there is no crash
  point that keeps half an install, blocks recovery, or rolls back what was committed
  (`CommitIsAtomic`, `GroupMembersOnDisk`, `NoCommittedRollback`).
- `UndoLeavesNothing`: a forgotten change leaves neither stage nor backup.
- `InstallIsAtomic`: `FsJournal` implements `InstallTxn`. `stable` is what recovery
  would leave at each path, computed from journals and inodes; it may change at the
  commit point only and then to what is visible, for all paths at once.

`recovers` (`MCRecovers.cfg`; two managers, crashes anywhere, 311,834 states) checks
`RecoveryEnds`: `RecoveryCompletes` of `FsJournalProps`, and `CommitInv`. The two managers
share one of two paths, so that a rollback may stop on a conflict there: what is left then is
still committed whole or not at all.

`journal_shared_fail` (`MCFsJournalConflict.cfg`) is a violation, listed under
[what disagrees](#what-disagrees-with-the-documentation).

Bounds. Two journals are the least that can commit apart and three the least with a
middle one, for which `fail()` has one to go on with and one not yet run. Two
destinations let one manager own two changes, and two managers one each. Four inodes
let both destinations and two side paths exist at once, and one that is freed is used
again at once; a fifth adds no state up to symmetry. One failing call per process together with unlimited crashes and
reruns gives, over a behaviour, any number of failures; two failing calls in one process
do lose the original (the double fault under
[what disagrees](#what-disagrees-with-the-documentation)).

Fairness. `RecoveryCompletes` assumes weak fairness of `Start`, `Recover` and `Settle`
only: the process takes its next step, and the operator reruns an interrupted command, as
`docs/how-to/recover-an-installation.md` tells them to. Nothing is assumed of managers.
Its hypothesis `Undisturbed` says that from some point on nothing crashes and no
call fails, and no rollback stops on a path that two managers changed; without it no program
could promise to finish. A command that *itself* ends because of what it finds, say a conflict
on a path of one manager, does not count as a crash, so that recovery stopping there again and
again violates the property.

### What is proved

`TypeCorrect`: `Spec => []TypeOK` for every number of managers, set of paths, inodes and
contents and every bound on faults. It is proved with `InFlight` (an activation under
way has a change in hand), without which `Last(mem[cur].changes)` need not exist.

`CommitInvariant`: `Spec => []CommitInv`, from which `CommitAtomic`, `GroupComplete` and
`CommittedStays` follow. `CommitIsAtomic` alone is not inductive: that marking one
journal leaves all of them committing depends on the group naming exactly the journals on
disk, which depends on what recovery had cleared before the install began. `CommitInv`
adds this point by point:

- `CommitsLive`: nothing is committed that is not on disk, or in memory and in use;
- `RecoveryPart`: of a group that is being recovered, the members taken off the list are
  committed; scanning starts without a group;
- `WorkPart`: from the first manager to the commit point, or the end of `fail()`, nothing
  is committed, and the process' open journals are those on disk;
- `MarkPart`: while marking, the group is what is open and on disk, and what is off the
  list is committed;
- `SettlePart`: while journals are finished, all of them are committed and the group is
  gone.

The proof has one step per action. The assumptions are the ASSUMEs of `JournalRecords`
and `FsJournal`: sentinels differ from values, `N` is a positive number, `Recorders`,
`Shared` and `MaxFaults` have their types. In particular it holds with shared paths,
conflicts and any number of faults, which is why it cites nothing about `fs` or `side`.

`KeepInvariant`: `Spec => []KeepInv`, the inductive invariant of rollback, assuming
`Shared = {}` and `MaxFaults <= 1`. Both hypotheses are needed: with a shared path
`journal_shared_fail` violates it, and with two failing calls in one process the double
fault does; both are [described below](#what-disagrees-with-the-documentation). Neither
bounds crashes, reruns, managers, paths or inodes. Its parts are:

- `Unique`: what may stand at one destination is told apart by its inode, so that an
  identity recorded before an exchange means the same object after it, although inodes
  are reused;
- `Owned`: a destination is changed once and by one journal;
- `Live`: what is not in use holds nothing;
- `Kept`: until the commit point every change that a file *or* the process records is in
  a state `rollbackChange` knows (`Good`): the file and the memory differ whenever a
  write failed, and either may be what the next rollback reads;
- `RunPart`, `SwapPart`, `Covered`, `SparePart`, `FinishOpen`: what holds at the calls of
  `install`, `ActivatePath`, `Revert`, `fail` and `RecoverJournals`. `SparePart` is where
  the one fault is spent: `Discard` may remove the side directory of a journal only if
  all of its changes are back, or the workspace is `tracked` and kept.

`NeverConflicts` (`NoRollbackConflict`) and `OriginalsKept` (`OriginalKept`) follow. To check
`KeepInv` itself, name it as an INVARIANT of `MCFsJournal.cfg`; it holds there.

`InstallImplemented`: `Spec => InstallIsAtomic`, under the same hypotheses. Most steps must
leave `stable` as it is, which needs that undoing a change leads to the same content before
and after each call of a rollback; `KeepInv` says it of identities and `ContentInv` of contents
(`CopyPart`: a backup is a copy of what is there; `UnlandedPart`: to undo a change whose write
never landed is to do nothing). The steps map so: `RecoverDone` is `Begin`; `ActivateSwap` and
`Mutate` are `Change`; `WriteGroup` is `Commit`; leaving the working points is `End`; `UndoSwap`,
`UndoDropDest` and `ActivateBack` are `Restore`; any other step is a stutter.

`NothingLeftBehind`: `Spec => UndoLeavesNothing`. A rollback forgets what the *file* records when it
rewrites it from memory; `KnownPart` says that for every journal a rollback has yet to come to, or
is at (`Ahead`), the memory knows all that the file does.

Only model-checked, being liveness: `RecoveryCompletes`.

## Approval of pull-request writes

### Modules

| Module | What it holds |
|---|---|
| `PrApproval` | one request and every program that changes it |
| `PostOnce` | the abstract specification: one decision, at most one post, asked anew only when stale |
| `PrApprovalProps` | the properties, the mapping to `PostOnce`, fairness |
| `PrApproval_proofs` | the proofs |
| `MCPrApproval` and its `.cfg` files | the instances TLC checks |

### State

`rec` is the record file with `age` for the time since `Updated`, in parts of the four
hours after which it expires; `lock` the holder of the request's `flock`, `copy` the
record in the holder's memory, `hand` the PID it has just started and not saved, `ask`
the phone question an approver will stop. `pc` is where each program is, `ans` the
answer it has been given and not saved, `asked` how long `moshi-hook` has waited.
Phone questions and runners *are* their PIDs: `"free"` means `kill(pid, 0)` fails, and
`"other"` that it succeeds although the program is gone, because the PID has been
reused or is that of a child nobody has waited for. `late`, `old`, `runs` and `killed` are history
variables that only properties read.

### Actions and the code

- `Rerun`, `Create`, `New`, `Undismiss`, `Poll`: `writeMain`, `loadOrCreate` and
  `waitForAnswer` of `writecmd.go`. Lock and load are one action, since nobody else
  writes while the lock is held; the lookups before a new record is saved are the gap
  between `Create` and `New`.
- `StartQuestion`, `SaveQuestion`, `StartRunner`, `SaveRunner`: `startMoshi` and
  `ensureRunner`: a program is started first and its PID saved after it.
- `RunnerSees`, `RunnerExpires`, `LockToRun`, `StartGH`, `GHExits`: `runnerMain`,
  `reportOrRun` and `runGH`.
- `Show`, `Decide`, `TakeAnswer`, `Dismiss`, `SaveAnswer`, `StopQuestion`: popup and
  terminal, `saveAnswer`, `dismissRequest`, `recordAnswer`, `stopMoshi`.
- `SendQuestion`, `Reply`, `TakeReply`: `moshiAsk`.
- `Tick`, `Kill`, `OtherTakes`, `OtherEnds`: time, kills in the record states of
  `KillIn`, and PIDs that change hands.

### Abstractions

- Requests share nothing, so one record stands for all; the order of the popup's queue,
  texts, exit codes, Herdr markers, notifications and `MoshiError` are left out.
- `Expiry` is the number of steps of time a record lives, so `Expiry = 1` has a record
  fresh, at its last moment and expired. `Updated` is set by `Save`, kept by
  `SaveKeepingAge`, as in `record.go`.
- A kill signal takes effect at once. A signal sent to a reused PID is not modelled
  beyond leaving the model's programs alone.
- Only a PID that a record or a copy names can matter when it changes hands, so
  `OtherTakes` takes no other. When all PIDs of a kind are in use the start fails, which
  the code handles like any failing start.
- An answer given on a popup that still shows a request replaced meanwhile counts as an
  answer to the new one; only an answer already given (`pc = "answer"`) when the record
  is replaced is `late`.

### Properties and runs

`approval_once` (`MCPrApproval.cfg`; 1,198,141 states up to symmetry) has two settings:

- "killed": two agent commands, a popup, a phone question, two runners, with kills and
  failing saves and starts anywhere. `RunsOnce` and `NoLostUpdate` hold, and `PostsOnce`:
  the programs implement `PostOnce`.
- "calm": one command, a popup and two phone questions; nobody is killed and no runner
  starts, but saves and starts fail and PIDs are reused.

`OneQuestion` and `AnswerEndsQuestion` are about records for which no program has been killed: a
command killed at the wrong moment leaves a second question, which is listed under
[what disagrees](#what-disagrees-with-the-documentation). In "killed" they are checked up to the
first kill, and again for the record that replaces an expired one; in "calm" with two questions.

`ends` (parts "popup" and "phone", one way of answering each; kills while the request waits; time
limit 2) checks `ApprovedRuns`: an approval is acted on before it expires, with no rerun. Each has
one runner PID, so the runner that replaces a
killed one gets the PID that is on record.

`approval_stale_answer` (`PrApprovalFresh.cfg`) is a violation, listed under
[what disagrees](#what-disagrees-with-the-documentation).

In the "calm" setting the sets of programs are those of "killed", and the programs it does
without never start, since both settings extend one module.

Bounds. Two commands give two that create, rerun and run at once; one phone question
and one popup give the race of two answers; a second runner PID lets a killed runner be
replaced. `OneQuestion` needs two question PIDs. A third program of a kind meets the
same record under the same lock and adds no new order of two saves.

Fairness is weak, per program, on that program's own steps: a process that can go on does.
The owner, the agents, kills and time are not fair, so `ApprovedRuns` counts on nobody to
rerun anything. A program that waits for the lock gets it in the end in the model as
`flock` is only held by programs that go on; in the runs at most four are waiting.

### What is proved

In `PrApproval_proofs`:

- `TypeCorrect`, `OnceInvariant`: `Spec => []TypeOK` and `Spec => []OnceInv`;
- `RunOnce`, `RunLocked`, `NothingLost`: `gh` runs once, a running record found under the
  lock is that of a dead run, and no save loses another's;
- `AgesOnly`: the action property `PendingAges`, reruns never keep a waiting request young;
- `PostsOnceImplemented`: `Spec => PostsOnce`, the refinement of `PostOnce`.

They hold for any sets of agent commands, approvers, questions and runners, any `Expiry`,
with or without failing saves and starts, with kills in any record states and with
reused PIDs. The assumptions are the ASSUMEs of `PrApproval`: the kinds of program have
no member in common, `None` is no program, `Expiry` is positive.

`RunsOnce` is not inductive: that `gh` is not started a second time depends on the
starter having seen "approved" in a record nobody has changed since. `OnceInv` says why:

- `HolderPart`: a program is between Lock and Close exactly when it holds the lock;
- `CopyPart`: the holder's copy is the record, apart from a question it failed to save,
  and at each point the record is in the state the code checked;
- `RunsPart`: `gh` was started once if the record says running or ran, else never.

Even the types rest on it: that the PID saved as the runner's is a runner's holds since
nobody else can have set `hand` in between. The proofs follow the four ways a step can
relate to the lock (outside, taking it, moving on inside, leaving), each a lemma, so that
an action's lemma only shows which one it is. `RequestStep` then sums up what any step may
do to the record's state and age, and `AgesOnly` and the refinement follow from it.

`PhoneInvariant`, `AskedOnce`, `AnswerEnds`: `Spec => []PhoneInv`, from which `OneQuestion` and
`AnswerEndsQuestion` follow. That there is one question depends on `startMoshi` finding the PID of
the one there is, and a PID is on record only after its program runs. `PhoneInv` says, as long as
no program was killed since the record was created:

- `PhonePart`: while the request waits, a question on the phone is the one on record and in the
  copy of whoever has loaded it, or else the one in the hand of the command that is to save it; so
  `StartQuestion`, which finds no live PID in its copy, finds none on the phone either;
- `AskPart`: an approver with the lock knows that question as the one it will stop, and no new one
  can come since its request waits no more. `StopStays` shows that nothing else takes an approver
  on from there.

A new record starts without a question, whatever was killed before: those that go on are `old`.

Only model-checked, being liveness: `ApprovedRuns`.

## Review session

`ReviewSession` is one worktree's session: the agent's calls that build and send a
Feedback Request List, the screens that answer it, dismissal and restoring, the write of
the answers, and the waiting list.

State: `code` and `decided` (the approvals) per comment, `sess` (`review.json`), `listed`,
and for each call and screen where it is and what it saw. Three variables are histories:
`shown` holds the texts the user answered, `missed` says that the review's own listing was cut
off by a kill or failed, `mixed` that a list went into a session it was not built from.

Actions: every operation on `review.json` holds its lock from the read to the save, so it is
one action. What the code does *between* two operations is what the module is about:
`See`, `Build`, `AddList`, `AddToWaitingList` are four steps of `send_agent_suggestions`;
`Open`, `GiveAnswer`, `GiveNote`, `RemoveNote`, `Reload` are a screen's;
`ReturnToAgent`, `WriteDone`, `WriteFails`, `WriteUnfinished`, `WriteNothing` are the
outcomes of step 7, whose inside is `WriteBack`; `Dismiss`, `Restore`, `Edit` and
`AgentKilled` come at any time.

Requests find their comments one to one, as `match_requests` does: of two requests about one
comment only one finds it, the first, or the first with its text where the comment has no name
(`Candidates`, `FindsWith`). So a comment that was edited while a list was built, and put back
after, can have two requests, and step 7 gives its file back to the agent.

Abstractions: comments keep their identity here (`CommentReview` takes that away); a
request's older versions are left out, since nothing reads them; the answer of a screen is
its newest word, as the code overwrites it.

Run `session` (1.03 million states) has four parts: two screens on one comment through
three lists; two calls and a screen where any process may be killed and any save or
listing may fail; two comments in two files with the same failures; a comment that is reworded
and put back between three lists. One comment is enough for the races of lists and answers, two
for what a list may drop or keep beside another, two files for a write that gives a file back,
two edits for two requests about one comment.

- `SessionFits`: `TypeOK`, `AnswersFit` (an answer belongs to the words its request shows),
  `NoDeadEnd` (someone can always move the review on), `OneAnswerPerComment` (no two requests
  ask about one comment in the same words, unless the session is `mixed`).
- `ApprovedWasSeen`: a text becomes approved only when the user answered that very text.
- `WaitingIsListed`: a review that waits is on the waiting list, or its call is about to put it
  there, or it has `missed` its own listing: see
  [what disagrees](#what-disagrees-with-the-documentation) for that one.
- `NoAnswerLost`: no list takes an answer from a comment that is as it was answered, unless it
  was built for another session (`mixed`), and no answer passes into the next review.

### What is proved of a session

`ReviewSession_proofs` proves all four for any number of calls, screens, comments, edits, lists
and failures, from the assumptions on the constants alone. They rest on one inductive
invariant, `ReviewInv`:

| Part | Why it is needed |
|---|---|
| `TypeOK` | requests are a finite function over positive numbers: the new IDs of a list, from `MaxId` on, meet no older one |
| `AnswersFit`, `NoDeadEnd`, `OneAnswerPerComment`, `ApprovedWasSeen` | the properties themselves |
| `AnswersShown` | an answer's words are among `shown`; with `AnswersFit` this makes what step 7 approves a text the user answered |
| `RestoreFits` | a dismissed session has a next move again when it is restored, which `NoDeadEnd` does not say |
| `CallInv`, of every call | what holds between the build of a list and its adding, when no list was added since: the notes it saw still wait (`LooksOK`); its list asks about a comment once (`AsksOnce`), resends only requests with a note and asks about no comment whose text an older request still finds (`ListFits`) |

`CallInv` is the heart. `AddList` compares only status and number of lists, so what a list may
rely on has to survive everything others do in between: while notes wait, nobody but a list can
change the session (`SameCalls`), and edits cannot hurt, because `ListFits` speaks of the texts the
requests hold and not of the code. Where another list was added in between, `at` differs from
`sends`, and the step is `mixed`. That each comment gets exactly one new ID (`NumberedFacts`) is
proved from the finiteness of the comments without induction, by taking the least number that no
comment has. `WaitingIsListed` is inductive by itself, beside `TypeOK`.

`ReviewsSettle` of run `ends` checks `AnsweredReviewSettles` under the module's fairness.

## Write of the answers

`WriteBack` is step 7 call by call: `Begin`, `Rewrite` (read every file and match its
comments), `Mark` (status "writing"), `MakeFolder` and `SaveOriginal` (the backup),
`CreateTemp`/`Matches`/`Replace` for each file (write a temporary file, compare once more,
rename), `Decide` (approvals), `Done`, `Remove` (the backup), `Unlist`, `Release`; and the
way back, `PutBack` file by file and `Refuse`. `Signal` is a stop signal, which the code keeps for
when the files have settled; `Killed` may come between any two calls; `Edit` is anybody else
changing a file at any moment; `CleanUp` and `NextReview` are the user who takes an unfinished backup away and a later
review.

State: each file's contents (its text, and whether an edit is in it), `temp`, `backup`,
`status`, `decided`, `listed`; the program's `pc`, `read`, `written`, `current`, `left`.
`put`, `orig`, `owed`, `lost` and `gap` are histories: which files hold answers, what they
held before, the same of a write that stopped short and was given up, the edits a rename
overwrote, and those made between a file's last comparison and its rename.

Abstractions: the session's lock is held from `Begin` to `Release`, so no other program
changes the status; a pass over the files reads them in one step, which loses nothing as
each is compared with what was read before it is replaced; texts are "old" and "answered".

Run `write_back` (two changed files and a kept one, two edits, two failing calls, kills and
signals, two reviews; 533,973 states, with those of `CommentReview`):

- `AllWrittenOrNone`: a review that waits has changed and decided nothing, a finished one everything.
- `OriginalsSaved`: while answers are in the files of an unfinished write, their originals
  are in the backup folder, also once another review has begun.
- `EditsSurvive`: no edit is lost except in the gap the code names (`replace_file`).
- `KeepsPromise`: `WriteBack` implements `AllOrNothing`.
- `EveryRequestFound`, `WritesAnswersOnly`: what a write does to the text of a file, on
  `CommentReview` (see [comments](#comments-pages-and-style)).

Two changed files give a write stopped between them; two failing calls the write that fails
and whose way back fails too; two reviews the backup of an earlier write that is still there.

Proved in `WriteBack_proofs` for any number of files, edits, failures and reviews:
`TypeCorrect`, `WrittenOrNot`, `OriginalsStay`, `EditsStay`, `WritesAreMarked` and
`Implements` (the refinement). The inductive invariant `IInv` adds to the properties what
the program knows where it is: `StatusOK` (the status that belongs to each point),
`ReadOK` (which files it has read), `PutOK` (files holding answers are those a pass has
behind it and has not put back: "behind it" is `Passed`, by path order, which is what makes a
pass over a set of files inductive), `BackupOK` (the folder holds what was read, and no
earlier review needs it while it is in use) and `GapOK` (an edit a rename overwrote came
after the last comparison). The assumption is `WriteBackAssumption`.

## Approvals file

`ApprovalsFile` is the file that all worktrees of a clone share. `Adders` are write-backs that
add a decision, `Droppers` runs of `drop-gone-approvals`, which list the worktrees, take
the lock, read the decisions, look into the code of every worktree file by file, back up
the file and replace it. Replacing is `write`, `sync`, `rename` of a temporary file.

Faults: a crash of a process at any step, a power cut, a failing step, a file broken by hand or
written by a newer version, code that does not parse. Worktrees are added and removed, and their
code changes, at any time.

`write_saved_file` and `back_up_approvals_file` sync what they write and never the folder, so a power
cut does two things. Contents that were not synced are gone (`AfterCut`). And the names in the folder
may be older ones: `older` keeps the `Folder` as it was before each new backup name and each rename, and
`PowerCut` leaves any of them or the present one. The add whose rename is undone so is `undone`, not
`saved`. Assumed is that a file system keeps changes of one folder in their order, as journaling ones
do.

Abstractions: one decision per add; hand edits only while nobody holds the lock, and they
survive a power cut unless an older folder comes back; words to avoid are left out.

Run `approvals_file` (1.37 million states; `setting` chooses between two adds and a drop with all faults on
one worktree, and an add and a drop on two worktrees that come and go):

- `NoneLost`: a decision whose add returned is in the file, or in a whole backup once a drop
  took it, through crashes, failing steps and broken files. A power cut takes it only by undoing the
  very rename that saved it; those saved before stay. That one the code does lose: the document of
  `write_saved_file` (approvals.rs:236) promises a whole file, "old or new", and no more, and the review
  may be finished by then, so that nobody saves the decision again.
- `FileWhole`: a crash or a power cut leaves a whole file, old or new.
- `DropsGoneOnly`: a drop takes all decisions about some code or none, so no cut comment
  comes back as an approved one, and keeps those about code that a listed worktree has had ever since.

The saved file approves a comment, decides about another and cuts the first, which is the
least for which dropping by single decisions would go wrong.

Proved in `ApprovalsFile_proofs` for any processes, worktrees, code and faults:
`TypeCorrect`, `FileStaysWhole`, `NoneIsLost`. `IInv` adds `LockOK` (one process is past
the lock), `StepsOK` (adders and droppers keep to their steps), `WholeOK` (what is about to be
renamed is whole and synced), `KeptOK` (what an adder writes holds all that is in the
file), `BackupOK` (what a dropper writes over is in a backup) and, for power cuts, `OlderInv`: each
folder in `older` has a whole file and holds, with its backups, the saves it is noted to hold.

`DropsAreRight` proves `DropsGoneOnly` from a second invariant on top of it, `DropInv`, for every
drop:

- `SortOK`: the file is the decisions already sorted followed by the queue, and what is kept of the
  sorted ones is, code by code, either all of them in their order (the code was found) or none
  (`KeptOf`). A file is read once, at its first decision, which is what makes it all or none; so
  `KeptOf` also says that no decision was sorted whose file was not read yet.
- `SinceOK`: code that is in `since` is in its worktree now, and was found if its worktree was listed
  and its file was read. Without it a drop could miss code that was there all the time.

`Decisions` is a recursive function, so what it does with one decision more is an induction over the
decisions. The library's induction theorems cannot be cited for it; `SetInduction` says the same of a
*set* of numbers, and follows from the well-foundedness of `<` (`WFMin`). `FirstOnesExist`,
`FirstOnesSame` and `DecisionsOfMore` rest on it.

## Review screens

`ReviewScreen` is one screen key by key. The terminal queues every key with a memory of what
was drawn when it was pressed (`saw`), so a property can say for *which* words a key
was meant. `Program` draws, drops the waiting keys, reads one, saves, loads again, runs
nvim (`away`), or goes on to step 7 and the result. `Env` says what else happens: another
screen, the agent, whose lists may come between any two steps, failing saves, loads and answer checks.
Two histories keep what the code does not know: `joined`, that another screen or a list within a save
changed the review; `late`, that a list came between a save and its load and no request was drawn anew
since. Assumed: a key that can be read
is read at once, compared with `SETTLE`; Ctrl-C while the terminal is handed back is not
modelled; a text is its number of letters; scroll keys are left out. A review with no request left is
left out of the run: see [what disagrees](#what-disagrees-with-the-documentation).

`ReviewPicker` is the waiting list of all worktrees with the picker that shows it and the
commands that find a review by branch. Changes of the list are atomic under its lock and do not
fail here (`ReviewSession` has that). Branches, clones, agent sessions and heights are constants:
a worktree keeps its branch, and the picker keeps what it read when it opened.

`ReviewWindows` is what the two keys do in Herdr: each press asks Herdr one request at a
time for a popup or a tab, while other presses do the same. Saves of the popup record do
not fail.

Run `screens` (1.46 million states) has five parts: one screen with every key and everything that
can fail; one with three keys beside another screen and the agent; the picker; the waiting list; the
windows.

- `NoStrayAnswer`: a key answers only the very version the user was looking at, after it had been
  shown for `SETTLE`. It says nothing of a key given while `late`: the code then takes the old
  version's wait for the new one's, and does give a stray answer
  ([a list within a save](#what-disagrees-with-the-documentation)).
- `AsksWhatIsSaved`: a screen that waits for a key asks what `review.json` leaves open, also
  after refused and failing saves, until another screen works on the review or a list comes between
  a save and its load (`joined`); and a result is not closed by a key pressed before it was drawn.
- `PickerKeepsReviews`: the marked review is in view and is the one the keys act on; and no
  review falls off the list while its worktree's drive is away.
- `RecordNamesPopup`: the popup record names the process of the popup shown.
- `WindowsInTurn`: the keys open one Review Tab at most, unless two presses overlapped or Herdr
  failed, and leave no record behind, unless a popup was killed from outside. `amiss` keeps which of
  these happened.

Two requests are the least with a next and a last one; three reviews the least with a middle row
and two groups; three presses the least in which one meets two others at different points.

Proved in `ReviewScreens_proofs` for any presses and faults: `TypeCorrect`, `RecordNamesIt`,
`TurnsAreKept`. The invariant for the record is `DataOK`, `OnePopup`, `RecordNamesPopup` and
`RecordShown`: a record is that of an open popup or of one killed from outside. The one for the tab
is `TabInv`, which holds while nothing is amiss: one press is at work, a press that is about to open
a tab has found none, and the one tab has its name unless its press is about to give it. The last
part is needed because `open_review_tab` knows a tab by its name only.

And for one Review Screen, with any requests, keys, wait, queue and texts, and anything in `Env`:
`KeysAreSeen` and `AsksWhatIsOpen`, with the exceptions the properties state. Neither property is inductive: which words a key was
pressed on, and whether the load will find the request a save left, are nowhere in the screen's own
state. `ScreenInv` adds both:

- `SeenInv`: a screen is `Live` while the request that was drawn is still the one shown and it is not
  `late`. Then what is
  drawn is that version of it, it was drawn no later than `drawnAt` counts from, every key that waits
  was pressed on it, and none of them before it had settled, once it has. So a key that passes the
  code's only test, the age of the *request*, was itself pressed late enough.
- `LoopInv`: a note prompt opens after the wait only, and closes before another request is shown.
- `SavedInv`: between a save that was done and the load, the request saved is in `review.json` in the
  version that was answered, unless a list came since. So a load that stays on its request stays on the words that were drawn.
- `OpenInv`: until another screen joins, a review that waits has a request without feedback whenever
  the screen asks, and after a save it has one, or only answers, or was handed to the agent.
- `ShapeInv`: the shown position is one of a request wherever the code reads a request there.

`late` guards both `SeenInv` and `SavedInv`: a list within a save breaks them in the code, until a
request is drawn anew. That the position `find_index`
returns is that of the request is a fact about counting: `Ranks` says that the number of smaller IDs
numbers the IDs of a list from 0 without gaps, for any finite set of numbers.

And for the waiting list and its picker, with any finite set of worktrees, any branches, clones,
agent sessions and heights, and worktrees that come and go at any time: `PickerActsOnMarked`.
`PickerInv`, proved in `PickerInvariant`, is what its steps keep:

- `ListInv` and `AllListed`: no worktree is listed twice, and one whose review still counts
  (`WaitStatuses`) is listed unless it is removed. A worktree that is only away stays listed, so it is
  found again by its branch when it is back: this is where `IsRemoved` must look at the folder
  that held the worktree.
- `OpenOK`: the index of an open picker is that of a review in its groups, through every dismissal,
  which may empty a group or close the picker.

What can be seen follows from `OpenOK` alone. `Enter` and `x` find their review by a walk over the
groups (`ReviewAt`), the screen draws all groups' rows one below the other (`RowsOf`), so the proof
builds both up group by group: `RowsSoFar` says that each review drawn so far has two rows under a
title, `ReviewsSoFar` that the review at an index is the one a walk over the sums of the
groups' lengths (`UpTo`) ends at. `FlattenSeq` and `UpTo` are recursive functions, so `FlattenJoins`
and `UpToSums` first say that any function with their equations is what they return, and
`SetInduction` takes the place of induction for an operator. `ChosenSeen` is the arithmetic of
scrolling: both rows are in view at any height, one that holds no row at all included.

## Comments, pages and style

These modules are algorithms on text. A line is a few tokens; a word, a name or a URL is one token,
one column wide. They are checked over every text that small sets of lines build.

`FileComments` reads the comments of a file, names them for the code below, matches them with the
requests of a session (closest first) and rewrites them. `CommentReview` puts this through lists,
notes, edits, the write and the formatter, which may reorder neighbouring imports, be missing or
fail. One file with Rust's comment styles; nested names, `\r\n`, committed and staged copies,
notes for tools beyond one kind and documentation tests are left out; a list is built and sent in
one step; a refused rewrite is a disabled step.

`LineComments` and `Docstrings` turn a comment into plain words and lay them out again. `EditPage`
is the loop of it: an agent writes, the page shows plain words, the user edits them, the saved words
become the comment. Tabs, a trailing backslash, `...` and `\N{}` are left out.

`StyleText` and `StyleCheck` are step 2: sentences, definitions, the lines Git's diff marks (any
longest common subsequence), text at the base, generated files, approved comments. The copy on
disk only; comments inside bodies, decorators, nested definitions, names that frameworks skip, Go's
exempt notes, the avoid list, abbreviations, and the replacement of code and URLs are left out; every
definition needs a docstring. `Keep` and `Reword` stand for a whole review.

`CommentReview` is checked in run `write_back`, parts "rewrite" (files) and "notes" (lists):

- `EveryRequestFound`: matching is stable (no comment and request that fit are both nearer to each
  other than to what they got), each comment that needs feedback has a request, and in a file nobody
  touched step 7 finds every comment.
- `WritesAnswersOnly`: a write leaves the code and all comments but the answered ones as they are,
  whatever the formatter does, and the next list does not ask about an answered one.

The first part, that matching is stable, is proved in `WriteBack_proofs` for any comments and requests
that have a line: `MatchingIsStable`. `TookAll` is what it rests on: of each pair that fits, the
request or the comment got a partner that fits and is no further. While pairs are taken, closest first,
a pair is either so `Served` or still `Left` (`Took`), and each step but an idle one gives one more
request its comment (`TakePairKeeps`), so as many steps as there are requests leave no pair. The second
pass, which gives a nameless request the comment at its line, changes no request or comment that was
served (`GiveOne`).

Run `text` (107,219 states) checks the other two:

- `PageKeepsComment`: the page, the saved words and the comment of a reword hold exactly the words
  they were made from, compared as raw lines without the parser they all share (`NoWordLost`); what
  glimmer laid out reads back as it was, and a saved page shows the same again (`Rebuilt`,
  `ShownAgain`); examples, fences and headings, found by a reading of their own (`KeptLines`), stay when
  only sentences change (`ExamplesKept`). Two exceptions are the code's: a fence line deeper than one
  column may lose one each time (`Loosen` makes up for it, and no more), and an example that starts the
  page loses its blanks (`StartsDeep`). Both are in the run, and under
  [what disagrees](#what-disagrees-with-the-documentation).
- `StyleFailsRightly`, for the texts of the run, which have no example in a moved Python comment and no
  second definition of a name: text that was at the base, moved or not, never fails; a new colon, or an
  approved text, is seen by exactly the half of the check it belongs to; what step 5 lets through
  does not fail later.

The files are those in which a rewrite is risky (comments of one text near each other, on one line
with code, between a documentation comment and its code, before imports that move) and every comment
of up to four lines over five kinds of line. A fence or example needs three lines and one after it;
the lines of a fence stand at no column, one, and three, which loses one and stays deep.
`RewordStaysClean` says nothing of the docstring rule, which step 5 does not look at.

## Formatters

`ToolRun` is one run of gofmt, rustfmt or python3: a writer and two readers on bounded pipes, the time
limit, the kill of the process group, the grace period, the judgement. The tool may hang, fail, print
without reading, close its input or all its pipes, and start a helper in its group and a stray outside
it. One grace period stands for that of all threads. Run `ends`, part "tool":

- `EndsCleanly`: printed text is used only if the tool succeeded, was sent the whole file and was
  read to its end; the kill never reaches a group that took over the number; after the limit nothing of
  the group runs on, unless it could not be signalled.
- `WorkEnds` (`Ends`): the run ends whatever the tool does and whoever holds its pipes.

Proved: `ToolIsSafe`, that is `EndsCleanly` for any sizes of input, output and pipes. That the text
of a result is whole is a fact about the past: by the time the caller judges, the tool is gone and its
pipes may have other holders. The invariant carries it from thread to caller: how a thread ended says
where its pipe stands (`ThreadPart`: the writer is done only when all input is fed, the reader only when
the pipe is empty and nobody holds it), the caller collects the tool only after it heard all three or
killed the group (`CallerPart`, so that the group's number is still the tool's when it is signalled), and
what a result rests on does not change after it (`ResultPart`). That three messages are three threads is
a cardinality, `SaidCounts`. That the run ends is liveness, and stays with TLC.

## vibe

`VibeRun` has runs whose keys make one slug, so they share lock, key file, branch, worktree and index.
`RunStep` goes through the stages of `app.rs`: lock, claim, worktree and approvals, record, prompt,
dirty check, commit before the run, sandbox, agent, snapshots, result commit, terminal record, summary,
index, result file, repair of late errors, emit. The agent edits, snapshots and ends in between; vibe may
be killed at any point; the user acts on the worktree between runs. `Latest` is what `vibe status` shows.

Assumed: nobody else edits the worktree while a run holds the lock; runs start in the order of their
`created_at`, but for those that start within one second (`QuickRuns`); the agent ends, since vibe
has no time limit; a killed vibe's container ends with it (`Orphans` FALSE; TRUE breaks `OneAgent`, see
[what disagrees](#what-disagrees-with-the-documentation)); a snapshot is stopped only after its log line.

`VibeLaunch` is one launch: credentials, the user's and the repository's skill folders, runtime files,
image. Each inspection is two steps, the look and the resolution of the path; others change the
folders at any moment, up to `MaxChanges`, and `stale` keeps what they changed after its last check. Two runs that write the runtime files at once are left out.

Run `vibe` (2.15 million states; two runs of one key with two failing calls, a halved snapshot and a user
who changes the worktree once; three runs of two keys killed anywhere with their containers; one launch with two
changes and a failing call):

- `SlugIsOwned`: runs whose keys make one slug but differ never both start (`OneKeyPerSlug`), no two
  agents are in the worktree (`OneAgent`), a result commit holds only its own agent's changes
  (`OwnChanges`). The last two hold only where a kill ends the container too, which nothing in the
  code sees to.
- `ResultsAreTrue`: a view of the record never tells more than the record (`ViewsFollow`), a result
  without a persistence error misses nothing (`NothingSwallowed`), its status is the record's
  (`StatusKept`), and the branch was where the result says (`HeadKnown`).
- `StatusIsNewest`: `vibe status` shows a run that started last, or in the same second.
- `KeepsPreRunCommit`: no step loses the commit before the run.
- `LaunchIsSound`: the mounts are the directories setup inspected and hold the skills of HEAD, unless
  changed after the last check (`stale`); credentials are there and goog never gets the Pi folder; the
  image comes from whole files.

Two failing calls are a write that fails and whose repair fails; three runs let two wait for one; two
changes put a folder out of the way and back; one change of the user suffices for a run to find a dirty
worktree. The parts limit what the constants leave open with conditions on the next state (`TwoRuns`,
`ThreeRuns`); the two runs of one key are alike, so one of them begins.

### What is proved of a run

`VibeRun_proofs` proves all four properties of `VibeRun` and that of `VibeLaunch`. Those of `VibeRun` are
proved for any set of runs, any keys that make the slug, any number of failures, snapshots and changes
by the user. `SlugIsOneRuns` and `ResultsAgree` have the hypothesis `~Orphans`, the assumption of the run:
a killed vibe's container ends with it. It is needed, since with orphans TLC finds two agents in one
worktree. What holds without it is stated without it: `RunsTyped`, `ReportsAreTrue`,
`PreRunCommitIsKept`, `StatusShowsTheNewest`, `OneKeyHasTheSlug`.

None of the properties is inductive. The invariant has a part per question, each checked by TLC first:

- `StatusInv`, `LossInv`, `RecordInv`: at each stage, what of the outcome is already in the record, the
  summary, the index and the result, and that what is missing is marked as a persistence error. A stage
  that fails jumps to the terminal write, so each part says what holds at *every* stage it can jump from.
- `StartedInv`: a run is in `started` exactly from its first record on, in the order of `created_at`, and
  of any runs that have a record one is the newest. The last conjunct is part of the invariant, kept step
  by step, which spares an induction over the runs.
- `LockInv`, `KeyInv`: a run between claim and release has the lock; whoever passed the claim has its key
  in the slug's key file, which is never rewritten.
- `AgentInv`, `DirtyInv`, `HeadInv`, `CommitInv`: an agent runs only under a waiting vibe; the worktree
  holds only changes of the run whose lock it is, from its dirty check on; the head is the commit the run
  recorded before or the one it made; a result commit was made by its own run, of its own changes.

`LaunchIsChecked` is `LaunchIsSound` for any number of changes and failing calls. `LaunchInv` says what is
known at each step: of a folder, nothing before its inspection, then setup's directory, then its mount
(`FolderInv`, `MountInv`); a repository folder is as in HEAD from the first check on or was changed since
(`SkillsInv`); the credentials from the first step on (`AuthInv`); whole files from their write to the
build (`FilesInv`).

## What must end

`ends` (154,755 states) and `recovers` (311,834 states) check liveness. Each part is under the
fairness its module states, all of it weak:

| Part | Fair | Not fair |
|---|---|---|
| journals | the process' next step, and the operator who reruns an interrupted command | managers, crashes |
| popup, phone | each program's own steps | the owner, agents, kills, time |
| session | a screen's step once begun, a call that saved its list, and the user who opens a listed, fully answered review again, which is the program's only retry | answers, new lists, edits, dismissal |
| write | the program's steps, the user who begins again and who removes a backup the program names | edits, signals |
| screen | the program, and nvim or diff coming back | the keys |
| windows | each press' requests to Herdr, which answers | failing requests, kills, what the user does in a window |
| tool | the three threads, the time limit, the caller | the tool and what it started: it may hang |

- `ReviewsSettle`: a review whose requests are all answered is written, handed to the agent or
  dismissed, through failing writes and two screens.
- `WorkEnds`: a formatter's run ends; Ctrl-C ends a screen from wherever it is; a press ends with a
  window or a word to the user.
- `RecoveryEnds`, `ApprovedRuns`: see the journals and the approval.

## What disagrees with the documentation

Two have a run in which TLC finds the violation; `PROJECT.json` quotes the documents.

| Run | What happens |
|---|---|
| `journal_shared_fail` | npm and chezmoi both manage `~/.local/bin/opencode`. When a later step fails, chezmoi's rollback puts its *copy* back, so npm's rollback finds an inode it does not know and stops; the journal then stops every later command. |
| `approval_stale_answer` | An answer to an expired request waits for the lock while a rerun replaces the record, and is saved on the new one. |

The rest were met while modelling and have no run. Each names the line where the code
does it and quotes the sentence that says otherwise. The models leave the case out of their runs or state their
properties without it, as their sections say.

- **Order of recovery** (`src/pde-installer/internal/fsutil/journal.go:123`). RecoverJournals takes
  journals in the order of their random file names, not in reverse order of creation. After a crash
  with two journals that changed one path (npm and chezmoi on ~/.local/bin/opencode), rolling back
  the earlier one first lets the later one restore the copy it made of the uncommitted version.
  src/pde-installer/docs/explanation/journals-and-recovery.md:14 says 'an uncommitted journal
  restores old paths'.
- **Two faults in one activation** (`src/pde-installer/internal/npm/npm.go:105`). When the sync or
  the journal write after an exchange fails and the exchange back fails as well, Activate returns
  with the original still at the stage path inside the workspace, and the caller's deferred
  os.RemoveAll(workspace) (npm.go:103-108) deletes it while the pending journal still refers to it.
  src/pde-installer/docs/how-to/recover-an-installation.md:24-25 says of journal files and backup
  paths 'They hold the information needed to restore earlier files.'
- **A reused PID** (`src/pdev2/internal/cmd/runnercmd.go:55`). ensureRunner takes any live process
  with the recorded RunnerPID for the runner, and nothing ever takes the PID of a dead runner off
  the record, although moshiAsk does so for its own PID because 'The system reuses PIDs'
  (moshiaskcmd.go:124-128). A runner killed by a reboot whose PID another program has by then is not
  replaced, and the approval waits for a rerun. src/pdev2/docs/explanation/request-flow.md:118-121
  says 'A rerun of a waiting request, or an approval, checks the runner's process ID in the record
  and starts a new runner if the old one is gone. Without this, a late approval would wait until the
  agent reran the command.'
- **A second phone question** (`src/pdev2/internal/cmd/moshiaskcmd.go:46`). The phone question is
  started before its PID is saved. If the agent command is killed in between, the question runs on
  but the record does not name it, and the next rerun sends another.
  src/pdev2/internal/cmd/moshiaskcmd.go:28-29 says 'startMoshi sends the phone question unless the
  one saved in the record is still running, so reruns of a waiting request never send a second
  question', and src/pdev2/docs/explanation/request-flow.md:179-180 'the phone never shows two
  questions for one request'.
- **A session that looks as seen** (`src/glimmer/src/shared/review_session.rs:60`). add_list
  compares only the status and the number of lists (SeenReviewSession, review_session.rs:689-705),
  so it replaces a session that another call has sent and the user dismissed in between when both
  have one list; its doc says 'Refuses with `ListChanged` when the Review Session is no longer as
  `seen`, such as after another call sent a list.' (review_session.rs:42-44). After two whole reviews
  by other calls, a list built for the notes of one session is also added after the notes of a later
  one with as many lists, and takes the answers of that session with it, although the comparison is
  there because a list built for another session 'could drop User Feedback given since'
  (review_session.rs:59). TLC finds this with two calls and four lists. The model notes it in `mixed`.
- **A waiting review nobody lists** (`src/glimmer/src/steps/send_agent_suggestions.rs:73`). The list
  is saved before the worktree is put on the waiting list, in another file; a call killed in between
  leaves a review that waits and is not listed, and no later call lists it, though every later send
  is refused with 'A Feedback Request List waits for the user. Tell them to press Ctrl+b e, then
  wait.' (review_session.rs:105) and Ctrl+b e shows only listed worktrees (start.rs:149-153).
- **A container without its vibe** (`src/vibe/src/adapters/docker/mod.rs:296`). The container is a
  child of vibe that nothing ends with it: when vibe is killed the kernel frees run.lock while the
  agent goes on in the worktree, and the next run takes the lock and starts a second agent there.
  src/vibe/docs/reference/state-layout.md:19 says: "`run.lock` | Lock held while a run claims and
  uses the slug."
- **Two runs in one second** (`src/vibe/src/ledger.rs:141`). created_at counts whole seconds and
  ties are broken by the path of the record, whose last part is a random run ID: of two runs that
  start within one second status may show the older one. src/vibe/src/cli.rs:44 says: "Show the
  latest persisted run state for one key."
- **A worktree without approvals** (`src/vibe/src/adapters/git.rs:225`). The approvals are copied
  once, after `git worktree add`. When the copy fails, or vibe dies before it, the worktree stays,
  and every later run finds it, validates it and starts the agent in it without the approvals.
  src/vibe/src/adapters/git.rs:251 says: "Copies the owner's approved comments from the main
  checkout into a new worktree, so the comment checker in the container protects them."
- **Skills edited after the check** (`src/vibe/src/adapters/docker/mod.rs:265`). The launch looks at
  device, inode and links again, not at the contents: a skill file edited after prepare_stage's
  comparison with HEAD is mounted. src/vibe/docs/explanation/shared-skill-trust-boundary.md:37 says:
  "Validation happens before Docker launch and is repeated immediately before the bind arguments are
  built."
- **The Pi folder beside credentials** (`src/vibe/src/adapters/docker/auth.rs:112`).
  prepare_provider_auth returns the Pi folder whenever it can be written, also when the environment
  has the provider's variables, and the container gets it.
  src/vibe/docs/reference/runtime-inputs.md:13 says: "host `~/.pi/agent` at `/vibe-home/.pi/agent`,
  writable, only for file authentication"
- **A list within a save** (`src/glimmer/src/review_screen/saving.rs:82`). show_after_save shows a
  request anew, which starts its wait, only when its position changed; a list that lands between
  save_given_feedback's save and its load replaces the shown version at the same position, so the
  next answer key counts at once for words just drawn. src/glimmer/src/review_screen/screen.rs:18
  says "How long `a`, `o`, `c` and `m` wait after a request shows, so a double tap cannot answer two
  requests."
- **A review with no request left** (`src/glimmer/src/review_screen/saving.rs:60`). After a refused
  save the screen shows find_index_or_first_unanswered's position, 0 when the review has no request
  left; a list after notes may leave none (add_list_after_user_notes drops requests whose comments
  are gone), and requests()[0] panics. src/glimmer/src/review_screen/mod.rs:57 says "Fails only when
  the terminal cannot be read or drawn on. The screen shows every other failure itself, in the
  user's words."
- **Order of the waiting list** (`src/glimmer/src/shared/review_session.rs:349`).
  add_to_waiting_list leaves a worktree that is listed already where it is, and a dismissed review
  stays listed, so a list sent to it later keeps the old place.
  src/glimmer/src/review_screen/picker.rs:41 says "The waiting list keeps the order reviews were
  sent, and the newest shows first."
- **Two Review Tabs** (`src/glimmer/src/review_screen/herdr.rs:142`). The new tab gets its label, by
  which the next press would find it, in a later request than the one that opens it; a second press
  that lists the tabs in between opens another Review Tab.
  src/glimmer/src/review_screen/herdr.rs:130 says "Opens the Review Tab, or moves to the one already
  open, so a second Ctrl+b E does not open a second Review Screen."
- **A worktree added during a drop** (`src/glimmer/src/commands/drop_gone_approvals.rs:33`). The
  worktrees are listed before approvals::remove waits for the lock and reads the decisions, so a
  worktree that exists when the lock is taken, with its code and perhaps with decisions just added
  for it, is not looked into. src/glimmer/src/commands/drop_gone_approvals.rs:28 says "Removes
  approvals and cuts for functions or files that no worktree has any more" and at :29 "A branch
  still in a worktree keeps its approvals, even before it merges."
- **Indentation in a fence** (`src/glimmer/src/language_rules/line_comments.rs:110`). group_blocks
  takes a space off each line of a fence both when a comment becomes plain words and when those
  words are laid out again, where no marker came before it, and lay_out_plain_words puts only one
  back: code indented in a fence loses a column on each rewording. Without `Loosen`, TLC finds this in
  `PageKeepsComment`.
  src/glimmer/src/shared/comments.rs:1539 says "`lay_out_plain_words` must turn the words
  `to_plain_words` returns back into the same comment."
- **An example that starts a comment** (`src/glimmer/src/review_screen/in_place.rs:137`).
  read_edit_page trims the blanks before the first word on the page, so an example that starts the
  comment loses the tab that marks it and is laid out as a sentence.
  src/glimmer/src/language_rules/line_comments.rs:91 says "Holds lines that start with a tab or two
  spaces, kept as written."
- **Two comments on one line** (`src/glimmer/src/shared/comments.rs:990`). Step 7 finds an unnamed
  comment only as the first unnamed one at its saved line. When the user answered a comment after
  code and left a note on another, and the agent then writes a block comment before that code, the
  list is sent (the trial matches only the new list's requests, write_user_feedback.rs:162-169), the
  kept answer's comment still holds the text the user answered, and step 7 takes the block comment
  for it and sends every answer of the file back. comments.rs:154-155 says a request gets `None`
  "when that comment is gone or its text, with `\r\n` read as `\n`, differs", and
  send_agent_suggestions.rs:3-5 that the suggestions are tried "so only a list the user can answer
  reaches the screen".
- **A name that moves to the next comment** (`src/glimmer/src/shared/approvals.rs:97`). A comment is
  named for the code on the line below it, so cutting a `//` comment between a `///` comment and its
  function gives the `///` comment the function's name, under which the cut was just saved: the next
  list asks about the comment the user kept, with the warning draw.rs:206 shows, "warning: you cut
  this comment before".
- **Examples as old text** (`src/glimmer/src/shared/style_rules.rs:677`). The colon and length rules
  of a Python `#` comment read every line, examples too (join_unfiltered_lines, python.rs:168-182),
  but the text at the base is kept from the paragraphs alone (style_rules.rs:470), which leave
  examples out. The example's sentences so never count as old, and a comment with a colon in an
  example fails when its code is moved. tests/check_comments.rs:441-442 says "`check_comments` must
  pass old Go comments and names in a changed or moved file when only the code around them changed.
  Otherwise touching or moving an old file would fail its untouched comments and names", and
  style_rules.rs:445 "code moved from one file to another still counts as old".
- **A second definition of a name** (`src/glimmer/src/steps/check_comments.rs:160`). Comments that
  share a name lose it (comments.rs:738-750). When a branch adds a second definition of a name with
  a docstring, as a property's setter, the first one's docstring, unchanged and approved, has no
  name on disk, and step 2 fails with ApprovedRemoved, which style_rules.rs:301 says "Marks an
  approved comment the branch removed while its code stays." Leaving the setter's docstring out
  fails the docstring rule instead.
- **A docstring without words** (`src/glimmer/src/shared/style_rules.rs:488`). has_sentences holds
  for no sentences at all, so a docstring without words, `""""""` or only a doctest, counts as one
  that was at the base (style_rules.rs:213-220) and its empty first line is only reported, in a new
  function too. style_rules.rs:368 says Existing "Marks a sentence or function a changed file in the
  same language held at `base`."
- **Order of the managers** (`src/pde-installer/internal/installer/command.go:180`).
  `docs/explanation/installation-architecture.md:31-32` has Aqua before the direct tools, `reconcile`
  (`command.go:180-195`) runs them the other way round. No property depends on this order, since
  managers are interchangeable in the model.

## Not modelled

- **Only model-checked**: what must end (`RecoveryEnds`, `ApprovedRuns`, `ReviewsSettle`, `WorkEnds`:
  liveness under fairness), and what is said of text: `EveryRequestFound` (but for the matching in
  it, which `MatchingIsStable` proves), `WritesAnswersOnly`,
  `PageKeepsComment`, `StyleFailsRightly`. These four hold for the files and words the runs choose
  and not for all: two comments on one line, a name that moves to the next comment and an example in a
  moved comment each break one of them, and the column a fence loses is made up for, see
  [what disagrees](#what-disagrees-with-the-documentation). The page and the style check are also
  written with `RECURSIVE` operators, which the provers do not take.
- **planner, prs, skill-lessons, kanban, Neovim shim**: worth a model and left for later, see the
  [plan](#plan). Their hazards are listed in `PROJECT.json` without a property.
- **Installer's manifest, profiles and command runner; pdev2's request parsing, screens and Herdr
  markers; vibe's arguments, targets outside a managed worktree and `doctor`; planner's Markdown;
  glimmer's command line, MCP server and drawing; prs's screens; skills, dotfiles, CI**: sequential,
  parsing, drawing or configuration, without state that a second process or a crash could reach.
- **Loss of power** is modelled for the approvals file only.

## Running the checks

With TLC, TLAPS and the community modules on the library path, from this directory:

    tlc -workers 2 -config MCFsJournal.cfg MCFsJournal
    tlapm FsJournal_proofs.tla

`PROJECT.json` names the module and configuration of each run. Every property of a passing run has
a mutant: a definition of the model changed the way a plausible bug would change the code, defined
next to the original and marked `Mutant`, under which TLC finds the property violated.

TLC evaluates the named assumptions of a module in every run that extends it; where a run only
instantiates a module, its `MC` module assumes the instance's by name.
