----------------------------- MODULE VibeLaunch -----------------------------
(***************************************************************************)
(* What `vibe run` looks at before it starts a container: the credentials, *)
(* the user's and the repository's skill folders, the runtime files and    *)
(* the image.  The folders are inspected during setup and again at launch; *)
(* others may change them at any moment in between.                        *)
(***************************************************************************)
EXTENDS Naturals

CONSTANTS
  MaxChanges,  \* bound: changes of the folders by others
  MaxFaults    \* bound: calls that fail

LaunchAssumption == MaxChanges \in Nat /\ MaxFaults \in Nat

VARIABLES
  pc,       \* the step the run is at
  root,     \* the two skill folders
  looked,   \* what the first look of an inspection saw
  seen,     \* the directories setup found, by inode; 0 is none
  mounts,   \* the directories in docker's arguments
  given,    \* model, environment, Pi folder; skill folders that share a writable mount
  pi,       \* is the Pi folder mounted?
  assets,   \* the runtime files below ~/.local/share/vibe
  built,    \* the runtime files the image was built from
  stale,    \* history: what was changed after its last check
  changes, faults

vars == <<pc, root, looked, seen, mounts, given, pi, assets, built, stale, changes, faults>>

Skills == {"user", "repo"}
Kinds == {"missing", "directory", "symlink", "other"}
Contents == {"head", "edited", "hidden", "linked", "unreadable"}
Root == {r \in [kind : Kinds, id : 1 .. MaxChanges + 1, content : Contents] :
           r.kind # "directory" => r.content = "head"}
NoLook == [kind |-> "missing", id |-> 1, content |-> "head"]
NoMount == 0

Files == [text : {"whole", "torn"}, exec : BOOLEAN]

\* A run may find what a killed one left.
Init ==
  /\ pc = "auth"
  /\ root \in [Skills -> {r \in Root : r.id = 1}]
  /\ root["user"].content \in {"head", "unreadable"}
  /\ looked = NoLook
  /\ seen = [x \in Skills |-> NoMount]
  /\ mounts = [x \in Skills |-> NoMount]
  /\ given \in [provider : {"goog", "known", "unknown"}, env : BOOLEAN, pi : BOOLEAN,
                overlap : SUBSET Skills]
  /\ given.provider = "unknown" => ~given.env
  /\ pi = FALSE
  /\ assets \in Files
  /\ built = [text |-> "torn", exec |-> FALSE]
  /\ stale = {}
  /\ changes = 0 /\ faults = 0

Fails == faults < MaxFaults /\ faults' = faults + 1 /\ pc' = "failed"
Refused == pc' = "failed" /\ UNCHANGED faults
Goto(l) == pc' = l /\ UNCHANGED faults

-----------------------------------------------------------------------------

\* A goog model needs its variables; any other takes them or a Pi folder that can
\* be written, and mounts the folder whenever it is there.
Auth ==
  /\ pc = "auth"
  /\ \/ given.provider = "goog" /\ given.env /\ Goto("user_look") /\ pi' = FALSE
     \/ given.provider # "goog" /\ (given.env \/ given.pi) /\ Goto("user_look") /\ pi' = given.pi
     \/ ~given.env /\ (given.provider = "goog" \/ ~given.pi) /\ Refused /\ UNCHANGED pi
     \/ Fails /\ UNCHANGED pi
  /\ UNCHANGED <<root, looked, seen, mounts, given, assets, built, stale, changes>>

\* The inspection of a folder: its own metadata first, then the directory behind
\* the path, which must be the one that was looked at.
Look(x, here, next, absent) ==
  /\ pc = here
  /\ \/ root[x].kind = "missing" /\ Goto(absent) /\ UNCHANGED looked
     \/ root[x].kind # "missing" /\ Goto(next) /\ looked' = root[x]
     \/ Fails /\ UNCHANGED looked
  /\ UNCHANGED <<root, seen, mounts, given, pi, assets, built, stale, changes>>

Sound(x) ==
  /\ looked.kind = "directory" /\ root[x].kind = "directory"
  /\ root[x].id = looked.id
  /\ root[x].content # "unreadable"
  /\ x = "repo" => root[x].content # "linked"

Vanished(x) == looked.kind = "directory" /\ root[x].kind = "missing"

ResolveAtSetup(x, here, next) ==
  /\ pc = here
  /\ \/ Sound(x) /\ Goto(next) /\ seen' = [seen EXCEPT ![x] = root[x].id]
     \/ Vanished(x) /\ Goto(next) /\ UNCHANGED seen
     \/ ~Sound(x) /\ ~Vanished(x) /\ Refused /\ UNCHANGED seen
  /\ UNCHANGED <<root, looked, mounts, given, pi, assets, built, stale, changes>>

LookUser == Look("user", "user_look", "user_resolve", "files")
ResolveUser == ResolveAtSetup("user", "user_resolve", "files")

-----------------------------------------------------------------------------

\* Files that differ are written over, and all are made executable.
WriteFiles ==
  /\ pc = "files"
  /\ \/ Goto("build") /\ assets' = [text |-> "whole", exec |-> TRUE]
     \/ Fails /\ assets' \in {assets, [assets EXCEPT !.text = "torn"], [assets EXCEPT !.text = "whole"]}
  /\ UNCHANGED <<root, looked, seen, mounts, given, pi, built, stale, changes>>

BuildImage ==
  /\ pc = "build"
  /\ \/ Goto("repo_look") /\ built' = assets
     \/ Fails /\ UNCHANGED built
  /\ UNCHANGED <<root, looked, seen, mounts, given, pi, assets, stale, changes>>

\* After the worktree is there.
LookRepo == Look("repo", "repo_look", "repo_resolve", "stages")
ResolveRepo == ResolveAtSetup("repo", "repo_resolve", "head")

\* git must find only regular tracked files, no flag that hides a change, and no
\* difference from HEAD; a folder that setup did not find is not looked at.
AtHead == root["repo"].kind = "directory" /\ root["repo"].content = "head"

CheckHead(here, next) ==
  /\ pc = here
  /\ \/ seen["repo"] = NoMount /\ Goto(next) /\ UNCHANGED stale
     \/ seen["repo"] # NoMount /\ AtHead /\ Goto(next) /\ stale' = stale \ {"head"}
     \/ seen["repo"] # NoMount /\ ~AtHead /\ Refused /\ UNCHANGED stale
     \/ Fails /\ UNCHANGED stale
  /\ UNCHANGED <<root, looked, seen, mounts, given, pi, assets, built, changes>>

HeadAtSetup == CheckHead("head", "stages")
HeadInStages == CheckHead("stages", "user_again")

-----------------------------------------------------------------------------

\* The launch inspects what setup found once more; what is missing by now is left out.
Again(x, here, next) ==
  /\ pc = here
  /\ seen[x] = NoMount
  /\ Goto(next)
  /\ UNCHANGED <<root, looked, seen, mounts, given, pi, assets, built, stale, changes>>

LookAgain(x, here, look, absent) == seen[x] # NoMount /\ Look(x, here, look, absent)

\* Mutant: another directory at the path is taken.
SameAsPath(x) == Sound(x)
SameAsSeen(x) == Sound(x) /\ root[x].id = seen[x]
Accepted(x) == SameAsSeen(x) /\ x \notin given.overlap

\* It is the directory of setup and no writable mount overlaps it.
ResolveAgain(x, here, next) ==
  /\ pc = here
  /\ \/ Accepted(x) /\ Goto(next)
        /\ mounts' = [mounts EXCEPT ![x] = root[x].id] /\ stale' = stale \ {x}
     \/ Vanished(x) /\ Goto(next) /\ UNCHANGED <<mounts, stale>>
     \/ ~Accepted(x) /\ ~Vanished(x) /\ Refused /\ UNCHANGED <<mounts, stale>>
     \/ Fails /\ UNCHANGED <<mounts, stale>>
  /\ UNCHANGED <<root, looked, seen, given, pi, assets, built, changes>>

Relaunch ==
  \/ Again("user", "user_again", "repo_again")
  \/ LookAgain("user", "user_again", "user_last", "repo_again")
  \/ ResolveAgain("user", "user_last", "repo_again")
  \/ Again("repo", "repo_again", "spawn")
  \/ LookAgain("repo", "repo_again", "repo_last", "spawn")
  \/ ResolveAgain("repo", "repo_last", "spawn")

Spawn ==
  /\ pc = "spawn"
  /\ Goto("runs") \/ Fails
  /\ UNCHANGED <<root, looked, seen, mounts, given, pi, assets, built, stale, changes>>

RunStep ==
  \/ Auth \/ LookUser \/ ResolveUser \/ WriteFiles \/ BuildImage
  \/ LookRepo \/ ResolveRepo \/ HeadAtSetup \/ HeadInStages \/ Relaunch \/ Spawn

\* Someone replaces, removes or edits a folder before docker has the mounts.
Change(x) ==
  /\ changes < MaxChanges /\ changes' = changes + 1
  /\ pc \notin {"runs", "failed"}
  /\ \E new \in {r \in Root : r.id \in {root[x].id, changes + 2}} :
       /\ x = "user" => new.content \in {"head", "unreadable"}
       /\ new.kind # root[x].kind => new.id = changes + 2
       /\ root' = [root EXCEPT ![x] = new]
  /\ stale' = stale \cup (IF x = "repo" THEN {"repo", "head"} ELSE {"user"})
  /\ UNCHANGED <<pc, looked, seen, mounts, given, pi, assets, built, faults>>

Next == RunStep \/ \E x \in Skills : Change(x)
Spec == Init /\ [][Next]_vars

-----------------------------------------------------------------------------
\* Properties.

\* Every variable holds a value of its type.
TypeOK ==
  /\ pc \in {"auth", "user_look", "user_resolve", "files", "build", "repo_look", "repo_resolve",
             "head", "stages", "user_again", "user_last", "repo_again", "repo_last", "spawn",
             "runs", "failed"}
  /\ root \in [Skills -> Root] /\ looked \in Root
  /\ seen \in [Skills -> 0 .. MaxChanges + 1] /\ mounts \in [Skills -> 0 .. MaxChanges + 1]
  /\ assets \in Files /\ built \in Files
  /\ stale \subseteq {"user", "repo", "head"}
  /\ pi \in BOOLEAN /\ changes \in 0 .. MaxChanges /\ faults \in 0 .. MaxFaults

Launched == pc = "runs"

\* What is mounted is the directory that setup inspected, through all swaps of the
\* path in between; only a change after the last look may put another in its place
\* (revalidate_skill_root, inspect_skill_root_with).
MountIsInspected == Launched =>
  \A x \in Skills : mounts[x] # NoMount =>
    /\ mounts[x] = seen[x] /\ x \notin given.overlap
    /\ x \notin stale => /\ root[x].kind = "directory" /\ root[x].id = seen[x]
                         /\ x = "repo" => root[x].content # "linked"

\* A folder that appears after setup is never mounted, nor one that is gone at the
\* launch (PreparedSkills, "a missing directory during the later validation is
\* treated as optional").
NothingAppears == Launched => \A x \in Skills : seen[x] = NoMount => mounts[x] = NoMount

\* Skills that differ from HEAD, whatever hides it, reach a container only if they were
\* changed after the check of the stages (validate_repository_skills).
SkillsWereHead ==
  Launched /\ mounts["repo"] # NoMount => root["repo"].content = "head" \/ "head" \in stale

\* A container starts with credentials, and goog never with the Pi folder
\* (prepare_provider_auth).
EveryLaunchHasAuth == Launched =>
  (given.env \/ pi) /\ (given.provider = "goog" => given.env /\ ~pi)

\* The image is built from whole executable files, whatever a killed or failed run
\* left of them (ensure_runtime_assets).
BuiltFromWhole == Launched => built = [text |-> "whole", exec |-> TRUE]

\* What a container gets is what was checked, and it gets enough to run.
LaunchIsSound ==
  /\ TypeOK /\ MountIsInspected /\ NothingAppears /\ SkillsWereHead
  /\ EveryLaunchHasAuth /\ BuiltFromWhole
=============================================================================
