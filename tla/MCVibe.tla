------------------------------- MODULE MCVibe -------------------------------
(***************************************************************************)
(* Small instances of VibeRun and VibeLaunch in one run.  `part`, chosen   *)
(* at the start, says which one the behaviour is of; the variables of the  *)
(* other module stay as they began.  The two share no state, so the run    *)
(* has the sum of their states, not the product.                           *)
(*   "faults"  two runs of one key, two failing calls, a snapshot that may *)
(*             be stopped halfway, a user who changes the worktree once;   *)
(*   "keys"    three runs whose two keys make one slug, one with --base,   *)
(*             killed anywhere together with their containers, two of them *)
(*             starting within one second;                                 *)
(*   "launch"  what one run looks at before its container starts, with     *)
(*             runtime files of a killed run or folders that share a mount.*)
(***************************************************************************)
EXTENDS VibeProcess

CONSTANTS r1, r2, r3, r4

VARIABLE part

all == <<vars, part, launch>>

ByName == [r \in Runs |-> CASE r = r1 -> 2 [] r = r2 -> 1 [] r = r3 -> 3 [] r = r4 -> 4]
OneOtherKey == [r \in Runs |-> IF r = r2 THEN "Task" ELSE "task"]

ASSUME LaunchBounds == Launch!LaunchAssumption

\* A launch that has not begun.
NoLaunch ==
  /\ Launch!Init
  /\ \A x \in Launch!Skills : root[x].kind = "missing"
  /\ given = [provider |-> "known", env |-> TRUE, pi |-> FALSE, overlap |-> {}]
  /\ assets = [text |-> "torn", exec |-> FALSE]

\* The bounds of a part that are narrower than those of the constants.  The two
\* runs of one key are alike: r1 is the one that begins.
Idle(runs) == \A r \in runs : pc'[r] = "idle"
TwoRuns ==
  /\ Idle({r2, r3} \cup (IF pc'[r1] = "idle" THEN {r4} ELSE {}))
  /\ \A r \in {r1, r4} : pc'[r] # "dead"
  /\ \A i, j \in DOMAIN started' : i # j => started'[i].at # started'[j].at
ThreeRuns ==
  /\ Idle({r4})
  /\ faults' = 0
  /\ \A r \in Runs : files'[r].snaps = {} /\ (agent'[r] = "runs" => files'[r].snaplog)

MCInit ==
  \/ part \in {"faults", "keys"} /\ Init /\ NoLaunch
  \/ /\ part = "launch" /\ Init /\ Launch!Init
     /\ given.overlap = {} \/ assets = [text |-> "torn", exec |-> FALSE]

MCNext ==
  \/ part = "faults" /\ Next /\ TwoRuns /\ UNCHANGED <<part, launch>>
  \/ part = "keys" /\ Next /\ ThreeRuns /\ UNCHANGED <<part, launch>>
  \/ part = "launch" /\ Launch!Next /\ UNCHANGED <<part, vars>>

MCSpec == MCInit /\ [][MCNext]_all
=============================================================================
