---------------------------- MODULE MCPrApproval ----------------------------
(***************************************************************************)
(* Small instances of PrApproval.  A behaviour is of one of two settings,  *)
(* chosen at the start:                                                    *)
(*   "killed"  two agent commands, a popup, a phone question and two       *)
(*             runners; programs are killed anywhere, saves and starts     *)
(*             fail;                                                       *)
(*   "calm"    one agent command, a popup and two phone questions; no      *)
(*             runner starts and nothing is killed, but saves and starts   *)
(*             fail and PIDs are reused.                                   *)
(***************************************************************************)
EXTENDS PrApprovalProps, TLC

CONSTANTS w2, q2

VARIABLE setting

MCInit == Init /\ setting \in {"killed", "calm"}

\* The programs a setting does without never start.
MCNext ==
  /\ Next
  /\ \/ setting = "killed" /\ pc'[q2] = "free" /\ \A p \in Pids : pc'[p] # "other"
     \/ /\ setting = "calm" /\ pc'[w2] = "idle" /\ ~killed'
        /\ \A r \in Runners : pc'[r] \in {"free", "other"}
  /\ UNCHANGED setting

MCSpec == MCInit /\ [][MCNext]_<<setting, vars>>

Programs == Permutations(Writers) \cup Permutations(Questions) \cup Permutations(Runners)
=============================================================================
