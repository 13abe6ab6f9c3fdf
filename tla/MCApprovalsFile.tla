--------------------------- MODULE MCApprovalsFile ---------------------------
(***************************************************************************)
(* Two small instances of ApprovalsFile in one run.  `setting`, chosen at  *)
(* the start, says what the behaviour is about:                            *)
(*   "faults"  two adds and a drop over one worktree, with crashes, power  *)
(*             cuts, failing steps and a file broken by hand;              *)
(*   "trees"   an add and a drop while worktrees come and go and their     *)
(*             code changes and stops parsing; the second add stays away.  *)
(* The saved file approves a comment, decides about another and cuts the   *)
(* first, so a drop must not take the cut alone.                           *)
(***************************************************************************)
EXTENDS ApprovalsFileProps

VARIABLE setting

C1 == <<"f", "a">>
C2 == <<"f", "b">>
TwoCodes == {C1, C2}
D(c, t) == Decision(c, t, None)
CutBetween == {<<D(C1, "text"), D(C2, "text"), D(C1, "cut")>>}

\* What each setting keeps still.
Start ==
  setting = "faults" => trees = {"w1"} /\ has["w2"] = {}
KeepStill ==
  /\ setting = "faults" => trees' = trees /\ bad' = bad
  /\ setting = "trees" =>
       /\ proc'["a2"] = proc["a2"] /\ file'.form # "broken"
       /\ \A p \in Procs : result'[p] \notin {"failed", "killed"}
       /\ older \subseteq older'

MCInit == setting \in {"faults", "trees"} /\ Init /\ Start
MCNext == Next /\ KeepStill /\ UNCHANGED setting
MCSpec == MCInit /\ [][MCNext]_<<vars, setting>>
=============================================================================
