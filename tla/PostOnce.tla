------------------------------ MODULE PostOnce ------------------------------
(***************************************************************************)
(* What pdev2 promises of one pull-request write: it is posted at most     *)
(* once, only after a yes, and a decision is never taken back.  A request  *)
(* that has not changed for long goes stale, and only a stale request may  *)
(* be asked anew.                                                          *)
(***************************************************************************)

VARIABLES
  decision,  \* "open", "yes" or "no"
  post,      \* "idle", "started" or "finished"
  stale      \* too old to count

vars == <<decision, post, stale>>

Init == decision = "open" /\ post = "idle" /\ stale = TRUE

GrowStale ==
  /\ ~stale /\ stale'
  /\ UNCHANGED <<decision, post>>

Renew ==
  /\ stale /\ ~stale'
  /\ decision' = "open" /\ post' = "idle"

Decide ==
  /\ decision = "open"
  /\ decision' \in {"yes", "no"}
  /\ ~stale'
  /\ UNCHANGED post

Post ==
  /\ decision = "yes" /\ post = "idle"
  /\ post' = "started"
  /\ ~stale'
  /\ UNCHANGED decision

Finish ==
  /\ post = "started"
  /\ post' = "finished"
  /\ ~stale'
  /\ UNCHANGED decision

Next == GrowStale \/ Renew \/ Decide \/ Post \/ Finish

Spec == Init /\ [][Next]_vars
=============================================================================
