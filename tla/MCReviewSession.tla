-------------------------- MODULE MCReviewSession --------------------------
(***************************************************************************)
(* Small instances of ReviewSession in one run.  `part`, chosen at the     *)
(* start, says which one the behaviour is of:                              *)
(*   "screens"   one call and two screens on one comment, three lists,     *)
(*               nothing fails;                                            *)
(*   "calls"     two calls and one screen on one comment, two lists, and   *)
(*               any process killed, any save or listing failing;          *)
(*   "comments"  one call and one screen on two comments in two files, two *)
(*               lists, the same failures;                                 *)
(*   "reworded"  one call and one screen on two comments, one of which is  *)
(*               edited twice, three lists, nothing fails or is dismissed. *)
(***************************************************************************)
EXTENDS ReviewSession, TLC

CONSTANTS a1, a2, s1, s2, x, y, gone

VARIABLE part

TwoFiles == 1 :> 1 @@ 2 :> 2
Base == 1 :> x @@ 2 :> gone

Calm == INSTANCE ReviewSession WITH Losses <- {}

\* The bounds of a part that are narrower than those of the constants.
OneCall == agent'[a2].pc = "idle"
OneScreen == screen'[s2].pc = "closed"
OneComment == code'[2] = gone
OneChanged == \E c \in Comments : code'[c] = y
TwoLists == sends' <= 2
OneEdit == edits' <= 1

MCInit ==
  /\ part \in {"screens", "calls", "comments", "reworded"}
  /\ Init
  /\ part \in {"screens", "calls"} => code[2] = gone
  /\ part = "comments" => code[1] # gone /\ code[2] # y
  /\ part = "reworded" => code = [c \in Comments |-> y]

MCNext ==
  \/ part = "screens" /\ Calm!Next /\ OneCall /\ OneComment /\ OneEdit
  \/ part = "calls" /\ Next /\ OneScreen /\ OneComment /\ OneEdit /\ TwoLists
  \/ part = "comments" /\ Next /\ OneCall /\ OneScreen /\ OneEdit /\ TwoLists
  \/ part = "reworded" /\ Calm!Next /\ OneCall /\ OneScreen /\ OneChanged
                        /\ sess'.status # "dismissed"

MCSpec == MCInit /\ [][MCNext /\ UNCHANGED part]_<<vars, part>>
=============================================================================
