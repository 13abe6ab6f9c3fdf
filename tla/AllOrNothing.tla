--------------------------- MODULE AllOrNothing ---------------------------
(***************************************************************************)
(* What step 7 promises: the answers are in the code and decided, or none  *)
(* of them is, whenever the status says that nothing is being written.     *)
(***************************************************************************)
VARIABLES status, effect

Init == status = "waiting" /\ effect = "none"

Start == status = "waiting" /\ status' = "writing" /\ UNCHANGED effect
Work == status = "writing" /\ effect' \in {"none", "some", "all"} /\ UNCHANGED status
GiveUp == status = "writing" /\ effect = "none" /\ status' = "waiting" /\ UNCHANGED effect
Finish == status = "writing" /\ effect = "all" /\ status' = "done" /\ UNCHANGED effect
HandBack == status = "waiting" /\ status' = "notes" /\ UNCHANGED effect
NextReview == status # "waiting" /\ status' = "waiting" /\ effect' = "none"

Next == Start \/ Work \/ GiveUp \/ Finish \/ HandBack \/ NextReview

Spec == Init /\ [][Next]_<<status, effect>>
=============================================================================
