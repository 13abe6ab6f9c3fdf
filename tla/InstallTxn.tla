----------------------------- MODULE InstallTxn -----------------------------
(***************************************************************************)
(* What an install promises about the managed paths of a home: seen        *)
(* through recovery, it happens at once or not at all.                     *)
(*                                                                         *)
(* stable[d] is what destination d holds once every interruption so far    *)
(* has been recovered from; visible[d] is what a reader of d sees now.     *)
(***************************************************************************)
CONSTANTS Dest, Content

VARIABLES stable, visible, installing

vars == <<stable, visible, installing>>

Init ==
  /\ stable \in [Dest -> Content]
  /\ visible = stable
  /\ installing = FALSE

\* An install starts only from a home that shows what it should.
Begin ==
  /\ ~installing /\ installing'
  /\ visible = stable
  /\ UNCHANGED <<stable, visible>>

\* A running install changes one path.
Change ==
  /\ installing /\ installing'
  /\ \E d \in Dest, v \in Content : visible' = [visible EXCEPT ![d] = v]
  /\ UNCHANGED stable

\* Everything the install changed becomes permanent in one step.
Commit ==
  /\ installing /\ ~installing'
  /\ stable' = visible
  /\ UNCHANGED visible

\* The install fails, is killed, or ends.
End ==
  /\ installing /\ ~installing'
  /\ UNCHANGED <<stable, visible>>

\* Rollback or recovery puts one path back.
Restore ==
  /\ UNCHANGED <<stable, installing>>
  /\ \E d \in Dest : visible' = [visible EXCEPT ![d] = stable[d]]

Next == Begin \/ Change \/ Commit \/ End \/ Restore

Spec == Init /\ [][Next]_vars
=============================================================================
