-------------------------- MODULE PrApprovalProps ---------------------------
(***************************************************************************)
(* What the record, its lock, the runner and the phone question of pdev2   *)
(* are for: properties of PrApproval and the mapping under which it        *)
(* implements PostOnce.                                                    *)
(***************************************************************************)
EXTENDS PrApproval

\* gh is started at most once for a record, by one program at a time, whoever
\* of the agent commands and runners gets there first and whoever is killed.
RunsOnce ==
  /\ runs <= 1
  /\ \A p, r \in Procs : pc[p] = "gh" /\ pc[r] = "gh" => p = r

\* While gh runs its record says running and is locked, so that a running record
\* found under the lock is one whose run died.
RunningIsLocked ==
  \A p \in Procs : pc[p] = "gh" => lock = p /\ rec.state = "running"

\* Whoever holds the lock decides on the record that is on disk: its next save
\* undoes no answer, run, dismissal or PID that another program has saved.  (A
\* phone question that could not be saved is gone from its copy.)
NoLostUpdate ==
  lock # None /\ pc[lock] # "stop" =>
    copy \in {rec, [rec EXCEPT !.moshi = None]}

\* Reruns, replaced questions and runners, and dismissals do not keep a waiting
\* request alive: its age only grows until it is answered or replaced.
PendingAges ==
  [][Pending /\ rec'.state = "pending" /\ age' < age => Expired]_vars

\* A question somebody can still answer, sent for the record of today.
OnPhone(q) == pc[q] \in {"wait", "asking"} /\ ~old[q]

\* Reruns of a waiting request never send a second question, unless a program
\* was killed before it had saved what it started or stopped what it found.
OneQuestion == ~killed => \A p, q \in Questions : OnPhone(p) /\ OnPhone(q) => p = q

\* An answer in the popup or a terminal ends the phone question: when its
\* approver is done, none for this record is going to the phone or is there,
\* unless a program was killed.
AnswerEndsQuestion ==
  [][~killed' =>
       \A a \in Approvers : pc[a] = "stop" /\ pc'[a] = "idle" =>
         \A q \in Questions : ~OnPhone(q)']_vars

\* An answer is saved on the record of the request it was given for, not on the
\* record that replaced it while the answer waited for the lock.
FreshAnswer == \A p \in Answerers : pc[p] = "record" => ~late[p]

-----------------------------------------------------------------------------
\* Why gh runs once.

\* Where a program is between Lock and Close.
LockedPcs == {"new", "undismiss", "startQ", "saveQ", "startR", "saveR", "record", "start",
              "gh", "stop"}

\* The lock is held by the one program that is at such a point.
HolderPart == \A p \in Procs : pc[p] \in LockedPcs <=> lock = p

\* A program that has loaded the record goes by what it says now; the PID it has
\* started belongs to the kind of program it will be saved as.
CopyPart ==
  lock # None =>
    /\ pc[lock] # "stop" => copy \in {rec, [rec EXCEPT !.moshi = None]}
    /\ pc[lock] = "new" => Expired
    /\ pc[lock] \in {"undismiss", "startQ", "saveQ", "record"} => Pending
    /\ pc[lock] = "start" => rec.state = "approved"
    /\ pc[lock] = "gh" => rec.state = "running"
    /\ pc[lock] = "saveQ" => hand \in Questions
    /\ pc[lock] = "saveR" => hand \in Runners

\* gh has been started for a record exactly when the record says so.
RunsPart == runs = IF rec.state \in {"running", "ran"} THEN 1 ELSE 0

\* The inductive strengthening of RunsOnce, RunningIsLocked and NoLostUpdate.
OnceInv == HolderPart /\ CopyPart /\ RunsPart

-----------------------------------------------------------------------------
\* Why there is one phone question.

\* A question for a waiting request is on record, and in the copy of whoever
\* has loaded the record, unless it has just been started and is to be saved.
PhonePart ==
  Pending =>
    \A q \in Questions : OnPhone(q) =>
      IF lock # None /\ pc[lock] = "saveQ" THEN q = hand
      ELSE rec.moshi = q /\ (lock # None /\ pc[lock] # "stop" => copy.moshi = q)

\* An approver with the lock knows the question it will stop, and is to save
\* its answer or has.
AskPart ==
  lock \in Approvers =>
    /\ \A q \in Questions : OnPhone(q) => q = ask
    /\ pc[lock] # "record" => rec.state \in {"approved", "declined"}

\* No two questions are on the phone.
OnePart == \A p, q \in Questions : OnPhone(p) /\ OnPhone(q) => p = q

\* The inductive strengthening of OneQuestion, and what AnswerEndsQuestion
\* needs: all of it holds until a program is killed, and for a new record.
OnePhone == OnePart /\ PhonePart /\ AskPart
PhoneInv == ~killed => OnePhone

-----------------------------------------------------------------------------
\* Refinement.

Promise == INSTANCE PostOnce WITH
  decision <- IF rec.state \in {"none", "pending"} THEN "open"
              ELSE IF rec.state = "declined" THEN "no" ELSE "yes",
  post <- IF rec.state = "running" THEN "started"
          ELSE IF rec.state = "ran" THEN "finished" ELSE "idle",
  stale <- Expired

\* The record goes through one decision, at most one run, and is replaced only
\* when it has expired.
PostsOnce == Promise!Spec

-----------------------------------------------------------------------------
\* Liveness.

\* Programs take their next step; agents, the owner, kills and time need not.
Fairness == \A p \in Procs : WF_vars(Step(p))

FairSpec == Spec /\ Fairness

\* An approval is acted on before it expires, without a rerun: a runner that was
\* lost while the request waited has been replaced.
ApprovedRuns == (rec.state = "approved") ~> (rec.state # "approved" \/ Expired)
=============================================================================
