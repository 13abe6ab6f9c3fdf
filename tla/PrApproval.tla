----------------------------- MODULE PrApproval -----------------------------
(***************************************************************************)
(* pdev2: one pull-request write that waits for its owner's approval.      *)
(* Every program that touches the request works on one record file, under  *)
(* the request's lock: agent commands (pde-gh-write), the detached runner, *)
(* the phone question (--moshi-ask) and the approvers (popup, terminal).   *)
(* Requests do not share state, so one record stands for all of them.      *)
(*                                                                         *)
(* Phone questions and runners are named by their PID.  A PID whose        *)
(* program has ended is "free"; Reuse lets an unrelated program (or a dead *)
(* child its parent has not waited for) answer kill(pid, 0): "other".      *)
(***************************************************************************)
EXTENDS Integers, FiniteSets

CONSTANTS
  Writers,    \* agent commands that run this same request
  Approvers,  \* popups and terminals
  Questions,  \* PIDs phone questions get
  Runners,    \* PIDs runners get
  None,       \* no PID, no lock holder
  Expiry,     \* bound: ages before a record, or a phone question, times out
  Faulty,     \* whether saves and process starts may fail
  KillIn,     \* record states in which a program may be killed
  Reuse       \* whether an unrelated program may get a free PID

Pids == Questions \cup Runners
Answerers == Approvers \cup Questions
Procs == Writers \cup Approvers \cup Pids

ASSUME NoneAssumption == None \notin Procs
ASSUME KindsAssumption ==
  /\ Writers \cap (Approvers \cup Pids) = {}
  /\ Approvers \cap Pids = {}
  /\ Questions \cap Runners = {}
ASSUME ExpiryAssumption == Expiry \in Nat \ {0}
ASSUME SwitchAssumption == Faulty \in BOOLEAN /\ Reuse \in BOOLEAN

States == {"none", "pending", "approved", "declined", "running", "ran"}

Record == [state : States, moshi : Questions \cup {None},
           runner : Runners \cup {None}, dismissed : BOOLEAN]

Blank == [state |-> "none", moshi |-> None, runner |-> None, dismissed |-> FALSE]
Fresh == [Blank EXCEPT !.state = "pending"]

VARIABLES
  rec,    \* the record file
  age,    \* time since its Updated, in parts of four hours
  lock,   \* the program that holds the request's flock
  copy,   \* the record in that program's memory
  hand,   \* the PID that program has just started and not saved yet
  ask,    \* the phone question that program will stop
  pc,     \* where each program is
  ans,    \* the answer a program has been given and not saved yet
  asked,  \* how long moshi-hook has been waiting
  late,   \* history: the answer was given before the record was created
  old,    \* history: the question was started before the record was created
  runs,   \* history: how often gh was started for this record
  killed  \* history: a program was killed since the record was created

vars == <<rec, age, lock, copy, hand, ask, pc, ans, asked, late, old, runs, killed>>

WriterPcs == {"idle", "create", "new", "undismiss", "startQ", "saveQ", "startR", "saveR",
              "poll", "run", "start", "gh"}
ApproverPcs == {"idle", "showing", "answer", "record", "startR", "saveR", "stop"}
QuestionPcs == {"free", "other", "wait", "asking", "answer", "record", "startR", "saveR"}
RunnerPcs == {"free", "other", "watch", "run", "start", "gh"}

TypeOK ==
  /\ rec \in Record /\ copy \in Record
  /\ age \in 0..(Expiry + 1)
  /\ lock \in Procs \cup {None}
  /\ hand \in Pids \cup {None}
  /\ ask \in Questions \cup {None}
  /\ pc \in [Procs -> WriterPcs \cup ApproverPcs \cup QuestionPcs \cup RunnerPcs]
  /\ \A w \in Writers : pc[w] \in WriterPcs
  /\ \A a \in Approvers : pc[a] \in ApproverPcs
  /\ \A q \in Questions : pc[q] \in QuestionPcs
  /\ \A r \in Runners : pc[r] \in RunnerPcs
  /\ ans \in [Answerers -> {"none", "yes", "no", "dismiss", "fail"}]
  /\ asked \in [Questions -> 0..Expiry]
  /\ late \in [Answerers -> BOOLEAN]
  /\ old \in [Questions -> BOOLEAN]
  /\ runs \in Nat
  /\ killed \in BOOLEAN

\* A program that is not running.
Gone(p) == IF p \in Pids THEN "free" ELSE "idle"

\* No request has been made yet: a missing record is replaced like an expired one.
Init ==
  /\ rec = Blank /\ copy = Blank /\ age = Expiry + 1
  /\ lock = None /\ hand = None /\ ask = None
  /\ pc = [p \in Procs |-> Gone(p)]
  /\ ans = [p \in Answerers |-> "none"]
  /\ asked = [q \in Questions |-> 0]
  /\ late = [p \in Answerers |-> FALSE]
  /\ old = [q \in Questions |-> FALSE]
  /\ runs = 0 /\ killed = FALSE

-----------------------------------------------------------------------------
\* Steps the actions are made of.

Expired == age > Expiry
Pending == rec.state = "pending"
Alive(pid) == pid # None /\ pc[pid] # "free"

\* Lock, then Load.
Hold(p) == lock = None /\ lock' = p /\ copy' = rec

\* The deferred Close.
Unlock == lock' = None /\ copy' = Blank /\ hand' = None /\ ask' = None

Become(p, l) == pc' = [pc EXCEPT ![p] = l]
Leave(p) == Become(p, Gone(p)) /\ Unlock

SaveKeepingAge(r) == rec' = r /\ copy' = r /\ UNCHANGED age
Save(r) == rec' = r /\ copy' = r /\ age' = 0

history == <<late, old, runs, killed>>
answers == <<ans, asked>>

\* An answer that has been used, or that goes with the program that got it.
Forget(p) ==
  /\ ans' = [ans EXCEPT ![p] = "none"]
  /\ late' = [late EXCEPT ![p] = FALSE]
  /\ asked' = IF p \in Questions THEN [asked EXCEPT ![p] = 0] ELSE asked

-----------------------------------------------------------------------------
\* loadOrCreate: an agent command makes the request, or finds it.

Rerun(w) ==
  /\ pc[w] = "idle"
  /\ Become(w, "create")
  /\ UNCHANGED <<rec, age, lock, copy, hand, ask, answers, history>>

Create(w) ==
  /\ pc[w] = "create" /\ lock = None
  /\ \/ /\ Expired /\ Hold(w)
        /\ Become(w, "new")
     \/ /\ ~Expired /\ Pending /\ Hold(w)
        /\ Become(w, IF rec.dismissed THEN "undismiss" ELSE "startQ")
     \/ /\ ~Expired /\ ~Pending
        /\ Become(w, "run")
        /\ UNCHANGED <<lock, copy>>
  /\ UNCHANGED <<rec, age, hand, ask, answers, history>>

\* The expired record is replaced after lookups that take seconds.
New(w) ==
  /\ pc[w] = "new"
  /\ \/ /\ Save(Fresh)
        /\ Become(w, "startQ")
        /\ runs' = 0 /\ killed' = FALSE
        /\ late' = [p \in Answerers |-> pc[p] = "answer"]
        /\ old' = [q \in Questions |-> pc[q] # "free"]
        /\ UNCHANGED <<lock, hand, ask>>
     \/ /\ Faulty /\ Leave(w)
        /\ UNCHANGED <<rec, age, history>>
  /\ UNCHANGED answers

Undismiss(w) ==
  /\ pc[w] = "undismiss"
  /\ \/ /\ SaveKeepingAge([copy EXCEPT !.dismissed = FALSE])
        /\ Become(w, "startQ")
        /\ UNCHANGED <<lock, hand, ask>>
     \/ /\ Faulty /\ Leave(w)
        /\ UNCHANGED <<rec, age>>
  /\ UNCHANGED <<answers, history>>

\* Mutant: a question is sent without looking for the one that runs.
StartQuestionAlways(w) ==
  /\ pc[w] = "startQ"
  /\ \E q \in Questions :
       /\ pc[q] = "free"
       /\ pc' = [pc EXCEPT ![w] = "saveQ", ![q] = "wait"]
       /\ hand' = q
       /\ old' = [old EXCEPT ![q] = FALSE]
  /\ UNCHANGED <<rec, age, lock, copy, ask, answers, late, runs, killed>>

\* startMoshi, up to the start of the program.
StartQuestion(w) ==
  /\ pc[w] = "startQ"
  /\ \/ /\ Alive(copy.moshi) \/ Faulty \/ \A q \in Questions : pc[q] # "free"
        /\ Become(w, "startR")
        /\ UNCHANGED <<hand, old>>
     \/ /\ ~Alive(copy.moshi)
        /\ \E q \in Questions :
             /\ pc[q] = "free"
             /\ pc' = [pc EXCEPT ![w] = "saveQ", ![q] = "wait"]
             /\ hand' = q
             /\ old' = [old EXCEPT ![q] = FALSE]
  /\ UNCHANGED <<rec, age, lock, copy, ask, answers, late, runs, killed>>

\* ... and the save of its PID; a question that cannot be saved is killed.
SaveQuestion(w) ==
  /\ pc[w] = "saveQ"
  /\ \/ /\ SaveKeepingAge([copy EXCEPT !.moshi = hand])
        /\ Become(w, "startR")
        /\ UNCHANGED <<answers, late>>
     \/ /\ Faulty
        /\ copy' = [copy EXCEPT !.moshi = None]
        /\ pc' = [pc EXCEPT ![w] = "startR", ![hand] = "free"]
        /\ Forget(hand)
        /\ UNCHANGED <<rec, age>>
  /\ hand' = None
  /\ UNCHANGED <<lock, ask, old, runs, killed>>

-----------------------------------------------------------------------------
\* ensureRunner, by an agent command or whoever saves an approval.

\* What the caller does next.
AfterRunner(p) ==
  IF p \in Writers THEN "poll" ELSE IF p \in Questions THEN "free" ELSE "stop"

Close(p) ==
  IF p \in Approvers THEN hand' = None /\ UNCHANGED <<lock, ask>>
  ELSE lock' = None /\ hand' = None /\ ask' = None

\* Mutant: an approval relies on the runner the request was made with.
StartRunnerNever(p) ==
  /\ pc[p] = "startR"
  /\ Become(p, AfterRunner(p))
  /\ Close(p)
  /\ copy' = Blank
  /\ UNCHANGED <<rec, age, answers, history>>

StartRunner(p) ==
  /\ pc[p] = "startR"
  /\ \/ /\ Alive(copy.runner) \/ Faulty \/ \A r \in Runners : pc[r] # "free"
        /\ Become(p, AfterRunner(p))
        /\ Close(p)
        /\ copy' = Blank
     \/ /\ ~Alive(copy.runner)
        /\ \E r \in Runners :
             /\ pc[r] = "free"
             /\ pc' = [pc EXCEPT ![p] = "saveR", ![r] = "watch"]
             /\ hand' = r
        /\ UNCHANGED <<lock, copy, ask>>
  /\ UNCHANGED <<rec, age, answers, history>>

SaveRunner(p) ==
  /\ pc[p] = "saveR"
  /\ \/ /\ rec' = [copy EXCEPT !.runner = hand]
        /\ Become(p, AfterRunner(p))
     \/ /\ Faulty
        /\ pc' = [pc EXCEPT ![p] = AfterRunner(p), ![hand] = "free"]
        /\ UNCHANGED rec
  /\ Close(p)
  /\ copy' = Blank
  /\ UNCHANGED <<age, answers, history>>

-----------------------------------------------------------------------------
\* waitForAnswer, runnerMain and reportOrRun.

\* The wait ends at an answer, or after 90 seconds.
Poll(w) ==
  /\ pc[w] = "poll"
  /\ Become(w, "run")
  /\ UNCHANGED <<rec, age, lock, copy, hand, ask, answers, history>>

\* stopMoshi(q) by a program p that is on its way to its end: the question
\* dies, whatever it is doing.  (What it does to an unrelated program is not
\* modelled.)
StopMoshi(p, q) ==
  IF Alive(q) /\ pc[q] # "other"
  THEN pc' = [pc EXCEPT ![p] = Gone(p), ![q] = "free"] /\ Forget(q)
  ELSE Become(p, Gone(p)) /\ UNCHANGED <<answers, late>>

\* The runner does not take the lock to stop the question of an expired record.
RunnerExpires(r) ==
  /\ pc[r] = "watch" /\ Expired
  /\ StopMoshi(r, rec.moshi)
  /\ IF lock = rec.moshi /\ lock # None THEN Unlock ELSE UNCHANGED <<lock, copy, hand, ask>>
  /\ UNCHANGED <<rec, age, old, runs, killed>>

RunnerSees(r) ==
  /\ pc[r] = "watch" /\ ~Expired /\ ~Pending
  /\ Become(r, "run")
  /\ UNCHANGED <<rec, age, lock, copy, hand, ask, answers, history>>

\* Mutant: a run that was interrupted is tried again.
LockToRunAgain(p) ==
  /\ pc[p] = "run" /\ lock = None
  /\ \/ /\ rec.state \in {"approved", "running"} /\ Hold(p)
        /\ Become(p, "start")
     \/ /\ rec.state \notin {"approved", "running"}
        /\ Become(p, Gone(p))
        /\ UNCHANGED <<lock, copy>>
  /\ UNCHANGED <<rec, age, hand, ask, answers, history>>

\* Under the lock: run what is approved, report anything else.
LockToRun(p) ==
  /\ pc[p] = "run" /\ lock = None
  /\ \/ /\ rec.state = "approved" /\ Hold(p)
        /\ Become(p, "start")
     \/ /\ rec.state # "approved"
        /\ Become(p, Gone(p))
        /\ UNCHANGED <<lock, copy>>
  /\ UNCHANGED <<rec, age, hand, ask, answers, history>>

\* runGH: the record says running before gh starts; gh may be gone.
StartGH(p) ==
  /\ pc[p] = "start"
  /\ \/ /\ Save([copy EXCEPT !.state = "running"])
        /\ Become(p, "gh")
        /\ runs' = runs + 1
        /\ UNCHANGED <<lock, hand, ask>>
     \/ /\ Faulty /\ Leave(p)
        /\ UNCHANGED <<rec, age, runs>>
  /\ UNCHANGED <<answers, late, old, killed>>

GHExits(p) ==
  /\ pc[p] = "gh"
  /\ \/ rec' = [copy EXCEPT !.state = "ran"] /\ age' = 0
     \/ Faulty /\ UNCHANGED <<rec, age>>
  /\ Leave(p)
  /\ UNCHANGED <<answers, history>>

-----------------------------------------------------------------------------
\* The popup, the terminal and the phone.

Show(a) ==
  /\ pc[a] = "idle" /\ Pending /\ ~Expired
  /\ Become(a, "showing")
  /\ UNCHANGED <<rec, age, lock, copy, hand, ask, answers, history>>

Decide(a) ==
  /\ pc[a] = "showing"
  /\ \/ \E c \in {"yes", "no", "dismiss"} :
          ans' = [ans EXCEPT ![a] = c] /\ Become(a, "answer")
     \/ Become(a, "idle") /\ UNCHANGED ans
  /\ UNCHANGED <<rec, age, lock, copy, hand, ask, asked, history>>

\* moshiAsk before and after the question is on the phone.
SendQuestion(q) ==
  /\ pc[q] = "wait"
  /\ Become(q, IF Pending THEN "asking" ELSE "answer")
  /\ UNCHANGED <<rec, age, lock, copy, hand, ask, answers, history>>

Reply(q) ==
  /\ pc[q] = "asking"
  /\ \E c \in {"yes", "no", "fail"} : ans' = [ans EXCEPT ![q] = c]
  /\ asked' = [asked EXCEPT ![q] = 0]
  /\ Become(q, "answer")
  /\ UNCHANGED <<rec, age, lock, copy, hand, ask, history>>

IsChoice(c) == c \in {"yes", "no"}

\* Mutant: saveAnswer does not look at the record again.
TakeAnswerUnchecked(a) ==
  /\ pc[a] = "answer" /\ lock = None
  /\ Hold(a)
  /\ ask' = rec.moshi
  /\ Become(a, "record")
  /\ UNCHANGED <<rec, age, hand, answers, history>>

\* saveAnswer: checked again under the lock.
TakeAnswer(a) ==
  /\ pc[a] = "answer" /\ lock = None /\ IsChoice(ans[a])
  /\ \/ /\ Pending /\ ~Expired /\ Hold(a)
        /\ ask' = rec.moshi
        /\ Become(a, "record")
        /\ UNCHANGED <<answers, late>>
     \/ /\ ~Pending \/ Expired
        /\ Become(a, "idle") /\ Forget(a)
        /\ UNCHANGED <<lock, copy, ask>>
  /\ UNCHANGED <<rec, age, hand, old, runs, killed>>

\* Mutant: dismissing does not take the lock.
DismissUnlocked(a) ==
  /\ pc[a] = "answer" /\ ans[a] = "dismiss"
  /\ \/ Pending /\ rec' = [rec EXCEPT !.dismissed = TRUE]
     \/ (~Pending \/ Faulty) /\ UNCHANGED rec
  /\ Become(a, "idle") /\ Forget(a)
  /\ UNCHANGED <<age, lock, copy, hand, ask, old, runs, killed>>

\* dismissRequest.
Dismiss(a) ==
  /\ pc[a] = "answer" /\ lock = None /\ ans[a] = "dismiss"
  /\ \/ Pending /\ rec' = [rec EXCEPT !.dismissed = TRUE]
     \/ (~Pending \/ Faulty) /\ UNCHANGED rec
  /\ Become(a, "idle") /\ Forget(a)
  /\ UNCHANGED <<age, lock, copy, hand, ask, old, runs, killed>>

\* moshiAsk saves its answer, or else takes its own PID off the record.
TakeReply(q) ==
  /\ pc[q] = "answer" /\ lock = None
  /\ \/ /\ ~Expired /\ IsChoice(ans[q]) /\ Pending /\ Hold(q)
        /\ Become(q, "record")
        /\ UNCHANGED <<rec, answers, late>>
     \/ /\ Expired \/ ~(IsChoice(ans[q]) /\ Pending)
        /\ Become(q, "free") /\ Forget(q)
        /\ \/ ~Expired /\ rec.moshi = q /\ rec' = [rec EXCEPT !.moshi = None]
           \/ (Expired \/ rec.moshi # q \/ Faulty) /\ UNCHANGED rec
        /\ UNCHANGED <<lock, copy>>
  /\ UNCHANGED <<age, hand, ask, old, runs, killed>>

\* recordAnswer.
SaveAnswer(p) ==
  /\ pc[p] = "record"
  /\ \/ LET state == IF ans[p] = "yes" THEN "approved" ELSE "declined" IN
          /\ rec' = [copy EXCEPT !.state = state, !.moshi = None] /\ age' = 0
          /\ \/ /\ state = "approved"
                /\ Become(p, "startR")
                /\ copy' = rec'
                /\ UNCHANGED <<lock, hand, ask>>
             \/ /\ state = "declined"
                /\ Become(p, IF p \in Approvers THEN "stop" ELSE "free")
                /\ Close(p)
                /\ copy' = Blank
     \/ /\ Faulty /\ Leave(p)
        /\ UNCHANGED <<rec, age>>
  /\ Forget(p)
  /\ UNCHANGED <<old, runs, killed>>

\* Mutant: the approver leaves the phone question alone.
StopNothing(a) ==
  /\ pc[a] = "stop"
  /\ Leave(a)
  /\ UNCHANGED <<rec, age, answers, history>>

StopQuestion(a) ==
  /\ pc[a] = "stop"
  /\ StopMoshi(a, ask)
  /\ Unlock
  /\ UNCHANGED <<rec, age, old, runs, killed>>

-----------------------------------------------------------------------------
\* Time, kills and PIDs.

\* moshi-hook gives up four hours after it asked, before more time passes.
Tick ==
  /\ ~Expired \/ \E q \in Questions : pc[q] = "asking"
  /\ \A q \in Questions : pc[q] = "asking" => asked[q] < Expiry
  /\ age' = IF Expired THEN age ELSE age + 1
  /\ asked' = [q \in Questions |-> IF pc[q] = "asking" THEN asked[q] + 1 ELSE asked[q]]
  /\ UNCHANGED <<rec, lock, copy, hand, ask, pc, ans, history>>

\* The agent's tool, a crash or a reboot; the kernel releases the lock.
Kill(p) ==
  /\ rec.state \in KillIn /\ pc[p] \notin {"idle", "free", "other"}
  /\ Become(p, Gone(p))
  /\ IF lock = p THEN Unlock ELSE UNCHANGED <<lock, copy, hand, ask>>
  /\ IF p \in Answerers THEN Forget(p) ELSE UNCHANGED <<answers, late>>
  /\ killed' = TRUE
  /\ UNCHANGED <<rec, age, old, runs>>

\* Only a PID that is on record can be mistaken for the program it named.
OtherTakes(pid) ==
  /\ Reuse /\ pc[pid] = "free"
  /\ pid \in {rec.moshi, rec.runner, copy.moshi, copy.runner}
  /\ Become(pid, "other")
  /\ UNCHANGED <<rec, age, lock, copy, hand, ask, answers, history>>

OtherEnds(pid) ==
  /\ pc[pid] = "other"
  /\ Become(pid, "free")
  /\ UNCHANGED <<rec, age, lock, copy, hand, ask, answers, history>>

-----------------------------------------------------------------------------
\* What each program does without its owner, an agent or bad luck.

WriterStep(w) ==
  \/ Create(w) \/ New(w) \/ Undismiss(w) \/ StartQuestion(w) \/ SaveQuestion(w)
  \/ StartRunner(w) \/ SaveRunner(w) \/ Poll(w) \/ LockToRun(w) \/ StartGH(w) \/ GHExits(w)

RunnerStep(r) ==
  \/ RunnerExpires(r) \/ RunnerSees(r) \/ LockToRun(r) \/ StartGH(r) \/ GHExits(r)

ApproverStep(a) ==
  \/ TakeAnswer(a) \/ Dismiss(a) \/ SaveAnswer(a) \/ StartRunner(a) \/ SaveRunner(a)
  \/ StopQuestion(a)

QuestionStep(q) ==
  \/ SendQuestion(q) \/ TakeReply(q) \/ SaveAnswer(q) \/ StartRunner(q) \/ SaveRunner(q)

Step(p) ==
  \/ p \in Writers /\ WriterStep(p)
  \/ p \in Runners /\ RunnerStep(p)
  \/ p \in Approvers /\ ApproverStep(p)
  \/ p \in Questions /\ QuestionStep(p)

Environment ==
  \/ \E w \in Writers : Rerun(w)
  \/ \E a \in Approvers : Show(a) \/ Decide(a)
  \/ \E q \in Questions : Reply(q)
  \/ \E p \in Procs : Kill(p)
  \/ \E pid \in Pids : OtherTakes(pid) \/ OtherEnds(pid)
  \/ Tick

Next == Environment \/ \E p \in Procs : Step(p)

Spec == Init /\ [][Next]_vars
=============================================================================
