-------------------------- MODULE PrApproval_proofs ---------------------------
(***************************************************************************)
(* Theorems about PrApproval, for any number of agent commands, approvers, *)
(* questions and runners, any kills, failures and reuse of PIDs: every     *)
(* reachable state is well formed, a request's gh runs at most once and no *)
(* save is lost, as OnceInv is inductive together with TypeOK.  PostOnce is*)
(* implemented.  Until a program is killed, a request has one question on  *)
(* the phone, and an answer elsewhere ends it, as PhoneInv is inductive.   *)
(***************************************************************************)
EXTENDS PrApprovalProps, TLAPS

\* The points of a program.
PcsOf(p) ==
  IF p \in Writers THEN WriterPcs
  ELSE IF p \in Approvers THEN ApproverPcs
  ELSE IF p \in Questions THEN QuestionPcs
  ELSE RunnerPcs

PcOK == pc \in [Procs -> WriterPcs \cup ApproverPcs \cup QuestionPcs \cup RunnerPcs]
        /\ \A p \in Procs : pc[p] \in PcsOf(p)

\* TypeOK apart from where the programs are.
DataOK ==
  /\ rec \in Record /\ copy \in Record
  /\ age \in 0..(Expiry + 1)
  /\ lock \in Procs \cup {None}
  /\ hand \in Pids \cup {None}
  /\ ask \in Questions \cup {None}
  /\ ans \in [Answerers -> {"none", "yes", "no", "dismiss", "fail"}]
  /\ asked \in [Questions -> 0..Expiry]
  /\ late \in [Answerers -> BOOLEAN]
  /\ old \in [Questions -> BOOLEAN]
  /\ runs \in Nat
  /\ killed \in BOOLEAN

LEMMA Kinds ==
  /\ \A w \in Writers : w \in Procs /\ w \notin Approvers /\ w \notin Questions /\ w \notin Runners
  /\ \A a \in Approvers : a \in Procs /\ a \in Answerers /\ a \notin Writers /\ a \notin Questions
                          /\ a \notin Runners
  /\ \A q \in Questions : q \in Procs /\ q \in Answerers /\ q \in Pids /\ q \notin Writers
                          /\ q \notin Approvers /\ q \notin Runners
  /\ \A r \in Runners : r \in Procs /\ r \in Pids /\ r \notin Writers /\ r \notin Approvers
                        /\ r \notin Questions
  /\ None \notin Procs
BY KindsAssumption, NoneAssumption DEF Procs, Pids, Answerers

LEMMA TypeSplit == TypeOK <=> DataOK /\ PcOK
BY Kinds DEF TypeOK, DataOK, PcOK, PcsOf, Procs, Pids

LEMMA TypeJoin ==
  ASSUME DataOK', PcOK'
  PROVE  TypeOK'
BY Kinds DEF TypeOK, DataOK, PcOK, PcsOf, Procs, Pids

\* Moving one program.
LEMMA MoveOne ==
  ASSUME PcOK, NEW p \in Procs, NEW l, l \in PcsOf(p), pc' = [pc EXCEPT ![p] = l]
  PROVE  PcOK'
BY DEF PcOK, PcsOf

\* Moving two.
LEMMA MoveTwo ==
  ASSUME PcOK, NEW p \in Procs, NEW l, l \in PcsOf(p), NEW q \in Procs, NEW m, m \in PcsOf(q),
         pc' = [pc EXCEPT ![p] = l, ![q] = m]
  PROVE  PcOK'
BY DEF PcOK, PcsOf

LEMMA MoveNone ==
  ASSUME PcOK, UNCHANGED pc
  PROVE  PcOK'
BY DEF PcOK

\* What the records EXCEPT builds are.
LEMMA RecordParts ==
  ASSUME NEW r \in Record
  PROVE  /\ \A s \in States : [r EXCEPT !.state = s] \in Record
         /\ \A m \in Questions \cup {None} : [r EXCEPT !.moshi = m] \in Record
         /\ \A m \in Runners \cup {None} : [r EXCEPT !.runner = m] \in Record
         /\ \A b \in BOOLEAN : [r EXCEPT !.dismissed = b] \in Record
         /\ \A s \in States : [r EXCEPT !.state = s, !.moshi = None] \in Record
         /\ r.state \in States /\ r.moshi \in Questions \cup {None}
         /\ r.runner \in Runners \cup {None}
BY DEF Record

LEMMA NewRecords == Blank \in Record /\ Fresh \in Record
BY DEF Blank, Fresh, Record, States

-----------------------------------------------------------------------------
\* Steps the actions are made of.

LEMMA UnlockData == ASSUME Unlock PROVE lock' = None /\ copy' = Blank /\ hand' = None /\ ask' = None
BY DEF Unlock

LEMMA HoldData ==
  ASSUME DataOK, NEW p \in Procs, Hold(p)
  PROVE  lock' \in Procs \cup {None} /\ copy' \in Record
BY DEF Hold, DataOK

LEMMA SaveData ==
  ASSUME DataOK, NEW r \in Record, Save(r) \/ SaveKeepingAge(r)
  PROVE  rec' \in Record /\ copy' \in Record /\ age' \in 0..(Expiry + 1)
BY ExpiryAssumption DEF Save, SaveKeepingAge, DataOK

LEMMA ForgetData ==
  ASSUME DataOK, NEW p, Forget(p)
  PROVE  /\ ans' \in [Answerers -> {"none", "yes", "no", "dismiss", "fail"}]
         /\ late' \in [Answerers -> BOOLEAN]
         /\ asked' \in [Questions -> 0..Expiry]
<1>1. ans' \in [Answerers -> {"none", "yes", "no", "dismiss", "fail"}]
  BY DEF Forget, DataOK
<1>2. late' \in [Answerers -> BOOLEAN]
  BY DEF Forget, DataOK
<1>3. asked' \in [Questions -> 0..Expiry]
  BY ExpiryAssumption DEF Forget, DataOK
<1> QED
  BY <1>1, <1>2, <1>3

LEMMA CloseData ==
  ASSUME DataOK, NEW p, Close(p)
  PROVE  lock' \in Procs \cup {None} /\ hand' \in Pids \cup {None} /\ ask' \in Questions \cup {None}
BY DEF Close, DataOK

LEMMA GonePcs == \A p \in Procs : Gone(p) \in PcsOf(p)
BY Kinds DEF Gone, PcsOf, Procs, Pids, WriterPcs, ApproverPcs, QuestionPcs, RunnerPcs

LEMMA LeaveMoves ==
  ASSUME PcOK, NEW p \in Procs, Leave(p)
  PROVE  PcOK'
BY MoveOne, GonePcs DEF Leave, Become

-----------------------------------------------------------------------------
\* An agent command.

LEMMA RerunType ==
  ASSUME DataOK, PcOK, NEW w \in Writers, Rerun(w)
  PROVE  DataOK' /\ PcOK'
<1>1. PcOK'
  BY Kinds, MoveOne DEF Rerun, Become, PcsOf, WriterPcs
<1> QED
  BY <1>1 DEF Rerun, answers, history, DataOK

LEMMA CreateType ==
  ASSUME DataOK, PcOK, NEW w \in Writers, Create(w)
  PROVE  DataOK' /\ PcOK'
<1>1. PcOK'
  BY Kinds, MoveOne DEF Create, Become, PcsOf, WriterPcs
<1>2. lock' \in Procs \cup {None} /\ copy' \in Record
  BY Kinds, HoldData DEF Create, DataOK
<1> QED
  BY <1>1, <1>2 DEF Create, answers, history, DataOK

LEMMA NewType ==
  ASSUME DataOK, PcOK, NEW w \in Writers, New(w)
  PROVE  DataOK' /\ PcOK'
<1>1. PcOK'
  BY Kinds, MoveOne, LeaveMoves DEF New, Become, PcsOf, WriterPcs
<1>2. rec' \in Record /\ copy' \in Record /\ age' \in 0..(Expiry + 1)
  BY SaveData, NewRecords DEF New, Leave, Unlock, DataOK
<1>3. lock' \in Procs \cup {None} /\ hand' \in Pids \cup {None} /\ ask' \in Questions \cup {None}
  BY DEF New, Leave, Unlock, DataOK
<1>4. runs' \in Nat
  BY DEF New, history, DataOK
<1>5. late' \in [Answerers -> BOOLEAN]
  BY DEF New, history, DataOK
<1>6. old' \in [Questions -> BOOLEAN]
  BY DEF New, history, DataOK
<1>7. killed' \in BOOLEAN
  BY DEF New, history, DataOK
<1> QED
  BY <1>1, <1>2, <1>3, <1>4, <1>5, <1>6, <1>7 DEF New, answers, DataOK

LEMMA UndismissType ==
  ASSUME DataOK, PcOK, NEW w \in Writers, Undismiss(w)
  PROVE  DataOK' /\ PcOK'
<1>1. PcOK'
  BY Kinds, MoveOne, LeaveMoves DEF Undismiss, Become, PcsOf, WriterPcs
<1>2. rec' \in Record /\ copy' \in Record /\ age' \in 0..(Expiry + 1)
  BY SaveData, NewRecords, RecordParts DEF Undismiss, Leave, Unlock, DataOK
<1>3. lock' \in Procs \cup {None} /\ hand' \in Pids \cup {None} /\ ask' \in Questions \cup {None}
  BY DEF Undismiss, Leave, Unlock, DataOK
<1> QED
  BY <1>1, <1>2, <1>3 DEF Undismiss, answers, history, DataOK

LEMMA StartQuestionType ==
  ASSUME DataOK, PcOK, NEW w \in Writers, StartQuestion(w)
  PROVE  DataOK' /\ PcOK'
<1>1. CASE Become(w, "startR") /\ UNCHANGED <<hand, old>>
  <2>1. PcOK'
    BY <1>1, Kinds, MoveOne DEF Become, PcsOf, WriterPcs
  <2> QED
    BY <1>1, <2>1 DEF StartQuestion, answers, DataOK
<1>2. ASSUME NEW q \in Questions, pc' = [pc EXCEPT ![w] = "saveQ", ![q] = "wait"], hand' = q,
             old' = [old EXCEPT ![q] = FALSE]
      PROVE  DataOK' /\ PcOK'
  <2>1. PcOK'
    BY <1>2, Kinds, MoveTwo DEF PcsOf, WriterPcs, QuestionPcs
  <2>2. hand' \in Pids /\ old' \in [Questions -> BOOLEAN]
    BY <1>2, Kinds DEF DataOK
  <2> QED
    BY <2>1, <2>2 DEF StartQuestion, answers, DataOK
<1> QED
  BY <1>1, <1>2 DEF StartQuestion

LEMMA SaveQuestionType ==
  ASSUME DataOK, PcOK, NEW w \in Writers, SaveQuestion(w), hand \in Questions
  PROVE  DataOK' /\ PcOK'
<1>1. PcOK'
  <2>1. CASE pc' = [pc EXCEPT ![w] = "startR"]
    BY <2>1, Kinds, MoveOne DEF PcsOf, WriterPcs
  <2>2. CASE pc' = [pc EXCEPT ![w] = "startR", ![hand] = "free"]
    BY <2>2, Kinds, MoveTwo DEF PcsOf, WriterPcs, QuestionPcs
  <2> QED
    BY <2>1, <2>2 DEF SaveQuestion, Become
<1>2. rec' \in Record /\ copy' \in Record /\ age' \in 0..(Expiry + 1)
  <2>1. [copy EXCEPT !.moshi = hand] \in Record /\ [copy EXCEPT !.moshi = None] \in Record
    BY DEF Record, DataOK
  <2> QED
    BY <2>1, SaveData DEF SaveQuestion, DataOK
<1>3. /\ ans' \in [Answerers -> {"none", "yes", "no", "dismiss", "fail"}]
      /\ late' \in [Answerers -> BOOLEAN]
      /\ asked' \in [Questions -> 0..Expiry]
  <2>1. CASE UNCHANGED <<answers, late>>
    BY <2>1 DEF answers, DataOK
  <2>2. CASE Forget(hand)
    BY <2>2, ForgetData
  <2> QED
    BY <2>1, <2>2 DEF SaveQuestion
<1> QED
  BY <1>1, <1>2, <1>3 DEF SaveQuestion, DataOK

LEMMA PollType ==
  ASSUME DataOK, PcOK, NEW w \in Writers, Poll(w)
  PROVE  DataOK' /\ PcOK'
<1>1. PcOK'
  BY Kinds, MoveOne DEF Poll, Become, PcsOf, WriterPcs
<1> QED
  BY <1>1 DEF Poll, answers, history, DataOK

-----------------------------------------------------------------------------
\* Several kinds of program.

Starters == Writers \cup Answerers
Posters == Writers \cup Runners

LEMMA StarterPcs ==
  \A p \in Starters : /\ p \in Procs
                      /\ {"startR", "saveR", AfterRunner(p)} \subseteq PcsOf(p)
BY Kinds DEF Starters, Answerers, AfterRunner, PcsOf, WriterPcs, ApproverPcs, QuestionPcs

LEMMA PosterPcs ==
  \A p \in Posters : p \in Procs /\ {"run", "start", "gh"} \subseteq PcsOf(p)
BY Kinds DEF Posters, PcsOf, WriterPcs, RunnerPcs

LEMMA StartRunnerType ==
  ASSUME DataOK, PcOK, NEW p \in Starters, StartRunner(p)
  PROVE  DataOK' /\ PcOK'
<1>1. CASE Become(p, AfterRunner(p)) /\ Close(p) /\ copy' = Blank
  <2>1. PcOK'
    BY <1>1, StarterPcs, MoveOne DEF Become
  <2> QED
    BY <1>1, <2>1, CloseData, NewRecords DEF StartRunner, answers, history, DataOK
<1>2. ASSUME NEW r \in Runners, pc' = [pc EXCEPT ![p] = "saveR", ![r] = "watch"], hand' = r,
             UNCHANGED <<lock, copy, ask>>
      PROVE  DataOK' /\ PcOK'
  <2>1. PcOK'
    BY <1>2, Kinds, StarterPcs, MoveTwo DEF PcsOf, RunnerPcs
  <2> QED
    BY <1>2, <2>1, Kinds DEF StartRunner, answers, history, DataOK
<1> QED
  BY <1>1, <1>2 DEF StartRunner

LEMMA SaveRunnerType ==
  ASSUME DataOK, PcOK, NEW p \in Starters, SaveRunner(p), hand \in Runners
  PROVE  DataOK' /\ PcOK'
<1>1. PcOK'
  <2>1. CASE pc' = [pc EXCEPT ![p] = AfterRunner(p)]
    BY <2>1, StarterPcs, MoveOne
  <2>2. CASE pc' = [pc EXCEPT ![p] = AfterRunner(p), ![hand] = "free"]
    BY <2>2, Kinds, StarterPcs, MoveTwo DEF PcsOf, RunnerPcs
  <2> QED
    BY <2>1, <2>2 DEF SaveRunner, Become
<1>2. rec' \in Record
  <2>1. [copy EXCEPT !.runner = hand] \in Record
    BY DEF Record, DataOK
  <2> QED
    BY <2>1 DEF SaveRunner, DataOK
<1> QED
  BY <1>1, <1>2, CloseData, NewRecords DEF SaveRunner, answers, history, DataOK

LEMMA LockToRunType ==
  ASSUME DataOK, PcOK, NEW p \in Posters, LockToRun(p)
  PROVE  DataOK' /\ PcOK'
<1>1. PcOK'
  BY PosterPcs, GonePcs, MoveOne DEF LockToRun, Become
<1>2. lock' \in Procs \cup {None} /\ copy' \in Record
  BY PosterPcs, HoldData DEF LockToRun, DataOK
<1> QED
  BY <1>1, <1>2 DEF LockToRun, answers, history, DataOK

LEMMA StartGHType ==
  ASSUME DataOK, PcOK, NEW p \in Posters, StartGH(p)
  PROVE  DataOK' /\ PcOK'
<1>1. PcOK'
  BY PosterPcs, LeaveMoves, MoveOne DEF StartGH, Become
<1>2. rec' \in Record /\ copy' \in Record /\ age' \in 0..(Expiry + 1)
  <2>1. [copy EXCEPT !.state = "running"] \in Record
    BY RecordParts DEF DataOK, States
  <2> QED
    BY <2>1, SaveData, NewRecords DEF StartGH, Leave, Unlock, DataOK
<1>3. lock' \in Procs \cup {None} /\ hand' \in Pids \cup {None} /\ ask' \in Questions \cup {None}
  BY DEF StartGH, Leave, Unlock, DataOK
<1>4. runs' \in Nat
  BY DEF StartGH, DataOK
<1> QED
  BY <1>1, <1>2, <1>3, <1>4 DEF StartGH, answers, DataOK

LEMMA GHExitsType ==
  ASSUME DataOK, PcOK, NEW p \in Posters, GHExits(p)
  PROVE  DataOK' /\ PcOK'
<1>1. PcOK'
  BY PosterPcs, LeaveMoves DEF GHExits
<1>2. rec' \in Record /\ age' \in 0..(Expiry + 1)
  <2>1. [copy EXCEPT !.state = "ran"] \in Record
    BY RecordParts DEF DataOK, States
  <2> QED
    BY <2>1, ExpiryAssumption DEF GHExits, DataOK
<1> QED
  BY <1>1, <1>2, NewRecords DEF GHExits, Leave, Unlock, answers, history, DataOK

-----------------------------------------------------------------------------
\* The runner.

LEMMA StopMoshiType ==
  ASSUME DataOK, PcOK, NEW p \in Procs, NEW q \in Questions \cup {None}, StopMoshi(p, q)
  PROVE  /\ PcOK'
         /\ ans' \in [Answerers -> {"none", "yes", "no", "dismiss", "fail"}]
         /\ late' \in [Answerers -> BOOLEAN]
         /\ asked' \in [Questions -> 0..Expiry]
<1>1. CASE Alive(q) /\ pc[q] # "other"
  <2>1. q \in Questions /\ pc' = [pc EXCEPT ![p] = Gone(p), ![q] = "free"] /\ Forget(q)
    BY <1>1 DEF StopMoshi, Alive
  <2>2. PcOK'
    BY <2>1, Kinds, GonePcs, MoveTwo DEF PcsOf, QuestionPcs
  <2> QED
    BY <2>1, <2>2, ForgetData
<1>2. CASE ~(Alive(q) /\ pc[q] # "other")
  <2>1. pc' = [pc EXCEPT ![p] = Gone(p)] /\ UNCHANGED <<answers, late>>
    BY <1>2 DEF StopMoshi, Become
  <2>2. PcOK'
    BY <2>1, GonePcs, MoveOne
  <2> QED
    BY <2>1, <2>2 DEF answers, DataOK
<1> QED
  BY <1>1, <1>2

LEMMA RunnerExpiresType ==
  ASSUME DataOK, PcOK, NEW r \in Runners, RunnerExpires(r)
  PROVE  DataOK' /\ PcOK'
<1>1. rec.moshi \in Questions \cup {None}
  BY RecordParts DEF DataOK
<1>2. StopMoshi(r, rec.moshi)
  BY DEF RunnerExpires
<1>3. /\ PcOK'
      /\ ans' \in [Answerers -> {"none", "yes", "no", "dismiss", "fail"}]
      /\ late' \in [Answerers -> BOOLEAN]
      /\ asked' \in [Questions -> 0..Expiry]
  BY <1>1, <1>2, Kinds, StopMoshiType
<1>4. /\ lock' \in Procs \cup {None} /\ hand' \in Pids \cup {None}
      /\ ask' \in Questions \cup {None} /\ copy' \in Record
  BY NewRecords DEF RunnerExpires, Unlock, DataOK
<1> QED
  BY <1>3, <1>4 DEF RunnerExpires, DataOK

LEMMA RunnerSeesType ==
  ASSUME DataOK, PcOK, NEW r \in Runners, RunnerSees(r)
  PROVE  DataOK' /\ PcOK'
<1>1. PcOK'
  BY Kinds, MoveOne DEF RunnerSees, Become, PcsOf, RunnerPcs
<1> QED
  BY <1>1 DEF RunnerSees, answers, history, DataOK

-----------------------------------------------------------------------------
\* The popup, the terminal and the phone.

LEMMA ShowType ==
  ASSUME DataOK, PcOK, NEW a \in Approvers, Show(a)
  PROVE  DataOK' /\ PcOK'
<1>1. PcOK'
  BY Kinds, MoveOne DEF Show, Become, PcsOf, ApproverPcs
<1> QED
  BY <1>1 DEF Show, answers, history, DataOK

LEMMA DecideType ==
  ASSUME DataOK, PcOK, NEW a \in Approvers, Decide(a)
  PROVE  DataOK' /\ PcOK'
<1>1. PcOK'
  BY Kinds, MoveOne DEF Decide, Become, PcsOf, ApproverPcs
<1>2. ans' \in [Answerers -> {"none", "yes", "no", "dismiss", "fail"}]
  BY DEF Decide, DataOK
<1> QED
  BY <1>1, <1>2 DEF Decide, history, DataOK

LEMMA SendQuestionType ==
  ASSUME DataOK, PcOK, NEW q \in Questions, SendQuestion(q)
  PROVE  DataOK' /\ PcOK'
<1>1. PcOK'
  BY Kinds, MoveOne DEF SendQuestion, Become, PcsOf, QuestionPcs
<1> QED
  BY <1>1 DEF SendQuestion, answers, history, DataOK

LEMMA ReplyType ==
  ASSUME DataOK, PcOK, NEW q \in Questions, Reply(q)
  PROVE  DataOK' /\ PcOK'
<1>1. PcOK'
  BY Kinds, MoveOne DEF Reply, Become, PcsOf, QuestionPcs
<1>2. ans' \in [Answerers -> {"none", "yes", "no", "dismiss", "fail"}]
  BY DEF Reply, DataOK
<1>3. asked' \in [Questions -> 0..Expiry]
  BY ExpiryAssumption DEF Reply, DataOK
<1> QED
  BY <1>1, <1>2, <1>3 DEF Reply, history, DataOK

LEMMA TakeAnswerType ==
  ASSUME DataOK, PcOK, NEW a \in Approvers, TakeAnswer(a)
  PROVE  DataOK' /\ PcOK'
<1>1. PcOK'
  BY Kinds, MoveOne DEF TakeAnswer, Become, PcsOf, ApproverPcs
<1>2. CASE Hold(a) /\ ask' = rec.moshi /\ UNCHANGED <<answers, late>>
  <2>1. lock' \in Procs \cup {None} /\ copy' \in Record
    BY <1>2, Kinds, HoldData
  <2>2. ask' \in Questions \cup {None}
    BY <1>2, RecordParts DEF DataOK
  <2> QED
    BY <1>1, <1>2, <2>1, <2>2 DEF TakeAnswer, answers, DataOK
<1>3. CASE Forget(a) /\ UNCHANGED <<lock, copy, ask>>
  BY <1>1, <1>3, ForgetData DEF TakeAnswer, DataOK
<1> QED
  BY <1>2, <1>3 DEF TakeAnswer

LEMMA DismissType ==
  ASSUME DataOK, PcOK, NEW a \in Approvers, Dismiss(a)
  PROVE  DataOK' /\ PcOK'
<1>1. PcOK'
  BY Kinds, MoveOne DEF Dismiss, Become, PcsOf, ApproverPcs
<1>2. rec' \in Record
  <2>1. [rec EXCEPT !.dismissed = TRUE] \in Record
    BY DEF Record, DataOK
  <2> QED
    BY <2>1 DEF Dismiss, DataOK
<1> QED
  BY <1>1, <1>2, ForgetData DEF Dismiss, DataOK

LEMMA TakeReplyType ==
  ASSUME DataOK, PcOK, NEW q \in Questions, TakeReply(q)
  PROVE  DataOK' /\ PcOK'
<1>1. PcOK'
  BY Kinds, MoveOne DEF TakeReply, Become, PcsOf, QuestionPcs
<1>2. CASE Hold(q) /\ UNCHANGED <<rec, answers, late>>
  <2>1. lock' \in Procs \cup {None} /\ copy' \in Record
    BY <1>2, Kinds, HoldData
  <2> QED
    BY <1>1, <1>2, <2>1 DEF TakeReply, answers, DataOK
<1>3. CASE Forget(q) /\ UNCHANGED <<lock, copy>> /\ rec' \in {rec, [rec EXCEPT !.moshi = None]}
  <2>1. [rec EXCEPT !.moshi = None] \in Record
    BY DEF Record, DataOK
  <2> QED
    BY <1>1, <1>3, <2>1, ForgetData DEF TakeReply, DataOK
<1> QED
  BY <1>2, <1>3 DEF TakeReply

LEMMA SaveAnswerType ==
  ASSUME DataOK, PcOK, NEW p \in Answerers, SaveAnswer(p)
  PROVE  DataOK' /\ PcOK'
<1>0. p \in Procs /\ p \in Starters
  BY Kinds DEF Answerers, Starters
<1>1. PcOK'
  <2>1. CASE Leave(p)
    BY <1>0, <2>1, LeaveMoves
  <2>2. CASE Become(p, "startR")
    BY <1>0, <2>2, StarterPcs, MoveOne DEF Become
  <2>3. CASE Become(p, IF p \in Approvers THEN "stop" ELSE "free")
    BY <1>0, <2>3, Kinds, MoveOne DEF Become, Answerers, PcsOf, ApproverPcs, QuestionPcs
  <2> QED
    BY <2>1, <2>2, <2>3 DEF SaveAnswer
<1>2. /\ [copy EXCEPT !.state = "approved", !.moshi = None] \in Record
      /\ [copy EXCEPT !.state = "declined", !.moshi = None] \in Record
  BY DEF Record, States, DataOK
<1>3. rec' \in Record /\ copy' \in Record /\ age' \in 0..(Expiry + 1)
  <2>1. CASE Leave(p) /\ UNCHANGED <<rec, age>>
    BY <2>1, NewRecords DEF Leave, Unlock, DataOK
  <2>2. CASE ~(Leave(p) /\ UNCHANGED <<rec, age>>)
    <3>1. CASE ans[p] = "yes"
      <4>1. rec' = [copy EXCEPT !.state = "approved", !.moshi = None] /\ age' = 0
            /\ copy' \in {rec', Blank}
        BY <2>2, <3>1 DEF SaveAnswer
      <4> QED
        BY <1>2, <4>1, NewRecords, ExpiryAssumption
    <3>2. CASE ans[p] # "yes"
      <4>1. rec' = [copy EXCEPT !.state = "declined", !.moshi = None] /\ age' = 0
            /\ copy' \in {rec', Blank}
        BY <2>2, <3>2 DEF SaveAnswer
      <4> QED
        BY <1>2, <4>1, NewRecords, ExpiryAssumption
    <3> QED
      BY <3>1, <3>2
  <2> QED
    BY <2>1, <2>2
<1>4. lock' \in Procs \cup {None} /\ hand' \in Pids \cup {None} /\ ask' \in Questions \cup {None}
  BY CloseData DEF SaveAnswer, Leave, Unlock, DataOK
<1> QED
  BY <1>1, <1>3, <1>4, ForgetData DEF SaveAnswer, DataOK

LEMMA StopQuestionType ==
  ASSUME DataOK, PcOK, NEW a \in Approvers, StopQuestion(a)
  PROVE  DataOK' /\ PcOK'
<1>1. /\ PcOK'
      /\ ans' \in [Answerers -> {"none", "yes", "no", "dismiss", "fail"}]
      /\ late' \in [Answerers -> BOOLEAN]
      /\ asked' \in [Questions -> 0..Expiry]
  BY Kinds, StopMoshiType DEF StopQuestion, DataOK
<1> QED
  BY <1>1, NewRecords DEF StopQuestion, Unlock, DataOK

-----------------------------------------------------------------------------
\* Time, kills and PIDs.

LEMMA TickType ==
  ASSUME DataOK, PcOK, Tick
  PROVE  DataOK' /\ PcOK'
<1>1. PcOK'
  BY MoveNone DEF Tick
<1>2. age' \in 0..(Expiry + 1)
  BY ExpiryAssumption DEF Tick, Expired, DataOK
<1>3. asked' \in [Questions -> 0..Expiry]
  BY ExpiryAssumption DEF Tick, DataOK
<1> QED
  BY <1>1, <1>2, <1>3 DEF Tick, history, DataOK

LEMMA KillType ==
  ASSUME DataOK, PcOK, NEW p \in Procs, Kill(p)
  PROVE  DataOK' /\ PcOK'
<1>1. PcOK'
  BY GonePcs, MoveOne DEF Kill, Become
<1>2. /\ lock' \in Procs \cup {None} /\ hand' \in Pids \cup {None}
      /\ ask' \in Questions \cup {None} /\ copy' \in Record
  BY NewRecords DEF Kill, Unlock, DataOK
<1>3. /\ ans' \in [Answerers -> {"none", "yes", "no", "dismiss", "fail"}]
      /\ late' \in [Answerers -> BOOLEAN]
      /\ asked' \in [Questions -> 0..Expiry]
  <2>1. CASE Forget(p)
    BY <2>1, ForgetData
  <2>2. CASE UNCHANGED <<answers, late>>
    BY <2>2 DEF answers, DataOK
  <2> QED
    BY <2>1, <2>2 DEF Kill
<1> QED
  BY <1>1, <1>2, <1>3 DEF Kill, DataOK

LEMMA OtherType ==
  ASSUME DataOK, PcOK, NEW pid \in Pids, OtherTakes(pid) \/ OtherEnds(pid)
  PROVE  DataOK' /\ PcOK'
<1>1. PcOK'
  BY Kinds, MoveOne DEF OtherTakes, OtherEnds, Become, Pids, PcsOf, QuestionPcs, RunnerPcs
<1> QED
  BY <1>1 DEF OtherTakes, OtherEnds, answers, history, DataOK

-----------------------------------------------------------------------------
LEMMA TypeInit == Init => TypeOK
<1> SUFFICES ASSUME Init PROVE DataOK /\ PcOK
  BY TypeSplit
<1>1. PcOK
  <2>1. pc = [p \in Procs |-> Gone(p)]
    BY DEF Init
  <2>2. \A p \in Procs : PcsOf(p) \subseteq WriterPcs \cup ApproverPcs \cup QuestionPcs \cup RunnerPcs
    BY DEF PcsOf
  <2> QED
    BY <2>1, <2>2, GonePcs DEF PcOK
<1>2. late \in [Answerers -> BOOLEAN] /\ old \in [Questions -> BOOLEAN]
  BY DEF Init
<1>3. killed \in BOOLEAN
  BY DEF Init
<1> QED
  BY <1>1, <1>2, <1>3, NewRecords, ExpiryAssumption DEF Init, DataOK

-----------------------------------------------------------------------------
\* A request runs at most once.

\* Nobody is inside while the lock is free, and nobody but the holder otherwise.
LEMMA Inside ==
  ASSUME OnceInv, NEW p \in Procs, pc[p] \in LockedPcs
  PROVE  lock = p /\ lock # None /\ \A q \in Procs \ {p} : pc[q] \notin LockedPcs
BY Kinds DEF OnceInv, HolderPart

LEMMA Outside ==
  ASSUME OnceInv, lock = None
  PROVE  \A q \in Procs : pc[q] \notin LockedPcs
BY Kinds DEF OnceInv, HolderPart

LEMMA GoneOutside == \A p : Gone(p) \notin LockedPcs
BY DEF Gone, LockedPcs

-----------------------------------------------------------------------------
\* The four ways a step relates to the lock.

\* A program outside moves outside.
LEMMA QuietOnce ==
  ASSUME TypeOK, OnceInv, NEW p \in Procs, NEW l, l \notin LockedPcs, pc[p] \notin LockedPcs,
         pc' = [pc EXCEPT ![p] = l], UNCHANGED <<rec, age, lock, copy, hand, runs>>
  PROVE  OnceInv'
<1>1. \A q \in Procs : pc'[q] = IF q = p THEN l ELSE pc[q]
  BY DEF TypeOK
<1>2. HolderPart'
  BY <1>1 DEF OnceInv, HolderPart
<1>3. lock # None => lock \in Procs /\ lock # p /\ pc'[lock] = pc[lock]
  BY <1>1 DEF TypeOK, OnceInv, HolderPart
<1>4. CopyPart'
  BY <1>3 DEF OnceInv, CopyPart, Expired, Pending
<1> QED
  BY <1>2, <1>4 DEF OnceInv, RunsPart

\* Nobody is inside after the step.
LEMMA FreeOnce ==
  ASSUME lock' = None, \A q \in Procs : pc'[q] \notin LockedPcs, RunsPart'
  PROVE  OnceInv'
BY Kinds DEF OnceInv, HolderPart, CopyPart

\* A program takes the lock and loads the record.
LEMMA TakeOnce ==
  ASSUME TypeOK, OnceInv, NEW p \in Procs, Hold(p), NEW l,
         l \in {"new", "undismiss", "startQ", "record", "start"},
         l = "new" => Expired,
         l \in {"undismiss", "startQ", "record"} => Pending,
         l = "start" => rec.state = "approved",
         pc' = [pc EXCEPT ![p] = l], UNCHANGED <<rec, age, runs>>
  PROVE  OnceInv'
<1>1. \A q \in Procs : pc'[q] = IF q = p THEN l ELSE pc[q]
  BY DEF TypeOK
<1>2. lock = None /\ lock' = p /\ copy' = rec /\ l \in LockedPcs
  BY DEF Hold, LockedPcs
<1>3. HolderPart'
  BY <1>1, <1>2, Outside DEF HolderPart
<1>4. CopyPart'
  BY <1>1, <1>2 DEF CopyPart, Expired, Pending
<1> QED
  BY <1>3, <1>4 DEF OnceInv, RunsPart

\* The holder moves on inside; it may move another program, which stays outside.
LEMMA KeepOnce ==
  ASSUME OnceInv, NEW p \in Procs, pc[p] \in LockedPcs, lock' = lock, pc'[p] \in LockedPcs,
         \A q \in Procs \ {p} : pc'[q] = pc[q] \/ pc'[q] \notin LockedPcs,
         CopyPart', RunsPart'
  PROVE  OnceInv'
BY Inside DEF OnceInv, HolderPart

\* The holder leaves, and may move another program.
LEMMA LeaveOnce ==
  ASSUME OnceInv, NEW p \in Procs, pc[p] \in LockedPcs, lock' = None, pc'[p] \notin LockedPcs,
         \A q \in Procs \ {p} : pc'[q] = pc[q] \/ pc'[q] \notin LockedPcs,
         RunsPart'
  PROVE  OnceInv'
BY Inside, FreeOnce

-----------------------------------------------------------------------------
\* Programs outside the lock.

LEMMA OutsideSteps ==
  ASSUME TypeOK, OnceInv,
         \/ \E w \in Writers : Rerun(w) \/ Poll(w)
         \/ \E a \in Approvers : Show(a) \/ Decide(a)
         \/ \E q \in Questions : SendQuestion(q) \/ Reply(q)
         \/ \E r \in Runners : RunnerSees(r)
         \/ \E pid \in Pids : OtherTakes(pid) \/ OtherEnds(pid)
  PROVE  OnceInv'
<1>1. ASSUME NEW w \in Writers, Rerun(w) \/ Poll(w) PROVE OnceInv'
  BY <1>1, Kinds, QuietOnce DEF Rerun, Poll, Become, history, LockedPcs
<1>2. ASSUME NEW a \in Approvers, Show(a) \/ Decide(a) PROVE OnceInv'
  BY <1>2, Kinds, QuietOnce DEF Show, Decide, Become, history, LockedPcs
<1>3. ASSUME NEW q \in Questions, SendQuestion(q) \/ Reply(q) PROVE OnceInv'
  BY <1>3, Kinds, QuietOnce DEF SendQuestion, Reply, Become, history, LockedPcs
<1>4. ASSUME NEW r \in Runners, RunnerSees(r) PROVE OnceInv'
  BY <1>4, Kinds, QuietOnce DEF RunnerSees, Become, history, LockedPcs
<1>5. ASSUME NEW pid \in Pids, OtherTakes(pid) \/ OtherEnds(pid) PROVE OnceInv'
  BY <1>5, Kinds, QuietOnce DEF OtherTakes, OtherEnds, Become, history, LockedPcs, Pids
<1> QED
  BY <1>1, <1>2, <1>3, <1>4, <1>5

LEMMA TickOnce ==
  ASSUME TypeOK, OnceInv, Tick
  PROVE  OnceInv'
<1>1. Expired => Expired'
  BY DEF Tick, Expired
<1> QED
  BY <1>1 DEF Tick, history, OnceInv, HolderPart, CopyPart, RunsPart, Pending

LEMMA KillOnce ==
  ASSUME TypeOK, OnceInv, NEW p \in Procs, Kill(p)
  PROVE  OnceInv'
<1>1. pc' = [pc EXCEPT ![p] = Gone(p)] /\ Gone(p) \notin LockedPcs /\ UNCHANGED <<rec, age, runs>>
  BY GoneOutside DEF Kill, Become
<1>2. CASE lock = p
  <2>1. pc[p] \in LockedPcs /\ lock' = None
    BY <1>2, Kinds DEF Kill, Unlock, OnceInv, HolderPart
  <2> QED
    BY <1>1, <2>1, LeaveOnce DEF TypeOK, OnceInv, RunsPart
<1>3. CASE lock # p
  <2>1. pc[p] \notin LockedPcs /\ UNCHANGED <<lock, copy, hand>>
    BY <1>3 DEF Kill, OnceInv, HolderPart
  <2> QED
    BY <1>1, <2>1, QuietOnce
<1> QED
  BY <1>2, <1>3

-----------------------------------------------------------------------------
\* Steps that find the lock free.

LEMMA CreateOnce ==
  ASSUME TypeOK, OnceInv, NEW w \in Writers, Create(w)
  PROVE  OnceInv'
<1>1. w \in Procs /\ pc[w] \notin LockedPcs /\ UNCHANGED <<rec, age, hand, runs>>
  BY Kinds DEF Create, history, LockedPcs
<1>2. CASE Become(w, "run") /\ UNCHANGED <<lock, copy>>
  BY <1>1, <1>2, QuietOnce DEF Become, LockedPcs
<1>3. CASE Expired /\ Hold(w) /\ Become(w, "new")
  BY <1>1, <1>3, TakeOnce DEF Become
<1>4. CASE Pending /\ Hold(w) /\ Become(w, IF rec.dismissed THEN "undismiss" ELSE "startQ")
  BY <1>1, <1>4, TakeOnce DEF Become
<1> QED
  BY <1>2, <1>3, <1>4 DEF Create

LEMMA LockToRunOnce ==
  ASSUME TypeOK, OnceInv, NEW p \in Procs, LockToRun(p)
  PROVE  OnceInv'
<1>1. pc[p] \notin LockedPcs /\ UNCHANGED <<rec, age, hand, runs>>
  BY DEF LockToRun, history, LockedPcs
<1>2. CASE Become(p, Gone(p)) /\ UNCHANGED <<lock, copy>>
  BY <1>1, <1>2, GoneOutside, QuietOnce DEF Become
<1>3. CASE rec.state = "approved" /\ Hold(p) /\ Become(p, "start")
  BY <1>1, <1>3, TakeOnce DEF Become
<1> QED
  BY <1>2, <1>3 DEF LockToRun

LEMMA TakeAnswerOnce ==
  ASSUME TypeOK, OnceInv, NEW a \in Approvers, TakeAnswer(a)
  PROVE  OnceInv'
<1>1. a \in Procs /\ pc[a] \notin LockedPcs /\ UNCHANGED <<rec, age, hand, runs>>
  BY Kinds DEF TakeAnswer, LockedPcs
<1>2. CASE Become(a, "idle") /\ UNCHANGED <<lock, copy>>
  BY <1>1, <1>2, QuietOnce DEF Become, LockedPcs
<1>3. CASE Pending /\ Hold(a) /\ Become(a, "record")
  BY <1>1, <1>3, TakeOnce DEF Become
<1> QED
  BY <1>2, <1>3 DEF TakeAnswer

LEMMA DismissOnce ==
  ASSUME TypeOK, OnceInv, NEW a \in Approvers, Dismiss(a)
  PROVE  OnceInv'
<1>1. lock' = None /\ pc' = [pc EXCEPT ![a] = "idle"] /\ runs' = runs /\ rec'.state = rec.state
  BY DEF Dismiss, Become, TypeOK, Record
<1>2. \A q \in Procs : pc'[q] \notin LockedPcs
  BY <1>1, Kinds, Outside DEF Dismiss, LockedPcs, TypeOK
<1> QED
  BY <1>1, <1>2, FreeOnce DEF OnceInv, RunsPart

LEMMA TakeReplyOnce ==
  ASSUME TypeOK, OnceInv, NEW q \in Questions, TakeReply(q)
  PROVE  OnceInv'
<1>1. CASE Pending /\ Hold(q) /\ Become(q, "record") /\ UNCHANGED rec
  BY <1>1, Kinds, TakeOnce DEF Become, TakeReply
<1>2. CASE Become(q, "free") /\ rec' \in {rec, [rec EXCEPT !.moshi = None]} /\ UNCHANGED lock
  <2>1. lock' = None /\ pc' = [pc EXCEPT ![q] = "free"] /\ runs' = runs /\ rec'.state = rec.state
    BY <1>2 DEF TakeReply, Become, TypeOK, Record
  <2>2. \A p \in Procs : pc'[p] \notin LockedPcs
    BY <2>1, Kinds, Outside DEF TakeReply, LockedPcs, TypeOK
  <2> QED
    BY <2>1, <2>2, FreeOnce DEF OnceInv, RunsPart
<1> QED
  BY <1>1, <1>2 DEF TakeReply

-----------------------------------------------------------------------------
\* Steps of the program inside.

\* What the holder knows.
LEMMA Holding ==
  ASSUME TypeOK, OnceInv, NEW p \in Procs, pc[p] \in LockedPcs
  PROVE  /\ lock = p
         /\ pc[p] # "stop" => /\ copy \in {rec, [rec EXCEPT !.moshi = None]}
                              /\ copy \in Record /\ rec \in Record /\ copy.state = rec.state
         /\ pc[p] = "new" => Expired
         /\ pc[p] \in {"undismiss", "startQ", "saveQ", "record"} => rec.state = "pending"
         /\ pc[p] = "start" => rec.state = "approved"
         /\ pc[p] = "gh" => rec.state = "running"
         /\ pc[p] = "saveQ" => hand \in Questions
         /\ pc[p] = "saveR" => hand \in Runners
<1>1. lock = p /\ lock # None
  BY Inside
<1>2. pc[p] # "stop" => copy \in {rec, [rec EXCEPT !.moshi = None]}
  BY <1>1 DEF OnceInv, CopyPart
<1>3. rec \in Record /\ copy \in Record
  BY DEF TypeOK
<1>4. pc[p] # "stop" => copy.state = rec.state
  BY <1>2, <1>3 DEF Record
<1> QED
  BY <1>1, <1>2, <1>3, <1>4 DEF OnceInv, CopyPart, Pending

LEMMA LeavesOnce ==
  ASSUME TypeOK, OnceInv, NEW p \in Procs, pc[p] \in LockedPcs, Leave(p), RunsPart'
  PROVE  OnceInv'
BY LeaveOnce, GoneOutside DEF Leave, Become, Unlock, TypeOK

LEMMA NewOnce ==
  ASSUME TypeOK, OnceInv, NEW w \in Writers, New(w)
  PROVE  OnceInv'
<1>1. w \in Procs /\ pc[w] = "new" /\ pc[w] \in LockedPcs /\ lock = w
  BY Kinds, Holding DEF New, LockedPcs
<1>2. CASE Save(Fresh) /\ Become(w, "startQ") /\ runs' = 0 /\ UNCHANGED <<lock, hand, ask>>
  <2>1. rec' = Fresh /\ copy' = Fresh /\ Fresh.state = "pending"
    BY <1>2 DEF Save, Fresh, Blank
  <2>2. \A q \in Procs : pc'[q] = IF q = w THEN "startQ" ELSE pc[q]
    BY <1>2 DEF Become, TypeOK
  <2>3. RunsPart'
    BY <1>2, <2>1 DEF RunsPart
  <2>4. CopyPart'
    BY <1>1, <1>2, <2>1, <2>2 DEF CopyPart, Pending
  <2> QED
    BY <1>1, <1>2, <2>2, <2>3, <2>4, KeepOnce DEF LockedPcs
<1>3. CASE Leave(w) /\ UNCHANGED <<rec, age, history>>
  BY <1>1, <1>3, LeavesOnce DEF OnceInv, RunsPart, history
<1> QED
  BY <1>2, <1>3 DEF New

LEMMA UndismissOnce ==
  ASSUME TypeOK, OnceInv, NEW w \in Writers, Undismiss(w)
  PROVE  OnceInv'
<1>1. w \in Procs /\ pc[w] = "undismiss" /\ pc[w] \in LockedPcs /\ lock = w /\ runs' = runs
      /\ copy \in Record /\ copy.state = "pending" /\ rec.state = "pending"
  BY Kinds, Holding DEF Undismiss, LockedPcs, history
<1>2. CASE SaveKeepingAge([copy EXCEPT !.dismissed = FALSE]) /\ Become(w, "startQ")
           /\ UNCHANGED <<lock, hand, ask>>
  <2>1. rec' = copy' /\ rec'.state = "pending"
    BY <1>1, <1>2 DEF SaveKeepingAge, Record
  <2>2. \A q \in Procs : pc'[q] = IF q = w THEN "startQ" ELSE pc[q]
    BY <1>2 DEF Become, TypeOK
  <2>3. RunsPart'
    BY <1>1, <2>1 DEF OnceInv, RunsPart
  <2>4. CopyPart'
    BY <1>1, <1>2, <2>1, <2>2 DEF CopyPart, Pending
  <2> QED
    BY <1>1, <1>2, <2>2, <2>3, <2>4, KeepOnce DEF LockedPcs
<1>3. CASE Leave(w) /\ UNCHANGED <<rec, age>>
  BY <1>1, <1>3, LeavesOnce DEF OnceInv, RunsPart
<1> QED
  BY <1>2, <1>3 DEF Undismiss

LEMMA StartQuestionOnce ==
  ASSUME TypeOK, OnceInv, NEW w \in Writers, StartQuestion(w)
  PROVE  OnceInv'
<1>1. /\ w \in Procs /\ pc[w] = "startQ" /\ pc[w] \in LockedPcs /\ lock = w
      /\ copy \in {rec, [rec EXCEPT !.moshi = None]} /\ Pending
      /\ UNCHANGED <<rec, age, lock, copy, runs>>
  BY Kinds, Holding DEF StartQuestion, LockedPcs, Pending
<1>2. RunsPart'
  BY <1>1 DEF OnceInv, RunsPart
<1>3. CASE Become(w, "startR")
  <2>1. \A q \in Procs : pc'[q] = IF q = w THEN "startR" ELSE pc[q]
    BY <1>3 DEF Become, TypeOK
  <2>2. CopyPart'
    BY <1>1, <2>1 DEF CopyPart
  <2> QED
    BY <1>1, <1>2, <2>1, <2>2, KeepOnce DEF LockedPcs
<1>4. ASSUME NEW q \in Questions, pc' = [pc EXCEPT ![w] = "saveQ", ![q] = "wait"], hand' = q
      PROVE  OnceInv'
  <2>1. \A p \in Procs : pc'[p] = IF p = q THEN "wait" ELSE IF p = w THEN "saveQ" ELSE pc[p]
    BY <1>4 DEF TypeOK
  <2>2. pc'[w] = "saveQ" /\ hand' \in Questions
    BY <1>1, <1>4, <2>1, Kinds
  <2>3. CopyPart'
    BY <1>1, <2>2 DEF CopyPart, Pending
  <2> QED
    BY <1>1, <1>2, <2>1, <2>2, <2>3, KeepOnce DEF LockedPcs
<1> QED
  BY <1>3, <1>4 DEF StartQuestion

LEMMA SaveQuestionOnce ==
  ASSUME TypeOK, OnceInv, NEW w \in Writers, SaveQuestion(w)
  PROVE  OnceInv'
<1>1. /\ w \in Procs /\ pc[w] = "saveQ" /\ pc[w] \in LockedPcs /\ lock = w /\ hand \in Questions
      /\ copy \in {rec, [rec EXCEPT !.moshi = None]} /\ copy.state = rec.state
      /\ copy \in Record /\ rec \in Record
      /\ UNCHANGED <<lock, runs>>
  BY Kinds, Holding DEF SaveQuestion, LockedPcs
<1>2. \/ rec' = [copy EXCEPT !.moshi = hand] /\ copy' = rec'
      \/ rec' = rec /\ copy' = [copy EXCEPT !.moshi = None]
  BY DEF SaveQuestion, SaveKeepingAge
<1>3. rec'.state = rec.state /\ copy' \in {rec', [rec' EXCEPT !.moshi = None]}
  BY <1>1, <1>2 DEF Record
<1>4. RunsPart'
  BY <1>1, <1>3 DEF OnceInv, RunsPart
<1>5. w # hand /\ \A p \in Procs : \/ p = w /\ pc'[p] = "startR"
                                   \/ p # w /\ pc'[p] \in {pc[p], "free"}
  BY <1>1, Kinds DEF SaveQuestion, Become, TypeOK
<1>6. CopyPart'
  BY <1>1, <1>3, <1>5 DEF CopyPart
<1> QED
  BY <1>1, <1>4, <1>5, <1>6, KeepOnce DEF LockedPcs

LEMMA StartRunnerOnce ==
  ASSUME TypeOK, OnceInv, NEW p \in Starters, StartRunner(p)
  PROVE  OnceInv'
<1>1. /\ p \in Procs /\ pc[p] = "startR" /\ pc[p] \in LockedPcs /\ lock = p
      /\ copy \in {rec, [rec EXCEPT !.moshi = None]}
      /\ UNCHANGED <<rec, age, runs>>
  BY StarterPcs, Holding DEF StartRunner, LockedPcs, history
<1>2. RunsPart'
  BY <1>1 DEF OnceInv, RunsPart
<1>3. CASE Become(p, AfterRunner(p)) /\ Close(p)
  <2>1. \A q \in Procs : pc'[q] = IF q = p THEN AfterRunner(p) ELSE pc[q]
    BY <1>3 DEF Become, TypeOK
  <2>2. CASE p \in Approvers
    <3>1. pc'[p] = "stop" /\ lock' = lock
      BY <1>1, <1>3, <2>1, <2>2, Kinds DEF AfterRunner, Close
    <3>2. CopyPart'
      BY <1>1, <3>1 DEF CopyPart
    <3> QED
      BY <1>1, <1>2, <2>1, <3>1, <3>2, KeepOnce DEF LockedPcs
  <2>3. CASE p \notin Approvers
    <3>1. pc'[p] \in {"poll", "free"} /\ lock' = None
      BY <1>1, <1>3, <2>1, <2>3 DEF AfterRunner, Close, Starters, Answerers
    <3> QED
      BY <1>1, <1>2, <2>1, <3>1, LeaveOnce DEF LockedPcs
  <2> QED
    BY <2>2, <2>3
<1>4. ASSUME NEW r \in Runners, pc' = [pc EXCEPT ![p] = "saveR", ![r] = "watch"], hand' = r,
             UNCHANGED <<lock, copy, ask>>
      PROVE  OnceInv'
  <2>1. p # r /\ r \in Procs
    BY Kinds DEF Starters, Answerers
  <2>2. \A q \in Procs : pc'[q] = IF q = r THEN "watch" ELSE IF q = p THEN "saveR" ELSE pc[q]
    BY <1>4 DEF TypeOK
  <2>3. pc'[p] = "saveR" /\ hand' \in Runners /\ UNCHANGED <<lock, copy>>
    BY <1>1, <1>4, <2>1, <2>2
  <2>4. CopyPart'
    BY <1>1, <2>3 DEF CopyPart
  <2> QED
    BY <1>1, <1>2, <2>2, <2>3, <2>4, KeepOnce DEF LockedPcs
<1> QED
  BY <1>3, <1>4 DEF StartRunner

LEMMA SaveRunnerOnce ==
  ASSUME TypeOK, OnceInv, NEW p \in Starters, SaveRunner(p)
  PROVE  OnceInv'
<1>1. /\ p \in Procs /\ pc[p] = "saveR" /\ pc[p] \in LockedPcs /\ lock = p /\ hand \in Runners
      /\ copy.state = rec.state /\ copy \in Record /\ rec \in Record
      /\ UNCHANGED <<age, runs>>
  BY StarterPcs, Holding DEF SaveRunner, LockedPcs, history
<1>2. rec'.state = rec.state
  BY <1>1 DEF SaveRunner, Record
<1>3. RunsPart'
  BY <1>1, <1>2 DEF OnceInv, RunsPart
<1>4. p # hand /\ hand \in Procs
  BY <1>1, Kinds DEF Starters, Answerers
<1>5. \A q \in Procs : \/ q = p /\ pc'[q] = AfterRunner(p)
                       \/ q # p /\ pc'[q] \in {pc[q], "free"}
  BY <1>1, <1>4 DEF SaveRunner, Become, TypeOK
<1>6. CASE p \in Approvers
  <2>1. pc'[p] = "stop" /\ lock' = lock
    BY <1>1, <1>5, <1>6, Kinds DEF SaveRunner, AfterRunner, Close
  <2>2. CopyPart'
    BY <1>1, <2>1 DEF CopyPart
  <2> QED
    BY <1>1, <1>3, <1>5, <2>1, <2>2, KeepOnce DEF LockedPcs
<1>7. CASE p \notin Approvers
  <2>1. pc'[p] \in {"poll", "free"} /\ lock' = None
    BY <1>1, <1>5, <1>7 DEF SaveRunner, AfterRunner, Close, Starters, Answerers
  <2> QED
    BY <1>1, <1>3, <1>5, <2>1, LeaveOnce DEF LockedPcs
<1> QED
  BY <1>6, <1>7

LEMMA StartGHOnce ==
  ASSUME TypeOK, OnceInv, NEW p \in Posters, StartGH(p)
  PROVE  OnceInv'
<1>1. /\ p \in Procs /\ pc[p] = "start" /\ pc[p] \in LockedPcs /\ lock = p
      /\ copy \in Record /\ rec \in Record /\ rec.state = "approved"
  BY PosterPcs, Holding DEF StartGH, LockedPcs
<1>2. CASE /\ Save([copy EXCEPT !.state = "running"]) /\ Become(p, "gh")
           /\ runs' = runs + 1 /\ UNCHANGED <<lock, hand, ask>>
  <2>1. rec' = copy' /\ rec'.state = "running"
    BY <1>1, <1>2 DEF Save, Record
  <2>2. \A q \in Procs : pc'[q] = IF q = p THEN "gh" ELSE pc[q]
    BY <1>2 DEF Become, TypeOK
  <2>3. RunsPart'
    BY <1>1, <1>2, <2>1 DEF OnceInv, RunsPart
  <2>4. CopyPart'
    BY <1>1, <1>2, <2>1, <2>2 DEF CopyPart
  <2> QED
    BY <1>1, <1>2, <2>2, <2>3, <2>4, KeepOnce DEF LockedPcs
<1>3. CASE Leave(p) /\ UNCHANGED <<rec, age, runs>>
  BY <1>1, <1>3, LeavesOnce DEF OnceInv, RunsPart
<1> QED
  BY <1>2, <1>3 DEF StartGH

LEMMA GHExitsOnce ==
  ASSUME TypeOK, OnceInv, NEW p \in Posters, GHExits(p)
  PROVE  OnceInv'
<1>1. /\ p \in Procs /\ pc[p] = "gh" /\ pc[p] \in LockedPcs /\ rec.state = "running"
      /\ copy \in Record
  BY PosterPcs, Holding DEF GHExits, LockedPcs
<1>2. rec'.state \in {"running", "ran"} /\ runs' = runs
  BY <1>1 DEF GHExits, history, Record
<1>3. RunsPart'
  BY <1>1, <1>2 DEF OnceInv, RunsPart
<1> QED
  BY <1>1, <1>3, LeavesOnce DEF GHExits

LEMMA SaveAnswerOnce ==
  ASSUME TypeOK, OnceInv, NEW p \in Answerers, SaveAnswer(p)
  PROVE  OnceInv'
<1>1. /\ p \in Procs /\ pc[p] = "record" /\ pc[p] \in LockedPcs /\ lock = p
      /\ copy \in Record /\ rec.state = "pending" /\ runs' = runs
  BY Kinds, Holding DEF SaveAnswer, LockedPcs, Answerers
<1>2. rec' = rec \/ rec'.state \in {"approved", "declined"}
  BY <1>1 DEF SaveAnswer, Record
<1>3. RunsPart'
  BY <1>1, <1>2 DEF OnceInv, RunsPart
<1>4. CASE Leave(p)
  BY <1>1, <1>3, <1>4, LeavesOnce
<1>5. CASE Become(p, "startR") /\ copy' = rec' /\ UNCHANGED <<lock, hand, ask>>
  <2>1. \A q \in Procs : pc'[q] = IF q = p THEN "startR" ELSE pc[q]
    BY <1>5 DEF Become, TypeOK
  <2>2. CopyPart'
    BY <1>1, <1>5, <2>1 DEF CopyPart
  <2> QED
    BY <1>1, <1>3, <1>5, <2>1, <2>2, KeepOnce DEF LockedPcs
<1>6. CASE Become(p, IF p \in Approvers THEN "stop" ELSE "free") /\ Close(p)
  <2>1. \A q \in Procs : pc'[q] = IF q = p THEN (IF p \in Approvers THEN "stop" ELSE "free") ELSE pc[q]
    BY <1>6 DEF Become, TypeOK
  <2>2. CASE p \in Approvers
    <3>1. pc'[p] = "stop" /\ lock' = lock
      BY <1>1, <1>6, <2>1, <2>2 DEF Close
    <3>2. CopyPart'
      BY <1>1, <3>1 DEF CopyPart
    <3> QED
      BY <1>1, <1>3, <2>1, <3>1, <3>2, KeepOnce DEF LockedPcs
  <2>3. CASE p \notin Approvers
    <3>1. pc'[p] = "free" /\ lock' = None
      BY <1>1, <1>6, <2>1, <2>3 DEF Close
    <3> QED
      BY <1>1, <1>3, <2>1, <3>1, LeaveOnce DEF LockedPcs
  <2> QED
    BY <2>2, <2>3
<1> QED
  BY <1>4, <1>5, <1>6 DEF SaveAnswer

\* stopMoshi moves its caller out and the question off.
LEMMA StopMoshiMoves ==
  ASSUME TypeOK, NEW p \in Procs, NEW q \in Questions \cup {None}, StopMoshi(p, q), p # q
  PROVE  /\ pc'[p] = Gone(p)
         /\ \A x \in Procs \ {p} : pc'[x] = pc[x] \/ (x = q /\ pc'[x] = "free")
         /\ q # None /\ pc[q] \notin {"free", "other"} => pc'[q] = "free"
BY Kinds DEF StopMoshi, Become, Alive, TypeOK

LEMMA StopQuestionOnce ==
  ASSUME TypeOK, OnceInv, NEW a \in Approvers, StopQuestion(a)
  PROVE  OnceInv'
<1>1. /\ a \in Procs /\ pc[a] = "stop" /\ pc[a] \in LockedPcs
      /\ lock' = None /\ UNCHANGED <<rec, runs>>
  BY Kinds DEF StopQuestion, LockedPcs, Unlock
<1>2. ask \in Questions \cup {None} /\ a # ask
  BY Kinds DEF TypeOK
<1>3. /\ pc'[a] = Gone(a)
      /\ \A x \in Procs \ {a} : pc'[x] = pc[x] \/ pc'[x] = "free"
  BY <1>1, <1>2, StopMoshiMoves DEF StopQuestion
<1>4. RunsPart'
  BY <1>1 DEF OnceInv, RunsPart
<1> QED
  BY <1>1, <1>3, <1>4, GoneOutside, LeaveOnce DEF LockedPcs

\* Several programs outside move outside.
LEMMA BystandersOnce ==
  ASSUME TypeOK, OnceInv,
         \A q \in Procs : pc'[q] = pc[q] \/ (pc[q] \notin LockedPcs /\ pc'[q] \notin LockedPcs),
         UNCHANGED <<rec, age, lock, copy, hand, runs>>
  PROVE  OnceInv'
<1>1. HolderPart'
  BY DEF OnceInv, HolderPart
<1>2. lock # None => lock \in Procs /\ pc'[lock] = pc[lock]
  BY DEF TypeOK, OnceInv, HolderPart
<1>3. CopyPart'
  BY <1>2 DEF OnceInv, CopyPart, Expired, Pending
<1> QED
  BY <1>1, <1>3 DEF OnceInv, RunsPart

LEMMA RunnerExpiresOnce ==
  ASSUME TypeOK, OnceInv, NEW r \in Runners, RunnerExpires(r)
  PROVE  OnceInv'
<1>1. /\ r \in Procs /\ pc[r] = "watch" /\ pc[r] \notin LockedPcs /\ UNCHANGED <<rec, age, runs>>
      /\ rec.moshi \in Questions \cup {None} /\ r # rec.moshi
  BY Kinds DEF RunnerExpires, LockedPcs, TypeOK, Record
<1>2. /\ pc'[r] = Gone(r)
      /\ \A x \in Procs \ {r} : pc'[x] = pc[x] \/ (x = rec.moshi /\ pc'[x] = "free")
      /\ rec.moshi # None /\ pc[rec.moshi] \notin {"free", "other"} => pc'[rec.moshi] = "free"
  BY <1>1, StopMoshiMoves DEF RunnerExpires
<1>3. RunsPart'
  BY <1>1 DEF OnceInv, RunsPart
<1>4. CASE lock = rec.moshi /\ lock # None
  <2>1. rec.moshi \in Procs /\ pc[rec.moshi] \in LockedPcs
    BY <1>1, <1>4, Kinds DEF OnceInv, HolderPart
  <2>2. pc'[rec.moshi] = "free" /\ lock' = None
    BY <1>2, <1>4, <2>1 DEF LockedPcs, RunnerExpires, Unlock
  <2>3. \A q \in Procs \ {rec.moshi} : pc'[q] = pc[q] \/ pc'[q] \notin LockedPcs
    BY <1>2, GoneOutside
  <2> QED
    BY <1>3, <2>1, <2>2, <2>3, LeaveOnce DEF LockedPcs
<1>5. CASE ~(lock = rec.moshi /\ lock # None)
  <2>1. UNCHANGED <<lock, copy, hand>>
    BY <1>5 DEF RunnerExpires
  <2>2. rec.moshi \in Procs => pc[rec.moshi] \notin LockedPcs
    BY <1>1, <1>5, Kinds DEF OnceInv, HolderPart
  <2>3. \A q \in Procs : pc'[q] = pc[q] \/ (pc[q] \notin LockedPcs /\ pc'[q] \notin LockedPcs)
    BY <1>1, <1>2, <2>2, GoneOutside DEF LockedPcs
  <2> QED
    BY <1>1, <2>1, <2>3, BystandersOnce
<1> QED
  BY <1>4, <1>5

-----------------------------------------------------------------------------
\* The invariant.

LEMMA OnceInit == Init => OnceInv
BY Kinds, GoneOutside DEF Init, OnceInv, HolderPart, CopyPart, RunsPart, Blank

LEMMA WriterNext ==
  ASSUME TypeOK, OnceInv, NEW w \in Writers, WriterStep(w)
  PROVE  TypeOK' /\ OnceInv'
<1>1. DataOK /\ PcOK
  BY TypeSplit
<1>2. w \in Procs /\ w \in Starters /\ w \in Posters
  BY Kinds DEF Starters, Posters
<1>3. pc[w] = "saveQ" => hand \in Questions
  BY <1>2, Holding DEF LockedPcs
<1>4. pc[w] = "saveR" => hand \in Runners
  BY <1>2, Holding DEF LockedPcs
<1>5. DataOK' /\ PcOK'
  BY <1>1, <1>2, <1>3, <1>4, CreateType, NewType, UndismissType, StartQuestionType,
     SaveQuestionType, StartRunnerType, SaveRunnerType, PollType, LockToRunType, StartGHType,
     GHExitsType
  DEF WriterStep, SaveQuestion, SaveRunner
<1>6. OnceInv'
  BY <1>2, CreateOnce, NewOnce, UndismissOnce, StartQuestionOnce, SaveQuestionOnce,
     StartRunnerOnce, SaveRunnerOnce, OutsideSteps, LockToRunOnce, StartGHOnce, GHExitsOnce
  DEF WriterStep
<1> QED
  BY <1>5, <1>6, TypeJoin

LEMMA RunnerNext ==
  ASSUME TypeOK, OnceInv, NEW r \in Runners, RunnerStep(r)
  PROVE  TypeOK' /\ OnceInv'
<1>1. DataOK /\ PcOK
  BY TypeSplit
<1>2. r \in Procs /\ r \in Posters
  BY Kinds DEF Posters
<1>3. DataOK' /\ PcOK'
  BY <1>1, <1>2, RunnerExpiresType, RunnerSeesType, LockToRunType, StartGHType, GHExitsType
  DEF RunnerStep
<1>4. OnceInv'
  BY <1>2, RunnerExpiresOnce, OutsideSteps, LockToRunOnce, StartGHOnce, GHExitsOnce
  DEF RunnerStep
<1> QED
  BY <1>3, <1>4, TypeJoin

LEMMA ApproverNext ==
  ASSUME TypeOK, OnceInv, NEW a \in Approvers, ApproverStep(a)
  PROVE  TypeOK' /\ OnceInv'
<1>1. DataOK /\ PcOK
  BY TypeSplit
<1>2. a \in Procs /\ a \in Starters /\ a \in Answerers
  BY Kinds DEF Starters
<1>3. pc[a] = "saveR" => hand \in Runners
  BY <1>2, Holding DEF LockedPcs
<1>4. DataOK' /\ PcOK'
  BY <1>1, <1>2, <1>3, TakeAnswerType, DismissType, SaveAnswerType, StartRunnerType,
     SaveRunnerType, StopQuestionType
  DEF ApproverStep, SaveRunner
<1>5. OnceInv'
  BY <1>2, TakeAnswerOnce, DismissOnce, SaveAnswerOnce, StartRunnerOnce, SaveRunnerOnce,
     StopQuestionOnce
  DEF ApproverStep
<1> QED
  BY <1>4, <1>5, TypeJoin

LEMMA QuestionNext ==
  ASSUME TypeOK, OnceInv, NEW q \in Questions, QuestionStep(q)
  PROVE  TypeOK' /\ OnceInv'
<1>1. DataOK /\ PcOK
  BY TypeSplit
<1>2. q \in Procs /\ q \in Starters /\ q \in Answerers
  BY Kinds DEF Starters
<1>3. pc[q] = "saveR" => hand \in Runners
  BY <1>2, Holding DEF LockedPcs
<1>4. DataOK' /\ PcOK'
  BY <1>1, <1>2, <1>3, SendQuestionType, TakeReplyType, SaveAnswerType, StartRunnerType,
     SaveRunnerType
  DEF QuestionStep, SaveRunner
<1>5. OnceInv'
  BY <1>2, OutsideSteps, TakeReplyOnce, SaveAnswerOnce, StartRunnerOnce, SaveRunnerOnce
  DEF QuestionStep
<1> QED
  BY <1>4, <1>5, TypeJoin

LEMMA EnvironmentNext ==
  ASSUME TypeOK, OnceInv, Environment
  PROVE  TypeOK' /\ OnceInv'
<1>1. DataOK /\ PcOK
  BY TypeSplit
<1>2. DataOK' /\ PcOK'
  BY <1>1, RerunType, ShowType, DecideType, ReplyType, KillType, OtherType, TickType
  DEF Environment
<1>3. OnceInv'
  BY OutsideSteps, KillOnce, TickOnce DEF Environment
<1> QED
  BY <1>2, <1>3, TypeJoin

LEMMA InvNext ==
  ASSUME TypeOK, OnceInv, [Next]_vars
  PROVE  TypeOK' /\ OnceInv'
<1>1. CASE Next
  BY <1>1, EnvironmentNext, WriterNext, RunnerNext, ApproverNext, QuestionNext DEF Next, Step
<1>2. CASE UNCHANGED vars
  <2>1. TypeOK'
    BY <1>2 DEF vars, TypeOK
  <2>2. OnceInv'
    BY <1>2 DEF vars, OnceInv, HolderPart, CopyPart, RunsPart, Expired, Pending
  <2> QED
    BY <2>1, <2>2
<1> QED
  BY <1>1, <1>2

\* TypeOK: the record, the lock, the PIDs and all programs of record.go,
\* writecmd.go, runnercmd.go, moshiaskcmd.go and popupcmd.go stay well formed.
THEOREM TypeCorrect == Spec => []TypeOK
<1>1. Init => TypeOK /\ OnceInv
  BY TypeInit, OnceInit
<1>2. TypeOK /\ OnceInv /\ [Next]_vars => (TypeOK /\ OnceInv)'
  BY InvNext
<1> QED
  BY <1>1, <1>2, PTL DEF Spec

\* OnceInv: the lock is held by the one program that is inside, what it has
\* loaded is what the record says, and gh was started when the record says so.
THEOREM OnceInvariant == Spec => []OnceInv
<1>1. Init => TypeOK /\ OnceInv
  BY TypeInit, OnceInit
<1>2. TypeOK /\ OnceInv /\ [Next]_vars => (TypeOK /\ OnceInv)'
  BY InvNext
<1> QED
  BY <1>1, <1>2, PTL DEF Spec

\* RunsOnce: reportOrRun starts gh at most once for a record, by one program.
THEOREM RunOnce == Spec => []RunsOnce
<1>1. OnceInv => RunsOnce
  <2> SUFFICES ASSUME OnceInv PROVE RunsOnce
    OBVIOUS
  <2>1. runs \in {0, 1}
    BY DEF OnceInv, RunsPart
  <2>2. \A p, r \in Procs : pc[p] = "gh" /\ pc[r] = "gh" => p = r
    BY DEF OnceInv, HolderPart, LockedPcs
  <2> QED
    BY <2>1, <2>2 DEF RunsOnce
<1> QED
  BY <1>1, OnceInvariant, PTL

\* RunningIsLocked: while runGH has gh running, the record says so and is locked.
THEOREM RunLocked == Spec => []RunningIsLocked
<1>1. OnceInv => RunningIsLocked
  BY Kinds DEF OnceInv, HolderPart, CopyPart, LockedPcs, RunningIsLocked
<1> QED
  BY <1>1, OnceInvariant, PTL

\* NoLostUpdate: what Save writes under the lock undoes no save of another.
THEOREM NothingLost == Spec => []NoLostUpdate
<1>1. OnceInv => NoLostUpdate
  BY DEF OnceInv, CopyPart, NoLostUpdate
<1> QED
  BY <1>1, OnceInvariant, PTL

-----------------------------------------------------------------------------
\* What a step does to the state and the age of the record.

Unmoved == rec'.state = rec.state /\ age' = age

Saved(from, to) == rec.state \in from /\ rec'.state \in to /\ age' = 0

RequestStep ==
  \/ Unmoved
  \/ rec' = rec /\ age' \in {age, age + 1}
  \/ Expired /\ Saved(States, {"pending"})
  \/ Saved({"pending"}, {"approved", "declined"})
  \/ Saved({"approved"}, {"running"})
  \/ Saved({"running"}, {"ran"})

\* A step that saves nothing.
LEMMA NoSave == ASSUME UNCHANGED <<rec, age>> PROVE RequestStep
BY DEF RequestStep, Unmoved

LEMMA WriterSaves ==
  ASSUME TypeOK, OnceInv, NEW w \in Writers, New(w) \/ Undismiss(w) \/ SaveQuestion(w)
  PROVE  RequestStep
<1>0. w \in Procs
  BY Kinds
<1>1. CASE New(w)
  <2>1. Expired /\ rec.state \in States
    BY <1>0, <1>1, Holding DEF New, LockedPcs, TypeOK, Record
  <2>2. (rec' = Fresh /\ age' = 0) \/ UNCHANGED <<rec, age>>
    BY <1>1 DEF New, Save
  <2> QED
    BY <2>1, <2>2, NoSave DEF RequestStep, Saved, Fresh, Blank
<1>2. CASE Undismiss(w)
  <2>1. copy.state = rec.state /\ copy \in Record
    BY <1>0, <1>2, Holding DEF Undismiss, LockedPcs
  <2>2. (rec' = [copy EXCEPT !.dismissed = FALSE] /\ age' = age) \/ UNCHANGED <<rec, age>>
    BY <1>2 DEF Undismiss, SaveKeepingAge
  <2> QED
    BY <2>1, <2>2, NoSave DEF RequestStep, Unmoved, Record
<1>3. CASE SaveQuestion(w)
  <2>1. copy.state = rec.state /\ copy \in Record
    BY <1>0, <1>3, Holding DEF SaveQuestion, LockedPcs
  <2>2. (rec' = [copy EXCEPT !.moshi = hand] /\ age' = age) \/ UNCHANGED <<rec, age>>
    BY <1>3 DEF SaveQuestion, SaveKeepingAge
  <2> QED
    BY <2>1, <2>2, NoSave DEF RequestStep, Unmoved, Record
<1> QED
  BY <1>1, <1>2, <1>3

LEMMA RunnerSaves ==
  ASSUME TypeOK, OnceInv, NEW p \in Starters, SaveRunner(p)
  PROVE  RequestStep
<1>1. copy.state = rec.state /\ copy \in Record
  BY StarterPcs, Holding DEF SaveRunner, LockedPcs
<1>2. rec' \in {rec, [copy EXCEPT !.runner = hand]} /\ age' = age
  BY DEF SaveRunner
<1> QED
  BY <1>1, <1>2 DEF RequestStep, Unmoved, Record

LEMMA GHSaves ==
  ASSUME TypeOK, OnceInv, NEW p \in Posters, StartGH(p) \/ GHExits(p)
  PROVE  RequestStep
<1>1. CASE StartGH(p)
  <2>1. copy \in Record /\ rec.state = "approved"
    BY <1>1, PosterPcs, Holding DEF StartGH, LockedPcs
  <2>2. (rec' = [copy EXCEPT !.state = "running"] /\ age' = 0) \/ UNCHANGED <<rec, age>>
    BY <1>1 DEF StartGH, Save
  <2> QED
    BY <2>1, <2>2, NoSave DEF RequestStep, Saved, Record
<1>2. CASE GHExits(p)
  <2>1. copy \in Record /\ rec.state = "running"
    BY <1>2, PosterPcs, Holding DEF GHExits, LockedPcs
  <2>2. (rec' = [copy EXCEPT !.state = "ran"] /\ age' = 0) \/ UNCHANGED <<rec, age>>
    BY <1>2 DEF GHExits
  <2> QED
    BY <2>1, <2>2, NoSave DEF RequestStep, Saved, Record
<1> QED
  BY <1>1, <1>2

LEMMA AnswerSaves ==
  ASSUME TypeOK, OnceInv, NEW p \in Answerers, SaveAnswer(p)
  PROVE  RequestStep
<1>1. copy \in Record /\ rec.state = "pending"
  BY Kinds, Holding DEF SaveAnswer, LockedPcs, Answerers
<1>2. \/ rec'.state \in {"approved", "declined"} /\ age' = 0
      \/ UNCHANGED <<rec, age>>
  BY <1>1 DEF SaveAnswer, Record
<1> QED
  BY <1>1, <1>2, NoSave DEF RequestStep, Saved

LEMMA OtherSaves ==
  ASSUME TypeOK, (\E a \in Approvers : Dismiss(a)) \/ (\E q \in Questions : TakeReply(q))
  PROVE  RequestStep
BY DEF Dismiss, TakeReply, RequestStep, Unmoved, TypeOK, Record

LEMMA RequestSteps ==
  ASSUME TypeOK, OnceInv, [Next]_vars
  PROVE  RequestStep
<1>1. ASSUME NEW w \in Writers, WriterStep(w) PROVE RequestStep
  <2>1. w \in Starters /\ w \in Posters
    BY DEF Starters, Posters
  <2>2. CASE UNCHANGED <<rec, age>>
    BY <2>2, NoSave
  <2>3. CASE ~UNCHANGED <<rec, age>>
    <3>1. \/ New(w) \/ Undismiss(w) \/ SaveQuestion(w) \/ SaveRunner(w) \/ StartGH(w) \/ GHExits(w)
      BY <1>1, <2>3 DEF WriterStep, Create, StartQuestion, StartRunner, Poll, LockToRun
    <3> QED
      BY <2>1, <3>1, WriterSaves, RunnerSaves, GHSaves
  <2> QED
    BY <2>2, <2>3
<1>2. ASSUME NEW r \in Runners, RunnerStep(r) PROVE RequestStep
  <2>1. r \in Posters
    BY DEF Posters
  <2>2. StartGH(r) \/ GHExits(r) \/ UNCHANGED <<rec, age>>
    BY <1>2 DEF RunnerStep, RunnerExpires, RunnerSees, LockToRun
  <2> QED
    BY <2>1, <2>2, GHSaves, NoSave
<1>3. ASSUME NEW a \in Approvers, ApproverStep(a) PROVE RequestStep
  <2>1. a \in Starters /\ a \in Answerers
    BY DEF Starters, Answerers
  <2>2. Dismiss(a) \/ SaveAnswer(a) \/ SaveRunner(a) \/ UNCHANGED <<rec, age>>
    BY <1>3 DEF ApproverStep, TakeAnswer, StartRunner, StopQuestion
  <2> QED
    BY <2>1, <2>2, OtherSaves, AnswerSaves, RunnerSaves, NoSave
<1>4. ASSUME NEW q \in Questions, QuestionStep(q) PROVE RequestStep
  <2>1. q \in Starters /\ q \in Answerers
    BY DEF Starters, Answerers
  <2>2. TakeReply(q) \/ SaveAnswer(q) \/ SaveRunner(q) \/ UNCHANGED <<rec, age>>
    BY <1>4 DEF QuestionStep, SendQuestion, StartRunner
  <2> QED
    BY <2>1, <2>2, OtherSaves, AnswerSaves, RunnerSaves, NoSave
<1>5. CASE Environment
  <2>1. UNCHANGED <<rec, age>> \/ Tick
    BY <1>5 DEF Environment, Rerun, Show, Decide, Reply, Kill, OtherTakes, OtherEnds
  <2>2. Tick => RequestStep
    BY DEF Tick, RequestStep
  <2> QED
    BY <2>1, <2>2, NoSave
<1>6. CASE UNCHANGED vars
  BY <1>6, NoSave DEF vars
<1> QED
  BY <1>1, <1>2, <1>3, <1>4, <1>5, <1>6 DEF Next, Step

\* PendingAges: saveKeepingUpdated keeps the age, so reruns never keep a waiting
\* request from expiring.
THEOREM AgesOnly == Spec => PendingAges
<1>1. Init => TypeOK /\ OnceInv
  BY TypeInit, OnceInit
<1>2. TypeOK /\ OnceInv /\ [Next]_vars => (TypeOK /\ OnceInv)'
  BY InvNext
<1>3. TypeOK /\ OnceInv /\ [Next]_vars =>
        [Pending /\ rec'.state = "pending" /\ age' < age => Expired]_vars
  <2> SUFFICES ASSUME TypeOK, OnceInv, [Next]_vars, Pending, rec'.state = "pending", age' < age
               PROVE  Expired
    OBVIOUS
  <2>1. RequestStep /\ age \in Nat
    BY RequestSteps, ExpiryAssumption DEF TypeOK
  <2> QED
    BY <2>1 DEF RequestStep, Unmoved, Saved, Pending
<1> QED
  BY <1>1, <1>2, <1>3, PTL DEF Spec, PendingAges

\* PostsOnce: the programs around a record implement PostOnce: it is decided
\* once, posted at most once and only after a yes, and replaced only when stale.
THEOREM PostsOnceImplemented == Spec => PostsOnce
<1>1. Init => TypeOK /\ OnceInv
  BY TypeInit, OnceInit
<1>2. TypeOK /\ OnceInv /\ [Next]_vars => (TypeOK /\ OnceInv)'
  BY InvNext
<1>3. Init => Promise!Init
  BY ExpiryAssumption DEF Init, Promise!Init, Blank, Expired
<1>4. TypeOK /\ OnceInv /\ [Next]_vars => [Promise!Next]_Promise!vars
  <2> SUFFICES ASSUME TypeOK, OnceInv, [Next]_vars
               PROVE  Promise!Next \/ UNCHANGED Promise!vars
    OBVIOUS
  <2>0. age \in Nat /\ Expiry \in Nat /\ Expiry > 0 /\ rec.state \in States
    BY ExpiryAssumption DEF TypeOK, Record
  <2>1. CASE Unmoved
    BY <2>1 DEF Unmoved, Promise!vars, Expired
  <2>2. CASE rec' = rec /\ age' \in {age, age + 1}
    <3>1. CASE Expired' = Expired
      BY <2>2, <3>1 DEF Promise!vars
    <3>2. CASE Expired' # Expired
      <4>1. ~Expired /\ Expired'
        BY <2>0, <2>2, <3>2 DEF Expired
      <4> QED
        BY <2>2, <4>1 DEF Promise!Next, Promise!GrowStale
    <3> QED
      BY <3>1, <3>2
  <2>3. ASSUME age' = 0 PROVE ~Expired'
    BY <2>0, <2>3 DEF Expired
  <2>4. CASE Expired /\ Saved(States, {"pending"})
    BY <2>3, <2>4 DEF Saved, Promise!Next, Promise!Renew
  <2>5. CASE Saved({"pending"}, {"approved", "declined"})
    BY <2>3, <2>5 DEF Saved, Promise!Next, Promise!Decide
  <2>6. CASE Saved({"approved"}, {"running"})
    BY <2>3, <2>6 DEF Saved, Promise!Next, Promise!Post
  <2>7. CASE Saved({"running"}, {"ran"})
    BY <2>3, <2>7 DEF Saved, Promise!Next, Promise!Finish
  <2> QED
    BY <2>1, <2>2, <2>4, <2>5, <2>6, <2>7, RequestSteps DEF RequestStep
<1> QED
  BY <1>1, <1>2, <1>3, <1>4, PTL DEF Spec, PostsOnce, Promise!Spec


-----------------------------------------------------------------------------
\* One question is on the phone.

Unanswered == {"wait", "asking"}

\* No question comes to the phone.
Quiet == \A q \in Questions : OnPhone(q)' => OnPhone(q)

LEMMA QuietMoves ==
  ASSUME UNCHANGED old,
         \A q \in Questions : \/ pc'[q] = pc[q] \/ pc'[q] \notin Unanswered
                              \/ pc[q] = "wait"
  PROVE  Quiet
BY DEF Quiet, OnPhone, Unanswered

LEMMA QuietOne ==
  ASSUME PcOK, NEW p \in Procs, NEW l, pc' = [pc EXCEPT ![p] = l], UNCHANGED old,
         l \in Unanswered => pc[p] = "wait"
  PROVE  Quiet
<1>1. \A q \in Questions : q \in Procs /\ pc'[q] = IF q = p THEN l ELSE pc[q]
  BY Kinds DEF PcOK
<1> QED BY <1>1, QuietMoves

LEMMA PhoneJoin ==
  ASSUME OnePhone, Quiet, PhonePart', AskPart'
  PROVE  OnePhone'
<1>1. OnePart'
  BY DEF OnePhone, OnePart, Quiet
<1> QED BY <1>1 DEF OnePhone

\* Nobody has the lock after the step.
LEMMA FreePhone ==
  ASSUME OnePhone, Quiet, lock' = None,
         Pending' => \A q \in Questions : OnPhone(q)' => rec'.moshi = q
  PROVE  OnePhone'
<1>1. PhonePart' /\ AskPart'
  BY Kinds DEF PhonePart, AskPart, Procs
<1> QED BY <1>1, PhoneJoin

\* Whoever has the lock does not move.
LEMMA QuietPhone ==
  ASSUME TypeOK, OnePhone, Quiet, UNCHANGED <<rec, lock, copy, hand, ask>>,
         lock # None => pc'[lock] = pc[lock]
  PROVE  OnePhone'
<1>1. PhonePart'
  BY DEF OnePhone, PhonePart, Quiet, Pending
<1>2. AskPart'
  BY Kinds DEF OnePhone, AskPart, Quiet
<1> QED BY <1>1, <1>2, PhoneJoin

\* A program outside the lock moves.
LEMMA MovePhone ==
  ASSUME TypeOK, OnceInv, OnePhone, NEW p \in Procs, NEW l, pc[p] \notin LockedPcs,
         pc' = [pc EXCEPT ![p] = l], UNCHANGED <<rec, lock, copy, hand, ask, old>>,
         l \in Unanswered => pc[p] = "wait"
  PROVE  OnePhone'
<1>1. PcOK
  BY TypeSplit
<1>2. Quiet
  BY <1>1, QuietOne
<1>3. lock # None => pc'[lock] = pc[lock]
  BY <1>1 DEF OnceInv, HolderPart, TypeOK, PcOK
<1> QED BY <1>2, <1>3, QuietPhone

\* A program takes the lock.
LEMMA TakePhone ==
  ASSUME TypeOK, OnceInv, OnePhone, NEW p \in Procs, Hold(p), NEW l,
         l \in LockedPcs \ {"saveQ", "stop"}, pc' = [pc EXCEPT ![p] = l], UNCHANGED <<rec, old>>,
         p \in Approvers => l = "record" /\ Pending /\ ask' = rec.moshi
  PROVE  OnePhone'
<1>1. PcOK
  BY TypeSplit
<1>2. Quiet
  BY <1>1, QuietOne DEF LockedPcs, Unanswered
<1>3. lock = None /\ lock' = p /\ copy' = rec /\ pc'[p] = l /\ p # None
  BY <1>1, Kinds DEF Hold, PcOK
<1>4. Pending => \A q \in Questions : OnPhone(q)' => rec.moshi = q
  BY <1>2, <1>3 DEF OnePhone, PhonePart, Quiet
<1>5. PhonePart'
  BY <1>3, <1>4 DEF PhonePart, Pending
<1>6. AskPart'
  BY <1>3, <1>4 DEF AskPart
<1> QED BY <1>2, <1>5, <1>6, PhoneJoin

\* What the holder knows of the phone.
LEMMA Known ==
  ASSUME OnePhone, NEW p \in Procs, lock = p, pc[p] \notin {"saveQ", "stop"}, Pending,
         NEW q \in Questions, OnPhone(q)
  PROVE  rec.moshi = q /\ copy.moshi = q
BY Kinds DEF OnePhone, PhonePart

\* The holder moves on and saves nothing that the phone depends on.
LEMMA StayPhone ==
  ASSUME OnePhone, Quiet, NEW p \in Procs, lock = p, lock' = p, p \notin Approvers,
         pc[p] \notin {"saveQ", "stop"}, pc'[p] \notin {"saveQ", "stop"},
         Pending' => Pending /\ rec'.moshi \in {rec.moshi, copy.moshi}
                             /\ copy'.moshi \in {rec.moshi, copy.moshi}
  PROVE  OnePhone'
<1>1. Pending' => \A q \in Questions : OnPhone(q)' => rec'.moshi = q /\ copy'.moshi = q
  BY Known DEF Quiet
<1>2. PhonePart'
  BY <1>1 DEF PhonePart
<1>3. AskPart'
  BY DEF AskPart
<1> QED BY <1>2, <1>3, PhoneJoin

\* The holder leaves.
LEMMA LeavePhone ==
  ASSUME OnePhone, Quiet, NEW p \in Procs, lock = p, lock' = None,
         Pending' => /\ Pending /\ pc[p] \notin {"saveQ", "stop"}
                     /\ rec'.moshi \in {rec.moshi, copy.moshi}
  PROVE  OnePhone'
<1>1. Pending' => \A q \in Questions : OnPhone(q)' => rec'.moshi = q
  BY Known DEF Quiet
<1> QED BY <1>1, FreePhone

\* An approver that keeps the lock has saved its answer.
LEMMA StopPhone ==
  ASSUME OnePhone, Quiet, NEW a \in Approvers, lock = a, lock' = a, ask' = ask,
         rec'.state \in {"approved", "declined"}
  PROVE  OnePhone'
<1>1. PhonePart'
  BY DEF PhonePart, Pending
<1>2. AskPart'
  BY DEF AskPart, OnePhone, Quiet
<1> QED BY <1>1, <1>2, PhoneJoin

-----------------------------------------------------------------------------
\* Programs outside the lock, time and kills.

LEMMA OutsidePhone ==
  ASSUME TypeOK, OnceInv, OnePhone,
         \/ \E w \in Writers : Rerun(w) \/ Poll(w)
         \/ \E a \in Approvers : Show(a) \/ Decide(a)
         \/ \E q \in Questions : SendQuestion(q) \/ Reply(q)
         \/ \E r \in Runners : RunnerSees(r)
         \/ \E pid \in Pids : OtherTakes(pid) \/ OtherEnds(pid)
  PROVE  OnePhone'
<1>1. ASSUME NEW w \in Writers, Rerun(w) \/ Poll(w) PROVE OnePhone'
  BY <1>1, Kinds, MovePhone DEF Rerun, Poll, Become, history, LockedPcs, Unanswered
<1>2. ASSUME NEW a \in Approvers, Show(a) \/ Decide(a) PROVE OnePhone'
  BY <1>2, Kinds, MovePhone DEF Show, Decide, Become, history, LockedPcs, Unanswered
<1>3. ASSUME NEW q \in Questions, SendQuestion(q) \/ Reply(q) PROVE OnePhone'
  BY <1>3, Kinds, MovePhone DEF SendQuestion, Reply, Become, history, LockedPcs, Unanswered
<1>4. ASSUME NEW r \in Runners, RunnerSees(r) PROVE OnePhone'
  BY <1>4, Kinds, MovePhone DEF RunnerSees, Become, history, LockedPcs, Unanswered
<1>5. ASSUME NEW pid \in Pids, OtherTakes(pid) \/ OtherEnds(pid) PROVE OnePhone'
  BY <1>5, Kinds, MovePhone DEF OtherTakes, OtherEnds, Become, history, LockedPcs, Unanswered, Procs
<1> QED BY <1>1, <1>2, <1>3, <1>4, <1>5

LEMMA TickPhone ==
  ASSUME TypeOK, OnePhone, Tick
  PROVE  OnePhone'
<1>1. Quiet
  BY QuietMoves DEF Tick, history
<1> QED BY <1>1, QuietPhone DEF Tick, history

LEMMA StopsQuiet ==
  ASSUME TypeOK, NEW p \in Procs \ Questions, NEW q \in Questions \cup {None}, StopMoshi(p, q), UNCHANGED old
  PROVE  Quiet
<1>1. \A x \in Procs \ {p} : pc'[x] = pc[x] \/ pc'[x] = "free"
  BY Kinds, StopMoshiMoves
<1> QED BY <1>1, Kinds, QuietMoves DEF Unanswered

LEMMA RunnerExpiresPhone ==
  ASSUME TypeOK, OnceInv, OnePhone, NEW r \in Runners, RunnerExpires(r)
  PROVE  OnePhone'
<1>1. /\ r \in Procs \ Questions /\ pc[r] = "watch" /\ pc[r] \notin LockedPcs /\ UNCHANGED <<rec, old>>
      /\ rec.moshi \in Questions \cup {None} /\ r # rec.moshi
  BY Kinds DEF RunnerExpires, LockedPcs, TypeOK, Record
<1>2. \A x \in Procs \ {r} : pc'[x] = pc[x] \/ (x = rec.moshi /\ pc'[x] = "free")
  BY <1>1, StopMoshiMoves DEF RunnerExpires
<1>3. Quiet
  BY <1>1, StopsQuiet DEF RunnerExpires
<1>4. CASE lock = rec.moshi /\ lock # None
  <2>1. rec.moshi \in Questions /\ pc[rec.moshi] \in QuestionPcs /\ pc[rec.moshi] \in LockedPcs
    BY <1>1, <1>4, Kinds DEF OnceInv, HolderPart, TypeOK
  <2>2. pc[rec.moshi] \notin {"saveQ", "stop"} /\ lock' = None /\ rec.moshi \in Procs
    BY <1>4, <2>1, Kinds DEF QuestionPcs, RunnerExpires, Unlock
  <2> QED BY <1>1, <1>3, <1>4, <2>2, LeavePhone DEF Pending
<1>5. CASE ~(lock = rec.moshi /\ lock # None)
  <2>1. UNCHANGED <<lock, copy, hand, ask>>
    BY <1>5 DEF RunnerExpires
  <2>2. lock # None => lock # r /\ lock \in Procs
    BY <1>1 DEF OnceInv, HolderPart, TypeOK
  <2> QED BY <1>1, <1>2, <1>3, <1>5, <2>1, <2>2, QuietPhone
<1> QED BY <1>4, <1>5

-----------------------------------------------------------------------------
\* Steps that find the lock free.

LEMMA CreatePhone ==
  ASSUME TypeOK, OnceInv, OnePhone, NEW w \in Writers, Create(w)
  PROVE  OnePhone'
<1>1. w \in Procs /\ w \notin Approvers /\ pc[w] \notin LockedPcs /\ UNCHANGED <<rec, hand, ask, old>>
  BY Kinds DEF Create, history, LockedPcs
<1>2. CASE Become(w, "run") /\ UNCHANGED <<lock, copy>>
  BY <1>1, <1>2, MovePhone DEF Become, Unanswered
<1>3. CASE Hold(w) /\ Become(w, "new")
  BY <1>1, <1>3, TakePhone DEF Become, LockedPcs
<1>4. CASE Hold(w) /\ Become(w, IF rec.dismissed THEN "undismiss" ELSE "startQ")
  <2>1. PICK l \in {"undismiss", "startQ"} : pc' = [pc EXCEPT ![w] = l]
    BY <1>4 DEF Become
  <2> QED BY <1>1, <1>4, <2>1, TakePhone DEF LockedPcs
<1> QED BY <1>2, <1>3, <1>4 DEF Create

LEMMA LockToRunPhone ==
  ASSUME TypeOK, OnceInv, OnePhone, NEW p \in Posters, LockToRun(p)
  PROVE  OnePhone'
<1>1. p \in Procs /\ p \notin Approvers /\ pc[p] \notin LockedPcs /\ UNCHANGED <<rec, hand, ask, old>>
  BY Kinds DEF LockToRun, history, LockedPcs, Posters
<1>2. Gone(p) \notin Unanswered
  BY DEF Gone, Unanswered
<1>3. CASE Become(p, Gone(p)) /\ UNCHANGED <<lock, copy>>
  BY <1>1, <1>2, <1>3, MovePhone DEF Become
<1>4. CASE Hold(p) /\ Become(p, "start")
  BY <1>1, <1>4, TakePhone DEF Become, LockedPcs
<1> QED BY <1>3, <1>4 DEF LockToRun

LEMMA TakeAnswerPhone ==
  ASSUME TypeOK, OnceInv, OnePhone, NEW a \in Approvers, TakeAnswer(a)
  PROVE  OnePhone'
<1>1. a \in Procs /\ pc[a] \notin LockedPcs /\ UNCHANGED <<rec, hand, old>>
  BY Kinds DEF TakeAnswer, LockedPcs
<1>2. CASE Become(a, "idle") /\ UNCHANGED <<lock, copy, ask>>
  BY <1>1, <1>2, MovePhone DEF Become, Unanswered
<1>3. CASE Pending /\ Hold(a) /\ ask' = rec.moshi /\ Become(a, "record")
  BY <1>1, <1>3, TakePhone DEF Become, LockedPcs
<1> QED BY <1>2, <1>3 DEF TakeAnswer

LEMMA DismissPhone ==
  ASSUME TypeOK, OnceInv, OnePhone, NEW a \in Approvers, Dismiss(a)
  PROVE  OnePhone'
<1>1. PcOK /\ a \in Procs
  BY TypeSplit, Kinds
<1>2. /\ lock = None /\ lock' = None /\ pc' = [pc EXCEPT ![a] = "idle"] /\ UNCHANGED old
      /\ rec'.moshi = rec.moshi /\ rec'.state = rec.state
  BY DEF Dismiss, Become, TypeOK, Record
<1>3. Quiet
  BY <1>1, <1>2, QuietOne DEF Unanswered
<1>4. Pending' => \A q \in Questions : OnPhone(q)' => rec'.moshi = q
  BY <1>2, <1>3 DEF OnePhone, PhonePart, Quiet, Pending
<1> QED BY <1>2, <1>3, <1>4, FreePhone

LEMMA TakeReplyPhone ==
  ASSUME TypeOK, OnceInv, OnePhone, NEW q \in Questions, TakeReply(q)
  PROVE  OnePhone'
<1>1. PcOK /\ q \in Procs /\ q \notin Approvers /\ lock = None /\ pc[q] = "answer" /\ UNCHANGED <<old, hand>>
  BY TypeSplit, Kinds DEF TakeReply
<1>2. CASE Hold(q) /\ Become(q, "record") /\ UNCHANGED rec
  BY <1>1, <1>2, TakePhone DEF Become, LockedPcs
<1>3. CASE /\ Become(q, "free") /\ UNCHANGED lock
           /\ rec' = rec \/ (rec.moshi = q /\ rec' = [rec EXCEPT !.moshi = None])
  <2>1. Quiet
    BY <1>1, <1>3, QuietOne DEF Become, Unanswered
  <2>2. ~OnPhone(q)
    BY <1>1 DEF OnPhone
  <2>3. rec'.state = rec.state /\ (rec'.moshi = rec.moshi \/ rec.moshi = q)
    BY <1>3 DEF TypeOK, Record
  <2>4. Pending' => \A x \in Questions : OnPhone(x)' => rec'.moshi = x
    BY <1>1, <2>1, <2>2, <2>3 DEF OnePhone, PhonePart, Quiet, Pending
  <2> QED BY <1>1, <1>3, <2>1, <2>4, FreePhone
<1> QED BY <1>2, <1>3 DEF TakeReply

-----------------------------------------------------------------------------
\* Steps of the program inside.

\* A program that moves on to no question, alone or with a program it ends.
LEMMA QuietLeave ==
  ASSUME PcOK, NEW p \in Procs, Leave(p), UNCHANGED old
  PROVE  Quiet /\ lock' = None
<1>1. Gone(p) \notin Unanswered
  BY DEF Gone, Unanswered
<1> QED BY <1>1, QuietOne DEF Leave, Become, Unlock

\* A new record starts without a question.
LEMMA NewPhone ==
  ASSUME TypeOK, OnceInv, PhoneInv, NEW w \in Writers, New(w)
  PROVE  PhoneInv'
<1>1. PcOK /\ w \in Procs /\ pc[w] = "new" /\ lock = w /\ w \notin Approvers
  BY TypeSplit, Kinds, Holding DEF New, LockedPcs
<1>2. CASE Save(Fresh) /\ Become(w, "startQ") /\ old' = [q \in Questions |-> pc[q] # "free"] /\ UNCHANGED lock
  <2>1. \A q \in Questions : pc'[q] = pc[q]
    BY <1>1, <1>2, Kinds DEF Become, PcOK
  <2>2. \A q \in Questions : ~OnPhone(q)'
    BY <1>2, <2>1 DEF OnPhone
  <2>3. OnePart' /\ PhonePart'
    BY <2>2 DEF OnePart, PhonePart
  <2>4. AskPart'
    BY <1>1, <1>2 DEF AskPart
  <2> QED BY <2>3, <2>4 DEF PhoneInv, OnePhone
<1>3. CASE Leave(w) /\ UNCHANGED <<rec, age, history>>
  <2>1. OnePhone => OnePhone'
    BY <1>1, <1>3, QuietLeave, LeavePhone DEF history, Pending
  <2> QED BY <1>3, <2>1 DEF PhoneInv, history
<1> QED BY <1>2, <1>3 DEF New

LEMMA UndismissPhone ==
  ASSUME TypeOK, OnceInv, OnePhone, NEW w \in Writers, Undismiss(w)
  PROVE  OnePhone'
<1>1. /\ PcOK /\ w \in Procs /\ pc[w] = "undismiss" /\ lock = w /\ w \notin Approvers /\ Pending
      /\ copy \in Record /\ UNCHANGED old
  BY TypeSplit, Kinds, Holding DEF Undismiss, LockedPcs, Pending, history
<1>2. CASE SaveKeepingAge([copy EXCEPT !.dismissed = FALSE]) /\ Become(w, "startQ") /\ UNCHANGED lock
  <2>1. rec'.moshi = copy.moshi /\ copy'.moshi = copy.moshi
    BY <1>1, <1>2 DEF SaveKeepingAge, Record
  <2>2. Quiet /\ pc'[w] = "startQ"
    BY <1>1, <1>2, QuietOne DEF Become, Unanswered, PcOK
  <2> QED BY <1>1, <1>2, <2>1, <2>2, StayPhone
<1>3. CASE Leave(w) /\ UNCHANGED <<rec, age>>
  BY <1>1, <1>3, QuietLeave, LeavePhone
<1> QED BY <1>2, <1>3 DEF Undismiss

\* startMoshi sends a question only if none of this record's is on the phone.
LEMMA StartQuestionPhone ==
  ASSUME TypeOK, OnceInv, OnePhone, NEW w \in Writers, StartQuestion(w)
  PROVE  OnePhone'
<1>1. /\ PcOK /\ w \in Procs /\ pc[w] = "startQ" /\ lock = w /\ w \notin Approvers /\ Pending
      /\ UNCHANGED <<rec, lock, copy>>
  BY TypeSplit, Kinds, Holding DEF StartQuestion, LockedPcs, Pending
<1>2. CASE Become(w, "startR") /\ UNCHANGED <<hand, old>>
  <2>1. Quiet /\ pc'[w] = "startR"
    BY <1>1, <1>2, QuietOne DEF Become, Unanswered, PcOK
  <2> QED BY <1>1, <2>1, StayPhone
<1>3. ASSUME NEW q \in Questions, ~Alive(copy.moshi), pc' = [pc EXCEPT ![w] = "saveQ", ![q] = "wait"],
             hand' = q, old' = [old EXCEPT ![q] = FALSE]
      PROVE  OnePhone'
  <2>1. \A x \in Questions : ~OnPhone(x)
    <3> SUFFICES ASSUME NEW x \in Questions, OnPhone(x) PROVE FALSE
      OBVIOUS
    <3>1. copy.moshi = x
      BY <1>1, Known
    <3> QED BY <1>3, <3>1, Kinds DEF Alive, OnPhone
  <2>2. \A x \in Questions : x # q => pc'[x] = pc[x] /\ old'[x] = old[x]
    BY <1>1, <1>3, Kinds DEF PcOK, TypeOK
  <2>3. \A x \in Questions : OnPhone(x)' => x = q
    BY <2>1, <2>2 DEF OnPhone
  <2>4. pc'[w] = "saveQ" /\ lock' = w /\ w # None
    BY <1>1, <1>3, Kinds DEF PcOK
  <2>5. OnePart' /\ PhonePart' /\ AskPart'
    BY <1>1, <1>3, <2>3, <2>4 DEF OnePart, PhonePart, AskPart
  <2> QED BY <2>5 DEF OnePhone
<1> QED BY <1>2, <1>3 DEF StartQuestion

LEMMA SaveQuestionPhone ==
  ASSUME TypeOK, OnceInv, OnePhone, NEW w \in Writers, SaveQuestion(w)
  PROVE  OnePhone'
<1>1. /\ PcOK /\ w \in Procs /\ pc[w] = "saveQ" /\ lock = w /\ w \notin Approvers /\ Pending
      /\ hand \in Questions /\ hand # w /\ w # None /\ copy \in Record /\ UNCHANGED <<lock, old>>
  BY TypeSplit, Kinds, Holding DEF SaveQuestion, LockedPcs, Pending
<1>2. \A q \in Questions : OnPhone(q) => q = hand
  BY <1>1 DEF OnePhone, PhonePart
<1>3. CASE SaveKeepingAge([copy EXCEPT !.moshi = hand]) /\ Become(w, "startR")
  <2>1. Quiet /\ pc'[w] = "startR"
    BY <1>1, <1>3, QuietOne DEF Become, Unanswered, PcOK
  <2>2. rec'.moshi = hand /\ copy'.moshi = hand
    BY <1>1, <1>3 DEF SaveKeepingAge, Record
  <2>3. PhonePart'
    BY <1>1, <1>2, <2>1, <2>2 DEF PhonePart, Quiet
  <2>4. AskPart'
    BY <1>1 DEF AskPart
  <2> QED BY <2>1, <2>3, <2>4, PhoneJoin
<1>4. CASE pc' = [pc EXCEPT ![w] = "startR", ![hand] = "free"]
  <2>1. \A q \in Questions : pc'[q] = IF q = hand THEN "free" ELSE pc[q]
    BY <1>1, <1>4, Kinds DEF PcOK
  <2>2. \A q \in Questions : ~OnPhone(q)'
    BY <1>1, <1>2, <2>1 DEF OnPhone
  <2>3. Quiet /\ PhonePart'
    BY <2>2 DEF Quiet, PhonePart
  <2>4. AskPart'
    BY <1>1 DEF AskPart
  <2> QED BY <2>3, <2>4, PhoneJoin
<1> QED BY <1>3, <1>4 DEF SaveQuestion

\* The end of ensureRunner.
LEMMA RunnerDonePhone ==
  ASSUME TypeOK, OnceInv, OnePhone, Quiet, NEW p \in Starters, lock = p, Close(p),
         pc[p] \in {"startR", "saveR"}, rec'.state = rec.state,
         rec'.moshi \in {rec.moshi, copy.moshi}
  PROVE  OnePhone'
<1>1. p \in Procs
  BY Kinds DEF Starters, Answerers
<1>2. CASE p \in Approvers
  BY <1>2, StopPhone DEF Close, OnePhone, AskPart
<1>3. CASE p \notin Approvers
  BY <1>1, <1>3, LeavePhone DEF Close, Pending
<1> QED BY <1>2, <1>3

LEMMA StartRunnerPhone ==
  ASSUME TypeOK, OnceInv, OnePhone, NEW p \in Starters, StartRunner(p)
  PROVE  OnePhone'
<1>1. PcOK /\ p \in Procs /\ pc[p] = "startR" /\ lock = p /\ UNCHANGED <<rec, old>>
  BY TypeSplit, StarterPcs, Holding DEF StartRunner, LockedPcs, history
<1>2. CASE Become(p, AfterRunner(p)) /\ Close(p)
  <2>1. AfterRunner(p) \notin Unanswered
    BY DEF AfterRunner, Unanswered
  <2>2. Quiet
    BY <1>1, <1>2, <2>1, QuietOne DEF Become
  <2> QED BY <1>1, <1>2, <2>2, RunnerDonePhone
<1>3. ASSUME NEW r \in Runners, pc' = [pc EXCEPT ![p] = "saveR", ![r] = "watch"],
             UNCHANGED <<lock, copy, ask>>
      PROVE  OnePhone'
  <2>1. p # r /\ r \in Procs /\ r \notin Questions
    BY Kinds DEF Starters, Answerers
  <2>2. pc'[p] = "saveR" /\ \A q \in Questions : pc'[q] = pc[q] \/ pc'[q] = "saveR"
    BY <1>1, <1>3, <2>1, Kinds DEF PcOK
  <2>3. Quiet
    BY <1>1, <2>2, QuietMoves DEF Unanswered
  <2>4. CASE p \in Approvers
    BY <1>1, <1>3, <2>3, <2>4, StopPhone DEF OnePhone, AskPart
  <2>5. CASE p \notin Approvers
    BY <1>1, <1>3, <2>2, <2>3, <2>5, StayPhone DEF Pending
  <2> QED BY <2>4, <2>5
<1> QED BY <1>2, <1>3 DEF StartRunner

LEMMA SaveRunnerPhone ==
  ASSUME TypeOK, OnceInv, OnePhone, NEW p \in Starters, SaveRunner(p)
  PROVE  OnePhone'
<1>1. /\ PcOK /\ p \in Procs /\ pc[p] = "saveR" /\ lock = p /\ hand \in Runners
      /\ copy.state = rec.state /\ copy \in Record /\ rec \in Record /\ UNCHANGED old
  BY TypeSplit, StarterPcs, Holding DEF SaveRunner, LockedPcs, history
<1>2. rec'.state = rec.state /\ rec'.moshi \in {rec.moshi, copy.moshi}
  BY <1>1 DEF SaveRunner, Record
<1>3. p # hand /\ hand \in Procs /\ AfterRunner(p) \notin Unanswered
  BY <1>1, Kinds DEF Starters, Answerers, AfterRunner, Unanswered
<1>4. \A q \in Procs : pc'[q] \in {pc[q], "free", AfterRunner(p)}
  BY <1>1, <1>3 DEF SaveRunner, Become, PcOK
<1>5. Quiet
  BY <1>1, <1>3, <1>4, Kinds, QuietMoves DEF Unanswered
<1> QED BY <1>1, <1>2, <1>5, RunnerDonePhone DEF SaveRunner

LEMMA StartGHPhone ==
  ASSUME TypeOK, OnceInv, OnePhone, NEW p \in Posters, StartGH(p)
  PROVE  OnePhone'
<1>1. /\ PcOK /\ p \in Procs /\ pc[p] = "start" /\ lock = p /\ p \notin Approvers
      /\ copy \in Record /\ rec.state = "approved" /\ UNCHANGED old
  BY TypeSplit, PosterPcs, Kinds, Holding DEF StartGH, LockedPcs, Posters
<1>2. CASE Save([copy EXCEPT !.state = "running"]) /\ Become(p, "gh") /\ UNCHANGED lock
  <2>1. rec'.state = "running"
    BY <1>1, <1>2 DEF Save, Record
  <2>2. Quiet /\ pc'[p] = "gh"
    BY <1>1, <1>2, QuietOne DEF Become, Unanswered, PcOK
  <2> QED BY <1>1, <1>2, <2>1, <2>2, StayPhone DEF Pending
<1>3. CASE Leave(p) /\ UNCHANGED <<rec, age, runs>>
  BY <1>1, <1>3, QuietLeave, LeavePhone DEF Pending
<1> QED BY <1>2, <1>3 DEF StartGH

LEMMA GHExitsPhone ==
  ASSUME TypeOK, OnceInv, OnePhone, NEW p \in Posters, GHExits(p)
  PROVE  OnePhone'
<1>1. /\ PcOK /\ p \in Procs /\ pc[p] = "gh" /\ lock = p /\ copy \in Record /\ rec.state = "running"
      /\ UNCHANGED old /\ Leave(p)
  BY TypeSplit, PosterPcs, Kinds, Holding DEF GHExits, LockedPcs, Posters, history
<1>2. rec'.state \in {"running", "ran"}
  BY <1>1 DEF GHExits, Record
<1> QED BY <1>1, <1>2, QuietLeave, LeavePhone DEF Pending

LEMMA SaveAnswerPhone ==
  ASSUME TypeOK, OnceInv, OnePhone, NEW p \in Answerers, SaveAnswer(p)
  PROVE  OnePhone'
<1>1. /\ PcOK /\ p \in Procs /\ pc[p] = "record" /\ lock = p /\ copy \in Record /\ Pending /\ UNCHANGED old
  BY TypeSplit, Kinds, Holding DEF SaveAnswer, LockedPcs, Answerers, Pending
<1>2. CASE Leave(p) /\ UNCHANGED rec
  BY <1>1, <1>2, QuietLeave, LeavePhone
<1>3. ASSUME NEW l \in {"startR", "stop", "free"}, Become(p, l),
             rec'.state \in {"approved", "declined"}, (lock' = lock /\ ask' = ask) \/ lock' = None,
             lock' # None => p \in Approvers \/ l = "startR"
      PROVE  OnePhone'
  <2>1. Quiet /\ pc'[p] = l
    BY <1>1, <1>3, QuietOne DEF Become, Unanswered, PcOK
  <2>2. CASE lock' = None
    BY <1>1, <1>3, <2>1, <2>2, LeavePhone DEF Pending
  <2>3. CASE p \in Approvers /\ lock' # None
    BY <1>1, <1>3, <2>1, <2>3, StopPhone
  <2>4. CASE p \notin Approvers /\ lock' # None
    BY <1>1, <1>3, <2>1, <2>4, StayPhone DEF Pending
  <2> QED BY <2>2, <2>3, <2>4
<1>4. CASE rec' = [copy EXCEPT !.state = "approved", !.moshi = None] /\ Become(p, "startR")
           /\ UNCHANGED <<lock, hand, ask>>
  <2>1. rec'.state = "approved"
    BY <1>1, <1>4 DEF Record
  <2> QED BY <1>3, <1>4, <2>1
<1>5. CASE rec' = [copy EXCEPT !.state = "declined", !.moshi = None]
           /\ Become(p, IF p \in Approvers THEN "stop" ELSE "free") /\ Close(p)
  <2>1. rec'.state = "declined"
    BY <1>1, <1>5 DEF Record
  <2>2. CASE p \in Approvers
    BY <1>3, <1>5, <2>1, <2>2 DEF Close
  <2>3. CASE p \notin Approvers
    BY <1>3, <1>5, <2>1, <2>3 DEF Close
  <2> QED BY <2>2, <2>3
<1> QED BY <1>2, <1>4, <1>5 DEF SaveAnswer

LEMMA StopQuestionPhone ==
  ASSUME TypeOK, OnceInv, OnePhone, NEW a \in Approvers, StopQuestion(a)
  PROVE  OnePhone' /\ \A q \in Questions : ~OnPhone(q)'
<1>1. /\ a \in Procs \ Questions /\ pc[a] = "stop" /\ lock = a /\ lock' = None /\ UNCHANGED <<rec, old>>
      /\ ask \in Questions \cup {None} /\ a # ask /\ StopMoshi(a, ask)
  BY Kinds, Holding DEF StopQuestion, LockedPcs, Unlock, TypeOK
<1>2. Quiet
  BY <1>1, StopsQuiet
<1>3. ~Pending
  BY <1>1 DEF OnePhone, AskPart, Pending
<1>4. ask # None /\ pc[ask] \notin {"free", "other"} => pc'[ask] = "free"
  BY <1>1, StopMoshiMoves
<1>5. \A q \in Questions : pc'[q] = pc[q] \/ pc'[q] = "free"
  BY <1>1, Kinds, StopMoshiMoves
<1>6. \A q \in Questions : ~OnPhone(q)'
  <2> SUFFICES ASSUME NEW q \in Questions, OnPhone(q)' PROVE FALSE
    OBVIOUS
  <2>1. OnPhone(q)
    BY <1>2 DEF Quiet
  <2>2. q = ask /\ ask # None
    BY <1>1, <2>1, Kinds DEF OnePhone, AskPart
  <2> QED BY <1>4, <2>1, <2>2 DEF OnPhone
<1> QED BY <1>1, <1>2, <1>3, <1>6, FreePhone DEF Pending

-----------------------------------------------------------------------------
\* The invariant of the phone.

LEMMA PhoneInit == Init => PhoneInv
<1> SUFFICES ASSUME Init PROVE OnePhone
  BY DEF PhoneInv
<1>1. \A q \in Questions : ~OnPhone(q)
  BY Kinds DEF Init, OnPhone, Gone
<1> QED BY <1>1, Kinds DEF Init, OnePhone, OnePart, PhonePart, AskPart, Procs

\* Only a kill and a new record change whether a program was killed.
LEMMA KilledSteps ==
  ASSUME [Next]_vars, ~(\E w \in Writers : New(w)), ~(\E p \in Procs : Kill(p))
  PROVE  killed' = killed
<1>1. ASSUME NEW p, StartRunner(p) \/ SaveRunner(p) \/ LockToRun(p) \/ StartGH(p) \/ GHExits(p) \/ SaveAnswer(p)
      PROVE  killed' = killed
  BY <1>1 DEF StartRunner, SaveRunner, LockToRun, StartGH, GHExits, SaveAnswer, history
<1>2. ASSUME NEW w \in Writers, WriterStep(w) PROVE killed' = killed
  BY <1>1, <1>2 DEF WriterStep, Create, Undismiss, StartQuestion, SaveQuestion, Poll, history
<1>3. ASSUME NEW r \in Runners, RunnerStep(r) PROVE killed' = killed
  BY <1>1, <1>3 DEF RunnerStep, RunnerExpires, RunnerSees, history
<1>4. ASSUME NEW a \in Approvers, ApproverStep(a) PROVE killed' = killed
  BY <1>1, <1>4 DEF ApproverStep, TakeAnswer, Dismiss, StopQuestion
<1>5. ASSUME NEW q \in Questions, QuestionStep(q) PROVE killed' = killed
  BY <1>1, <1>5 DEF QuestionStep, SendQuestion, TakeReply, history
<1>6. CASE Environment
  BY <1>6 DEF Environment, Rerun, Show, Decide, Reply, OtherTakes, OtherEnds, Tick, history
<1>7. CASE UNCHANGED vars
  BY <1>7 DEF vars
<1> QED BY <1>2, <1>3, <1>4, <1>5, <1>6, <1>7 DEF Next, Step

LEMMA PhoneStep ==
  ASSUME TypeOK, OnceInv, OnePhone, [Next]_vars,
         ~(\E w \in Writers : New(w)), ~(\E p \in Procs : Kill(p))
  PROVE  OnePhone'
<1>1. ASSUME NEW w \in Writers, WriterStep(w) PROVE OnePhone'
  <2>1. w \in Starters /\ w \in Posters
    BY DEF Starters, Posters
  <2> QED BY <1>1, <2>1, CreatePhone, UndismissPhone, StartQuestionPhone, SaveQuestionPhone,
             StartRunnerPhone, SaveRunnerPhone, OutsidePhone, LockToRunPhone, StartGHPhone, GHExitsPhone
          DEF WriterStep
<1>2. ASSUME NEW r \in Runners, RunnerStep(r) PROVE OnePhone'
  <2>1. r \in Posters
    BY DEF Posters
  <2> QED BY <1>2, <2>1, RunnerExpiresPhone, OutsidePhone, LockToRunPhone, StartGHPhone, GHExitsPhone
          DEF RunnerStep
<1>3. ASSUME NEW a \in Approvers, ApproverStep(a) PROVE OnePhone'
  <2>1. a \in Starters /\ a \in Answerers
    BY DEF Starters, Answerers
  <2> QED BY <1>3, <2>1, TakeAnswerPhone, DismissPhone, SaveAnswerPhone, StartRunnerPhone, SaveRunnerPhone,
             StopQuestionPhone DEF ApproverStep
<1>4. ASSUME NEW q \in Questions, QuestionStep(q) PROVE OnePhone'
  <2>1. q \in Starters /\ q \in Answerers
    BY DEF Starters, Answerers
  <2> QED BY <1>4, <2>1, OutsidePhone, TakeReplyPhone, SaveAnswerPhone, StartRunnerPhone, SaveRunnerPhone
          DEF QuestionStep
<1>5. CASE Environment
  BY <1>5, OutsidePhone, TickPhone DEF Environment
<1>6. CASE UNCHANGED vars
  BY <1>6, QuietMoves, QuietPhone DEF vars
<1> QED BY <1>1, <1>2, <1>3, <1>4, <1>5, <1>6 DEF Next, Step

LEMMA PhoneNext ==
  ASSUME TypeOK, OnceInv, PhoneInv, [Next]_vars
  PROVE  PhoneInv'
<1>1. CASE \E w \in Writers : New(w)
  BY <1>1, NewPhone
<1>2. CASE \E p \in Procs : Kill(p)
  BY <1>2 DEF Kill, PhoneInv
<1>3. CASE ~(\E w \in Writers : New(w)) /\ ~(\E p \in Procs : Kill(p))
  BY <1>3, KilledSteps, PhoneStep DEF PhoneInv
<1> QED BY <1>1, <1>2, <1>3

\* PhoneInv: startMoshi's question is on the record or in the hand of the program
\* that is to save it, and whoever answers elsewhere knows it, until one is killed.
THEOREM PhoneInvariant == Spec => []PhoneInv
<1>1. Init => TypeOK /\ OnceInv /\ PhoneInv
  BY TypeInit, OnceInit, PhoneInit
<1>2. TypeOK /\ OnceInv /\ PhoneInv /\ [Next]_vars => (TypeOK /\ OnceInv /\ PhoneInv)'
  BY InvNext, PhoneNext
<1> QED BY <1>1, <1>2, PTL DEF Spec

\* OneQuestion: startMoshi never sends a second question for a record, unless a
\* program is killed.
THEOREM AskedOnce == Spec => []OneQuestion
<1>1. PhoneInv => OneQuestion
  BY DEF PhoneInv, OnePhone, OnePart, OneQuestion
<1> QED BY <1>1, PhoneInvariant, PTL

\* Only stopMoshi, or a kill, takes an approver on from there.
LEMMA StopStays ==
  ASSUME TypeOK, [Next]_vars, NEW a \in Approvers, pc[a] = "stop", ~StopQuestion(a), ~Kill(a)
  PROVE  pc'[a] = "stop"
<1>1. PcOK /\ a \in Procs /\ a \notin Writers /\ a \notin Pids /\ a # None /\ hand # a
  BY TypeSplit, Kinds, KindsAssumption DEF TypeOK, Pids
<1>2. ASSUME NEW p \in Procs \ {a}, NEW l, pc' = [pc EXCEPT ![p] = l]
      PROVE  pc'[a] = "stop"
  BY <1>1, <1>2 DEF PcOK
<1>3. ASSUME NEW p \in Procs \ {a}, NEW x, x # a, NEW l, NEW m, pc' = [pc EXCEPT ![p] = l, ![x] = m]
      PROVE  pc'[a] = "stop"
  BY <1>1, <1>3 DEF PcOK
<1>4. ASSUME NEW p \in Procs \ {a}, StartRunner(p) \/ SaveRunner(p) PROVE pc'[a] = "stop"
  <2>1. \A r \in Runners : r # a
    BY Kinds
  <2> QED BY <1>1, <1>2, <1>3, <1>4, <2>1 DEF StartRunner, SaveRunner, Become
<1>5. ASSUME NEW p \in Procs \ {a}, LockToRun(p) \/ StartGH(p) \/ GHExits(p) PROVE pc'[a] = "stop"
  BY <1>2, <1>5 DEF LockToRun, StartGH, GHExits, Become, Leave
<1>6. ASSUME NEW p \in Procs \ {a}, SaveAnswer(p) PROVE pc'[a] = "stop"
  BY <1>2, <1>6 DEF SaveAnswer, Become, Leave
<1>7. ASSUME NEW p \in Procs \ {a}, NEW q \in Questions \cup {None}, StopMoshi(p, q) PROVE pc'[a] = "stop"
  <2>1. q # a
    BY <1>1 DEF Pids
  <2> QED BY <1>2, <1>3, <1>7, <2>1 DEF StopMoshi, Become
<1>8. ASSUME NEW w \in Writers, WriterStep(w) PROVE pc'[a] = "stop"
  <2>1. w \in Procs \ {a} /\ \A q \in Questions : q # a
    BY <1>1, Kinds
  <2>2. CASE Create(w) \/ New(w) \/ Undismiss(w) \/ Poll(w)
    BY <1>2, <2>1, <2>2 DEF Create, New, Undismiss, Poll, Become, Leave
  <2>3. CASE StartQuestion(w) \/ SaveQuestion(w)
    BY <1>1, <1>2, <1>3, <2>1, <2>3 DEF StartQuestion, SaveQuestion, Become
  <2> QED BY <1>4, <1>5, <1>8, <2>1, <2>2, <2>3 DEF WriterStep
<1>9. ASSUME NEW r \in Runners, RunnerStep(r) PROVE pc'[a] = "stop"
  <2>1. r \in Procs \ {a} /\ rec.moshi \in Questions \cup {None}
    BY <1>1, Kinds DEF TypeOK, Record
  <2>2. CASE RunnerSees(r)
    BY <1>2, <2>1, <2>2 DEF RunnerSees, Become
  <2> QED BY <1>5, <1>7, <1>9, <2>1, <2>2 DEF RunnerStep, RunnerExpires
<1>10. ASSUME NEW b \in Approvers, ApproverStep(b) PROVE pc'[a] = "stop"
  <2>1. b = a => FALSE
    BY <1>10 DEF ApproverStep, TakeAnswer, Dismiss, SaveAnswer, StartRunner, SaveRunner
  <2>2. b \in Procs \ {a} /\ ask \in Questions \cup {None}
    BY <2>1, Kinds DEF TypeOK
  <2>3. CASE TakeAnswer(b) \/ Dismiss(b)
    BY <1>2, <2>2, <2>3 DEF TakeAnswer, Dismiss, Become
  <2> QED BY <1>4, <1>6, <1>7, <1>10, <2>2, <2>3 DEF ApproverStep, StopQuestion
<1>11. ASSUME NEW q \in Questions, QuestionStep(q) PROVE pc'[a] = "stop"
  <2>1. q \in Procs \ {a}
    BY <1>1, Kinds
  <2>2. CASE SendQuestion(q) \/ TakeReply(q)
    BY <1>2, <2>1, <2>2 DEF SendQuestion, TakeReply, Become
  <2> QED BY <1>4, <1>6, <1>11, <2>1, <2>2 DEF QuestionStep
<1>12. CASE Environment
  <2>1. ASSUME NEW w \in Writers, Rerun(w) PROVE pc'[a] = "stop"
    BY <1>1, <1>2, <2>1, Kinds DEF Rerun, Become
  <2>2. ASSUME NEW b \in Approvers, Show(b) \/ Decide(b) PROVE pc'[a] = "stop"
    <3>1. b \in Procs \ {a}
      BY <2>2, Kinds DEF Show, Decide
    <3> QED BY <1>2, <2>2, <3>1 DEF Show, Decide, Become
  <2>3. ASSUME NEW q \in Questions, Reply(q) PROVE pc'[a] = "stop"
    BY <1>1, <1>2, <2>3, Kinds DEF Reply, Become
  <2>4. ASSUME NEW p \in Procs, Kill(p) PROVE pc'[a] = "stop"
    <3>1. p # a
      BY <2>4
    <3> QED BY <1>2, <2>4, <3>1 DEF Kill, Become
  <2>5. ASSUME NEW pid \in Pids, OtherTakes(pid) \/ OtherEnds(pid) PROVE pc'[a] = "stop"
    BY <1>1, <1>2, <2>5 DEF OtherTakes, OtherEnds, Become, Procs
  <2>6. CASE Tick
    BY <2>6 DEF Tick
  <2> QED BY <1>12, <2>1, <2>2, <2>3, <2>4, <2>5, <2>6 DEF Environment
<1>13. CASE UNCHANGED vars
  BY <1>13 DEF vars
<1> QED BY <1>8, <1>9, <1>10, <1>11, <1>12, <1>13 DEF Next, Step

\* AnswerEndsQuestion: stopMoshi ends the question that saveAnswer found, and
\* there is no other, unless a program is killed.
THEOREM AnswerEnds == Spec => AnswerEndsQuestion
<1>1. TypeOK /\ OnceInv /\ PhoneInv /\ [Next]_vars =>
        [~killed' => \A a \in Approvers : pc[a] = "stop" /\ pc'[a] = "idle" =>
                       \A q \in Questions : ~OnPhone(q)']_vars
  <2> SUFFICES ASSUME TypeOK, OnceInv, PhoneInv, [Next]_vars, ~killed',
                      NEW a \in Approvers, pc[a] = "stop", pc'[a] = "idle"
               PROVE  \A q \in Questions : ~OnPhone(q)'
    OBVIOUS
  <2>1. a \in Procs /\ lock = a
    BY Kinds, Holding DEF LockedPcs
  <2>2. ~(\E p \in Procs : Kill(p))
    BY DEF Kill
  <2>3. StopQuestion(a)
    BY <2>1, <2>2, StopStays
  <2>4. ~(\E w \in Writers : New(w))
    <3>1. ASSUME NEW w \in Writers, New(w) PROVE FALSE
      BY <2>1, <3>1, Kinds, Holding DEF New, LockedPcs
    <3> QED BY <3>1
  <2>5. OnePhone
    BY <2>2, <2>4, KilledSteps DEF PhoneInv
  <2> QED BY <2>3, <2>5, StopQuestionPhone
<1>2. Spec => [](TypeOK /\ OnceInv /\ PhoneInv)
  BY TypeCorrect, OnceInvariant, PhoneInvariant, PTL
<1> QED BY <1>1, <1>2, PTL DEF Spec, AnswerEndsQuestion
=============================================================================
