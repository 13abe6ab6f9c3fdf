------------------------------- MODULE MCEnds -------------------------------
(***************************************************************************)
(* What must end, in one run: small instances of six modules under the     *)
(* fairness each of them states.  `part`, chosen at the start, says which  *)
(* one the behaviour is of; the variables of the others stay as they       *)
(* began.  The parts share no state, so the run has the sum of their       *)
(* states, not the product.                                                *)
(*   "tool"     a formatter with a helper and a stray, a file and an       *)
(*              output larger than a pipe, any kill or wait failing;       *)
(*   "session"  two screens on one comment, two lists;                     *)
(*   "write"    the answers of two files, two calls failing, stop signals; *)
(*   "screen"   one screen, saves, loads and answer checks failing;        *)
(*   "windows"  two presses of the keys at once, anything failing;         *)
(*   "popup"    a pull-request write, answered in a popup;                 *)
(*   "phone"    the same answered on the phone; in both, programs are      *)
(*              killed while it waits.                                     *)
(***************************************************************************)
EXTENDS ToolRun, Sequences, TLC

VARIABLES
  part,
  code, decided, sess, listed, agent, screen, edits, sends, shown,
  missed, mixed,                                                                \* ReviewSession
  wdisk, temp, backup, wstatus, werr, wdecided, wlisted, wpc, read, written, current, left,
  caught, put, orig, owed, lost, gap, wedits, faults, reviews,                             \* WriteBack
  disk, mem, at, drawnAt, prompt, display, queue, spc, saving, wasLeft, given, joined, behind,        \* ReviewScreen
  waiting, act, tabs, focused, popups, record, told, amiss,                                     \* ReviewWindows
  arec, aage, alock, acopy, ahand, aask, apc, aans, aasked, alate, aold, aruns, akilled               \* PrApproval

session == <<code, decided, sess, listed, agent, screen, edits, sends, shown, missed, mixed>>
writing == <<wdisk, temp, backup, wstatus, werr, wdecided, wlisted, wpc, read, written, current, left,
             caught, put, orig, owed, lost, gap, wedits, faults, reviews>>
asking == <<disk, mem, at, drawnAt, prompt, display, queue, spc, saving, wasLeft, given, joined, behind>>
windows == <<waiting, act, tabs, focused, popups, record, told, amiss>>
approval == <<arec, aage, alock, acopy, ahand, aask, apc, aans, aasked, alate, aold, aruns, akilled>>
all == <<part, vars, session, writing, asking, windows, approval>>

Session == INSTANCE ReviewSession WITH
  Agents <- {"a1"}, Screens <- {"s1", "s2"}, NumComments <- 1, FileOf <- 1 :> 1, Named <- {1},
  BaseText <- 1 :> "x", Texts <- {"x", "y"}, Gone <- "gone", Suggestions <- {"cut"},
  MaxEdits <- 1, MaxSends <- 2, Losses <- {}
Writing == INSTANCE WriteBackProps WITH
  disk <- wdisk, status <- wstatus, decided <- wdecided, listed <- wlisted, pc <- wpc, edits <- wedits,
  NumFiles <- 2, Kept <- {}, MaxEdits <- 1, MaxFaults <- 2, MaxReviews <- 1, Kills <- FALSE, Signals <- TRUE
Asking == INSTANCE ReviewScreen WITH
  index <- at, pc <- spc, late <- behind,
  Ids <- {1, 2}, InitIds <- {1, 2}, Keys <- {"int", "a", "m", "Enter"}, Env <- {"save", "load", "refuse"},
  Settle <- 1, MaxQueue <- 2, MaxText <- 1, MaxVersion <- 1
Windows == INSTANCE ReviewWindows WITH
  Presses <- {"p1", "p2"}, Faults <- {"herdr", "kill", "together"}
Popup == INSTANCE PrApprovalProps WITH
  rec <- arec, age <- aage, lock <- alock, copy <- acopy, hand <- ahand, ask <- aask, pc <- apc,
  ans <- aans, asked <- aasked, late <- alate, old <- aold, runs <- aruns, killed <- akilled,
  Writers <- {"w1"}, Runners <- {"r1"}, None <- "nobody", Expiry <- 2, Faulty <- FALSE,
  KillIn <- {"pending"}, Reuse <- FALSE, Approvers <- {"a1"}, Questions <- {}
Phone == INSTANCE PrApprovalProps WITH
  rec <- arec, age <- aage, lock <- alock, copy <- acopy, hand <- ahand, ask <- aask, pc <- apc,
  ans <- aans, asked <- aasked, late <- alate, old <- aold, runs <- aruns, killed <- akilled,
  Writers <- {"w1"}, Runners <- {"r1"}, None <- "nobody", Expiry <- 2, Faulty <- FALSE,
  KillIn <- {"pending"}, Reuse <- FALSE, Approvers <- {}, Questions <- {"q1"}

MCInit ==
  /\ part \in {"tool", "session", "write", "screen", "windows", "popup", "phone"}
  /\ Init /\ Session!Init /\ Writing!Init /\ Asking!Init /\ Windows!Init
  /\ IF part = "phone" THEN Phone!Init ELSE Popup!Init
  /\ part # "session" => code[1] = "x"
  /\ part # "screen" => DOMAIN disk.fb = {}
  /\ part # "windows" => waiting

MCNext ==
  /\ \/ part = "tool" /\ Next /\ UNCHANGED <<session, writing, asking, windows, approval>>
     \/ part = "session" /\ Session!Next /\ UNCHANGED <<vars, writing, asking, windows, approval>>
     \/ part = "write" /\ Writing!Next /\ UNCHANGED <<vars, session, asking, windows, approval>>
     \/ part = "screen" /\ Asking!Next /\ UNCHANGED <<vars, session, writing, windows, approval>>
     \/ part = "windows" /\ Windows!Next /\ UNCHANGED <<vars, session, writing, asking, approval>>
     \/ part = "popup" /\ Popup!Next /\ UNCHANGED <<vars, session, writing, asking, windows>>
     \/ part = "phone" /\ Phone!Next /\ UNCHANGED <<vars, session, writing, asking, windows>>
  /\ UNCHANGED part

\* The fairness of each specification, for its own part.
MCFairness ==
  /\ WF_vars(part = "tool" /\ Write)
  /\ WF_vars(part = "tool" /\ Read("printed", "out"))
  /\ WF_vars(part = "tool" /\ Read("errors", "err"))
  /\ WF_vars(part = "tool" /\ TimeLimitPasses)
  /\ WF_vars(part = "tool" /\ CallerStep)
  /\ \A s \in {"s1", "s2"} :
       /\ WF_session(part = "session" /\ Session!ScreenStep(s))
       /\ WF_session(part = "session" /\ Session!Open(s) /\ Session!AllFed(sess) /\ listed)
  /\ WF_session(part = "session" /\ Session!AddToWaitingList("a1"))
  /\ WF_writing(part = "write" /\ Writing!Step)
  /\ WF_writing(part = "write" /\ Writing!Begin)
  /\ WF_writing(part = "write" /\ Writing!CleanUp)
  /\ WF_asking(part = "screen" /\ Asking!Program)
  /\ WF_asking(part = "screen" /\ (Asking!ComeBack \/ Asking!DiffEnds))
  /\ \A p \in {"p1", "p2"} : WF_windows(part = "windows" /\ Windows!Acts(p))
  /\ \A p \in Popup!Procs : WF_approval(part = "popup" /\ Popup!Step(p))
  /\ \A p \in Phone!Procs : WF_approval(part = "phone" /\ Phone!Step(p))

MCSpec == MCInit /\ [][MCNext]_all /\ MCFairness

\* ReviewSession's AnsweredReviewSettles and WriteBack's RetrySettles: a review
\* whose requests are all answered is written, handed to the agent or dismissed.
ReviewsSettle == /\ (part = "session") => Session!AnsweredReviewSettles
                 /\ (part = "write") => Writing!RetrySettles

\* ToolRun's Ends, ReviewScreen's InterruptQuits and ReviewWindows' PressEnds: a
\* formatter that hangs, or leaves a stray on its pipes, holds nobody up for ever;
\* Ctrl-C ends the screen from wherever it is; and a press ends with a window or a
\* word to the user.
WorkEnds == /\ (part = "tool") => Ends
            /\ (part = "screen") => Asking!InterruptQuits
            /\ (part = "windows") => Windows!PressEnds

\* PrApproval's ApprovedRuns: an approval is acted on before it expires, without a
\* rerun, whoever was killed while the request waited.
ApprovedRuns == /\ (part = "popup") => Popup!ApprovedRuns
                /\ (part = "phone") => Phone!ApprovedRuns
=============================================================================
