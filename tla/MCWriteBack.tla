---------------------------- MODULE MCWriteBack ----------------------------
(***************************************************************************)
(* The write of the answers: small instances of WriteBack, call by call,   *)
(* and of CommentReview, comment by comment, in one run.  `part`, chosen   *)
(* at the start, says which one the behaviour is of; the variables of the  *)
(* other stay as they began.  The parts share no state, so the run has the *)
(* sum of their states, not the product.                                   *)
(*   "calls"     two files whose text changes, one kept;                   *)
(*   "rewrite"   files where writing an answer is risky;                   *)
(*   "notes"     two lists about comments of one text near each other.     *)
(***************************************************************************)
EXTENDS WriteBackProps

VARIABLES
  part,
  base, file, approved, rstatus, requests, feedback, redits, lists, sent  \* CommentReview

review == <<base, file, approved, rstatus, requests, feedback, redits, lists, sent>>
all == <<part, vars, review>>

F == INSTANCE FileComments WITH Names <- {"f"}
Fn == F!CodeLine("f")
A == F!CommentLine("line", "a")
B == F!CommentLine("line", "b")
DocLine == F!CommentLine("doc", "d")
ToolNote == F!CommentLine("line", "tool")
AfterFn == F!Line("none", "none", "f", "a")
AfterStmt == F!Line("none", "none", "stmt", "a")
BlockStmt == F!Line("block", "x", "stmt", "none")

\* Files where something can go wrong with a rewrite.
RiskyFiles ==
  {<<F!CodeLine("use2"), A, F!CodeLine("use1")>>,
   <<A, DocLine, B, Fn>>,
   <<DocLine, F!CodeLine("attr"), Fn, AfterStmt>>,
   <<[BlockStmt EXCEPT !.tail = "a"], A, Fn>>,
   <<A, ToolNote, Fn, B, F!BlankLine, BlockStmt>>,
   <<A, Fn, A, Fn>>,
   <<DocLine, A, Fn>>}
EarlierDecisions ==
  {<<>>,
   <<[name |-> "f", text |-> <<"b">>], [name |-> "f", text |-> <<"a">>]>>}
Rewriting == INSTANCE CommentReview WITH
  Names <- {"f"}, Bases <- {<<>>, <<BlockStmt, B, Fn>>}, Files <- RiskyFiles, Earlier <- EarlierDecisions,
  AgentLines <- {A, B}, Rewords <- {<<"b">>, <<"b", "b">>, <<"tool">>}, UserNotes <- FALSE,
  MaxEdits <- 1, MaxLists <- 1, status <- rstatus, edits <- redits

\* Comments of one text near each other.
TwinFiles == {<<A, F!BlankLine, A, F!CodeLine("stmt"), B, Fn>>, <<AfterStmt, AfterFn, B, Fn>>}
Notes == INSTANCE CommentReview WITH
  Names <- {"f"}, Bases <- {<<>>}, Files <- TwinFiles, Earlier <- {<<>>},
  AgentLines <- {A}, Rewords <- {}, UserNotes <- TRUE, MaxEdits <- 1, MaxLists <- 2,
  status <- rstatus, edits <- redits

ASSUME ReviewConstants == Rewriting!CommentReviewAssumption /\ Notes!CommentReviewAssumption

NoReview ==
  /\ base = <<>> /\ file = <<>> /\ approved = <<>> /\ rstatus = "none" /\ requests = <<>>
  /\ feedback = <<>> /\ redits = 0 /\ lists = 0 /\ sent = <<>>

MCInit ==
  /\ Init
  /\ \/ part = "calls" /\ NoReview
     \/ part = "rewrite" /\ Rewriting!Init
     \/ part = "notes" /\ Notes!Init

MCNext ==
  /\ \/ part = "calls" /\ Next /\ UNCHANGED review
     \/ part = "rewrite" /\ Rewriting!Next /\ UNCHANGED vars
     \/ part = "notes" /\ Notes!Next /\ UNCHANGED vars
  /\ UNCHANGED part

MCSpec == MCInit /\ [][MCNext]_all

\* CommentReview's ClosestFirst, AnswersFound and EveryoneAsked: among comments of
\* one text, after edits and notes, every comment has its request and every request
\* its comment, so step 7 loses no answer.
EveryRequestFound ==
  /\ part = "rewrite" => Rewriting!RequestsFit
  /\ part = "notes" => Notes!RequestsFit

\* CommentReview's WritesOnlyAnswers and Settles: a write changes the answered
\* comments alone, whatever the formatter does, and none of them is asked about again.
WritesAnswersOnly ==
  [][/\ part = "rewrite" => Rewriting!WriteIsRight
     /\ part = "notes" => Notes!WriteIsRight]_all
=============================================================================
