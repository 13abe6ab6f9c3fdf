------------------------------- MODULE MCText -------------------------------
(***************************************************************************)
(* Small instances of EditPage and StyleCheck in one run.  `part`, chosen  *)
(* at the start, says which one the behaviour is of; the variables of the  *)
(* others stay as they began.  The parts share no state, so the run has    *)
(* the sum of their states, not the product.                               *)
(*   "fences"    the edit page of a line comment with fences,              *)
(*   "examples"  of one with examples,                                     *)
(*   "sections"  of a docstring with sections,                             *)
(*   "doctests"  and of one with doctests;                                 *)
(*   "moves"     the style check of a branch that moves old text;          *)
(*   "review"    and of one whose comments were decided about.             *)
(***************************************************************************)
EXTENDS StyleCheck

VARIABLES
  part,
  text, page, shown, open, wrote, pedits, changed   \* EditPage

edit == <<text, page, shown, open, wrote, pedits, changed>>
all == <<part, vars, edit>>

-----------------------------------------------------------------------------
\* Lines of a comment.

Sentence == Line(1, <<"w">>)
LongSentence == Line(1, <<"w", "w", "w">>)
FenceBodies == {Sentence, Line(3, <<"x">>), Line(1, <<"ticks">>), Line(1, <<"tildes">>), BlankLine}
ExampleBodies == {Sentence, LongSentence, Line(2, <<"x">>), BlankLine}
Flat(w) == Line(0, <<w>>)
SectionBodies == {Flat("w"), Flat("Args:"), Line(4, <<"w">>), Line(8, <<"w", "w">>), BlankLine}
DoctestBodies == {Flat("w"), Flat("Example:"), Flat(">>>"), Line(4, <<">>>", "x">>), BlankLine}

Fences == INSTANCE EditPage WITH
  Style <- "line", Bodies <- FenceBodies, MaxLines <- 4, MaxEdits <- 1, Width <- 3, edits <- pedits
Examples == INSTANCE EditPage WITH
  Style <- "line", Bodies <- ExampleBodies, MaxLines <- 4, MaxEdits <- 1, Width <- 3, edits <- pedits
Sections == INSTANCE EditPage WITH
  Style <- "docstring", Bodies <- SectionBodies, MaxLines <- 4, MaxEdits <- 1, Width <- 3,
  edits <- pedits
Doctests == INSTANCE EditPage WITH
  Style <- "docstring", Bodies <- DoctestBodies, MaxLines <- 4, MaxEdits <- 1, Width <- 3,
  edits <- pedits

-----------------------------------------------------------------------------
\* Files of a branch.

Python == [f \in Files |-> "python"]
Hash(ws) == FileLine("#", Line(1, ws))
Doc(ws) == FileLine("doc", Line(0, ws))
Def(n) == FileLine("def", Line(0, <<n>>))
Body == FileLine("body", Line(0, <<"return">>))
Blank == FileLine("blank", BlankLine)
Plain == <<"w", "w.">>
Filler == <<"This", "seamless", "w.">>
Colon == <<"key:", "w.">>
Loose == <<Blank, Hash(Colon), Blank>>
Bare == <<Def("load"), Body>>

\* Old text of every kind, to be left, moved and added to.
Save == <<Hash(Filler), Def("save"), Doc(Plain), Body>>
Marked == <<Hash(<<"@generated", "w.">>), Blank>>
Tree(a, b, c, r) == [f \in {"a", "b", "c", "r"} |->
                       CASE f = "a" -> a [] f = "b" -> b [] f = "c" -> c [] OTHER -> r]
MoveBases == {Tree(Save \o Loose, Bare, Absent, <<>>),
              Tree(Save, Marked \o Bare, Absent, <<Hash(Colon), Def("load"), Body>>)}
Moves == INSTANCE StyleCheck WITH
  Files <- {"a", "b", "c", "r"},
  Language <- [f \in {"a", "b", "c", "r"} |-> IF f = "r" THEN "rust" ELSE "python"],
  Bases <- MoveBases, Earlier <- {<<>>},
  Blocks <- {<<Hash(Plain)>>, <<Def("new"), Body>>, <<Blank, Hash(Filler), Blank>>},
  Texts <- {<<Line(1, Plain)>>}

\* Decisions of other reviews about comments of the file.
SaveName == <<"#", "save">>
ReviewBases == {[f \in Files |-> <<Hash(Plain), Def("save"), Doc(Plain), Body>> \o Loose]}
Decided == {<<>>, <<Decision("a", SaveName, <<Line(1, Plain)>>)>>,
            <<Decision("a", SaveName, <<Line(1, Colon)>>)>>,
            <<Decision("a", SaveName, <<Line(1, Plain)>>), Decision("a", SaveName, <<Line(1, Filler)>>)>>,
            <<Decision("a", SaveName, <<>>)>>,
            <<Decision("a", <<"doc", "save">>, <<Line(0, Plain)>>)>>}
ReviewBlocks == {<<Hash(Plain)>>, <<Hash(Colon), Def("new"), Doc(Plain), Body>>}
ReviewTexts == {<<Line(1, <<"one.">>)>>, <<Line(1, <<"url:", "one.">>)>>,
                <<Line(1, <<"one.">>), Line(1, <<"two.", "three.">>)>>,
                <<Line(0, <<"one.">>), Line(0, <<"two.">>)>>}

ASSUME TextConstants ==
  /\ Fences!PageAssumption /\ Examples!PageAssumption
  /\ Sections!PageAssumption /\ Doctests!PageAssumption

-----------------------------------------------------------------------------
NoCheck ==
  /\ base = <<>> /\ disk = <<>> /\ approved = <<>> /\ found = {} /\ checked = FALSE
  /\ put = <<>> /\ edits = 0

MCInit ==
  /\ Fences!Init
  /\ \/ part \in {"fences", "examples", "sections", "doctests"} /\ NoCheck
     \/ part = "moves" /\ Moves!Init
     \/ part = "review" /\ Init

MCNext ==
  /\ \/ part = "fences" /\ Fences!Next /\ UNCHANGED vars
     \/ part = "examples" /\ Examples!Next /\ UNCHANGED vars
     \/ part = "sections" /\ Sections!Next /\ UNCHANGED vars
     \/ part = "doctests" /\ Doctests!Next /\ UNCHANGED vars
     \/ part = "moves" /\ Moves!Next /\ UNCHANGED edit
     \/ part = "review" /\ Next /\ UNCHANGED edit
  /\ UNCHANGED part

MCSpec == MCInit /\ [][MCNext]_all

\* EditPage's NoWordLost, Rebuilt, ShownAgain and ExamplesKept: a comment opened,
\* edited and laid out again, by the user or a reword, keeps every word and its
\* sections, and its fences, examples and headings when only sentences change.  Two
\* things are excepted, which the code does change: code deeper than a column in a
\* fence loses one column each time, but no more, and an example that starts the page
\* loses its blanks.
PageKeepsComment ==
  [][/\ part = "fences" => Fences!WordsKept /\ Fences!ExamplesKept
     /\ part = "examples" => Examples!WordsKept /\ Examples!ExamplesKept
     /\ part = "sections" => Sections!WordsKept /\ Sections!ExamplesKept
     /\ part = "doctests" => Doctests!WordsKept /\ Doctests!ExamplesKept]_all

\* StyleCheck's OldTextPasses, MovedFilePasses and GeneratedPasses: whatever a branch
\* moves between files and languages, text that was at the base does not fail.
\* Said of the instance's texts: no example in a Python comment is moved
\* (style_rules.rs:677), and no name is defined twice (check_comments.rs:160).
\* And NewColonFails, ApprovedNotBlamed and RewordStaysClean: what the approvals half
\* and the style half leave to each other is seen by one of them, and neither fails a
\* text the user approved or step 5 let through.
StyleFailsRightly ==
  /\ part = "moves" => Moves!FailsFairly
  /\ part = "review" => MissesNothing
=============================================================================
