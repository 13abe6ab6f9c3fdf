---------------------------- MODULE LineComments ----------------------------
(***************************************************************************)
(* Comment lines to plain words and back.  A line is the blanks before its *)
(* words and the words; every word is one wide.  A comment line is what    *)
(* follows its marker.                                                     *)
(***************************************************************************)
EXTENDS Integers, Sequences, SequencesExt

Line(in, ws) == [in |-> in, ws |-> ws]
BlankLine == Line(0, <<>>)
IsBlank(l) == l.ws = <<>>
JoinWords(ls) == FoldLeft(LAMBDA a, l : a \o l.ws, <<>>, ls)
Smaller(a, b) == IF a < b THEN a ELSE b

\* Lines of at most width words.
WrapWords(ws, width) ==
  [i \in 1..((Len(ws) + width - 1) \div width) |->
     SubSeq(ws, (i - 1) * width + 1, Smaller(i * width, Len(ws)))]

FenceMarks == {"ticks", "tildes"}
FenceMark(l) == IF ~IsBlank(l) /\ l.ws[1] \in FenceMarks THEN l.ws[1] ELSE "none"
IsExample(l) == ~IsBlank(l) /\ FenceMark(l) = "none" /\ l.in >= 2
StripOneSpace(l) == IF IsBlank(l) THEN BlankLine ELSE [l EXCEPT !.in = IF @ > 0 THEN @ - 1 ELSE 0]

Block(kind, ls) == [kind |-> kind, lines |-> ls]

\* One line more: sentences and examples gather until the other kind or a blank
\* line, and a fence until the mark that opened it.
FlushWords(acc) ==
  IF acc.words = <<>> THEN acc
  ELSE [acc EXCEPT !.blocks = Append(@, Block("words", <<Line(0, acc.words)>>)), !.words = <<>>]
FlushExamples(acc) ==
  IF acc.examples = <<>> THEN acc
  ELSE [acc EXCEPT !.blocks = Append(@, Block("example", acc.examples)), !.examples = <<>>]
PutLine(acc, l) ==
  IF FenceMark(l) # "none"
  THEN [acc EXCEPT !.mark = FenceMark(l), !.fence = <<StripOneSpace(l)>>]
  ELSE IF IsExample(l) THEN [acc EXCEPT !.examples = Append(@, l)]
  ELSE [acc EXCEPT !.words = @ \o l.ws]
PutInFence(acc, l) ==
  IF FenceMark(l) = acc.mark
  THEN [acc EXCEPT !.blocks = Append(@, Block("fence", Append(acc.fence, StripOneSpace(l)))),
                   !.fence = <<>>, !.mark = "none"]
  ELSE [acc EXCEPT !.fence = Append(@, StripOneSpace(l))]
GroupLine(acc, l) ==
  IF acc.mark # "none" THEN PutInFence(acc, l)
  ELSE PutLine(IF IsExample(l) THEN FlushWords(acc)
               ELSE IF IsBlank(l) \/ FenceMark(l) # "none" THEN FlushExamples(FlushWords(acc))
               ELSE FlushExamples(acc), l)

\* Mutant: a fence that nothing closes is forgotten.
GroupBlocksClosed(ls) ==
  LET none == [blocks |-> <<>>, words |-> <<>>, examples |-> <<>>, fence |-> <<>>, mark |-> "none"]
  IN  FlushExamples(FlushWords(FoldLeft(GroupLine, none, ls))).blocks
GroupBlocks(ls) ==
  LET none == [blocks |-> <<>>, words |-> <<>>, examples |-> <<>>, fence |-> <<>>, mark |-> "none"]
      acc == FlushExamples(FlushWords(FoldLeft(GroupLine, none, ls)))
  IN  IF acc.mark = "none" THEN acc.blocks ELSE Append(acc.blocks, Block("fence", acc.fence))

\* The blocks' lines, with a blank line between two blocks.
Spaced(blocks, Lines(_)) ==
  FoldLeft(LAMBDA a, b : (IF a = <<>> THEN a ELSE Append(a, BlankLine)) \o Lines(b), <<>>, blocks)

ToPlainLines(text) == Spaced(GroupBlocks(text), LAMBDA b : b.lines)

LayOutLines(words, width) ==
  Spaced(GroupBlocks(words), LAMBDA b :
    CASE b.kind = "words" -> LET ws == WrapWords(b.lines[1].ws, width)
                             IN  [i \in DOMAIN ws |-> Line(1, ws[i])]
      [] b.kind = "example" -> b.lines
      [] b.kind = "fence" -> [i \in DOMAIN b.lines |->
                                IF IsBlank(b.lines[i]) THEN BlankLine
                                ELSE [b.lines[i] EXCEPT !.in = @ + 1]])
=============================================================================
