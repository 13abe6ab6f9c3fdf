----------------------------- MODULE StyleText -----------------------------
(***************************************************************************)
(* What the style check reads in one file: comments, definitions, their    *)
(* sentences, and the lines Git's diff marks.                              *)
(*                                                                         *)
(* A file is a sequence of lines: of a comment ("#", also for `//`), of a  *)
(* docstring ("doc"), of code ("body"), a definition's first ("def", whose *)
(* only word is its name) or "blank".  A docstring's lines follow its      *)
(* definition's, and code that belongs to a definition follows both; the   *)
(* comments inside a body are left out.                                    *)
(***************************************************************************)
EXTENDS Docstrings, FiniteSetsExt

CONSTANTS
  Enders,   \* words that end a sentence
  Colons,   \* words with a colon
  Fillers   \* filler phrases, one word each

NoName == <<>>
Absent == <<[kind |-> "absent", txt |-> BlankLine]>>
FileLine(kind, txt) == [kind |-> kind, txt |-> txt]
NameOf(l) == l.txt.ws[1]
LinesOf(ls) == IF ls = Absent THEN <<>> ELSE ls

\* Neighbouring lines of one kind.
Runs(ls, kinds) ==
  {r \in (1 .. Len(ls)) \X (1 .. Len(ls)) :
     /\ r[1] <= r[2] /\ \A i \in r[1] .. r[2] : ls[i].kind \in kinds
     /\ r[1] = 1 \/ ls[r[1] - 1].kind \notin kinds
     /\ r[2] = Len(ls) \/ ls[r[2] + 1].kind \notin kinds}

\* A comment is named for the definition below it, a docstring for its own.
RunName(ls, r) ==
  IF ls[r[1]].kind = "doc" THEN <<"doc", NameOf(ls[r[1] - 1])>>
  ELSE IF r[2] < Len(ls) /\ ls[r[2] + 1].kind = "def" THEN <<"#", NameOf(ls[r[2] + 1])>>
  ELSE NoName

\* Two comments with one name lose it.
Comments(file) ==
  LET ls == LinesOf(file)
      runs == Runs(ls, {"#"}) \cup Runs(ls, {"doc"})
      Shared(r) == \E s \in runs \ {r} : RunName(ls, s) = RunName(ls, r)
  IN  {[style |-> ls[r[1]].kind, lines |-> r[1] .. r[2], first |-> r[1],
        name |-> IF Shared(r) THEN NoName ELSE RunName(ls, r),
        text |-> [i \in 1 .. r[2] - r[1] + 1 |-> ls[r[1] + i - 1].txt]] : r \in runs}
HasSame(cs, c) == \E old \in cs : old.name = c.name /\ old.text = c.text

\* Each definition with its own lines and its docstring's, none when it has no docstring.
Definitions(file) ==
  LET ls == LinesOf(file)
      End(i) == Max({j \in i .. Len(ls) : \A k \in i + 1 .. j : ls[k].kind \in {"doc", "body"}})
  IN  {[name |-> NameOf(ls[i]), own |-> i .. End(i),
        doc |-> SelectSeq(SubSeq(ls, i + 1, End(i)), LAMBDA l : l.kind = "doc")]
       : i \in {j \in 1 .. Len(ls) : ls[j].kind = "def"}}
FindsCode(file, name) == \E d \in Definitions(file) : d.name = name[2]

IsGenerated(file) ==
  \E l \in ToSet(file) : l.kind = "#" /\ ~IsBlank(l.txt) /\ l.txt.ws[1] = "@generated"
\* A comment with no name above the file's first code, where a license sits.
IsHeader(file, c) ==
  /\ c.name = NoName
  /\ \A i \in 1 .. Max(c.lines) : file[i].kind \in {"#", "blank"}

-----------------------------------------------------------------------------
\* Prose, as a sequence of words.

ListParagraphs(c) ==
  IF c.style = "doc"
  THEN LET parts == ReadDocstringParts(c.text)
       IN  SelectSeq(parts, LAMBDA p : p.kind \in {"paragraph", "entry"})
  ELSE LET blocks == SelectSeq(GroupBlocks(c.text), LAMBDA b : b.kind = "words")
       IN  [i \in DOMAIN blocks |-> Part("paragraph", blocks[i].lines[1])]
Prose(c) == FoldLeft(LAMBDA a, p : a \o p.line.ws, <<>>, ListParagraphs(c))

\* Every line, joined by one space each: an empty line leaves two in a row.
JoinUnfilteredLines(c) ==
  FlattenSeq([i \in DOMAIN c.text |-> IF IsBlank(c.text[i]) THEN <<"">> ELSE c.text[i].ws])

\* A sentence ends with its ender or with the prose; spaces after an ender go.
SplitSentences(ws) ==
  LET ends == {i \in 1 .. Len(ws) : ws[i] \in Enders}
      Start(s) == IF s = 1 THEN 1
                  ELSE Min({i \in s .. Len(ws) : ws[i] # ""} \cup {Len(ws) + 1})
      starts == {Start(s) : s \in {1} \cup {e + 1 : e \in ends}} \ {Len(ws) + 1}
      End(s) == Min({e \in ends : e >= s} \cup {Len(ws)})
  IN  IF ws = <<>> THEN {} ELSE {<<s, End(s)>> : s \in starts}
Sentences(ws) == {SubSeq(ws, s[1], s[2]) : s \in SplitSentences(ws)}
FirstSentence(ws) == CHOOSE t \in Sentences(ws) : IsPrefix(t, ws)

-----------------------------------------------------------------------------
\* The sets of lines of `new` that some longest common subsequence with `old` keeps.
KeptLines(old, new) ==
  LET Longest(all) == {s \in all : \A t \in all : Cardinality(t) <= Cardinality(s)}
      Cell(row, r, l, j) ==
        Longest(r[j] \cup row[j + 1] \cup (IF l = new[j] THEN {s \cup {j} : s \in row[j]} ELSE {}))
      NextRow(row, l) == FoldLeft(LAMBDA r, j : Append(r, Cell(row, r, l, j)), <<{{}}>>,
                                  [j \in 1 .. Len(new) |-> j])
  IN  FoldLeft(NextRow, [j \in 1 .. Len(new) + 1 |-> {{}}], old)[Len(new) + 1]

\* Every line of a new file counts; a deletion leaves no line.
ListChangedLines(old, new) ==
  LET all == 1 .. Len(LinesOf(new))
  IN  IF old = Absent \/ new = Absent THEN {all} ELSE {all \ kept : kept \in KeptLines(old, new)}
=============================================================================
