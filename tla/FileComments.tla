---------------------------- MODULE FileComments ----------------------------
(***************************************************************************)
(* The comments of one source file as glimmer reads, names, matches and    *)
(* rewrites them.                                                          *)
(*                                                                         *)
(* A line holds a comment or code or both: a comment before the code, the  *)
(* code, and a comment after it.  Words are tokens; the token "tool" stands *)
(* for words a build tool reads.  Comments have the styles of Rust, which  *)
(* has the most: "line", "doc", "module" and "block", and "after" for one  *)
(* after code.  A text is the sequence of a comment's lines.               *)
(***************************************************************************)
EXTENDS Integers, SequencesExt

CONSTANT Names    \* code a comment above it is named for

None == "none"
Line(style, txt, code, tail) == [style |-> style, txt |-> txt, code |-> code, tail |-> tail]
CodeLine(code) == Line(None, None, code, None)
CommentLine(style, txt) == Line(style, txt, None, None)
BlankLine == CodeLine(None)

JoiningStyles == {"line", "doc", "module"}
CanReword(style) == style \in JoiningStyles
ReadByTools(text) == "tool" \in ToSet(text)

\* The item that starts at line i, past its attributes and the lines under them.
ItemLines(ls, i) == {j \in i .. Len(ls) : ls[j] \notin {BlankLine, CodeLine("attr")}}
\* What stands between an item and its attributes takes its name away.
NameItem(l) == IF l.style = None /\ l.code \in Names THEN l.code ELSE None
\* The name of a comment right above line i.
NameBelow(ls, i) ==
  IF i > Len(ls) \/ ls[i] = BlankLine \/ ItemLines(ls, i) = {} THEN None
  ELSE NameItem(ls[Min(ItemLines(ls, i))])

\* A comment that shares its line with code, or with a comment after it, has no name.
HeadComment(ls, i) ==
  LET l == ls[i]
      name == CASE l.code # None \/ l.tail # None -> None
                [] l.style = "module" -> "<module>"
                [] OTHER -> NameBelow(ls, i + 1)
  IN  [name |-> name, line |-> i, end |-> i, slot |-> "head", style |-> l.style,
       text |-> <<l.txt>>, cut |-> l.style # "block"]
TailComment(ls, i) ==
  [name |-> None, line |-> i, end |-> i, slot |-> "tail", style |-> "after",
   text |-> <<ls[i].tail>>, cut |-> TRUE]

Joins(above, c) == c.style \in JoiningStyles /\ above.style = c.style /\ above.end + 1 = c.line

\* Neighbouring lines of one style are one comment, named by what is below the last.
AddComment(cs, c) ==
  IF cs # <<>> /\ Joins(Last(cs), c)
  THEN [cs EXCEPT ![Len(cs)] = [@ EXCEPT !.name = c.name, !.end = c.end,
                                         !.text = @ \o c.text, !.cut = @ /\ c.cut]]
  ELSE Append(cs, c)

CollectComments(ls) ==
  LET At(i) == (IF ls[i].style = None THEN <<>> ELSE <<HeadComment(ls, i)>>)
               \o (IF ls[i].tail = None THEN <<>> ELSE <<TailComment(ls, i)>>)
  IN  FoldLeft(AddComment, <<>>, FlattenSeq([i \in 1 .. Len(ls) |-> At(i)]))

UnnameSharedNames(cs) ==
  [i \in 1 .. Len(cs) |->
     IF \E j \in 1 .. Len(cs) : j # i /\ cs[j].name = cs[i].name
     THEN [cs[i] EXCEPT !.name = None] ELSE cs[i]]

FindComments(ls) ==
  LET cs == UnnameSharedNames(CollectComments(ls))
  IN  [i \in 1 .. Len(cs) |-> [cs[i] EXCEPT !.cut = @ /\ ~ReadByTools(cs[i].text)]]

HasSame(cs, c) == \E old \in ToSet(cs) : old.name = c.name /\ old.text = c.text
\* Is there code that a comment named `name` would describe?
FindsCode(ls, name) ==
  name = "<module>" \/ \E i \in 1 .. Len(ls) : NameBelow(ls, i) = name

-----------------------------------------------------------------------------
\* Which comment each request is about, as an index into `cs`, or 0.

AbsDiff(a, b) == IF a < b THEN b - a ELSE a - b
Fits(r, c) == r.name = c.name /\ (r.name # None \/ r.text = c.text)

\* A pair <<r, c>> is the r-th request with the c-th comment.
Pairs(cs, rs) == {p \in (1 .. Len(rs)) \X (1 .. Len(cs)) : Fits(rs[p[1]], cs[p[2]])}
Distance(cs, rs, p) == AbsDiff(cs[p[2]].line, rs[p[1]].line)
Precedes(cs, rs, p, q) ==
  \/ Distance(cs, rs, p) < Distance(cs, rs, q)
  \/ /\ Distance(cs, rs, p) = Distance(cs, rs, q)
     /\ p[1] < q[1] \/ (p[1] = q[1] /\ p[2] < q[2])

\* Taking the first of the pairs that are left, over and over, until none is left.
Left(cs, rs, m) == {p \in Pairs(cs, rs) : m[p[1]] = 0 /\ p[2] \notin ToSet(m)}
First(cs, rs, S) == CHOOSE p \in S : \A q \in S : p = q \/ Precedes(cs, rs, p, q)
TakePair(cs, rs, m) ==
  LET left == Left(cs, rs, m)
      next == First(cs, rs, left)
  IN  IF left = {} THEN m ELSE [m EXCEPT ![next[1]] = next[2]]
TakePairs(cs, rs) ==
  LET taken[n \in 0 .. Len(rs)] ==
        IF n = 0 THEN [r \in 1 .. Len(rs) |-> 0] ELSE TakePair(cs, rs, taken[n - 1])
  IN  taken[Len(rs)]

\* A comment reworded in place keeps its request.
AtLine(cs, r) == {c \in 1 .. Len(cs) : cs[c].name = None /\ cs[c].line = r.line}
TakeAtLine(cs, rs, m, r) ==
  LET at == Min(AtLine(cs, rs[r]))
  IN  IF m[r] = 0 /\ rs[r].name = None /\ AtLine(cs, rs[r]) # {} /\ at \notin ToSet(m)
      THEN [m EXCEPT ![r] = at] ELSE m

MatchRequests(cs, rs) ==
  LET kept[n \in 0 .. Len(rs)] ==
        IF n = 0 THEN TakePairs(cs, rs) ELSE TakeAtLine(cs, rs, kept[n - 1], n)
  IN  kept[Len(rs)]

\* No comment goes to two requests, and no request and comment that fit are both
\* nearer to each other than to what they got.
FitsOwn(cs, rs, m, r) == m[r] # 0 /\ Fits(rs[r], cs[m[r]])
Prefers(cs, rs, m, p) ==
  FitsOwn(cs, rs, m, p[1]) => Distance(cs, rs, p) < Distance(cs, rs, <<p[1], m[p[1]]>>)
HoldersGiveUp(cs, rs, m, p) ==
  \A h \in 1 .. Len(rs) :
    m[h] = p[2] /\ FitsOwn(cs, rs, m, h) => Distance(cs, rs, p) < Distance(cs, rs, <<h, p[2]>>)
IsStable(cs, rs, m) ==
  /\ \A r, h \in 1 .. Len(rs) : m[r] = m[h] /\ m[r] # 0 => r = h
  /\ \A p \in Pairs(cs, rs) :
       m[p[1]] # p[2] => ~(Prefers(cs, rs, m, p) /\ HoldersGiveUp(cs, rs, m, p))

\* Step 7 finds a comment with no name only at its saved line.
MatchAtSavedLine(cs, rs) ==
  LET Take(m, r) ==
        LET free == {c \in 1 .. Len(cs) : /\ c \notin ToSet(m) /\ cs[c].name = rs[r].name
                                          /\ rs[r].name # None \/ cs[c].line = rs[r].line}
        IN  IF free = {} THEN m ELSE [m EXCEPT ![r] = Min(free)]
  IN  FoldLeft(Take, [r \in 1 .. Len(rs) |-> 0], [r \in 1 .. Len(rs) |-> r])

MatchRequestsOnDisk(ls, rs) ==
  LET cs == FindComments(ls)
      m == MatchAtSavedLine(cs, rs)
  IN  [r \in 1 .. Len(rs) |-> IF m[r] # 0 /\ cs[m[r]].text = rs[r].text THEN m[r] ELSE 0]

-----------------------------------------------------------------------------
\* Rewriting.  `new` gives each comment its text; the empty text cuts it.

MayEdit(c, text) ==
  \/ text = c.text
  \/ c.cut /\ (text = <<>> \/ (CanReword(c.style) /\ ~ReadByTools(text)))

SpliceLine(ls, cs, new, i) ==
  LET at == SelectInSeq(cs, LAMBDA c : c.slot = "head" /\ c.line <= i /\ i <= c.end)
      tail == SelectInSeq(cs, LAMBDA c : c.slot = "tail" /\ c.line = i)
      l == IF tail # 0 /\ new[tail] = <<>> THEN [ls[i] EXCEPT !.tail = None] ELSE ls[i]
  IN  CASE at = 0 -> <<l>>
        [] at # 0 /\ new[at] = cs[at].text -> <<l>>
        [] at # 0 /\ new[at] # cs[at].text /\ i # cs[at].line -> <<>>
        [] OTHER -> [k \in 1 .. Len(new[at]) |-> CommentLine(cs[at].style, new[at][k])]
Splice(ls, cs, new) == FlattenSeq([i \in 1 .. Len(ls) |-> SpliceLine(ls, cs, new, i)])

\* What a refused rewrite gives in place of lines: one no file has.
Refusal == <<CodeLine("refused")>>

\* A formatter puts neighbouring imports in order, and may be missing or fail.
OutOfOrder(ls) == {i \in 1 .. Len(ls) - 1 : /\ ls[i].code = "use2" /\ ls[i + 1].code = "use1"
                                            /\ ls[i].style = None /\ ls[i + 1].style = None}
Formatted(ls) ==
  IF OutOfOrder(ls) = {} THEN ls
  ELSE LET i == Min(OutOfOrder(ls)) IN [ls EXCEPT ![i] = ls[i + 1], ![i + 1] = ls[i]]
FormatIfOldIsFormatted(tool, old, new) ==
  IF tool = "missing" \/ Formatted(old) # old THEN new
  ELSE IF tool = "fails" THEN Refusal ELSE Formatted(new)

Shown(c) == <<c.style, c.text>>
CodeShape(ls) == SelectSeq([i \in 1 .. Len(ls) |-> ls[i].code], LAMBDA c : c # None)
Expected(cs, new) ==
  SelectSeq([c \in 1 .. Len(cs) |-> <<cs[c].style, new[c]>>], LAMBDA p : p[2] # <<>>)

\* The file's new lines, read back before they are used.
\* Mutant: what the formatter made of the file is not read back.
RewriteFileBlind(tool, ls, new) ==
  LET cs == FindComments(ls)
      spliced == Splice(ls, cs, new)
      finished == FormatIfOldIsFormatted(tool, ls, spliced)
  IN  IF \A c \in 1 .. Len(cs) : MayEdit(cs[c], new[c]) THEN finished ELSE Refusal
RewriteFile(tool, ls, new) ==
  LET cs == FindComments(ls)
      spliced == Splice(ls, cs, new)
      finished == FormatIfOldIsFormatted(tool, ls, spliced)
      found == FindComments(finished)
  IN  CASE \E c \in 1 .. Len(cs) : ~MayEdit(cs[c], new[c]) -> Refusal
        [] spliced = ls -> ls
        [] OTHER ->
             IF /\ [c \in 1 .. Len(found) |-> Shown(found[c])] = Expected(cs, new)
                /\ CodeShape(finished) = CodeShape(ls)
             THEN finished ELSE Refusal
=============================================================================
