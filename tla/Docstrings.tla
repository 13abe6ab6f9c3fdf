----------------------------- MODULE Docstrings -----------------------------
(***************************************************************************)
(* A Python docstring to plain words and back.  Its text is the lines      *)
(* between the quotes, each as deep as it stands under the quotes' own     *)
(* indentation; the first starts after the quotes.                         *)
(***************************************************************************)
EXTENDS LineComments

ExampleHeadings == {"Example:"}
Headings == {"Args:"} \cup ExampleHeadings
IsHeading(l) == Len(l.ws) = 1 /\ l.ws[1] \in Headings
StartsDoctest(l) == ~IsBlank(l) /\ l.ws[1] = ">>>"

Part(kind, l) == [kind |-> kind, line |-> l]
LastKind(parts) == IF parts = <<>> THEN "none" ELSE parts[Len(parts)].kind

\* No blank part first, last or twice in a row.
TrimBlankParts(parts) ==
  LET kept == FoldLeft(LAMBDA a, p : IF p.kind = "blank" /\ LastKind(a) \in {"none", "blank"}
                                     THEN a ELSE Append(a, p), <<>>, parts)
  IN  IF LastKind(kept) = "blank" THEN Front(kept) ELSE kept

\* Adds the words to the last part.
JoinLast(parts, ws) == [parts EXCEPT ![Len(parts)].line.ws = @ \o ws]

\* One line of the docstring more.  Lines under an example heading or after `::`
\* that are deeper than it, and doctests up to a blank line, are kept as written.
ReadLine(acc, l) ==
  IF IsBlank(l)
  THEN [acc EXCEPT !.section = FALSE, !.doctest = FALSE, !.entry = -1,
                   !.parts = Append(@, Part("blank", BlankLine))]
  ELSE LET example == IF acc.example >= 0 /\ l.in <= acc.example THEN -1 ELSE acc.example
           doctest == acc.doctest \/ StartsDoctest(l)
           at == [acc EXCEPT !.example = example, !.doctest = doctest]
           flat == Line(0, l.ws)
           after == IF l.ws[Len(l.ws)] = "::" THEN l.in ELSE example
       IN  IF example >= 0 \/ doctest
           THEN [at EXCEPT !.parts = Append(@, Part("kept", l))]
           ELSE IF l.in = 0 /\ IsHeading(l)
           THEN [at EXCEPT !.parts = Append(@, Part("heading", flat)),
                           !.section = l.ws[1] \notin ExampleHeadings,
                           !.example = IF l.ws[1] \in ExampleHeadings THEN 0 ELSE -1]
           ELSE IF at.section /\ (at.entry = -1 \/ l.in <= at.entry)
           THEN [at EXCEPT !.entry = l.in, !.example = after,
                           !.parts = Append(@, Part("entry", flat))]
           ELSE IF LastKind(at.parts) \in {"entry", "paragraph"}
           THEN [at EXCEPT !.parts = JoinLast(@, l.ws), !.example = after]
           ELSE [at EXCEPT !.parts = Append(@, Part(IF at.section THEN "entry" ELSE "paragraph", flat)),
                           !.example = after]

ReadDocstringParts(body) ==
  TrimBlankParts(FoldLeft(ReadLine,
    [parts |-> <<>>, example |-> -1, entry |-> -1, section |-> FALSE, doctest |-> FALSE], body).parts)

\* One line of the words the user or the agent edited more.
ReadPlainLine(acc, l) ==
  LET doctest == ~IsBlank(l) /\ (acc.doctest \/ StartsDoctest(l))
      at == [acc EXCEPT !.doctest = doctest]
      flat == Line(0, l.ws)
  IN  IF IsBlank(l)
      THEN [at EXCEPT !.section = FALSE, !.parts = Append(@, Part("blank", BlankLine))]
      ELSE IF l.in >= 2 \/ doctest THEN [at EXCEPT !.parts = Append(@, Part("kept", l))]
      ELSE IF IsHeading(l)
      THEN [at EXCEPT !.parts = Append(@, Part("heading", flat)),
                      !.section = l.ws[1] \notin ExampleHeadings]
      ELSE IF at.section THEN [at EXCEPT !.parts = Append(@, Part("entry", flat))]
      ELSE IF LastKind(at.parts) = "paragraph" THEN [at EXCEPT !.parts = JoinLast(@, l.ws)]
      ELSE [at EXCEPT !.parts = Append(@, Part("paragraph", flat))]

ReadPlainParts(words) ==
  TrimBlankParts(FoldLeft(ReadPlainLine,
    [parts |-> <<>>, section |-> FALSE, doctest |-> FALSE], words).parts)

ToPlainDocstring(body) ==
  LET parts == ReadDocstringParts(body)
  IN  [i \in DOMAIN parts |-> parts[i].line]

\* Paragraphs wrap, the first after the quotes; entries are deeper than their
\* heading, and their later lines deeper still.
WrapFirstAndRest(ws, first, rest) ==
  IF Len(ws) <= first THEN <<ws>>
  ELSE <<SubSeq(ws, 1, first)>> \o WrapWords(SubSeq(ws, first + 1, Len(ws)), rest)
WritePart(part, number, width) ==
  CASE part.kind = "paragraph" ->
         LET ws == WrapFirstAndRest(part.line.ws, IF number = 1 THEN width - 1 ELSE width, width)
         IN  [i \in DOMAIN ws |-> Line(0, ws[i])]
    [] part.kind = "entry" ->
         LET ws == WrapFirstAndRest(part.line.ws, width - 1, width - 2)
         IN  [i \in DOMAIN ws |-> Line(IF i = 1 THEN 4 ELSE 8, ws[i])]
    [] OTHER -> <<part.line>>
WriteDocstring(parts, width) ==
  FoldLeft(LAMBDA a, i : a \o WritePart(parts[i], i, width), <<>>, [i \in DOMAIN parts |-> i])

LayOutDocstring(words, width) == WriteDocstring(ReadPlainParts(words), width)
=============================================================================
