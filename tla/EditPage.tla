------------------------------ MODULE EditPage ------------------------------
(***************************************************************************)
(* One comment through its rewordings: an agent writes it line by line,    *)
(* the Comment Edit Page shows it as plain words, the user edits them, and *)
(* the saved words are laid out as the comment's new text, over and over.  *)
(***************************************************************************)
EXTENDS Docstrings

CONSTANTS
  Style,      \* "line" or "docstring"
  Bodies,     \* the lines an agent writes
  MaxLines,   \* the most lines it writes
  MaxEdits,   \* the most changes the user makes
  Width       \* the most words on a line

PageAssumption == /\ Style \in {"line", "docstring"}
                         /\ MaxLines \in Nat /\ MaxEdits \in Nat /\ Width \in Nat /\ Width > 2

VARIABLES
  text,     \* the comment's lines
  page,     \* the words on the open page
  shown,    \* the words it was opened with
  open,     \* is the page open
  wrote,    \* did glimmer lay the text out
  edits,    \* changes the user made
  changed   \* what the user changed on this page: nothing, sentences, or more

vars == <<text, page, shown, open, wrote, edits, changed>>

ToPlain(t) == IF Style = "line" THEN ToPlainLines(t) ELSE ToPlainDocstring(t)
LayOut(ws) == IF Style = "line" THEN LayOutLines(ws, Width) ELSE LayOutDocstring(ws, Width)

Init ==
  /\ text = <<>> /\ page = <<>> /\ shown = <<>>
  /\ open = FALSE /\ wrote = FALSE
  /\ edits = 0 /\ changed = "nothing"

AgentWrites(l) ==
  /\ ~open /\ ~wrote /\ Len(text) < MaxLines
  /\ text' = Append(text, l)
  /\ UNCHANGED <<page, shown, open, wrote, edits, changed>>

OpenPage ==
  /\ ~open /\ JoinWords(text) # <<>>
  /\ shown' = ToPlain(text)
  /\ page' = ToPlain(text)
  /\ open' = TRUE /\ changed' = "nothing"
  /\ UNCHANGED <<text, wrote, edits>>

\* Blanks around the words go, those before the first line's words too.
DropBlankFirst(ls) ==
  LET first == CHOOSE i \in 1..Len(ls) + 1 : /\ \A j \in 1..i - 1 : IsBlank(ls[j])
                                            /\ i <= Len(ls) => ~IsBlank(ls[i])
  IN  SubSeq(ls, first, Len(ls))
DropBlankLast(ls) == Reverse(DropBlankFirst(Reverse(ls)))
Trim(ls) ==
  LET kept == DropBlankLast(DropBlankFirst(ls))
  IN  IF kept = <<>> THEN kept ELSE [kept EXCEPT ![1].in = 0]

\* What is kept line by line: fences and examples, doctests and headings.  Fences are
\* found by their marks alone.  Where a line of a fence starts does not count here,
\* nor do blank lines at the end of a fence that nothing closes.
InFence(t) ==
  LET mark[i \in 0 .. Len(t)] ==
        IF i = 0 THEN "none"
        ELSE IF mark[i - 1] = "none" THEN FenceMark(t[i])
        ELSE IF FenceMark(t[i]) = mark[i - 1] THEN "none" ELSE mark[i - 1]
  IN  {i \in DOMAIN t : mark[i - 1] # "none" \/ FenceMark(t[i]) # "none"}
Loosen(t) ==
  IF Style = "line" THEN [i \in DOMAIN t |-> IF i \in InFence(t) THEN Line(0, t[i].ws) ELSE t[i]] ELSE t
At(t, is) == FoldLeft(LAMBDA a, i : IF i \in is THEN Append(a, t[i]) ELSE a,
                      <<>>, [i \in DOMAIN t |-> i])
KeptLines(t) == DropBlankLast(At(Loosen(t), {i \in DOMAIN t : i \in InFence(t) \/ IsExample(t[i])}))
KeptParts(parts) == SelectSeq(parts, LAMBDA p : p.kind \in {"kept", "heading"})
KeptInText(t) == IF Style = "line" THEN KeptLines(t) ELSE KeptParts(ReadDocstringParts(t))
KeptOnPage(ws) == IF Style = "line" THEN KeptLines(ws) ELSE KeptParts(ReadPlainParts(ws))

\* The user adds a word to a line or takes a line out.
Edit(to) ==
  /\ open /\ edits < MaxEdits
  /\ page' = to /\ edits' = edits + 1
  /\ changed' = IF changed # "more" /\ KeptOnPage(to) = KeptOnPage(page) THEN "sentences" ELSE "more"
  /\ UNCHANGED <<text, shown, open, wrote>>
AddWord(i) == ~IsBlank(page[i]) /\ Edit([page EXCEPT ![i].ws = Append(@, "w")])
DropLine(i) == Edit(RemoveAt(page, i))

\* Unchanged words answer nothing and no words are refused; others are laid out.
Save ==
  /\ open /\ open' = FALSE
  /\ IF Trim(page) \in {Trim(shown), <<>>}
     THEN UNCHANGED <<text, wrote>>
     ELSE text' = LayOut(Trim(page)) /\ wrote' = TRUE
  /\ UNCHANGED <<page, shown, edits, changed>>

\* The agent's reword is laid out as it is.
AgentRewords ==
  /\ ~open /\ JoinWords(text) # <<>>
  /\ text' = LayOut(ToPlain(text)) /\ wrote' = TRUE
  /\ UNCHANGED <<page, shown, open, edits, changed>>

Next ==
  \/ \E l \in Bodies : AgentWrites(l)
  \/ OpenPage \/ Save \/ AgentRewords
  \/ \E i \in DOMAIN page : AddWord(i) \/ DropLine(i)

Spec == Init /\ [][Next]_vars

-----------------------------------------------------------------------------
\* Properties.

\* No line of a docstring that glimmer lays out is too long, unless it is kept as
\* written; code in a fence of a line comment always is.
FitsWidth(t) == Style = "docstring" => \A i \in DOMAIN t : t[i].in < 2 => Len(t[i].ws) <= Width

\* A comment glimmer laid out and shows again as plain words comes back as the
\* same comment: no reword drops an example, a section or a line of it
\* (comments.rs:1539).  Only a line in a fence may start elsewhere.
Rebuilt(t) == Loosen(LayOut(ToPlain(t))) = Loosen(t)

\* Words as they are read from the page, joined and spaced.
Plainly(ws) ==
  IF Style = "line" THEN ToPlainLines(ws)
  ELSE LET parts == ReadPlainParts(ws) IN [i \in DOMAIN parts |-> parts[i].line]

\* No sentence, entry or example the user saved is another on the comment's next page
\* (comments.rs:60 and 124).
ShownAgain == Save /\ text' # text => Loosen(ToPlain(text')) = Loosen(Plainly(Trim(page)))

\* The words of the comment are those of the page it is shown on, and the words a
\* save or a reword lays out are all in the new text, in their order: counted on the
\* lines as they are, whatever blocks and parts the code reads them as.
NoWordLost ==
  /\ OpenPage => JoinWords(page') = JoinWords(text)
  /\ Save /\ text' # text => JoinWords(text') = JoinWords(page)
  /\ AgentRewords => JoinWords(text') = JoinWords(text)

\* A line in a fence starts at most a column from where it did: code deeper than one
\* column loses one on each rewording (line_comments.rs:148).
FenceStarts(t) == LET kept == At(t, InFence(t)) IN [n \in DOMAIN kept |-> kept[n].in]
Near(t, u) == \A n \in DOMAIN FenceStarts(t) \cap DOMAIN FenceStarts(u) :
                FenceStarts(u)[n] - FenceStarts(t)[n] \in {-1, 0, 1}

\* The page shows every example, fence and heading of a comment, and a user who
\* changes only sentences leaves them as they were (line_comments.rs:91): but for a
\* page that starts with blanks, which the save takes (in_place.rs:137).
SameKept == KeptInText(text') = KeptInText(text) /\ (Style = "line" => Near(text, text'))
StartsDeep(ws) == LET ls == DropBlankFirst(ws) IN ls # <<>> /\ ls[1].in > 0
ExamplesKept ==
  /\ OpenPage => KeptOnPage(page') = KeptInText(text)
  /\ Save /\ changed = "sentences" /\ ~StartsDeep(page) => SameKept
  /\ AgentRewords => SameKept

\* A step of the page loses no word of the comment.
WordsKept == (wrote' => FitsWidth(text') /\ Rebuilt(text')) /\ ShownAgain /\ NoWordLost
=============================================================================
