----------------------------- MODULE StyleCheck -----------------------------
(***************************************************************************)
(* Step 2 of glimmer, which fails a branch that changes approved comments  *)
(* or breaks a style rule on a changed line, with the branch it checks:    *)
(* the agent writes, removes and moves comments and definitions, the user  *)
(* keeps or rewords what a clean check lets them review.                   *)
(***************************************************************************)
EXTENDS StyleText

CONSTANTS
  Files, Language,   \* the files, and the language of each
  LongNames,         \* names of more than seven words
  Tests,             \* names of tests
  Verbless,          \* names that start with no verb
  Bases,             \* what the files may hold at the base
  Earlier,           \* decisions of earlier reviews
  Blocks,            \* lines the agent may write
  Texts,             \* texts a comment may get
  MaxEdits           \* bound: edits of the branch and answers of the user

ASSUME StyleCheckAssumption ==
  /\ MaxEdits \in Nat
  /\ Language \in [Files -> {"python", "rust"}]

VARIABLES
  base,      \* the files at the base
  disk,      \* and on disk
  approved,  \* the decisions, oldest first
  found,     \* what the check found, or {} while `checked` is FALSE
  checked,   \* is `found` about the files as they are?
  put,       \* history: where the last edit put a reword, or none
  edits      \* edits and answers so far
vars == <<base, disk, approved, found, checked, put, edits>>

Nowhere == [file |-> "none", first |-> 0]

Rules(f) ==
  {"filler", "restated_name", "starts_with_name"}
  \cup IF Language[f] = "rust" THEN {}
       ELSE {"comment_length", "comment_colon", "seven_words", "verb_first", "docstring",
             "summary_line", "test_why", "section_heading"}

Decision(f, name, text) == [file |-> f, name |-> name, text |-> text]

Compare(f, c) ==
  LET its == SelectSeq(approved, LAMBDA d : d.file = f /\ d.name = c.name)
  IN  CASE c.name = NoName \/ its = <<>> -> "undecided"
        [] c.name # NoName /\ its # <<>> /\ Last(its).text = <<>> -> "was_cut"
        [] OTHER -> IF \E d \in ToSet(its) : d.text = c.text THEN "approved" ELSE "differs"

-----------------------------------------------------------------------------
\* What the changed files held at the base, by language.

ChangedFiles == {f \in Files : base[f] # disk[f]}
SameLanguage(f) == {g \in ChangedFiles : Language[g] = Language[f]}
SentencesAtBase(f) ==
  UNION {UNION {Sentences(Prose(c)) : c \in Comments(base[g])} : g \in SameLanguage(f)}
NamesAt(files) == UNION {{d.name : d \in Definitions(base[g])} : g \in files}
NamesAtBase(f) == NamesAt(SameLanguage(f))
GoneNames(f) == NamesAt({g \in SameLanguage(f) : disk[g] = Absent})

\* Step 5 counts no text as old.
TextAtBase(f) ==
  [sentences |-> SentencesAtBase(f), names |-> NamesAtBase(f), gone |-> GoneNames(f),
   held |-> base[f] # Absent]
NoText == [sentences |-> {}, names |-> {}, gone |-> {}, held |-> FALSE]

-----------------------------------------------------------------------------
\* The rules one comment breaks, each with the sentences that break it.

Match(rule, ss) == [rule |-> rule, sentences |-> ss]
NonEmpty(matches) == {b \in matches : b.sentences # {}}

\* A sentence about the code starts with "This" or its name.
IsAboutCode(s, name) == s[1] = "This" \/ (name # NoName /\ s[1] = name[2])
UnmarkedSentences(f, c) ==
  IF Language[f] = "python" THEN JoinUnfilteredLines(c) ELSE Prose(c)
FirstOf(ws) == IF ws = <<>> THEN {} ELSE {FirstSentence(ws)}
BrokenBy(c, isApproved, ws, first, unmarked) ==
  LET named == c.name # NoName
  IN  {Match("restated_name", {s \in first : ~isApproved /\ named /\ c.name[2] \in ToSet(s)}),
       Match("filler", {s \in Sentences(ws) : IsAboutCode(s, c.name)
                                              /\ ToSet(s) \cap Fillers # {}}),
       Match("starts_with_name", {s \in first : named /\ s[1] = c.name[2]})}
      \cup IF c.style = "doc" THEN {}
           ELSE {Match("comment_length", IF Cardinality(SplitSentences(unmarked)) > 2
                                         THEN Sentences(unmarked) ELSE {}),
                 Match("comment_colon", {s \in Sentences(unmarked) : ToSet(s) \cap Colons # {}})}
RuleMatches(f, c, isApproved) ==
  NonEmpty(BrokenBy(c, isApproved, Prose(c), FirstOf(Prose(c)), UnmarkedSentences(f, c)))

Finding(f, name, line, rule, outcome) ==
  [file |-> f, name |-> name, line |-> line, rule |-> rule, outcome |-> outcome]

CommentOutcome(f, now, c, old, decision, b) ==
  CASE decision = "approved" -> "approved"
    [] decision # "approved" /\ IsHeader(now, c) -> "header"
    [] decision # "approved" /\ ~IsHeader(now, c) /\ b.sentences \subseteq old.sentences -> "existing"
    [] OTHER -> IF b.rule = "restated_name" THEN "report_only" ELSE "fails"
CommentIssues(f, now, c, old, decision) ==
  IF decision = "differs" THEN {}
  ELSE {Finding(f, c.name, c.first, b.rule, CommentOutcome(f, now, c, old, decision, b)) :
          b \in {m \in RuleMatches(f, c, decision = "approved") :
                   /\ m.rule \in Rules(f)
                   /\ ~(m.rule = "restated_name" /\ m.sentences \subseteq old.sentences)}}

\* The rules a docstring's text breaks.
CountParagraphs(text) ==
  Cardinality({i \in DOMAIN text : ~IsBlank(text[i]) /\ (i = 1 \/ IsBlank(text[i - 1]))})
DocstringRules(text, isTest) ==
  {r \in {"summary_line", "test_why", "section_heading"} :
     CASE r = "summary_line" -> \/ IsBlank(text[1])
                                \/ Len(text) > 1 /\ ~IsBlank(text[2])
       [] r = "test_why" -> isTest /\ CountParagraphs(text) < 2
       [] r = "section_heading" -> \E i \in 2 .. Len(text) :
                                      ~IsBlank(text[i]) /\ text[i].ws[1] = "Why:"}
DocText(d) == [i \in DOMAIN d.doc |-> d.doc[i].txt]

NameIssues(f, d, old) ==
  IF d.name \in old.names THEN {}
  ELSE (IF d.name \in LongNames THEN {Finding(f, <<"def", d.name>>, Min(d.own), "seven_words", "fails")}
        ELSE {})
       \cup (IF d.name \in Verbless \ Tests
             THEN {Finding(f, <<"def", d.name>>, Min(d.own), "verb_first", "report_only")} ELSE {})

\* A docstring is found again among the comments by its name.
DocstringIssues(f, now, d, old) ==
  LET its == {c \in Comments(now) : c.style = "doc" /\ c.name = <<"doc", d.name>>}
      decision == IF its = {} THEN "none" ELSE Compare(f, CHOOSE c \in its : TRUE)
      isOld == \E c \in its : Sentences(Prose(c)) \subseteq old.sentences
      moved == ~old.held /\ d.name \in old.gone
      outcome == CASE decision = "approved" -> "approved"
                   [] decision # "approved" /\ isOld -> "existing"
                   [] OTHER -> "fails"
      At(rule, out) == Finding(f, <<"def", d.name>>, Min(d.own), rule, out)
  IN  IF d.doc = <<>> THEN {At("docstring", IF moved THEN "existing" ELSE "fails")}
      ELSE IF decision = "differs" THEN {}
      ELSE {At(r, outcome) : r \in DocstringRules(DocText(d), d.name \in Tests)}

FileStyleIssues(f, now, changed, old) ==
  IF IsGenerated(now) THEN {}
  ELSE UNION {CommentIssues(f, now, c, old, Compare(f, c)) :
                c \in {k \in Comments(now) : k.lines \cap changed # {}}}
       \cup {i \in UNION {NameIssues(f, d, old)
                          \cup (IF d.own \cap changed = {} THEN {}
                                ELSE DocstringIssues(f, now, d, old)) :
                            d \in Definitions(now)} : i.rule \in Rules(f)}

\* A reword is a new comment the user has not seen, whatever was decided.
RewordFailures(f, now, c) ==
  {i \in CommentIssues(f, now, c, NoText, "undecided") : i.outcome = "fails"}
  \cup {Finding(f, <<"def", d.name>>, Min(d.own), r, "fails") :
          <<d, r>> \in {p \in Definitions(now) \X {"summary_line", "test_why", "section_heading"} :
                          /\ c.style = "doc" /\ c.first \in p[1].own /\ p[1].doc # <<>>
                          /\ p[2] \in DocstringRules(DocText(p[1]), p[1].name \in Tests) \cap Rules(f)}}

-----------------------------------------------------------------------------
\* Approved comments the branch changed, or removed from code that stays.

\* Mutant: a comment that was there under its name counts as unchanged.
ChangedApprovedByName(f) ==
  {Finding(f, c.name, c.first, "approved", "fails") :
     c \in {k \in Comments(disk[f]) :
              /\ \A b \in Comments(base[f]) : b.name # k.name
              /\ Compare(f, k) = "differs"}}
ChangedApproved(f) ==
  {Finding(f, c.name, c.first, "approved", "fails") :
     c \in {k \in Comments(disk[f]) : ~HasSame(Comments(base[f]), k) /\ Compare(f, k) = "differs"}}
RemovedApproved(f) ==
  {Finding(f, c.name, 0, "approved_removed", "fails") :
     c \in {k \in Comments(base[f]) :
              /\ k.name # NoName /\ Compare(f, k) = "approved"
              /\ \A n \in Comments(disk[f]) : n.name # k.name
              /\ FindsCode(disk[f], k.name)}}

Failures == {i \in found : i.outcome = "fails"}
CleanCheck == checked /\ Failures = {}

Init ==
  /\ base \in Bases /\ disk = base /\ approved \in Earlier
  /\ found = {} /\ checked = FALSE /\ put = Nowhere /\ edits = 0

CheckComments ==
  /\ ~checked
  /\ \E changed \in [ChangedFiles -> UNION {ListChangedLines(base[f], disk[f]) : f \in ChangedFiles}] :
       /\ \A f \in ChangedFiles : changed[f] \in ListChangedLines(base[f], disk[f])
       /\ found' = UNION {ChangedApproved(f) \cup RemovedApproved(f)
                          \cup (IF disk[f] = Absent THEN {}
                                ELSE FileStyleIssues(f, disk[f], changed[f], TextAtBase(f))) :
                            f \in ChangedFiles}
  /\ checked' = TRUE
  /\ UNCHANGED <<base, disk, approved, put, edits>>

-----------------------------------------------------------------------------
\* The branch.  An edit makes the last check stale.

Stale == checked' = FALSE /\ found' = {}
Edited(trees) ==
  /\ edits < MaxEdits /\ edits' = edits + 1
  /\ disk' = trees /\ disk' # disk
  /\ put' = Nowhere /\ Stale
  /\ UNCHANGED <<base, approved>>

\* Where a block may go: never between a definition and what belongs to it.
Gaps(ls) == {i \in 1 .. Len(ls) + 1 : i > Len(ls) \/ ls[i].kind \notin {"doc", "body"}}
InsertLines(ls, i, b) == SubSeq(ls, 1, i - 1) \o b \o SubSeq(ls, i, Len(ls))
CutLines(ls, is) == SubSeq(ls, 1, Min(is) - 1) \o SubSeq(ls, Max(is) + 1, Len(ls))
Retexted(ls, c, text) ==
  InsertLines(CutLines(ls, c.lines), c.first,
              [i \in DOMAIN text |-> FileLine(c.style, text[i])])

WriteBlock(f) ==
  \E b \in Blocks, i \in Gaps(LinesOf(disk[f])) :
    Edited([disk EXCEPT ![f] = InsertLines(LinesOf(disk[f]), i, b)])
ChangeText(f) ==
  \E c \in Comments(disk[f]), t \in Texts :
    Edited([disk EXCEPT ![f] = Retexted(disk[f], c, t)])
RemoveComment(f) ==
  \E c \in Comments(disk[f]) : Edited([disk EXCEPT ![f] = CutLines(disk[f], c.lines)])

\* A definition goes to the end of another file, with the comment above it.
Upper(ls, d) ==
  LET above == {c \in Comments(ls) : c.style = "#" /\ Max(c.lines) + 1 = Min(d.own)}
  IN  d.own \cup UNION {c.lines : c \in above}
MoveDefinition(f, g) ==
  \E d \in Definitions(disk[f]) :
    LET is == Upper(disk[f], d)
        moved == SubSeq(disk[f], Min(is), Max(is))
        left == CutLines(disk[f], is)
    IN  Edited([disk EXCEPT ![f] = left, ![g] = @ \o moved])
MoveFile(f, g) ==
  /\ disk[f] # Absent /\ disk[g] = Absent
  /\ Edited([disk EXCEPT ![f] = Absent, ![g] = disk[f]])

\* The user keeps a comment of a branch that passes the check.
Keep(f) ==
  /\ CleanCheck /\ edits < MaxEdits /\ edits' = edits + 1
  /\ \E c \in Comments(disk[f]) :
       /\ c.name # NoName /\ Compare(f, c) # "approved"
       /\ approved' = Append(approved, Decision(f, c.name, c.text))
  /\ put' = Nowhere /\ Stale
  /\ UNCHANGED <<base, disk>>

\* Or takes the agent's reword of one, which step 5 let through.
Reword(f) ==
  /\ CleanCheck /\ edits < MaxEdits /\ edits' = edits + 1
  /\ \E c \in Comments(disk[f]), t \in Texts :
       LET now == Retexted(disk[f], c, t)
           its == CHOOSE k \in Comments(now) : k.first = c.first
       IN  /\ t # c.text /\ RewordFailures(f, now, its) = {}
           /\ disk' = [disk EXCEPT ![f] = now]
           /\ put' = [file |-> f, first |-> c.first]
           /\ approved' = IF c.name = NoName THEN approved
                          ELSE Append(approved, Decision(f, c.name, t))
  /\ Stale
  /\ UNCHANGED base

Next ==
  \/ CheckComments
  \/ \E f \in Files : \/ WriteBlock(f) \/ Keep(f)
                      \/ disk[f] # Absent /\ (ChangeText(f) \/ RemoveComment(f) \/ Reword(f))
  \/ \E f, g \in Files : f # g /\ disk[f] # Absent
                         /\ (MoveFile(f, g) \/ (disk[g] # Absent /\ MoveDefinition(f, g)))

Spec == Init /\ [][Next]_vars

-----------------------------------------------------------------------------
\* Properties.

\* The check's state; what it found is about files and rules that are there.
TypeOK ==
  /\ DOMAIN disk = Files /\ edits \in 0 .. MaxEdits /\ checked \in BOOLEAN
  /\ \A i \in found : i.file \in Files
                      /\ i.rule \in Rules(i.file) \cup {"approved", "approved_removed"}
  /\ ~checked => found = {}
  /\ put # Nowhere => put.file \in Files

FailuresIn(f) == {i \in Failures : i.file = f}

\* Text the branch only moved or left: every comment and definition of its
\* files was in a changed file of the language at the base.
OldComment(f, c) ==
  \E g \in SameLanguage(f) : \E b \in Comments(base[g]) : b.style = c.style /\ b.text = c.text
OldText(f) ==
  /\ \A c \in Comments(disk[f]) : OldComment(f, c)
  /\ \A d \in Definitions(disk[f]) : d.name \in NamesAtBase(f)

\* Old comments and names never fail a style rule, wherever the branch moved
\* them; a definition in a file that was there may still need a docstring.
\* The agent may not change such text, so a failure would leave it stuck.
OldTextPasses ==
  checked => \A f \in Files : OldText(f) =>
    \A i \in FailuresIn(f) : i.rule \in {"docstring", "approved", "approved_removed"}

\* A file that was only moved passes whole, definitions without docstrings too.
MovedFilePasses ==
  checked => \A f, g \in Files :
    (/\ base[f] = Absent /\ disk[f] # Absent /\ disk[f] = base[g] /\ disk[g] = Absent
     /\ Language[f] = Language[g] /\ \A k \in 1 .. Len(approved) : approved[k].file # f)
    => FailuresIn(f) = {}

\* A comment with a colon in a sentence the branch wrote does not get past the
\* check, unless the user approved its very text: approved text that changed is
\* left to the other half of the check, which leaves old text to this one.
TakenByUser(f, c) ==
  \E k \in 1 .. Len(approved) : approved[k] = Decision(f, c.name, c.text)
NewColonFails ==
  checked => \A f \in ChangedFiles : \A c \in Comments(disk[f]) :
    (/\ c.style = "#" /\ Language[f] = "python" /\ ~IsGenerated(disk[f]) /\ ~IsHeader(disk[f], c)
     /\ ~TakenByUser(f, c)
     /\ \A g \in Files : \A b \in Comments(base[g]) : b.text # c.text
     /\ \E s \in Sentences(Prose(c)) : ToSet(s) \cap Colons # {} /\ s \notin SentencesAtBase(f))
    => \E i \in FailuresIn(f) : i.line = c.first

\* A comment that still holds the text the user approved, under its code, is
\* never reported as changed or removed.
ApprovedNotBlamed ==
  checked => \A f \in Files : disk[f] # Absent =>
    \A b \in Comments(base[f]) :
      (/\ Compare(f, b) = "approved"
       /\ \E r \in Runs(disk[f], {"#"}) \cup Runs(disk[f], {"doc"}) :
            /\ RunName(disk[f], r) = b.name
            /\ [i \in 1 .. r[2] - r[1] + 1 |-> disk[f][r[1] + i - 1].txt] = b.text)
      => \A i \in FailuresIn(f) : ~(i.name = b.name /\ i.rule \in {"approved", "approved_removed"})

\* A generated file, whose text its generator writes back, fails no style rule.
GeneratedPasses ==
  checked => \A f \in Files : IsGenerated(disk[f]) =>
    \A i \in FailuresIn(f) : i.rule \in {"approved", "approved_removed"}

\* A reword that step 5 let through, as one with no old text to excuse it, does
\* not fail the check once it is written.
RewordStaysClean ==
  (checked /\ put # Nowhere) =>
    \A i \in FailuresIn(put.file) : i.line # put.first \/ i.rule = "docstring"

\* What is not the branch's own new text does not fail.
FailsFairly == TypeOK /\ OldTextPasses /\ MovedFilePasses /\ GeneratedPasses

\* What the two halves of the check leave to each other falls to one of them.
MissesNothing == NewColonFails /\ ApprovedNotBlamed /\ RewordStaysClean
=============================================================================
