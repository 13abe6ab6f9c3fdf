--------------------------- MODULE CommentReview ---------------------------
(***************************************************************************)
(* The comments of one file through reviews of it: the agent builds and    *)
(* sends a Feedback Request List from what it reads on disk, the user      *)
(* answers, the file is edited meanwhile, and step 7 writes the answers.   *)
(* ReviewSession models who may do what when, with comments that keep      *)
(* their identity; here a comment is only what a reader finds in the file. *)
(***************************************************************************)
EXTENDS FileComments

CONSTANTS
  Bases,      \* what the file may hold at the task's base
  Files,      \* and on disk when the agent first asks
  Earlier,    \* decisions of earlier reviews
  AgentLines, \* lines the agent may write
  Rewords,    \* texts the user may give a comment
  UserNotes,  \* does the user write notes?
  MaxEdits,   \* bound: edits after the first list
  MaxLists    \* bound: lists sent

CommentReviewAssumption == /\ MaxEdits \in Nat /\ MaxLists \in Nat
                                  /\ UserNotes \in BOOLEAN /\ None \notin Names

VARIABLES
  base,      \* the file at the task's base
  file,      \* the file on disk
  approved,  \* the decisions, oldest first
  status,    \* of the Review Session
  requests,  \* the newest version of each request, by ID
  feedback,  \* what the user said to each
  edits, lists,
  sent       \* history: the file when the newest list was sent

vars == <<base, file, approved, status, requests, feedback, edits, lists, sent>>

Decision(name, text) == [name |-> name, text |-> text]
Feedback(kind, text) == [kind |-> kind, text |-> text]
NoFeedback == Feedback(None, <<>>)
Keep == Feedback("keep", <<>>)
Cut == Feedback("cut", <<>>)
UserNote == Feedback("note", <<>>)
Answers == {Keep, Cut} \cup {Feedback("edit", t) : t \in Rewords}
MayTake(r, f) == f.kind = "edit" => r.reword
FeedbackFor(r) == {f \in Answers : MayTake(r, f)}
                  \cup (IF UserNotes THEN {UserNote} ELSE {})

Init ==
  /\ base \in Bases /\ file \in Files /\ approved \in Earlier
  /\ status = None /\ requests = <<>> /\ feedback = <<>>
  /\ edits = 0 /\ lists = 0 /\ sent = <<>>

-----------------------------------------------------------------------------
\* What steps 2 and 3 make of a comment.

Compare(ds, c) ==
  LET its == SelectSeq(ds, LAMBDA d : d.name = c.name)
  IN  CASE c.name = None \/ its = <<>> -> "undecided"
        [] c.name # None /\ its # <<>> /\ Last(its).text = <<>> -> "was_cut"
        [] OTHER -> IF \E d \in ToSet(its) : d.text = c.text THEN "approved" ELSE "differs"

NeedsFeedback(before, c) ==
  LET match == Compare(approved, c)
  IN  match \in {"was_cut", "differs"} \/ (match = "undecided" /\ ~HasSame(before, c))

\* Step 2 fails on an approved comment that was changed, or removed from code that is left.
RewordsApproved(before, now) ==
  \E c \in ToSet(now) : ~HasSame(before, c) /\ Compare(approved, c) = "differs"
RemovesApproved(before, now) ==
  \E c \in ToSet(before) : /\ c.name # None /\ Compare(approved, c) = "approved"
                           /\ \A d \in ToSet(now) : d.name # c.name
                           /\ FindsCode(file, c.name)
CheckPasses(before, now) == ~RewordsApproved(before, now) /\ ~RemovesApproved(before, now)

\* The agent may ask to change an approved comment.
MayAskToChange(now, name) ==
  \E c \in ToSet(now) : c.name = name /\ Compare(approved, c) = "approved" /\ CanReword(c.style)

ToRequest(c) ==
  [name |-> c.name, text |-> c.text, reword |-> CanReword(c.style), line |-> c.line]

InIdOrder(f) ==
  IF f = <<>> THEN <<>>
  ELSE SelectSeq([i \in 1 .. Max(DOMAIN f) |-> i], LAMBDA i : i \in DOMAIN f)
Sent == [k \in 1 .. Cardinality(DOMAIN requests) |-> requests[InIdOrder(requests)[k]]]
IdOf(k) == InIdOrder(requests)[k]
IsNoted(i) == feedback[i].kind = "note"
MaxId == IF requests = <<>> THEN 0 ELSE Max(DOMAIN requests)

\* The comments to ask about, as indices in file order.
Found(before, now, change) ==
  SelectSeq([c \in 1 .. Len(now) |-> c],
            LAMBDA c : NeedsFeedback(before, now[c]) \/ (now[c].name = change /\ change # None))
Numbered(now, found, first) ==
  [i \in first .. first + Len(found) - 1 |-> ToRequest(now[found[i - first + 1]])]

\* Requests of the session hold their comments while the text is the one the user saw.
Held(now, m) ==
  {m[k] : k \in {j \in DOMAIN m : m[j] # 0 /\ (IsNoted(IdOf(j)) \/ now[m[j]].text = Sent[j].text)}}
ResendNoted(now, found) ==
  LET m == MatchRequests(now, Sent)
      noted == {k \in DOMAIN m : m[k] # 0 /\ IsNoted(IdOf(k))}
      again == [i \in {IdOf(k) : k \in noted} |->
                  ToRequest(now[m[CHOOSE k \in noted : IdOf(k) = i]])]
      unsent == SelectSeq(found, LAMBDA c : c \notin Held(now, m))
  IN  again @@ Numbered(now, unsent, MaxId + 1)

FeedbackRequestList(before, now, change) ==
  LET found == Found(before, now, change)
  IN  IF status = "notes" THEN ResendNoted(now, found) ELSE Numbered(now, found, 1)

\* A request the list leaves out keeps its answer while its comment holds the
\* text the user answered, and takes its comment's line.
KeptRequests(now, list) ==
  LET m == MatchRequests(now, Sent)
      kept == {k \in DOMAIN m : /\ IdOf(k) \notin DOMAIN list /\ ~IsNoted(IdOf(k))
                                /\ m[k] # 0 /\ now[m[k]].text = Sent[k].text}
  IN  [i \in {IdOf(k) : k \in kept} |->
         [requests[i] EXCEPT !.line = now[m[CHOOSE k \in kept : IdOf(k) = i]].line]]

-----------------------------------------------------------------------------
\* Rewriting the answered requests `rs`, a sequence, as `fs` says.

ChooseNewText(r, f) ==
  CASE f.kind = "keep" -> r.text
    [] f.kind = "cut" -> <<>>
    [] OTHER -> f.text

NewTexts(cs, m, rs, fs) ==
  [c \in 1 .. Len(cs) |->
     IF c \in ToSet(m)
     THEN LET k == CHOOSE k \in DOMAIN m : m[k] = c IN ChooseNewText(rs[k], fs[k])
     ELSE cs[c].text]
RewriteAnswered(tool, rs, fs) ==
  RewriteFile(tool, file, NewTexts(FindComments(file), MatchRequestsOnDisk(file, rs), rs, fs))

AllFound(rs) == 0 \notin ToSet(MatchRequestsOnDisk(file, rs))

\* Step 5 tries the agent's suggestions as step 7 would write them.
\* Mutant: it does not look whether step 7 would find each comment.
CanBeWrittenUnfound(list) ==
  LET ids == InIdOrder(list)
      rs == [k \in 1 .. Len(ids) |-> list[ids[k]]]
  IN  \E fs \in [1 .. Len(ids) -> {Keep, Cut}] : RewriteAnswered("missing", rs, fs) # Refusal
CanBeWritten(list) ==
  LET ids == InIdOrder(list)
      rs == [k \in 1 .. Len(ids) |-> list[ids[k]]]
  IN  /\ AllFound(rs)
      /\ \E fs \in [1 .. Len(ids) -> Answers], tool \in {"missing", "works", "fails"} :
           /\ \A k \in 1 .. Len(ids) : MayTake(rs[k], fs[k])
           /\ RewriteAnswered(tool, rs, fs) # Refusal

-----------------------------------------------------------------------------
SendList ==
  /\ status \in {None, "notes", "done"} /\ lists < MaxLists
  /\ \E change \in Names \cup {None} :
       LET before == FindComments(base)
           now == FindComments(file)
           list == FeedbackRequestList(before, now, change)
           kept == IF status = "notes" THEN KeptRequests(now, list) ELSE <<>>
       IN  /\ CheckPasses(before, now)
           /\ change # None => MayAskToChange(now, change)
           /\ list # <<>> \/ status = "notes"
           /\ CanBeWritten(list)
           /\ requests' = list @@ kept
           /\ feedback' = [i \in DOMAIN list |-> NoFeedback] @@ [i \in DOMAIN kept |-> feedback[i]]
  /\ status' = "waiting" /\ sent' = file /\ lists' = lists + 1
  /\ UNCHANGED <<base, file, approved, edits>>

Unanswered == {i \in DOMAIN requests : feedback[i] = NoFeedback}
NotesWait(fb) == \E i \in DOMAIN fb : fb[i].kind = "note"

\* The user answers what is open; with a note among the answers the review goes
\* back to the agent.
Answer ==
  /\ status = "waiting" /\ Unanswered # {}
  /\ \E f \in [Unanswered -> Answers \cup {UserNote}] :
       /\ \A i \in Unanswered : f[i] \in FeedbackFor(requests[i])
       /\ feedback' = f @@ feedback
       /\ status' = IF NotesWait(feedback') THEN "notes" ELSE status
  /\ UNCHANGED <<base, file, approved, requests, edits, lists, sent>>

\* The user answers otherwise, as after a refusal.
ChangeAnswer(i) ==
  /\ status = "waiting" /\ Unanswered = {}
  /\ \E f \in FeedbackFor(requests[i]) : feedback' = [feedback EXCEPT ![i] = f]
  /\ status' = IF NotesWait(feedback') THEN "notes" ELSE status
  /\ UNCHANGED <<base, file, approved, requests, edits, lists, sent>>

\* Anyone with an editor: the agent answers a note, or the user changes the file.
Edit ==
  /\ status # None /\ edits < MaxEdits
  /\ edits' = edits + 1
  /\ \/ \E i \in 1 .. Len(file) + 1, l \in AgentLines : file' = InsertAt(file, i, l)
     \/ \E i \in 1 .. Len(file) : file' = RemoveAt(file, i)
     \/ \E i \in 1 .. Len(file), l \in AgentLines : file' = ReplaceAt(file, i, l)
  /\ UNCHANGED <<base, approved, status, requests, feedback, lists, sent>>

ReadyToWrite == status = "waiting" /\ Unanswered = {}
Fed == [k \in 1 .. Len(Sent) |-> feedback[IdOf(k)]]

\* A comment without a name has nothing to save its decision under.
Decisions ==
  LET named == SelectSeq([k \in 1 .. Len(Sent) |-> k], LAMBDA k : Sent[k].name # None)
  IN  [n \in 1 .. Len(named) |->
         Decision(Sent[named[n]].name, ChooseNewText(Sent[named[n]], Fed[named[n]]))]

\* A comment that is gone or holds other text sends the file's requests back.
ReturnToAgent ==
  /\ ReadyToWrite /\ ~AllFound(Sent)
  /\ feedback' = [i \in DOMAIN feedback |-> UserNote]
  /\ status' = "notes"
  /\ UNCHANGED <<base, file, approved, requests, edits, lists, sent>>

\* A rewrite that is refused leaves everything as it is.
Write(tool) ==
  /\ ReadyToWrite /\ AllFound(Sent)
  /\ LET lines == RewriteAnswered(tool, Sent, Fed)
     IN  lines # Refusal /\ file' = lines
  /\ approved' = approved \o Decisions
  /\ status' = "done"
  /\ UNCHANGED <<base, requests, feedback, edits, lists, sent>>

Next ==
  \/ SendList
  \/ Answer
  \/ \E i \in DOMAIN requests : ChangeAnswer(i)
  \/ Edit
  \/ ReturnToAgent
  \/ \E tool \in {"missing", "works", "fails"} : Write(tool)

Spec == Init /\ [][Next]_vars

-----------------------------------------------------------------------------
\* Properties.

\* The variables hold what their comments say.
TypeOK ==
  /\ status \in {None, "waiting", "notes", "done"}
  /\ edits \in 0 .. MaxEdits /\ lists \in 0 .. MaxLists
  /\ DOMAIN feedback = DOMAIN requests
  /\ \A i \in DOMAIN requests :
       /\ i \in Nat \ {0}
       /\ requests[i].line \in Nat \ {0} /\ requests[i].text # <<>>
       /\ feedback[i] \in Answers \cup {NoFeedback, UserNote}
  /\ \A d \in ToSet(approved) : d.name \in Names \cup {"<module>"}

\* Matching gives no comment to two requests, and leaves no request and comment
\* that fit and are both nearer to each other than to what they got
\* (FileComments::match_requests in comments.rs).
ClosestFirst ==
  LET cs == FindComments(file) IN IsStable(cs, Sent, MatchRequests(cs, Sent))

\* In a file nobody touched since the list was sent, step 7 finds the comment of
\* every request, those kept from earlier lists too, so no answer comes back to
\* the agent as if its comment had changed (check_suggestions_can_be_written and
\* add_list_after_user_notes).
AnswersFound == status = "waiting" /\ file = sent => AllFound(Sent)

\* Once a list is sent, the requests of the session are about the comments on
\* disk one to one: each comment that needs User Feedback has a request of its
\* own, and each request shows a comment with its name and text at its line
\* (resend_noted_requests and add_list_after_user_notes).
SameComment(r, c) == r.name = c.name /\ r.text = c.text /\ r.line = c.line
EveryoneAsked ==
  status = "waiting" /\ file = sent =>
    LET cs == FindComments(file)
        before == FindComments(base)
        About(c) == {i \in DOMAIN requests : SameComment(requests[i], c)}
    IN  /\ \A c \in ToSet(cs) : NeedsFeedback(before, c) => About(c) # {}
        /\ \A i \in DOMAIN requests : Cardinality({c \in 1 .. Len(cs) : SameComment(requests[i], cs[c])})
                                        >= Cardinality(About(requests[i]))

\* A write leaves the code as it is, and every comment too unless the user saw
\* that very text and answered it, in which case it holds the answer: nothing is
\* joined, lost or moved to another comment, whatever the formatter does
\* (rewrite_file in comments.rs).
OutcomesOf(c) ==
  LET own == {i \in DOMAIN requests : /\ requests[i].name = c.name /\ requests[i].text = c.text
                                      /\ c.name = None => requests[i].line = c.line}
  IN  IF own = {} THEN {c.text} ELSE {ChooseNewText(requests[i], feedback[i]) : i \in own}
WritesOnlyAnswers ==
  LET old == FindComments(file)
      new == FindComments(file')
      Results(k) == {<<old[k].style, t>> : t \in OutcomesOf(old[k])}
      all == UNION {Results(k) : k \in 1 .. Len(old)}
  IN  /\ CodeShape(file') = CodeShape(file)
      /\ \E f \in [1 .. Len(old) -> all] :
           /\ \A k \in 1 .. Len(old) : f[k] \in Results(k)
           /\ [k \in 1 .. Len(new) |-> Shown(new[k])] = SelectSeq(f, LAMBDA p : p[2] # <<>>)

\* A named comment that stays after a write is one the decisions approve, so
\* the next list does not ask about it again (list_decisions and Approvals::compare).
Settles ==
  \A i \in DOMAIN requests, c \in ToSet(FindComments(file')) :
    /\ requests[i].name # None /\ feedback[i].kind # "cut"
    /\ c.name = requests[i].name
    => Compare(approved', c) = "approved"

\* The step of a write does both.
WriteIsRight == status # "done" /\ status' = "done" => WritesOnlyAnswers /\ Settles

\* Each request has its comment and each comment its request, whenever a list is sent.
RequestsFit == TypeOK /\ ClosestFirst /\ AnswersFound /\ EveryoneAsked
=============================================================================
