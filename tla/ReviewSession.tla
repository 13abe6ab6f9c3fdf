--------------------------- MODULE ReviewSession ---------------------------
(***************************************************************************)
(* One worktree's Review Session in glimmer: the agent's calls that build  *)
(* and send a Feedback Request List, the screens that answer it, dismissal *)
(* and restoring, the write of the answers, the decisions it saves, and    *)
(* the waiting list that Ctrl+b e reads.                                   *)
(*                                                                         *)
(* Every operation on review.json holds its lock from the read to the      *)
(* save, so it is one action here.  What happens between two operations    *)
(* is what this module is about: a list is built before it is added, a     *)
(* screen shows what it loaded last, the code is edited at any time.       *)
(***************************************************************************)
EXTENDS Naturals, FiniteSets

CONSTANTS
  Agents,       \* agent calls that may run at the same time
  Screens,      \* open review screens
  NumComments,  \* comments 1..NumComments, numbered in file and line order
  FileOf,       \* the file each is in; files are numbers in their path order
  Named,        \* those whose code gives them a name, which approvals need
  BaseText,     \* what each holds at the task's base
  Texts,        \* the texts a comment can hold
  Gone,         \* no comment there, or no code to have one
  Suggestions,  \* what the agent may suggest: subset of {"keep", "cut"}
  MaxEdits,     \* bound: edits by others
  MaxSends,     \* bound: lists added
  Losses        \* what may go wrong: subset of {"crash", "save", "listing"}

Comments == 1 .. NumComments
Answers == {"keep", "accept"}

ASSUME CommentsAssumption ==
  /\ NumComments \in Nat
  /\ FileOf \in [Comments -> Nat]
  /\ Named \subseteq Comments
  /\ Gone \notin Texts
  /\ BaseText \in [Comments -> Texts \cup {Gone}]
  /\ Suggestions \subseteq {"keep", "cut"}
ASSUME BoundsAssumption == MaxEdits \in Nat /\ MaxSends \in Nat
ASSUME ProcessAssumption == Agents \cap Screens = {}

VARIABLES
  code,     \* what each comment holds on disk
  decided,  \* the approvals file: per comment its approved texts, and if the newest decision is a cut
  sess,     \* review.json
  listed,   \* is the worktree on the waiting list
  agent,    \* each agent call: where it is, what it saw and built
  screen,   \* each screen: where it is, and the requests and notes it loaded last
  edits,    \* edits so far
  sends,    \* history: lists added so far
  shown,    \* history: the texts the user answered, per comment
  missed,   \* history: was the review's last listing cut off, or did it fail
  mixed     \* history: was a list added to a session it was not built from

history == <<shown, missed, mixed>>
vars == <<code, decided, sess, listed, agent, screen, edits, sends, history>>

Request == [c : Comments, text : Texts, sugg : Suggestions]
Feedback == [kind : {"answer"}, answer : Answers, seen : Request] \cup [kind : {"note"}]
Note == [kind |-> "note"]
Statuses == {"none", "waiting", "notes", "writing", "done", "dismissed"}

\* `count` stands for the number of lists, `reqs` for the newest version of each
\* request; nothing reads an older version.
NoSession == [status |-> "none", count |-> 0, reqs |-> <<>>, fb |-> <<>>, werr |-> FALSE]

\* What step 5 remembers of the session to see whether it changed.
Seen(s) == [status |-> s.status, count |-> s.count]

IdleAgent == [pc |-> "idle", seen |-> Seen(NoSession), list |-> <<>>, at |-> 0]
ClosedScreen == [pc |-> "closed", reqs |-> <<>>, noted |-> {}]

Init ==
  /\ code \in [Comments -> Texts \cup {Gone}]
  /\ decided = [c \in Comments |-> [texts |-> {}, cut |-> FALSE]]
  /\ sess = NoSession
  /\ listed = FALSE
  /\ agent = [a \in Agents |-> IdleAgent]
  /\ screen = [s \in Screens |-> ClosedScreen]
  /\ edits = 0
  /\ sends = 0
  /\ shown = [c \in Comments |-> {}]
  /\ missed = FALSE
  /\ mixed = FALSE

-----------------------------------------------------------------------------
\* Functions on parts of a session.

Without(f, S) == [i \in DOMAIN f \ S |-> f[i]]
Over(f, g) == [i \in DOMAIN f \cup DOMAIN g |-> IF i \in DOMAIN g THEN g[i] ELSE f[i]]
IsAnswer(fb, i) == i \in DOMAIN fb /\ fb[i].kind = "answer"
IsNote(fb, i) == i \in DOMAIN fb /\ fb[i].kind = "note"
NotedIn(s) == {i \in DOMAIN s.fb : IsNote(s.fb, i)}
AllFed(s) == DOMAIN s.reqs \subseteq DOMAIN s.fb
AllAnswered(s) == \A i \in DOMAIN s.reqs : IsAnswer(s.fb, i)

Busy(status) == status \in {"waiting", "writing"}

\* How a comment stands against the decisions for its name.
Compare(c) ==
  CASE c \notin Named \/ decided[c] = [texts |-> {}, cut |-> FALSE] -> "undecided"
    [] decided[c].cut -> "was_cut"
    [] ~decided[c].cut /\ code[c] \in decided[c].texts -> "approved"
    [] OTHER -> "differs"

Exists(c) == code[c] # Gone
Unchanged(c) == code[c] = BaseText[c]

\* Step 2 fails on an approved comment that was changed to another text.
CheckPasses == \A c \in Comments : Exists(c) /\ ~Unchanged(c) => Compare(c) # "differs"

NeedsFeedback(c) ==
  /\ Exists(c)
  /\ \/ Compare(c) = "undecided" /\ ~Unchanged(c)
     \/ Compare(c) \in {"was_cut", "differs"}

\* Comments that need User Feedback, and the approved ones among `wants`, which
\* the agent asks to change.
Found(wants) == {c \in Comments : NeedsFeedback(c)} \cup wants

Requests(C, ids, sugg) ==
  [i \in ids |-> [c |-> C[i], text |-> code[C[i]], sugg |-> sugg[C[i]]]]

\* `S` in file and line order, numbered from `first`.
Numbered(S, first) ==
  [i \in first .. (first + Cardinality(S) - 1) |->
     CHOOSE c \in S : Cardinality({d \in S : d < c}) = i - first]

MaxId(reqs) == IF DOMAIN reqs = {} THEN 0
               ELSE CHOOSE i \in DOMAIN reqs : \A j \in DOMAIN reqs : j <= i

\* Two requests of a session may ask about one comment.  Which of them finds it
\* while it holds `text`: the first, of those with its text if it has no name.
AskAbout(reqs, c) == {i \in DOMAIN reqs : reqs[i].c = c}
WithText(reqs, c, text) == {i \in AskAbout(reqs, c) : reqs[i].text = text}
Candidates(reqs, c, text) ==
  IF c \in Named \/ WithText(reqs, c, text) = {} THEN AskAbout(reqs, c) ELSE WithText(reqs, c, text)
FindsWith(reqs, i, text) ==
  LET found == Candidates(reqs, reqs[i].c, text)
  IN  i \in found /\ \A j \in found : i <= j
Finds(reqs, i) == Exists(reqs[i].c) /\ FindsWith(reqs, i, code[reqs[i].c])

\* Does the comment request `i` finds hold the text it asks about.
StillSo(reqs, i) == Finds(reqs, i) /\ code[reqs[i].c] = reqs[i].text

\* The comments a list asks about, by ID: the noted requests again under their
\* IDs, and what no request of the session holds under new ones.
ResentNoted(s) == {i \in DOMAIN s.reqs : IsNote(s.fb, i) /\ Finds(s.reqs, i)}
\* Mutant: only noted requests hold their comments.
HeldByNotes(s) == {s.reqs[i].c : i \in ResentNoted(s)}
HeldBy(s) ==
  {s.reqs[i].c : i \in ResentNoted(s) \cup {j \in DOMAIN s.reqs : StillSo(s.reqs, j)}}
ListedComments(s, wants) ==
  IF s.status = "notes"
  THEN Over([i \in ResentNoted(s) |-> s.reqs[i].c],
            Numbered(Found(wants) \ HeldBy(s), MaxId(s.reqs) + 1))
  ELSE Numbered(Found(wants), 1)

\* The waiting list is a file of its own, whose change may fail.
ListingBecomes(b) ==
  \/ listed' = b /\ missed' = FALSE
  \/ "listing" \in Losses /\ UNCHANGED listed /\ missed' = (missed \/ b)

-----------------------------------------------------------------------------
\* The agent's calls.

\* Step 5 looks at the session before it builds the list again.
See(a) ==
  /\ agent[a].pc = "idle"
  /\ agent' = [agent EXCEPT ![a] = [IdleAgent EXCEPT !.pc = "seen", !.seen = Seen(sess), !.at = sends]]
  /\ UNCHANGED <<code, decided, sess, listed, screen, edits, sends, history>>

\* It builds the list, which must be the one the agent was given by step 3, and
\* checks its suggestions.  A new review with nothing to ask about is not sent.
Build(a) ==
  /\ agent[a].pc = "seen"
  /\ \/ /\ ~Busy(sess.status)
        /\ CheckPasses
        /\ \E wants \in SUBSET {c \in Comments : Exists(c) /\ Compare(c) = "approved"},
              sugg \in [Comments -> Suggestions] :
             LET C == ListedComments(sess, wants)
             IN  /\ C # <<>> \/ sess.status = "notes"
                 /\ agent' = [agent EXCEPT ![a] =
                      [@ EXCEPT !.pc = "built", !.list = Requests(C, DOMAIN C, sugg)]]
     \/ /\ Busy(sess.status) \/ ~CheckPasses
        /\ agent' = [agent EXCEPT ![a] = IdleAgent]
  /\ UNCHANGED <<code, decided, sess, listed, screen, edits, sends, history>>

\* An earlier request the list leaves out stays only with an answer to the text
\* its comment still holds.
Kept(s, i) == IsAnswer(s.fb, i) /\ StillSo(s.reqs, i)
LeftOut(s, list) == DOMAIN s.reqs \ DOMAIN list
\* Mutant: every request the list leaves out goes.
DroppedAll(s, list) == LeftOut(s, list)
Dropped(s, list) == {i \in LeftOut(s, list) : ~Kept(s, i)}

AfterNotes(s, list) ==
  [s EXCEPT !.status = "waiting",
            !.count = @ + 1,
            !.reqs = Over(Without(@, Dropped(s, list)), list),
            !.fb = Without(@, Dropped(s, list) \cup DOMAIN list)]

NewSession(list) ==
  [NoSession EXCEPT !.status = "waiting", !.count = 1, !.reqs = list]

\* Status and number of lists are all that is compared, so after two whole reviews
\* by other calls a list may go into a session other than the one it was built from.
Mixes(a) == sess.status = "notes" /\ (mixed \/ agent[a].at # sends)

\* Mutant: a list sent after notes is taken to be listed still.
AddListOnce(a) ==
  /\ agent[a].pc = "built"
  /\ ~Busy(sess.status)
  /\ Seen(sess) = agent[a].seen
  /\ sends < MaxSends
  /\ sess' = IF sess.status = "notes" THEN AfterNotes(sess, agent[a].list)
             ELSE NewSession(agent[a].list)
  /\ sends' = sends + 1
  /\ agent' = [agent EXCEPT ![a] =
       IF sess.status = "notes" THEN IdleAgent ELSE [IdleAgent EXCEPT !.pc = "added"]]
  /\ mixed' = Mixes(a)
  /\ missed' = FALSE
  /\ UNCHANGED <<code, decided, listed, screen, edits, shown>>

\* Saves the list unless the session changed since it was seen.
AddList(a) ==
  /\ agent[a].pc = "built"
  /\ \/ /\ ~Busy(sess.status)
        /\ Seen(sess) = agent[a].seen
        /\ sends < MaxSends
        /\ sess' = IF sess.status = "notes" THEN AfterNotes(sess, agent[a].list)
                   ELSE NewSession(agent[a].list)
        /\ sends' = sends + 1
        /\ agent' = [agent EXCEPT ![a] = [IdleAgent EXCEPT !.pc = "added"]]
        /\ mixed' = Mixes(a)
        /\ missed' = FALSE
     \/ /\ Busy(sess.status) \/ Seen(sess) # agent[a].seen \/ "save" \in Losses
        /\ agent' = [agent EXCEPT ![a] = IdleAgent]
        /\ UNCHANGED <<sess, sends, missed, mixed>>
  /\ UNCHANGED <<code, decided, listed, screen, edits, shown>>

\* The list is saved and its lock free when the worktree is put on the waiting list.
AddToWaitingList(a) ==
  /\ agent[a].pc = "added"
  /\ ListingBecomes(TRUE)
  /\ agent' = [agent EXCEPT ![a] = IdleAgent]
  /\ UNCHANGED <<code, decided, sess, screen, edits, sends, shown, mixed>>

AgentKilled(a) ==
  /\ "crash" \in Losses
  /\ agent[a].pc # "idle"
  /\ agent' = [agent EXCEPT ![a] = IdleAgent]
  /\ missed' = (missed \/ agent[a].pc = "added")
  /\ UNCHANGED <<code, decided, sess, listed, screen, edits, sends, shown, mixed>>

\* What show_status says the review waits on.
Waiting ==
  CASE sess.status = "waiting" -> DOMAIN sess.reqs \ DOMAIN sess.fb
    [] sess.status = "notes" -> NotedIn(sess)
    [] OTHER -> {}

Dismiss ==
  /\ sess.status = "waiting"
  /\ sess' = [sess EXCEPT !.status = "dismissed"]
  /\ UNCHANGED <<code, decided, listed, agent, screen, edits, sends, history>>

Restore ==
  /\ sess.status = "dismissed"
  /\ sess' = [sess EXCEPT !.status = "waiting"]
  /\ ListingBecomes(TRUE)
  /\ UNCHANGED <<code, decided, agent, screen, edits, sends, shown, mixed>>

\* The agent or the user edits a comment, or puts an earlier text back.
Edit(c, t) ==
  /\ edits < MaxEdits
  /\ code[c] # t
  /\ code' = [code EXCEPT ![c] = t]
  /\ edits' = edits + 1
  /\ UNCHANGED <<decided, sess, listed, agent, screen, sends, history>>

-----------------------------------------------------------------------------
\* A screen.

Show(s) == [pc |-> "review", reqs |-> sess.reqs, noted |-> NotedIn(sess)]
At(pc) == [ClosedScreen EXCEPT !.pc = pc]

\* Opening a review that waits shows it, or runs step 7 when every request has
\* User Feedback; any other shows where it stands.
Open(s) ==
  /\ screen[s].pc = "closed"
  /\ sess.status = "waiting"
  /\ screen' = [screen EXCEPT ![s] = IF AllFed(sess) THEN At("write") ELSE Show(s)]
  /\ UNCHANGED <<code, decided, sess, listed, agent, edits, sends, history>>

Close(s) ==
  /\ \/ screen[s].pc = "review"
     \/ screen[s].pc # "closed" /\ "crash" \in Losses
  /\ screen' = [screen EXCEPT ![s] = ClosedScreen]
  /\ UNCHANGED <<code, decided, sess, listed, agent, edits, sends, history>>

\* Mutant: the request is looked up by its ID alone.
TakesFeedbackById(s, i) == sess.status = "waiting" /\ i \in DOMAIN sess.reqs

\* The request a screen shows is still the newest version and takes feedback.
TakesFeedback(s, i) ==
  /\ sess.status = "waiting"
  /\ i \in DOMAIN sess.reqs
  /\ sess.reqs[i] = screen[s].reqs[i]

\* Feedback on the last request without any hands the session to the agent when
\* there is a note in it, and only then takes it off the waiting list.
WithFeedback(i, feedback) ==
  LET fed == [sess EXCEPT !.fb = Over(@, [j \in {i} |-> feedback])]
  IN  IF AllFed(fed) /\ NotedIn(fed) # {}
      THEN [fed EXCEPT !.status = "notes", !.werr = FALSE]
      ELSE fed

Move(s, pc) == screen' = [screen EXCEPT ![s] = [@ EXCEPT !.pc = pc]]
Refused(s) == Move(s, "refused")

Give(s, i, feedback) ==
  /\ \/ /\ TakesFeedback(s, i)
        /\ sess' = WithFeedback(i, feedback)
        /\ \/ listed' = (listed /\ sess'.status # "notes")
              /\ Move(s, IF sess'.status = "notes" THEN "handed" ELSE "saved")
           \/ /\ sess'.status = "notes" /\ "listing" \in Losses
              /\ Refused(s)
              /\ UNCHANGED listed
        /\ shown' = IF feedback.kind = "answer"
                    THEN [shown EXCEPT ![screen[s].reqs[i].c] = @ \cup {screen[s].reqs[i].text}]
                    ELSE shown
     \/ /\ ~TakesFeedback(s, i) \/ "save" \in Losses
        /\ Refused(s)
        /\ UNCHANGED <<sess, listed, shown>>
  /\ UNCHANGED <<code, decided, agent, edits, sends, missed, mixed>>

GiveAnswer(s) ==
  /\ screen[s].pc = "review"
  /\ \E i \in DOMAIN screen[s].reqs, answer \in Answers :
       Give(s, i, [kind |-> "answer", answer |-> answer, seen |-> screen[s].reqs[i]])

GiveNote(s) ==
  /\ screen[s].pc = "review"
  /\ \E i \in DOMAIN screen[s].reqs : Give(s, i, Note)

\* An emptied note leaves its request without feedback.
RemoveNote(s) ==
  /\ screen[s].pc = "review"
  /\ \E i \in screen[s].noted :
       \/ /\ TakesFeedback(s, i)
          /\ sess' = IF IsNote(sess.fb, i) THEN [sess EXCEPT !.fb = Without(@, {i})] ELSE sess
          /\ Move(s, "saved")
       \/ /\ ~TakesFeedback(s, i) \/ "save" \in Losses
          /\ Refused(s)
          /\ UNCHANGED sess
  /\ UNCHANGED <<code, decided, listed, agent, edits, sends, history>>

\* After a save the screen loads the session again and goes by what it says now:
\* it ends once the session waits no more, runs step 7 once every request has an
\* answer, and shows the rest otherwise.  After a refusal it only shows.
Reload(s) ==
  /\ screen[s].pc \in {"saved", "handed", "refused"}
  /\ screen' = [screen EXCEPT ![s] =
       CASE sess.status # "waiting" -> ClosedScreen
         [] sess.status = "waiting" /\ AllAnswered(sess) /\ screen[s].pc # "refused" -> At("write")
         [] OTHER -> Show(s)]
  /\ UNCHANGED <<code, decided, sess, listed, agent, edits, sends, history>>

-----------------------------------------------------------------------------
\* Step 7, as one action with the outcomes the module WriteBack gives in detail.

\* The comment's new text, or Gone to cut it.
NewText(i) ==
  IF sess.fb[i].answer = "accept" /\ sess.reqs[i].sugg = "cut" THEN Gone ELSE sess.reqs[i].text

\* Every request of the comment; the files in which one does not find it as it was.
RequestOf(c) == AskAbout(sess.reqs, c)
MismatchFiles == {FileOf[sess.reqs[i].c] : i \in {j \in DOMAIN sess.reqs : ~StillSo(sess.reqs, j)}}

Write(s, pc) == screen' = [screen EXCEPT ![s] = At(pc)]

\* There is nothing to write: another screen wrote it, or it waits for another.
WriteNothing(s) ==
  /\ screen[s].pc = "write"
  /\ sess.status # "waiting" \/ ~AllAnswered(sess)
  /\ Write(s, "closed")
  /\ UNCHANGED <<code, decided, sess, listed, agent, edits, sends, history>>

CanWrite(s) ==
  /\ screen[s].pc = "write"
  /\ sess.status = "waiting"
  /\ AllAnswered(sess)

\* A comment changed since the user answered: every request in the first such
\* file goes back to the agent with the program's note.
ReturnToAgent(s) ==
  /\ CanWrite(s)
  /\ MismatchFiles # {}
  /\ LET file == CHOOSE f \in MismatchFiles : \A g \in MismatchFiles : f <= g
         noted == {i \in DOMAIN sess.reqs : FileOf[sess.reqs[i].c] = file}
     IN  \/ /\ sess' = [sess EXCEPT !.status = "notes", !.werr = FALSE,
                                    !.fb = Over(@, [i \in noted |-> Note])]
            /\ ListingBecomes(FALSE)
         \/ /\ "save" \in Losses
            /\ UNCHANGED <<sess, listed, missed>>
  /\ Write(s, "closed")
  /\ UNCHANGED <<code, decided, agent, edits, sends, shown, mixed>>

NewCode == [c \in Comments |-> IF RequestOf(c) # {} THEN NewText(CHOOSE i \in RequestOf(c) : TRUE) ELSE code[c]]
NewDecisions ==
  [c \in Comments |->
     IF c \in Named /\ RequestOf(c) # {}
     THEN LET text == NewCode[c]
          IN  [texts |-> decided[c].texts \cup ({text} \ {Gone}), cut |-> text = Gone]
     ELSE decided[c]]

WriteDone(s) ==
  /\ CanWrite(s)
  /\ MismatchFiles = {}
  /\ code' = NewCode
  /\ decided' = NewDecisions
  /\ sess' = [sess EXCEPT !.status = "done", !.werr = FALSE]
  /\ ListingBecomes(FALSE)
  /\ Write(s, "closed")
  /\ UNCHANGED <<agent, edits, sends, shown, mixed>>

\* A failed write puts every file back and saves why.
WriteFails(s) ==
  /\ "save" \in Losses
  /\ CanWrite(s)
  /\ MismatchFiles = {}
  /\ sess' = [sess EXCEPT !.werr = TRUE]
  /\ Write(s, "closed")
  /\ UNCHANGED <<code, decided, listed, agent, edits, sends, history>>

\* A write that crashes, or cannot put a file back, leaves the status that makes
\* everyone look at git status first, and any of the files written.
WriteUnfinished(s) ==
  /\ "crash" \in Losses
  /\ CanWrite(s)
  /\ MismatchFiles = {}
  /\ \E files \in SUBSET {FileOf[c] : c \in Comments} :
       code' = [c \in Comments |-> IF FileOf[c] \in files THEN NewCode[c] ELSE code[c]]
  /\ decided' \in {decided, NewDecisions}
  /\ decided' # decided => code' = NewCode
  /\ sess' = [sess EXCEPT !.status = "writing", !.werr = FALSE]
  /\ Write(s, "closed")
  /\ UNCHANGED <<listed, agent, edits, sends, history>>

ScreenStep(s) ==
  \/ Reload(s) \/ WriteNothing(s) \/ ReturnToAgent(s) \/ WriteDone(s) \/ WriteFails(s)
  \/ WriteUnfinished(s)

Next ==
  \/ \E a \in Agents : See(a) \/ Build(a) \/ AddList(a) \/ AddToWaitingList(a) \/ AgentKilled(a)
  \/ \E s \in Screens : Open(s) \/ Close(s) \/ GiveAnswer(s) \/ GiveNote(s) \/ RemoveNote(s)
  \/ \E s \in Screens : ScreenStep(s)
  \/ Dismiss \/ Restore
  \/ \E c \in Comments, t \in Texts \cup {Gone} : Edit(c, t)

Spec == Init /\ [][Next]_vars

-----------------------------------------------------------------------------
\* Properties.

\* Every variable holds a value of its type; a session's requests and feedback, a
\* built list and what a screen loaded are partial functions over request IDs.
RequestsOK(reqs) ==
  /\ DOMAIN reqs \subseteq Nat \ {0}
  /\ IsFiniteSet(DOMAIN reqs)
  /\ \A i \in DOMAIN reqs : reqs[i] \in Request
SessionOK(s) ==
  /\ DOMAIN s = DOMAIN NoSession
  /\ s.status \in Statuses /\ s.count \in Nat /\ s.werr \in BOOLEAN
  /\ RequestsOK(s.reqs)
  /\ \A i \in DOMAIN s.fb : s.fb[i] \in Feedback
CallOK(call) ==
  /\ DOMAIN call = DOMAIN IdleAgent
  /\ call.pc \in {"idle", "seen", "built", "added"}
  /\ call.seen \in [status : Statuses, count : Nat]
  /\ call.at \in 0 .. sends
  /\ RequestsOK(call.list)
ScreenOK(shows) ==
  /\ DOMAIN shows = DOMAIN ClosedScreen
  /\ shows.pc \in {"closed", "review", "saved", "handed", "refused", "write"}
  /\ \A i \in DOMAIN shows.reqs : shows.reqs[i] \in Request
TypeOK ==
  /\ code \in [Comments -> Texts \cup {Gone}]
  /\ decided \in [Comments -> [texts : SUBSET Texts, cut : BOOLEAN]]
  /\ SessionOK(sess)
  /\ listed \in BOOLEAN
  /\ DOMAIN agent = Agents /\ \A a \in Agents : CallOK(agent[a])
  /\ DOMAIN screen = Screens /\ \A s \in Screens : ScreenOK(screen[s])
  /\ edits \in 0 .. MaxEdits /\ sends \in 0 .. MaxSends
  /\ shown \in [Comments -> SUBSET Texts]
  /\ missed \in BOOLEAN /\ mixed \in BOOLEAN

\* User Feedback belongs to a request of the session, and a saved answer was
\* given to the newest version of its request: no list, resend or dismissal
\* leaves an answer on words the user did not see (add_list_after_user_notes,
\* save_user_feedback, remove_user_note, return_requests_to_agent).
AnswersFit ==
  /\ DOMAIN sess.fb \subseteq DOMAIN sess.reqs
  /\ \A i \in DOMAIN sess.fb : IsAnswer(sess.fb, i) => sess.fb[i].seen = sess.reqs[i]

\* A session always has a next move.  While it waits, either a request has no
\* feedback, for the user to give, or all are answered, for step 7 to write; it
\* is never all fed with a note among them.  While notes wait, every request has
\* feedback and one is a note, for the agent to answer; a failed write is told
\* only while the list it failed on is shown.
NoDeadEnd ==
  /\ sess.status = "waiting" => Waiting # {} \/ AllAnswered(sess)
  /\ sess.status = "notes" => AllFed(sess) /\ Waiting # {} /\ ~sess.werr
  /\ sess.status = "done" => ~sess.werr

\* No two requests of a session ask about the same comment in the same words,
\* so step 7 finds at most one answer to write into it and hands the rest back.
\* Two may ask in different words: the comment was edited while a list was built
\* and back before it was added (resend_noted_requests, match_left_out_requests).
OneAnswerPerComment ==
  ~mixed => \A i, j \in DOMAIN sess.reqs :
    sess.reqs[i].c = sess.reqs[j].c /\ sess.reqs[i].text = sess.reqs[j].text => i = j

\* What review.json holds fits together, with every process between two of its
\* steps and through every failure: answers with the words they were given to,
\* someone who can always move the review on, one request per comment and words.
SessionFits == TypeOK /\ AnswersFit /\ NoDeadEnd /\ OneAnswerPerComment

\* Only texts the user answered become approved (approvals are saved by step 7
\* from answers alone).
ApprovedWasSeen == \A c \in Comments : decided[c].texts \subseteq shown[c]

\* A review that waits for the user is on the waiting list, which is all that
\* Ctrl+b e shows, or the call that sent it is about to put it there; one that is
\* not has lost its own listing to a kill or an error (add_to_waiting_list, restore).
WaitingIsListed ==
  sess.status \in {"waiting", "writing"} =>
    listed \/ missed \/ \E a \in Agents : agent[a].pc = "added"

\* The agent never takes an answer away from a comment it did not touch: while
\* its text on disk is the one the user answered, an answer goes only when the
\* user gives another, when step 7 hands its whole file back, or with the session
\* it belongs to (add_list_after_user_notes).
AnswersKept ==
  \A i \in DOMAIN sess.fb :
    IsAnswer(sess.fb, i) /\ StillSo(sess.reqs, i)
      => i \in DOMAIN sess'.fb \/ sess.status \in {"done", "dismissed"} \/ mixed'

\* A finished or dismissed review gives nothing to the next one: a new session
\* begins with its own requests and no feedback (add_list).
FreshSession ==
  sess'.count = 1 /\ sess.status \in {"none", "done", "dismissed"} /\ sess'.status = "waiting"
    /\ sess'.reqs # sess.reqs
  => sess'.fb = <<>>

\* No step loses an answer, and none passes to the next review.
NoAnswerLost == [][AnswersKept /\ FreshSession]_vars

-----------------------------------------------------------------------------
\* Liveness.  A screen that began a step ends it, and the user comes back to a
\* listed review in which every request has feedback: opening it is the only
\* retry the program has, and Ctrl+b e shows listed ones only.  A call that saved its list
\* goes on to list it.  Nothing else is assumed of the agent, of edits or of dismissal.
Fairness ==
  /\ \A s \in Screens :
       /\ WF_vars(ScreenStep(s))
       /\ WF_vars(Open(s) /\ AllFed(sess) /\ listed)
  /\ \A a \in Agents : WF_vars(AddToWaitingList(a))

FairSpec == Spec /\ Fairness

\* A review that waits with every request answered does not wait for ever: step 7
\* writes it or hands it to the agent, or a call dismisses it (find_result_before_review,
\* show_after_save, write_user_feedback).
AnsweredReviewSettles ==
  (sess.status = "waiting" /\ AllAnswered(sess)) ~> ~(sess.status = "waiting" /\ AllAnswered(sess))
=============================================================================
