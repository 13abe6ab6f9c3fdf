---------------------------- MODULE ReviewScreen ----------------------------
(***************************************************************************)
(* One open Review Screen, key by key: what it draws, when it drops the    *)
(* keys that wait, which keys give User Feedback, how it saves what a key  *)
(* gave and loads the review again, and the Review Result Screen it ends   *)
(* on.  The terminal queues every key; the user presses one looking at     *)
(* whatever is drawn at that moment, which the queued event remembers.     *)
(*                                                                         *)
(* review.json is the variable disk; other screens and the agent change it *)
(* at any time (the module ReviewSession has their operations in detail).  *)
(* A text is its number of letters: 0 is the empty one.                    *)
(***************************************************************************)
EXTENDS Integers, Sequences, FiniteSets

CONSTANTS
  Ids,         \* request IDs 1..n; those of the first list are InitIds
  InitIds,
  Keys,        \* the keys the user presses
  Env,         \* what else happens: see EnvKinds
  Settle,      \* ticks that make up SETTLE
  MaxQueue,    \* bound: keys waiting at the terminal
  MaxText,     \* bound: letters of a note
  MaxVersion   \* bound: lists sent

AllKeys == {"int", "q", "l", "h", "a", "m", "s", "e", "v", "d", "Enter", "Backspace"}
Letters == AllKeys \ {"int", "Enter", "Backspace"}

\* Another screen, the agent, failing saves, loads and answer checks.
EnvKinds == {"screen", "agent", "save", "load", "refuse"}

ScreenAssumption ==
  /\ Ids \subseteq Nat /\ IsFiniteSet(Ids) /\ InitIds \subseteq Ids
  /\ Keys \subseteq AllKeys
  /\ Env \subseteq EnvKinds
ScreenBounds ==
  Settle \in Nat /\ MaxQueue \in Nat /\ MaxText \in Nat \ {0} /\ MaxVersion \in Nat \ {0}

VARIABLES
  disk,      \* review.json: status, the version of each request, its feedback
  mem,       \* the Review Session the screen holds
  index,     \* the position of the shown request, from 0
  drawnAt,   \* ticks since it was first drawn, or NotDrawn
  prompt,    \* the Note and Search Prompt
  display,   \* what the terminal shows, and for how long
  queue,     \* keys waiting at the terminal
  pc,        \* where the screen is
  saving,    \* the request whose feedback is being saved, and what came of it
  wasLeft,   \* nvim, less or rg had the terminal
  given,     \* history: the key that last gave feedback or closed the result
  joined,    \* history: was the review changed behind the screen's back: by another
             \* screen, or by a list between a save and its load?
  late       \* history: did a list come between a save and its load after the shown
             \* request was last drawn anew?

vars == <<disk, mem, index, drawnAt, prompt, display, queue, pc, saving, wasLeft, given, joined, late>>
shownVars == <<mem, index, drawnAt, prompt>>

NotDrawn == -1
NoPrompt == [kind |-> "none", typed |-> 0]
Answer == [kind |-> "answer", text |-> 0]
Note(n) == [kind |-> "note", text |-> n]
Nothing == [what |-> "nothing", id |-> 0, ver |-> 0, age |-> 0]
NotGiven == [what |-> "none", id |-> 0, ver |-> 0, saw |-> Nothing, busy |-> FALSE, late |-> FALSE]
NotSaving == [id |-> 0, saved |-> "none"]

\* Requests are shown in ID order; a position past the last one is no request.
IdAt(s, i) == CHOOSE d \in DOMAIN s.reqs : Cardinality({e \in DOMAIN s.reqs : e < d}) = i
Count(s) == Cardinality(DOMAIN s.reqs)
Positions(s) == 0 .. (Count(s) - 1)
HasFeedback(s, i) == IdAt(s, i) \in DOMAIN s.fb
ShownId == IdAt(mem, index)
Least(S) == CHOOSE i \in S : \A j \in S : i <= j
Unanswered(s) == {i \in Positions(s) : ~HasFeedback(s, i)}
AllAnswered(s) == \A d \in DOMAIN s.reqs : d \in DOMAIN s.fb /\ s.fb[d].kind = "answer"
AllFed(s) == DOMAIN s.reqs \subseteq DOMAIN s.fb
WithFb(s, d, f) == [s EXCEPT !.fb = [e \in DOMAIN @ \cup {d} |-> IF e = d THEN f ELSE @[e]]]
WithoutFb(s, S) == [s EXCEPT !.fb = [e \in DOMAIN @ \ S |-> @[e]]]
HandOver(s) == IF AllFed(s) /\ \E d \in DOMAIN s.fb : s.fb[d].kind = "note"
               THEN [s EXCEPT !.status = "notes"] ELSE s

\* The screen opens on a review that waits, at the first request with no feedback.
Init ==
  /\ \E fed \in SUBSET InitIds, n \in 1 .. MaxText :
       /\ InitIds \ fed # {}
       /\ \E kind \in [fed -> {"answer", "note"}] :
            disk = [status |-> "waiting", reqs |-> [d \in InitIds |-> 1],
                    fb |-> [d \in fed |-> IF kind[d] = "answer" THEN Answer ELSE Note(n)]]
  /\ mem = disk
  /\ index = Least(Unanswered(disk))
  /\ drawnAt = NotDrawn
  /\ prompt = NoPrompt
  /\ display = Nothing
  /\ queue = <<>>
  /\ pc = "draw"
  /\ saving = NotSaving
  /\ wasLeft = FALSE
  /\ given = NotGiven
  /\ joined = FALSE /\ late = FALSE

-----------------------------------------------------------------------------
\* The terminal.

\* Keys pressed while nvim, less or rg runs go to it.
Press(k) ==
  /\ pc \notin {"away", "end", "panicked"}
  /\ Len(queue) < MaxQueue
  /\ queue' = Append(queue, [key |-> k, saw |-> display, busy |-> pc \in {"save", "load", "step7"}])
  /\ UNCHANGED <<disk, shownVars, display, pc, saving, wasLeft, given, joined, late>>

\* Time passes, but a key that can be read is read at once: next to SETTLE only
\* reading the code, saving, loading, writing and another program take long.
Tick ==
  /\ pc \notin {"end", "panicked"}
  /\ ~(queue # <<>> /\ (pc \in {"read", "resultRead"} \/ (pc = "draw" /\ drawnAt # NotDrawn)))
  /\ LET Older(age) == IF age < Settle THEN age + 1 ELSE age
     IN  /\ display' = [display EXCEPT !.age = Older(@)]
         /\ drawnAt' = IF drawnAt = NotDrawn THEN drawnAt ELSE Older(drawnAt)
  /\ UNCHANGED <<disk, mem, index, prompt, queue, pc, saving, wasLeft, given, joined, late>>

\* Drawing what is there already does not show it anew.
Drawn(what, d, v) ==
  IF display.what = what /\ display.id = d /\ display.ver = v THEN display
  ELSE [what |-> what, id |-> d, ver |-> v, age |-> 0]

Draw ==
  /\ pc = "draw"
  /\ display' = Drawn("request", ShownId, mem.reqs[ShownId])
  /\ pc' = IF drawnAt = NotDrawn THEN "drop" ELSE "read"
  /\ UNCHANGED <<disk, shownVars, queue, saving, wasLeft, given, joined, late>>

Interrupted == \E i \in DOMAIN queue : queue[i].key = "int"

\* Every waiting key is dropped, but Ctrl-C still quits.
DropWaiting(next) ==
  /\ queue' = <<>>
  /\ pc' = IF Interrupted THEN "end" ELSE next

DropKeys ==
  /\ pc = "drop"
  /\ DropWaiting("read")
  /\ drawnAt' = IF pc' = "end" THEN drawnAt ELSE 0
  /\ late' = FALSE
  /\ UNCHANGED <<disk, mem, index, prompt, display, saving, wasLeft, given, joined>>

\* The end of one round of the loop: keys typed into nvim or less after it
\* closed must not answer anything.
NextRound(at) ==
  /\ pc' = "draw"
  /\ wasLeft' = FALSE
  /\ drawnAt' = IF wasLeft THEN NotDrawn ELSE at

-----------------------------------------------------------------------------
\* One key.  Reading takes the first waiting one.

Reads(k) ==
  /\ pc = "read"
  /\ queue # <<>>
  /\ Head(queue).key = k
  /\ queue' = Tail(queue)

HasWaited == drawnAt >= Settle
SavedNote == IF ShownId \in DOMAIN mem.fb /\ mem.fb[ShownId].kind = "note"
             THEN mem.fb[ShownId].text ELSE 0

\* Shows the request at a position; there must be one.
Show(s, i) ==
  /\ index' = i
  /\ prompt' = NoPrompt
  /\ wasLeft' = FALSE
  /\ drawnAt' = NotDrawn
  /\ pc' = IF i \in Positions(s) THEN "draw" ELSE "panicked"

Quit ==
  /\ \/ Reads("int")
     \/ Reads("q") /\ prompt = NoPrompt
  /\ pc' = "end"
  /\ UNCHANGED <<disk, shownVars, display, saving, wasLeft, given, joined, late>>

Turn(k) ==
  IF k = "l" THEN (index + 1) % Count(mem) ELSE (index + Count(mem) - 1) % Count(mem)

Move(k) ==
  /\ Reads(k)
  /\ prompt = NoPrompt
  /\ Show(mem, Turn(k))
  /\ UNCHANGED <<disk, mem, display, saving, given, joined, late>>

\* What a key gave, and what the user saw when pressing it.
Gave(what, d) ==
  given' = [what |-> what, id |-> d, ver |-> mem.reqs[d],
            saw |-> Head(queue).saw, busy |-> Head(queue).busy, late |-> late]

\* The next position without feedback after the shown one, wrapping around, or
\* the shown one itself.
NextUnanswered(s) ==
  LET steps == {n \in 1 .. Count(s) : (index + n) % Count(s) \in Unanswered(s)}
  IN  IF steps = {} THEN index ELSE (index + Least(steps)) % Count(s)

\* Mutant: the next request takes over the wait of this one.
GiveAnswerAtOnce ==
  LET d == ShownId
      answered == WithFb(mem, d, Answer)
  IN  /\ mem' = answered
      /\ index' = IF Unanswered(answered) = {} THEN index ELSE NextUnanswered(answered)
      /\ saving' = [id |-> d, saved |-> "none"]
      /\ pc' = "save"
      /\ UNCHANGED <<drawnAt, prompt>>
\* An answer is kept in memory, the next request shown, and then it is saved.
\* With no request left the shown one stays as it was drawn.
GiveAnswer ==
  LET d == ShownId
      answered == WithFb(mem, d, Answer)
  IN  /\ mem' = answered
      /\ IF Unanswered(answered) = {}
         THEN UNCHANGED <<index, drawnAt, prompt>>
         ELSE /\ index' = NextUnanswered(answered)
              /\ prompt' = NoPrompt
              /\ drawnAt' = NotDrawn
      /\ saving' = [id |-> d, saved |-> "none"]
      /\ pc' = "save"

\* `a`, `o` and `c`: an answer the code cannot take is refused.
AnswerKey ==
  /\ Reads("a")
  /\ prompt = NoPrompt
  /\ \/ /\ HasWaited
        /\ GiveAnswer
        /\ Gave("feedback", ShownId)
        /\ UNCHANGED <<disk, display, wasLeft, joined, late>>
     \/ /\ ~HasWaited \/ "refuse" \in Env
        /\ NextRound(drawnAt)
        /\ UNCHANGED <<disk, mem, index, prompt, display, saving, given, joined, late>>

\* `m` opens the note prompt after the wait, `s` the search prompt at once.
OpenPrompt(k) ==
  /\ Reads(k)
  /\ prompt = NoPrompt
  /\ prompt' = CASE k = "m" /\ HasWaited -> [kind |-> "note", typed |-> SavedNote]
                 [] k = "s" -> [kind |-> "search", typed |-> 0]
                 [] OTHER -> prompt
  /\ NextRound(drawnAt)
  /\ UNCHANGED <<disk, mem, index, display, saving, given, joined, late>>

\* `e` and `v` need the comment in its file, `e` also one that may be reworded.
LeaveTerminal(k) ==
  /\ Reads(k)
  /\ prompt = NoPrompt
  /\ \/ /\ pc' = "away"
        /\ saving' = [id |-> 0, saved |-> k]
        /\ UNCHANGED <<drawnAt, wasLeft>>
     \/ /\ "refuse" \in Env
        /\ NextRound(drawnAt)
        /\ UNCHANGED saving
  /\ UNCHANGED <<disk, mem, index, prompt, display, given, joined, late>>

OtherKey(k) ==
  /\ Reads(k)
  /\ prompt = NoPrompt
  /\ NextRound(drawnAt)
  /\ UNCHANGED <<disk, mem, index, prompt, display, saving, given, joined, late>>

Type(k) ==
  /\ Reads(k)
  /\ prompt # NoPrompt
  /\ prompt' = [prompt EXCEPT !.typed =
       IF k = "Backspace" THEN IF @ > 0 THEN @ - 1 ELSE 0
       ELSE IF @ < MaxText THEN @ + 1 ELSE @]
  /\ NextRound(drawnAt)
  /\ UNCHANGED <<disk, mem, index, display, saving, given, joined, late>>

\* Enter in the note prompt: a note left as it was saves nothing, an emptied one
\* is taken away.
EnterNote ==
  /\ Reads("Enter")
  /\ prompt.kind = "note"
  /\ prompt' = NoPrompt
  /\ IF prompt.typed = SavedNote
     THEN /\ NextRound(drawnAt)
          /\ UNCHANGED <<mem, saving, given>>
     ELSE /\ mem' = IF prompt.typed > 0 THEN WithFb(mem, ShownId, Note(prompt.typed))
                    ELSE WithoutFb(mem, {ShownId})
          /\ saving' = [id |-> ShownId, saved |-> "none"]
          /\ Gave("feedback", ShownId)
          /\ pc' = "save"
          /\ UNCHANGED <<drawnAt, wasLeft>>
  /\ UNCHANGED <<disk, index, display, joined, late>>

EnterSearch ==
  /\ Reads("Enter")
  /\ prompt.kind = "search"
  /\ prompt' = NoPrompt
  /\ IF prompt.typed = 0
     THEN NextRound(drawnAt) /\ UNCHANGED saving
     ELSE /\ pc' = "away"
          /\ saving' = [id |-> 0, saved |-> "s"]
          /\ UNCHANGED <<drawnAt, wasLeft>>
  /\ UNCHANGED <<disk, mem, index, display, given, joined, late>>

\* nvim, less or rg ends.  Words left on the Comment Edit Page are an answer.
ComeBack ==
  /\ pc = "away"
  /\ saving.saved \in {"e", "v", "s"}
  /\ \/ /\ saving.saved = "e"
        /\ GiveAnswer
        /\ wasLeft' = TRUE
     \/ /\ pc' = "draw"
        /\ saving' = NotSaving
        /\ drawnAt' = NotDrawn
        /\ wasLeft' = FALSE
        /\ UNCHANGED <<mem, index, prompt>>
  /\ display' = Nothing
  /\ UNCHANGED <<disk, queue, given, joined, late>>

-----------------------------------------------------------------------------
\* Saving what the key gave, and loading the review again.

TakesFeedback(s, d) ==
  /\ s.status = "waiting"
  /\ d \in DOMAIN s.reqs
  /\ s.reqs[d] = mem.reqs[d]

\* An emptied note takes only a note away, never an answer given meanwhile.
Saved(d) ==
  CASE d \in DOMAIN mem.fb -> HandOver(WithFb(disk, d, mem.fb[d]))
    [] d \notin DOMAIN mem.fb /\ d \in DOMAIN disk.fb /\ disk.fb[d].kind = "note"
         -> WithoutFb(disk, {d})
    [] OTHER -> disk

\* A save refused, done, or failed: before it wrote, or after, when the worktree
\* cannot be taken off the waiting list.
Save ==
  /\ pc = "save"
  /\ \/ /\ TakesFeedback(disk, saving.id)
        /\ disk' = Saved(saving.id)
        /\ \/ saving' = [saving EXCEPT !.saved = disk'.status]
           \/ "save" \in Env /\ disk'.status = "notes" /\ saving' = [saving EXCEPT !.saved = "refused"]
     \/ /\ ~TakesFeedback(disk, saving.id) \/ "save" \in Env
        /\ saving' = [saving EXCEPT !.saved = "refused"]
        /\ UNCHANGED disk
  /\ pc' = "load"
  /\ UNCHANGED <<shownVars, display, queue, wasLeft, given, joined, late>>

\* Where request d is in the loaded review, else the first one without feedback,
\* else the first.
FindIndex(s, d) ==
  CASE d \in DOMAIN s.reqs -> CHOOSE i \in Positions(s) : IdAt(s, i) = d
    [] d \notin DOMAIN s.reqs /\ Unanswered(s) # {} -> Least(Unanswered(s))
    [] OTHER -> 0

ToResult(from) ==
  /\ pc' = from
  /\ UNCHANGED <<index, drawnAt, prompt, wasLeft, joined, late>>

ShowAfterSave(shownId) ==
  CASE disk.status # "waiting" -> ToResult("resultDrop")
    [] disk.status = "waiting" /\ AllAnswered(disk) -> ToResult("step7")
    [] OTHER ->
         IF FindIndex(disk, shownId) # index THEN Show(disk, FindIndex(disk, shownId))
         ELSE NextRound(drawnAt) /\ UNCHANGED <<index, prompt>>

\* The screen goes by what the loaded review says.  It closes once the agent
\* acts on its notes, and shows the refused request as saved.
Load ==
  /\ pc = "load"
  /\ saving' = NotSaving
  /\ mem' = disk
  /\ CASE saving.saved = "notes" /\ disk.status = "notes" -> ToResult("end")
       [] saving.saved # "refused" /\ ~(saving.saved = "notes" /\ disk.status = "notes")
            -> ShowAfterSave(ShownId)
       [] saving.saved = "refused" /\ disk.status # "waiting" -> ToResult("resultDrop")
       [] OTHER -> Show(disk, FindIndex(disk, saving.id))
  /\ UNCHANGED <<disk, display, queue, given, joined, late>>

LoadFails ==
  /\ pc = "load"
  /\ "load" \in Env
  /\ saving' = NotSaving
  /\ mem' = WithoutFb(mem, {saving.id})
  /\ ToResult("resultDrop")
  /\ UNCHANGED <<disk, display, queue, given, joined, late>>

-----------------------------------------------------------------------------
\* Step 7 and the Review Result Screen.

WriteAnswers ==
  /\ pc = "step7"
  /\ disk' \in {disk} \cup (IF disk.status = "waiting" /\ AllAnswered(disk)
                            THEN {[disk EXCEPT !.status = "done"]} ELSE {})
  /\ pc' = "resultDrop"
  /\ UNCHANGED <<shownVars, display, queue, saving, wasLeft, given, joined, late>>

\* Mutant: a tap made while step 7 ran still counts.
ResultDropNone ==
  /\ pc = "resultDrop"
  /\ pc' = "resultDraw"
  /\ UNCHANGED <<disk, shownVars, display, queue, saving, wasLeft, given, joined, late>>
ResultDrop ==
  /\ pc = "resultDrop"
  /\ DropWaiting("resultDraw")
  /\ UNCHANGED <<disk, shownVars, display, saving, wasLeft, given, joined, late>>

ResultDraw ==
  /\ pc = "resultDraw"
  /\ display' = Drawn("result", 0, 0)
  /\ pc' = "resultRead"
  /\ UNCHANGED <<disk, shownVars, queue, saving, wasLeft, given, joined, late>>

ResultKey ==
  /\ pc = "resultRead"
  /\ queue # <<>>
  /\ queue' = Tail(queue)
  /\ LET k == Head(queue).key
     IN  CASE k \in {"int", "q"} ->
                /\ pc' = "end"
                /\ given' = [NotGiven EXCEPT !.what = "closed", !.busy = Head(queue).busy]
                /\ UNCHANGED saving
           [] k = "d" ->
                /\ pc' = "away"
                /\ saving' = [id |-> 0, saved |-> "d"]
                /\ UNCHANGED given
           [] OTHER ->
                /\ pc' = "resultDraw"
                /\ UNCHANGED <<saving, given>>
  /\ UNCHANGED <<disk, shownVars, display, wasLeft, joined, late>>

\* After the diff, or why it could not be shown.
DiffEnds ==
  /\ pc = "away"
  /\ saving.saved = "d"
  /\ saving' = NotSaving
  /\ pc' = "resultDrop"
  /\ display' = Nothing
  /\ UNCHANGED <<disk, shownVars, queue, wasLeft, given, joined, late>>

-----------------------------------------------------------------------------
\* What others do to the review meanwhile.

OtherScreen ==
  /\ "screen" \in Env
  /\ disk.status = "waiting"
  /\ \/ \E d \in DOMAIN disk.reqs, f \in {Answer, Note(1)} : disk' = HandOver(WithFb(disk, d, f))
     \/ \E d \in DOMAIN disk.fb : disk.fb[d].kind = "note" /\ disk' = WithoutFb(disk, {d})
     \/ AllAnswered(disk) /\ disk' = [disk EXCEPT !.status = "done"]
     \/ disk' = [disk EXCEPT !.status = "dismissed"]
  /\ joined' = TRUE
  /\ UNCHANGED late

\* A list after notes asks a noted request again when its comment is still there,
\* drops it otherwise, may drop answers, and may ask something new.
AgentSends ==
  /\ "agent" \in Env
  /\ disk.status = "notes"
  /\ \A d \in DOMAIN disk.reqs : disk.reqs[d] < MaxVersion
  /\ \E again \in SUBSET {d \in DOMAIN disk.fb : disk.fb[d].kind = "note"},
        kept \in SUBSET {d \in DOMAIN disk.fb : disk.fb[d].kind = "answer"},
        new \in SUBSET {d \in Ids : \A e \in DOMAIN disk.reqs : e < d} :
       /\ Cardinality(new) <= 1
       /\ disk' = [status |-> "waiting",
                   reqs |-> [d \in again \cup kept \cup new |->
                               IF d \in again THEN disk.reqs[d] + 1
                               ELSE IF d \in kept THEN disk.reqs[d] ELSE 1],
                   fb |-> [d \in kept |-> disk.fb[d]]]
  /\ joined' = (joined \/ pc = "load")
  /\ late' = (late \/ pc = "load")

Others ==
  /\ pc \notin {"end", "panicked"}
  /\ OtherScreen \/ AgentSends
  /\ UNCHANGED <<shownVars, display, queue, pc, saving, wasLeft, given>>

Key ==
  \/ Quit \/ AnswerKey \/ EnterNote \/ EnterSearch
  \/ \E k \in {"l", "h"} : Move(k)
  \/ \E k \in {"m", "s"} : OpenPrompt(k)
  \/ \E k \in {"e", "v"} : LeaveTerminal(k)
  \/ \E k \in {"d", "Enter", "Backspace"} : OtherKey(k)
  \/ \E k \in Letters \cup {"Backspace"} : Type(k)

Program ==
  \/ Draw \/ DropKeys \/ Key \/ Save \/ Load \/ LoadFails
  \/ WriteAnswers \/ ResultDrop \/ ResultDraw \/ ResultKey

Next ==
  \/ \E k \in Keys : Press(k)
  \/ Tick \/ Program \/ ComeBack \/ DiffEnds \/ Others

\* The screen goes on, and the user closes nvim or less.
Spec == Init /\ [][Next]_vars /\ WF_vars(Program) /\ WF_vars(ComeBack \/ DiffEnds)

-----------------------------------------------------------------------------
\* Properties.

FeedbackSet == {Answer} \cup {Note(n) : n \in 1 .. MaxText}
Reviews ==
  {s \in [status : {"waiting", "notes", "done", "dismissed"},
          reqs : UNION {[D -> 1 .. MaxVersion] : D \in SUBSET Ids},
          fb : UNION {[D -> FeedbackSet] : D \in SUBSET Ids}] : DOMAIN s.fb \subseteq DOMAIN s.reqs}
Displays == [what : {"nothing", "request", "result"}, id : Ids \cup {0},
             ver : 0 .. MaxVersion, age : 0 .. Settle]

\* The shape of every variable; the shown position is a number that can be one of
\* a request, also after h on the first one (screen.rs:121, 187).
TypeOK ==
  /\ disk \in Reviews
  /\ mem \in Reviews
  /\ index \in 0 .. (Cardinality(Ids) - 1)
  /\ drawnAt \in {NotDrawn} \cup 0 .. Settle
  /\ prompt \in [kind : {"none", "note", "search"}, typed : 0 .. MaxText]
  /\ display \in Displays
  /\ \A i \in DOMAIN queue : queue[i] \in [key : Keys, saw : Displays, busy : BOOLEAN]
  /\ pc \in {"draw", "drop", "read", "away", "save", "load", "step7", "resultDrop",
             "resultDraw", "resultRead", "end", "panicked"}
  /\ wasLeft \in BOOLEAN /\ joined \in BOOLEAN /\ late \in BOOLEAN

\* A key that gave an answer or ended a note was pressed looking at exactly the
\* version it counts for, and that had been shown for the time a stray tap takes
\* (SETTLE, screen.rs:18; drop_waiting_keys, mod.rs:263): whatever was queued while
\* a save, nvim or a slow answer check ran answers nothing.  But for a list that came
\* between the last save and its load: the screen then shows its new words with the
\* wait of the old ones (saving.rs:82), until it draws a request anew.
NoStrayAnswer ==
  given.what = "feedback" /\ ~given.late =>
    /\ given.saw.what = "request"
    /\ given.saw.id = given.id
    /\ given.saw.ver = given.ver
    /\ given.saw.age >= Settle

\* Until another screen answers, or a list comes between a save and its load, what
\* the screen waits for a key on is what review.json holds, also after a save that
\* was refused or failed half way (saving.rs:2).
ShowsSaved == ~joined /\ pc = "read" => mem = disk

\* Until then a screen that waits for a key still has something to ask: the last
\* answer goes on to step 7 and the last note to the agent (saving.rs:45, 71).
StillAsks == ~joined /\ pc = "read" => disk.status = "waiting" /\ ~AllFed(disk)

\* A key pressed while the last answer was saved and step 7 wrote the answers into
\* the code does not close the result before it is read (mod.rs:183).
ResultIsRead == given.what = "closed" => ~given.busy

\* The screen, its review and the result stay in step with review.json.
AsksWhatIsSaved == TypeOK /\ ShowsSaved /\ StillAsks /\ ResultIsRead

\* Ctrl-C ends the screen, from a prompt, a save or a run of nvim too (keys.rs:17).
InterruptQuits == Interrupted ~> pc \in {"end", "panicked"}
=============================================================================
