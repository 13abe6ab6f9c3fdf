------------------------------ MODULE MCScreens ------------------------------
(***************************************************************************)
(* Small instances of ReviewScreen, ReviewPicker and ReviewWindows in one  *)
(* run.  `part`, chosen at the start, says which one the behaviour is of;  *)
(* the variables of the others stay as they began.  The parts share no     *)
(* state, so the run has the sum of their states, not the product.         *)
(*   "alone"    one screen, every key, saves, loads and checks failing;    *)
(*   "shared"   another screen and the agent work on its review;           *)
(*   "picker"   three reviews of two agent sessions or none, two heights;  *)
(*   "list"     two clones with one branch, whose worktrees come and go;   *)
(*   "windows"  three presses of the keys at once, anything failing.       *)
(***************************************************************************)
EXTENDS ReviewScreens, Sequences, TLC

VARIABLES part

reviews == <<status, session, place, list, sends, picker>>
all == <<part, vars, screen, reviews>>

Trees == {"w1", "w2", "w3"}
Branches == "w1" :> "b" @@ "w2" :> "b" @@ "w3" :> "c"
Clones == "w1" :> "k1" @@ "w2" :> "k2" @@ "w3" :> "k1"

ASSUME ScreenConstants ==
  Screen!ScreenAssumption /\ Screen!ScreenBounds /\ Picker!PickerAssumption

\* The screen before its first key, on two open requests.
NoScreen == Screen!Init /\ disk.fb = <<>>

MCInit ==
  /\ Init /\ Picker!Init
  /\ \/ part \in {"alone", "shared"} /\ Screen!Init
     \/ part \in {"picker", "list", "windows"} /\ NoScreen

\* The parts of the screen are narrower than the constants: alone nobody else
\* changes the review; shared, three keys are pressed, neither a save or load fails
\* nor the code refuses an answer, and after a list between a save and its load the
\* review stays as it is until a request is drawn anew.
Alone == ~joined' /\ ~(disk.status = "notes" /\ disk'.status = "waiting")
Shared ==
  /\ \A i \in DOMAIN queue' : queue'[i].key \in {"a", "m", "Enter"}
  /\ late /\ pc' = pc => disk' = disk
  /\ pc = "save" /\ Screen!TakesFeedback(disk, saving.id) => saving'.saved # "refused"
  /\ pc = "load" => mem' \in {mem, disk}
  /\ ~(/\ pc = "read" /\ pc' = "draw" /\ prompt = Screen!NoPrompt
       /\ Screen!HasWaited /\ Head(queue).key = "a")

\* So are the parts of the picker: it gets three lists and nothing happens to a
\* worktree; the list has two worktrees of no agent session and one height.
ManyReviews ==
  /\ sends' <= 3 /\ place' = place
  /\ \A w \in Trees : status'[w] \in {"none", "waiting", "dismissed"}
ManyChanges ==
  /\ status'["w3"] = "none" /\ place'["w3"] = "here"
  /\ session' = session /\ picker'.rows # 3

MCNext ==
  /\ \/ part = "alone" /\ Screen!Next /\ Alone /\ UNCHANGED <<vars, reviews>>
     \/ part = "shared" /\ Screen!Next /\ Shared /\ UNCHANGED <<vars, reviews>>
     \/ part = "picker" /\ Picker!Next /\ ManyReviews /\ UNCHANGED <<vars, screen>>
     \/ part = "list" /\ Picker!Next /\ ManyChanges /\ UNCHANGED <<vars, screen>>
     \/ part = "windows" /\ Next /\ UNCHANGED <<screen, reviews>>
  /\ UNCHANGED part

MCSpec == MCInit /\ [][MCNext]_all
=============================================================================
