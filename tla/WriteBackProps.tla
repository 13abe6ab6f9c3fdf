--------------------------- MODULE WriteBackProps ---------------------------
(* What a write of the answers promises. *)
EXTENDS WriteBack

\* Every variable holds a value of its type.
TypeOK ==
  /\ disk \in [Files -> Contents]
  /\ temp \subseteq Files
  /\ backup.made \in BOOLEAN /\ DOMAIN backup.has \subseteq Changed
  /\ \A f \in DOMAIN backup.has : backup.has[f] \in Contents
  /\ status \in {"waiting", "notes", "writing", "done"}
  /\ werr \in BOOLEAN /\ decided \in BOOLEAN /\ listed \in BOOLEAN
  /\ pc \in {"idle", "return", "matched", "mark", "folder", "save", "discard", "write", "check",
             "swap", "undo", "recheck", "swapback", "done", "remove", "unlist", "refuse", "release"}
  /\ DOMAIN read \subseteq Changed /\ \A f \in DOMAIN read : read[f] \in Contents
  /\ written \subseteq Changed /\ left \subseteq written /\ current \in Changed \cup {0}
  /\ caught \in BOOLEAN

\* A review that waits, for the user or the agent, has changed no file and
\* decided nothing, and a finished one has changed every file and decided all,
\* whatever failed, whoever edited and wherever the program was killed
\* (write_files_and_decisions, refuse_after_write).
AllWrittenOrNone ==
  /\ status \in {"waiting", "notes"} => put = {} /\ ~decided
  /\ status = "done" => put = Changed /\ decided
  /\ decided => put = Changed

\* While a write is unfinished, the original of every file that holds answers is
\* in the backup folder, so the user can put it back by hand, and a later review
\* leaves it there until the user has removed it (FileBackup::save, restore).
\* Only an edit a rename overwrote is missing from it.
HasOriginal(f, original) ==
  f \in DOMAIN backup.has /\ original.edits \subseteq backup.has[f].edits \cup gap
OriginalsSaved ==
  /\ status = "writing" => \A f \in put : HasOriginal(f, orig[f])
  /\ \A f \in DOMAIN owed : HasOriginal(f, owed[f])

\* No edit is lost, except one that falls between the last comparison of a file
\* and its rename (replace_file: "Checking after the slow sync leaves only the
\* rename for an edit to slip into").
EditsSurvive == lost \subseteq gap

\* The promise, as a specification of its own.
Effect == CASE put = {} /\ ~decided -> "none"
            [] put = Changed /\ decided -> "all"
            [] OTHER -> "some"
Promise == INSTANCE AllOrNothing WITH effect <- Effect
KeepsPromise == Promise!Spec

\* Only a status that says so is told to a user whose write stopped short: the
\* status says `writing` from before the first file changes until they have
\* settled.
WritingIsMarked == [][put' # put /\ reviews' = reviews => status = "writing"]_vars

-----------------------------------------------------------------------------
\* Liveness.  A call that began goes on to its end, the user opens a waiting
\* review again, and removes what its message names.  Failing calls are bounded;
\* no kill.
Fairness == WF_vars(Step) /\ WF_vars(Begin) /\ WF_vars(CleanUp)
FairSpec == Spec /\ Fairness

\* A fully answered review does not wait for ever: opening it again either
\* writes it, hands it to the agent, or stops at a write that could not be undone.
RetrySettles == status = "waiting" ~> status # "waiting"
=============================================================================
