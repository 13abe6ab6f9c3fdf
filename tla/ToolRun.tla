------------------------------ MODULE ToolRun ------------------------------
(***************************************************************************)
(* One run of gofmt, rustfmt or python3 with a time limit: threads of the  *)
(* caller feed the tool and read what it prints through bounded pipes,     *)
(* each says when it ends, and the caller kills the tool's process group   *)
(* once the limit passes.  The tool may hang, fail, print without reading, *)
(* and start a helper in its group and a stray outside it.                 *)
(***************************************************************************)
EXTENDS Naturals, FiniteSets

CONSTANTS
  Input,      \* the size of the file the tool is fed
  MaxOutput,  \* the most the tool prints
  PipeSize,   \* what a pipe holds
  Faults      \* subset of {"kill", "wait"}: the group cannot be signalled, the status not read

ASSUME ToolAssumption == Input \in Nat /\ MaxOutput \in Nat /\ PipeSize \in Nat \ {0}

VARIABLES
  procs,    \* the tool, its helper, its stray: "none", "runs", "ended" or "reaped"
  status,   \* the tool's exit status once it ended
  holds,    \* who holds the tool's end of each pipe
  pipe,     \* what sits in each pipe
  fed,      \* what the writer wrote
  printed,  \* what the tool's processes printed
  got,      \* what the reader read
  threads,  \* each thread: "runs", or how it ended
  heard,    \* the messages taken from the channel
  late,     \* has the time limit passed, and then the grace
  pc,       \* where the caller is
  killed,   \* did the kill reach the group, only the tool, or another's group
  result    \* what the caller returned

world == <<procs, status, holds, pipe, fed, printed, got, threads>>
caller == <<heard, late, pc, killed, result>>
vars == <<world, caller>>

None == "none"
Pipes == {"in", "out", "err"}
Threads == {"writer", "printed", "errors"}
Members == {"tool", "helper", "stray"}
Running == {m \in Members : procs[m] = "runs"}
Said == Cardinality({t \in Threads : threads[t] # "runs"})   \* messages sent so far
Open == 3 - heard

Init ==
  /\ procs = [m \in Members |-> IF m = "tool" THEN "runs" ELSE "none"]
  /\ status = None
  /\ holds = [x \in Pipes |-> {"tool"}]
  /\ pipe = [x \in Pipes |-> 0]
  /\ fed = 0 /\ printed = 0 /\ got = 0
  /\ threads = [t \in Threads |-> "runs"]
  /\ heard = 0
  /\ late = "no"
  /\ pc = "listen"
  /\ killed = None
  /\ result = None

-----------------------------------------------------------------------------
\* The tool and what it starts.

ToolReads(m) ==
  /\ m \in Running \cap holds["in"] /\ pipe["in"] > 0
  /\ pipe' = [pipe EXCEPT !["in"] = @ - 1]
  /\ UNCHANGED <<procs, status, holds, fed, printed, got, threads, caller>>

ToolPrints(m) ==
  /\ m \in Running \cap holds["out"]
  /\ pipe["out"] < PipeSize /\ printed < MaxOutput /\ threads["printed"] = "runs"
  /\ pipe' = [pipe EXCEPT !["out"] = @ + 1]
  /\ printed' = printed + 1
  /\ UNCHANGED <<procs, status, holds, fed, got, threads, caller>>

\* What the tool starts has its pipes, and a stray has left its group.
Starts(m) ==
  /\ procs["tool"] = "runs" /\ procs[m] = "none"
  /\ procs' = [procs EXCEPT ![m] = "runs"]
  /\ holds' = [x \in Pipes |-> IF "tool" \in holds[x] THEN holds[x] \cup {m} ELSE holds[x]]
  /\ UNCHANGED <<status, pipe, fed, printed, got, threads, caller>>

\* A process stops reading, or lets go of all three pipes, as a daemon does.
Closes(m, xs) ==
  /\ m \in Running /\ \E x \in xs : m \in holds[x]
  /\ holds' = [x \in Pipes |-> IF x \in xs THEN holds[x] \ {m} ELSE holds[x]]
  /\ UNCHANGED <<procs, status, pipe, fed, printed, got, threads, caller>>

Drop(ms) == holds' = [x \in Pipes |-> holds[x] \ ms]

Exits(m) ==
  /\ m \in Running
  /\ procs' = [procs EXCEPT ![m] = "ended"]
  /\ Drop({m})
  /\ IF m = "tool" THEN status' \in {"success", "failure"} ELSE UNCHANGED status
  /\ UNCHANGED <<pipe, fed, printed, got, threads, caller>>

-----------------------------------------------------------------------------
\* The threads, each of which sends on the channel once its work is done.

\* A write fails once nobody can read the pipe.
Write ==
  /\ threads["writer"] = "runs"
  /\ IF fed = Input
     THEN threads' = [threads EXCEPT !["writer"] = "done"] /\ UNCHANGED <<pipe, fed>>
     ELSE \/ /\ holds["in"] = {}
             /\ threads' = [threads EXCEPT !["writer"] = "broken"]
             /\ UNCHANGED <<pipe, fed>>
          \/ /\ holds["in"] # {} /\ pipe["in"] < PipeSize
             /\ fed' = fed + 1
             /\ pipe' = [pipe EXCEPT !["in"] = @ + 1]
             /\ UNCHANGED threads
  /\ UNCHANGED <<procs, status, holds, printed, got, caller>>

\* A read ends once nobody can write to the pipe.
Read(t, x) ==
  /\ threads[t] = "runs"
  /\ IF pipe[x] > 0
     THEN pipe' = [pipe EXCEPT ![x] = 0] /\ got' = got + pipe[x] /\ UNCHANGED threads
     ELSE holds[x] = {} /\ threads' = [threads EXCEPT ![t] = "done"] /\ UNCHANGED <<pipe, got>>
  /\ UNCHANGED <<procs, status, holds, fed, printed, caller>>

TimeLimitPasses ==
  /\ late' = CASE late = "no" -> "limit"
               [] late = "limit" /\ pc = "grace" -> "grace"
               [] OTHER -> late
  /\ late' # late
  /\ UNCHANGED <<world, heard, pc, killed, result>>

-----------------------------------------------------------------------------
\* The caller.

Return(r) == pc' = "end" /\ result' = r

\* A message already sent is taken even after the limit.
Hear == pc \in {"listen", "grace"} /\ Open > 0 /\ Said > heard
        /\ heard' = heard + 1 /\ UNCHANGED <<world, late, pc, killed, result>>

\* The tool stays unreaped until its pipes close or the limit passes.
Listen ==
  /\ pc = "listen" /\ (Open = 0 \/ (late # "no" /\ Said = heard))
  /\ pc' = IF Open = 0 THEN "wait" ELSE "kill"
  /\ UNCHANGED <<world, heard, late, killed, result>>

\* wait_until tries to collect the tool until the deadline.
Wait ==
  /\ pc = "wait"
  /\ \/ /\ procs["tool"] \in {"ended", "reaped"}
        /\ procs' = [procs EXCEPT !["tool"] = "reaped"]
        /\ pc' = "judge" /\ UNCHANGED result
     \/ /\ procs["tool"] = "runs" /\ late # "no"
        /\ pc' = "kill" /\ UNCHANGED <<procs, result>>
     \/ "wait" \in Faults /\ Return("cannot_run") /\ UNCHANGED procs
  /\ UNCHANGED <<status, holds, pipe, fed, printed, got, threads, heard, late, killed>>

Kill(ms) ==
  /\ procs' = [m \in Members |-> IF m = "tool" THEN "reaped"
                                 ELSE IF m \in ms /\ procs[m] = "runs" THEN "ended" ELSE procs[m]]
  /\ Drop(ms)

\* killpg, or the tool alone when that fails, then the tool is collected.
StopProcessGroup ==
  /\ pc = "kill" /\ pc' = "grace"
  /\ \/ Kill({"tool", "helper"}) /\ killed' = IF procs["tool"] = "reaped" THEN "other" ELSE "group"
     \/ "kill" \in Faults /\ Kill({"tool"}) /\ killed' = "tool"
  /\ status' = IF status = None THEN "signal" ELSE status
  /\ UNCHANGED <<pipe, fed, printed, got, threads, heard, late, result>>

\* Mutant: the threads are always joined.
GraceJoins == pc = "grace" /\ Open = 0 /\ Return("too_long") /\ UNCHANGED <<world, heard, late, killed>>
\* The threads are joined only once all have ended.
Grace ==
  /\ pc = "grace" /\ (Open = 0 \/ (Said = heard /\ late = "grace"))
  /\ Return("too_long") /\ UNCHANGED <<world, heard, late, killed>>

\* Mutant: a broken write is not an error.
JudgeStatusOnly ==
  /\ pc = "judge"
  /\ Return(IF status # "success" THEN "failed" ELSE "printed")
  /\ UNCHANGED <<world, heard, late, killed>>
Judge ==
  /\ pc = "judge"
  /\ Return(CASE status # "success" -> "failed"
              [] threads["writer"] = "broken" -> "cannot_send"
              [] OTHER -> "printed")
  /\ UNCHANGED <<world, heard, late, killed>>

-----------------------------------------------------------------------------
ToolStep ==
  \/ \E m \in Members : ToolReads(m) \/ ToolPrints(m) \/ Exits(m) \/ \E xs \in {{"in"}, Pipes} : Closes(m, xs)
  \/ Starts("helper") \/ Starts("stray")
ThreadStep == Write \/ Read("printed", "out") \/ Read("errors", "err")
CallerStep == Hear \/ Listen \/ Wait \/ StopProcessGroup \/ Grace \/ Judge
Next == ToolStep \/ ThreadStep \/ TimeLimitPasses \/ CallerStep

\* The tool may hang; the threads, the clock and the caller go on.
Spec ==
  /\ Init /\ [][Next]_vars
  /\ WF_vars(Write) /\ WF_vars(Read("printed", "out")) /\ WF_vars(Read("errors", "err"))
  /\ WF_vars(TimeLimitPasses)
  /\ WF_vars(CallerStep)

-----------------------------------------------------------------------------
\* Properties.

\* The shape of every variable; nothing is read that was not printed.
TypeOK ==
  /\ procs \in [Members -> {"none", "runs", "ended", "reaped"}]
  /\ status \in {None, "success", "failure", "signal"}
  /\ holds \in [Pipes -> SUBSET Members]
  /\ pipe \in [Pipes -> 0..PipeSize]
  /\ fed \in 0..Input /\ printed \in 0..MaxOutput /\ got + pipe["out"] = printed
  /\ threads \in [Threads -> {"runs", "done", "broken"}]
  /\ heard \in 0..Said
  /\ late \in {"no", "limit", "grace"}
  /\ pc \in {"listen", "wait", "kill", "grace", "judge", "end"}
  /\ result \in {None, "printed", "failed", "cannot_send", "cannot_run", "too_long"}

\* Text is used as the tool's only if the tool succeeded, was sent all of the
\* file, and everything it and its helpers printed was read (mod.rs:214).
UsesWhole ==
  result = "printed" => /\ status = "success" /\ fed = Input
                        /\ got = printed /\ holds["out"] = {}

\* The kill reaches the tool's own group, never one that took over its number
\* once the tool was collected (mod.rs:191 and 263).
KillsOwnGroup == killed # "other"

\* After the time limit nothing runs on in the tool's group, unless the group
\* could not be signalled (mod.rs:158).
NothingLeft == result = "too_long" /\ killed # "tool" => Running \subseteq {"stray"}

\* The text of a tool, and the kill of one, are what its caller takes them for.
EndsCleanly == TypeOK /\ UsesWhole /\ KillsOwnGroup /\ NothingLeft

\* The run ends, whatever the tool does and whoever holds its output
\* (mod.rs:29 and 33).
Ends == <>(pc = "end")
=============================================================================
