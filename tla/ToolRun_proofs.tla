---------------------------- MODULE ToolRun_proofs -----------------------------
(***************************************************************************)
(* The text and the end of a tool, for any sizes of its input, its output  *)
(* and its pipes, whatever it starts, closes and leaves behind.            *)
(***************************************************************************)
EXTENDS ToolRun, FiniteSetTheorems, TLAPS

\* Nothing prints to the third pipe, and what was read can be counted.
PipesPart == got \in Nat /\ pipe["err"] = 0

\* How a thread ended says where its pipe stands, and it stays there.
ThreadPart ==
  /\ threads["writer"] = "done" => fed = Input
  /\ threads["printed"] # "runs" => holds["out"] = {} /\ pipe["out"] = 0

\* The tool and its group can do nothing any more.
GroupOver == procs["tool"] = "reaped" /\ (killed # "tool" => procs["helper"] # "runs")

\* The caller collects the tool only once it has heard all threads, or when it
\* kills its group: until then the number of the group is the tool's.
CallerPart ==
  /\ pc \in {"wait", "judge"} => heard = 3
  /\ pc \in {"listen", "wait", "kill"} => procs["tool"] # "reaped"
  /\ pc = "judge" => procs["tool"] = "reaped"
  /\ pc = "grace" => GroupOver

\* What a result says of the tool stays true after it.
ResultPart ==
  /\ result = "printed" =>
       /\ procs["tool"] = "reaped" /\ threads["printed"] # "runs"
       /\ status = "success" /\ fed = Input
  /\ result = "too_long" => GroupOver
  /\ killed # "other"

IInv == TypeOK /\ PipesPart /\ ThreadPart /\ CallerPart /\ ResultPart

-----------------------------------------------------------------------------
\* Messages are counted.

LEMMA ThreadsCounted == IsFiniteSet(Threads) /\ Cardinality(Threads) = 3
<1>1. IsFiniteSet({}) /\ Cardinality({}) = 0
  BY FS_EmptySet
<1>2. IsFiniteSet({"writer"}) /\ Cardinality({"writer"}) = 1
  BY FS_Singleton
<1>3. {"writer", "printed"} = {"writer"} \cup {"printed"}
      /\ Threads = {"writer", "printed"} \cup {"errors"}
  BY DEF Threads
<1>4. IsFiniteSet({"writer", "printed"}) /\ Cardinality({"writer", "printed"}) = 2
  BY <1>2, <1>3, FS_AddElement
<1> QED BY <1>3, <1>4, FS_AddElement

Ended == {t \in Threads : threads[t] # "runs"}

LEMMA SaidCounts ==
  /\ Said \in Nat /\ Said <= 3
  /\ Said = 3 => Ended = Threads
<1>1. Ended \in SUBSET Threads /\ Said = Cardinality(Ended)
  BY DEF Ended, Said
<1>2. IsFiniteSet(Ended) /\ Cardinality(Ended) <= 3 /\ (Cardinality(Ended) = 3 => Ended = Threads)
  BY <1>1, ThreadsCounted, FS_Subset
<1> QED BY <1>1, <1>2, FS_CardinalityType

\* A thread that ended goes on having ended, so no message is taken back.
LEMMA SaidGrows ==
  ASSUME \A t \in Threads : threads[t] # "runs" => threads'[t] # "runs"
  PROVE  /\ Said' \in Nat /\ Said \in Nat /\ Said <= Said' /\ Said' <= 3
<1>1. Ended \in SUBSET (Ended') /\ Ended' \in SUBSET Threads
  BY DEF Ended
<1>2. Said = Cardinality(Ended) /\ Said' = Cardinality(Ended')
  BY DEF Ended, Said
<1>3. IsFiniteSet(Ended') /\ Cardinality(Ended') <= 3
  BY <1>1, ThreadsCounted, FS_Subset
<1>4. IsFiniteSet(Ended) /\ Cardinality(Ended) <= Cardinality(Ended')
  BY <1>1, <1>3, FS_Subset
<1> QED BY <1>2, <1>3, <1>4, FS_CardinalityType

LEMMA SaidStays == ASSUME UNCHANGED threads PROVE Said' = Said
BY DEF Said

-----------------------------------------------------------------------------
\* The tool and what it starts.

LEMMA ToolReadsKeeps ==
  ASSUME IInv, NEW m \in Members, ToolReads(m)
  PROVE  IInv'
<1> USE DEF ToolReads, caller
<1>1. Said' = Said
  BY SaidStays
<1>2. pipe["in"] \in 1..PipeSize /\ pipe' \in [Pipes -> 0..PipeSize]
      /\ pipe'["out"] = pipe["out"] /\ pipe'["err"] = pipe["err"]
  BY ToolAssumption DEF IInv, TypeOK, Pipes
<1>3. TypeOK'
  BY <1>1, <1>2 DEF IInv, TypeOK
<1> QED BY <1>2, <1>3 DEF IInv, PipesPart, ThreadPart, CallerPart, ResultPart, GroupOver

LEMMA ToolPrintsKeeps ==
  ASSUME IInv, NEW m \in Members, ToolPrints(m)
  PROVE  IInv'
<1> USE DEF ToolPrints, caller
<1>1. Said' = Said
  BY SaidStays
<1>2. pipe' \in [Pipes -> 0..PipeSize] /\ pipe'["out"] = pipe["out"] + 1 /\ pipe'["err"] = pipe["err"]
      /\ pipe["out"] \in Nat
  BY ToolAssumption DEF IInv, TypeOK, Pipes
<1>3. printed' \in 0..MaxOutput /\ got' + pipe'["out"] = printed'
  BY <1>2, ToolAssumption DEF IInv, TypeOK, PipesPart
<1>4. TypeOK'
  BY <1>1, <1>2, <1>3 DEF IInv, TypeOK
<1> QED BY <1>2, <1>4 DEF IInv, PipesPart, ThreadPart, CallerPart, ResultPart, GroupOver

LEMMA StartsKeeps ==
  ASSUME IInv, NEW m \in {"helper", "stray"}, Starts(m)
  PROVE  IInv'
<1> USE DEF Starts, caller
<1>1. Said' = Said
  BY SaidStays
<1>2. holds' \in [Pipes -> SUBSET Members] /\ (holds["out"] = {} => holds'["out"] = {})
  BY DEF IInv, TypeOK, Pipes, Members
<1>3. procs' \in [Members -> {"none", "runs", "ended", "reaped"}] /\ procs'["tool"] = "runs"
      /\ procs["tool"] = "runs"
  BY DEF IInv, TypeOK, Members
<1>4. TypeOK'
  BY <1>1, <1>2, <1>3 DEF IInv, TypeOK
<1> QED BY <1>2, <1>3, <1>4 DEF IInv, PipesPart, ThreadPart, CallerPart, ResultPart, GroupOver

LEMMA ClosesKeeps ==
  ASSUME IInv, NEW m \in Members, NEW xs \in {{"in"}, Pipes}, Closes(m, xs)
  PROVE  IInv'
<1> USE DEF Closes, caller
<1>1. Said' = Said
  BY SaidStays
<1>2. holds' \in [Pipes -> SUBSET Members] /\ (holds["out"] = {} => holds'["out"] = {})
  BY DEF IInv, TypeOK, Pipes
<1>3. TypeOK'
  BY <1>1, <1>2 DEF IInv, TypeOK
<1> QED BY <1>2, <1>3 DEF IInv, PipesPart, ThreadPart, CallerPart, ResultPart, GroupOver

LEMMA DropTyped ==
  ASSUME TypeOK, NEW ms \in SUBSET Members, Drop(ms)
  PROVE  holds' \in [Pipes -> SUBSET Members] /\ (holds["out"] = {} => holds'["out"] = {})
BY DEF Drop, TypeOK, Pipes

LEMMA ExitsKeeps ==
  ASSUME IInv, NEW m \in Members, Exits(m)
  PROVE  IInv'
<1> USE DEF Exits, caller
<1>1. Said' = Said
  BY SaidStays
<1>2. holds' \in [Pipes -> SUBSET Members] /\ (holds["out"] = {} => holds'["out"] = {})
  BY DropTyped DEF IInv
<1>3. procs[m] = "runs" /\ procs' \in [Members -> {"none", "runs", "ended", "reaped"}]
      /\ procs'[m] = "ended" /\ \A n \in Members : n # m => procs'[n] = procs[n]
  BY DEF IInv, TypeOK, Running
<1>4. status' \in {None, "success", "failure", "signal"} /\ (procs["tool"] = "reaped" => status' = status)
  BY <1>3 DEF IInv, TypeOK
<1>5. TypeOK'
  BY <1>1, <1>2, <1>3, <1>4 DEF IInv, TypeOK
<1>6. "tool" \in Members /\ "helper" \in Members
  BY DEF Members
<1>7. /\ procs["tool"] = "reaped" <=> procs'["tool"] = "reaped"
      /\ procs["helper"] # "runs" => procs'["helper"] # "runs"
  BY <1>3, <1>6
<1> QED BY <1>2, <1>4, <1>5, <1>7 DEF IInv, PipesPart, ThreadPart, CallerPart, ResultPart, GroupOver

-----------------------------------------------------------------------------
\* The threads.

LEMMA WriteKeeps ==
  ASSUME IInv, Write
  PROVE  IInv'
<1> USE DEF Write, caller
<1>1. /\ threads' \in [Threads -> {"runs", "done", "broken"}]
      /\ \A t \in Threads : threads[t] # "runs" => threads'[t] # "runs"
      /\ threads'["printed"] = threads["printed"]
      /\ threads'["writer"] = "done" => fed' = Input
  BY DEF IInv, TypeOK, Threads
<1>2. heard' \in 0..Said'
  BY <1>1, SaidGrows DEF IInv, TypeOK
<1>3. pipe' \in [Pipes -> 0..PipeSize] /\ pipe'["out"] = pipe["out"] /\ pipe'["err"] = pipe["err"]
  BY ToolAssumption DEF IInv, TypeOK, Pipes
<1>4. fed' \in 0..Input /\ (fed = Input => fed' = Input)
  BY ToolAssumption DEF IInv, TypeOK
<1>5. TypeOK'
  BY <1>1, <1>2, <1>3, <1>4 DEF IInv, TypeOK
<1> QED BY <1>1, <1>3, <1>4, <1>5 DEF IInv, PipesPart, ThreadPart, CallerPart, ResultPart, GroupOver

LEMMA ReadKeeps ==
  ASSUME IInv, NEW t, NEW x, <<t, x>> \in {<<"printed", "out">>, <<"errors", "err">>}, Read(t, x)
  PROVE  IInv'
<1> USE DEF Read, caller
<1>1. t \in Threads /\ t # "writer" /\ x \in Pipes /\ x # "in"
      /\ (t = "printed" <=> x = "out")
  BY DEF Threads, Pipes
<1>2. pipe[x] \in 0..PipeSize
  BY <1>1 DEF IInv, TypeOK
<1>3. CASE pipe[x] > 0
  <2>1. x = "out" /\ t = "printed"
    BY <1>1, <1>3 DEF IInv, PipesPart, Pipes
  <2>2. Said' = Said
    BY <1>3, SaidStays
  <2>3. pipe' \in [Pipes -> 0..PipeSize] /\ pipe'["out"] = 0 /\ pipe'["err"] = pipe["err"]
        /\ pipe["out"] \in Nat /\ got' = got + pipe["out"] /\ "err" \in Pipes
    BY <1>2, <1>3, <2>1, ToolAssumption DEF IInv, TypeOK, Pipes
  <2>4. got' \in Nat /\ got' + pipe'["out"] = printed'
    BY <2>3 DEF IInv, TypeOK, PipesPart
  <2>5. TypeOK'
    BY <1>3, <2>2, <2>3, <2>4 DEF IInv, TypeOK
  <2>6. threads["printed"] = "runs" /\ UNCHANGED threads
    BY <1>3, <2>1
  <2> QED BY <2>3, <2>4, <2>5, <2>6 DEF IInv, PipesPart, ThreadPart, CallerPart, ResultPart, GroupOver
<1>4. CASE ~(pipe[x] > 0)
  <2>1. /\ threads' \in [Threads -> {"runs", "done", "broken"}]
        /\ \A s \in Threads : threads[s] # "runs" => threads'[s] # "runs"
        /\ threads'["writer"] = threads["writer"]
        /\ threads'["printed"] # "runs" => threads["printed"] # "runs" \/ x = "out"
        /\ threads["printed"] # "runs" => threads'["printed"] # "runs"
    BY <1>1, <1>4 DEF IInv, TypeOK, Threads
  <2>2. heard' \in 0..Said'
    BY <2>1, SaidGrows DEF IInv, TypeOK
  <2>3. pipe[x] = 0 /\ holds[x] = {} /\ UNCHANGED <<pipe, got, procs, status, holds, fed, printed, heard, late, pc, killed, result>>
    BY <1>2, <1>4
  <2>4. TypeOK'
    BY <2>1, <2>2, <2>3 DEF IInv, TypeOK
  <2> QED BY <2>1, <2>3, <2>4 DEF IInv, PipesPart, ThreadPart, CallerPart, ResultPart, GroupOver
<1> QED BY <1>3, <1>4

-----------------------------------------------------------------------------
\* The clock and the caller.

LEMMA TimeKeeps ==
  ASSUME IInv, TimeLimitPasses
  PROVE  IInv'
<1> USE DEF TimeLimitPasses, world
<1>1. Said' = Said
  BY SaidStays
<1>2. late' \in {"no", "limit", "grace"}
  BY DEF IInv, TypeOK
<1>3. TypeOK'
  BY <1>1, <1>2 DEF IInv, TypeOK
<1> QED BY <1>3 DEF IInv, PipesPart, ThreadPart, CallerPart, ResultPart, GroupOver

LEMMA HearKeeps ==
  ASSUME IInv, Hear
  PROVE  IInv'
<1> USE DEF Hear, world
<1>1. Said' = Said /\ Said \in Nat
  BY SaidStays, SaidCounts
<1>2. heard' \in 0..Said' /\ heard' \in Nat
  BY <1>1 DEF IInv, TypeOK
<1>3. TypeOK'
  BY <1>1, <1>2 DEF IInv, TypeOK
<1> QED BY <1>3 DEF IInv, PipesPart, ThreadPart, CallerPart, ResultPart, GroupOver

LEMMA ListenKeeps ==
  ASSUME IInv, Listen
  PROVE  IInv'
<1> USE DEF Listen, world
<1>1. Said' = Said /\ Said \in Nat
  BY SaidStays, SaidCounts
<1>2. heard \in Nat /\ (Open = 0 => heard = 3)
  BY <1>1 DEF IInv, TypeOK, Open
<1>3. TypeOK'
  BY <1>1 DEF IInv, TypeOK
<1> QED BY <1>2, <1>3 DEF IInv, PipesPart, ThreadPart, CallerPart, ResultPart, GroupOver

LEMMA WaitKeeps ==
  ASSUME IInv, Wait
  PROVE  IInv'
<1> USE DEF Wait
<1>1. Said' = Said
  BY SaidStays
<1>2. /\ procs' \in [Members -> {"none", "runs", "ended", "reaped"}]
      /\ procs' = procs \/ procs'["tool"] = "reaped"
      /\ procs'["helper"] = procs["helper"]
  BY DEF IInv, TypeOK, Members
<1>3. TypeOK'
  BY <1>1, <1>2 DEF IInv, TypeOK, Return
<1>4. pc = "wait" /\ pc' \in {"judge", "kill", "end"} /\ (pc' = "judge" => procs'["tool"] = "reaped")
      /\ (pc' = "kill" => procs' = procs) /\ (result' = result \/ result' = "cannot_run")
  BY DEF Return, IInv, TypeOK, Members
<1> QED BY <1>2, <1>3, <1>4 DEF IInv, PipesPart, ThreadPart, CallerPart, ResultPart, GroupOver

LEMMA StopKeeps ==
  ASSUME IInv, StopProcessGroup
  PROVE  IInv'
<1> USE DEF StopProcessGroup
<1>1. Said' = Said
  BY SaidStays
<1>2. PICK ms \in SUBSET Members : Kill(ms) /\ (killed' = "tool" \/ ms = {"tool", "helper"})
                                  /\ killed' \in {"tool", "group", "other"}
                                  /\ (killed' = "other" => procs["tool"] = "reaped")
  BY DEF Members
<1>3. /\ procs' \in [Members -> {"none", "runs", "ended", "reaped"}]
      /\ procs'["tool"] = "reaped"
      /\ "helper" \in ms => procs'["helper"] # "runs"
  BY <1>2 DEF Kill, IInv, TypeOK, Members
<1>4. holds' \in [Pipes -> SUBSET Members] /\ (holds["out"] = {} => holds'["out"] = {})
  BY <1>2, DropTyped DEF Kill, IInv
<1>5. status' \in {None, "success", "failure", "signal"} /\ (status = "success" => status' = status)
  BY DEF IInv, TypeOK, None
<1>6. TypeOK'
  BY <1>1, <1>3, <1>4, <1>5 DEF IInv, TypeOK
<1>7. GroupOver' /\ killed' # "other"
  BY <1>2, <1>3 DEF GroupOver, IInv, CallerPart
<1> QED BY <1>3, <1>4, <1>5, <1>6, <1>7 DEF IInv, PipesPart, ThreadPart, CallerPart, ResultPart

LEMMA GraceKeeps ==
  ASSUME IInv, Grace
  PROVE  IInv'
<1> USE DEF Grace, world, Return
<1>1. Said' = Said
  BY SaidStays
<1>2. TypeOK'
  BY <1>1 DEF IInv, TypeOK
<1> QED BY <1>2 DEF IInv, PipesPart, ThreadPart, CallerPart, ResultPart, GroupOver

\* All three threads have been heard, so nothing is on its way any more.
LEMMA JudgeKeeps ==
  ASSUME IInv, Judge
  PROVE  IInv'
<1> USE DEF Judge, world, Return
<1>1. Said' = Said /\ Said \in Nat /\ Said <= 3 /\ (Said = 3 => Ended = Threads)
  BY SaidStays, SaidCounts
<1>2. result' \in {"failed", "cannot_send", "printed"}
      /\ (result' = "printed" => status = "success" /\ threads["writer"] # "broken")
  BY DEF IInv, TypeOK
<1>3. TypeOK'
  BY <1>1, <1>2 DEF IInv, TypeOK
<1>4. Said = 3
  BY <1>1 DEF IInv, TypeOK, CallerPart
<1>5. threads["writer"] \in {"done", "broken"} /\ threads["printed"] # "runs"
  BY <1>1, <1>4 DEF Ended, Threads, IInv, TypeOK
<1>6. result' = "printed" => fed = Input
  BY <1>2, <1>5 DEF IInv, ThreadPart
<1> QED BY <1>2, <1>3, <1>5, <1>6 DEF IInv, PipesPart, ThreadPart, CallerPart, ResultPart, GroupOver

-----------------------------------------------------------------------------

LEMMA InitKeeps == Init => IInv
<1> SUFFICES ASSUME Init PROVE IInv
  OBVIOUS
<1> USE DEF Init
<1>1. Said \in Nat
  BY SaidCounts
<1>2. pipe \in [Pipes -> 0..PipeSize] /\ pipe["out"] = 0 /\ pipe["err"] = 0
      /\ holds \in [Pipes -> SUBSET Members]
  BY ToolAssumption DEF Pipes, Members
<1>3. procs \in [Members -> {"none", "runs", "ended", "reaped"}] /\ procs["tool"] = "runs"
  BY DEF Members
<1>4. threads \in [Threads -> {"runs", "done", "broken"}]
      /\ threads["writer"] = "runs" /\ threads["printed"] = "runs"
  BY DEF Threads
<1>5. TypeOK
  BY <1>1, <1>2, <1>3, <1>4, ToolAssumption DEF TypeOK, None
<1> QED BY <1>2, <1>3, <1>4, <1>5 DEF IInv, PipesPart, ThreadPart, CallerPart, ResultPart, GroupOver, None

LEMMA StepKeeps == IInv /\ [Next]_vars => IInv'
<1> SUFFICES ASSUME IInv, [Next]_vars PROVE IInv'
  OBVIOUS
<1>1. CASE ToolStep
  BY <1>1, ToolReadsKeeps, ToolPrintsKeeps, ExitsKeeps, ClosesKeeps, StartsKeeps DEF ToolStep
<1>2. CASE ThreadStep
  BY <1>2, WriteKeeps, ReadKeeps DEF ThreadStep
<1>3. CASE TimeLimitPasses
  BY <1>3, TimeKeeps
<1>4. CASE CallerStep
  BY <1>4, HearKeeps, ListenKeeps, WaitKeeps, StopKeeps, GraceKeeps, JudgeKeeps DEF CallerStep
<1>5. CASE UNCHANGED vars
  <2>1. Said' = Said
    BY <1>5, SaidStays DEF vars, world
  <2>2. TypeOK'
    BY <1>5, <2>1 DEF vars, world, caller, IInv, TypeOK
  <2> QED BY <1>5, <2>2 DEF vars, world, caller, IInv, PipesPart, ThreadPart, CallerPart, ResultPart, GroupOver
<1> QED BY <1>1, <1>2, <1>3, <1>4, <1>5 DEF Next

\* The text of a tool is used as its own only if the tool succeeded, was sent all
\* of the file and nothing it printed was left unread; the kill never reaches a
\* group that took over its number; and after the limit its group is gone,
\* unless it could not be signalled.
THEOREM ToolIsSafe == Spec => []EndsCleanly
<1>1. Init => IInv
  BY InitKeeps
<1>2. IInv /\ [Next]_vars => IInv'
  BY StepKeeps
<1>3. IInv => EndsCleanly
  <2> SUFFICES ASSUME IInv PROVE EndsCleanly
    OBVIOUS
  <2>1. UsesWhole
    <3>1. SUFFICES ASSUME result = "printed" PROVE UsesWhole
      BY DEF UsesWhole
    <3>2. threads["printed"] # "runs" /\ status = "success" /\ fed = Input
      BY <3>1 DEF IInv, ResultPart
    <3>3. holds["out"] = {} /\ pipe["out"] = 0
      BY <3>2 DEF IInv, ThreadPart
    <3>4. got = printed
      BY <3>3 DEF IInv, TypeOK, PipesPart
    <3> QED BY <3>2, <3>3, <3>4 DEF UsesWhole
  <2>2. KillsOwnGroup
    BY DEF KillsOwnGroup, IInv, ResultPart
  <2>3. NothingLeft
    BY DEF NothingLeft, IInv, ResultPart, GroupOver, Running, Members
  <2> QED BY <2>1, <2>2, <2>3 DEF EndsCleanly, IInv
<1> QED BY <1>1, <1>2, <1>3, PTL DEF Spec
=============================================================================
