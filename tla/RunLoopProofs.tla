-------------------------- MODULE RunLoopProofs --------------------------
(***************************************************************************)
(* Cpu::run, its trace and the exit status, for every limit, any number of *)
(* runs and every failure of the trace file.                               *)
(*                                                                         *)
(* While a run is traced, the last record of the trace tells how the hart  *)
(* stands; a result, once there, stays that of the present state, as       *)
(* nothing steps the hart until the next run clears it.                    *)
(***************************************************************************)
EXTENDS RunLoop, CpuProofs, FiniteSetTheorems, SequenceTheorems

LoopTyped ==
  /\ tracing \in BOOLEAN /\ trace \in Seq(Record)
  /\ attempted \in Nat /\ maximum_steps \in Nat /\ attempted <= maximum_steps
LastRecord ==
  tracing =>
    /\ Len(trace) > 0 => trace[Len(trace)].halted = halted
    /\ halted => Len(trace) > 0 /\ trace[Len(trace)].trap = terminal_trap
ResultCurrent ==
  \A r \in result : mode \in {"returned", "exited"} /\ r = RunResult /\ ~Looping
ExitLast == exit # {} => mode = "exited"

RunInv ==
  /\ HartInv /\ LoopTyped /\ TraceIsExecution /\ LastRecord /\ ResultCurrent
  /\ ExitLast /\ ExitTruthful

LEMMA SingletonSeq == \A x : SetToSeq({x}) = <<x>>
<1> SUFFICES ASSUME NEW x PROVE SetToSeq({x}) = <<x>>
  OBVIOUS
<1>1. Cardinality({x}) = 1
  BY FS_Singleton
<1>2. \A f \in [1..1 -> {x}] : f = <<x>>
  OBVIOUS
<1>3. <<x>> \in [1..1 -> {x}] /\ IsInjective(<<x>>)
  BY DEF IsInjective
<1> QED BY <1>1, <1>2, <1>3 DEF SetToSeq

LEMMA RunInitInv == RunInit => RunInv
<1> SUFFICES ASSUME RunInit PROVE RunInv
  OBVIOUS
<1>1. HartInv /\ ~halted /\ sequence = 0
  BY HartInit DEF RunInit, Init
<1>2. trace = <<>> /\ result = {} /\ exit = {}
  BY DEF RunInit
<1>3. LoopTyped
  BY <1>2, RunAssumption DEF RunInit, LoopTyped
<1>4. TraceIsExecution /\ LastRecord
  BY <1>1, <1>2 DEF TraceIsExecution, LastRecord
<1> QED BY <1>1, <1>2, <1>3, <1>4 DEF RunInv, ResultCurrent, ExitLast, ExitTruthful

(* A step of the loop, and the record it appends.                          *)
LEMMA StepRecorded ==
  ASSUME HartInv, Step
  PROVE  /\ HartInv' /\ ~halted /\ sequence' = sequence + 1 /\ sequence \in Nat
         /\ \E s \in Record :
              /\ record' = {s}
              /\ s.sequence = sequence /\ s.pc = pc /\ s.privilege = privilege
              /\ s.next_pc = pc' /\ s.next_privilege = privilege' /\ s.halted = halted'
              /\ halted' => s.trap = terminal_trap'
<1>1. Attempt /\ ~halted
  BY DEF Step, StepFetchTrap, StepInstruction
<1>2. HartInv'
  BY HartStep DEF Step, Next
<1>3. sequence' = sequence + 1 /\ sequence \in Nat
  BY <1>1, ConfigAssumption DEF Attempt, HartInv, TypeOK
<1>4. terminal_trap = {}
  BY <1>1 DEF HartInv, StoppedAtTrap
<1>5. \E s, r : /\ record' = {s} /\ Closes(s, r)
                /\ halted' => s.trap = terminal_trap'
  <2>1. CASE TrapShape
    <3>1. PICK r, cause, value, stop :
            Trapping(r, cause, value, stop) /\ EnterTrap(r, cause, value, stop)
      BY <2>1 DEF TrapShape
    <3> TrapEffect(r, cause, value)
      BY <3>1, TrapFacts DEF HartInv
    <3> DEFINE trap == [cause |-> cause, pc |-> pc, value |-> value]
    <3>2. /\ terminal_trap' = {trap} \/ halted' = halted
          /\ \E s : record' = {s} /\ Closes(s, r) /\ s.trap = {trap}
      BY DEF TrapEffect
    <3> QED BY <1>1, <3>2
  <2>2. CASE CompleteShape
    <3>1. PICK r, c, next, target, stop :
            Completing(r, c, next, target, stop) /\ Complete(r, c, next, target, stop)
      BY <2>2 DEF CompleteShape
    <3>2. /\ terminal_trap' = terminal_trap
          /\ \E s : record' = {s} /\ Closes(s, r) /\ s.trap = {}
      BY <3>1, CompleteFacts DEF HartInv
    <3> QED BY <1>4, <3>2
  <2> QED BY <2>1, <2>2, StepShape DEF Step, HartInv
<1>6. PICK s, r : /\ record' = {s} /\ Closes(s, r)
                  /\ halted' => s.trap = terminal_trap'
  BY <1>5
<1>7. /\ s \in Record /\ s.sequence = sequence /\ s.pc = pc /\ s.privilege = privilege
      /\ s.next_pc = pc' /\ s.next_privilege = privilege' /\ s.halted = halted'
  BY <1>6 DEF Closes
<1> QED BY <1>1, <1>2, <1>3, <1>6, <1>7

LEMMA RunStepInv ==
  ASSUME RunInv, RunStep
  PROVE  RunInv'
<1>1. HartInv /\ Step /\ mode = "running"
  BY DEF RunInv, RunStep
<1>2. HartInv' /\ ~halted /\ sequence' = sequence + 1 /\ sequence \in Nat
  BY <1>1, StepRecorded
<1>3. PICK s \in Record :
        /\ record' = {s}
        /\ s.sequence = sequence /\ s.pc = pc /\ s.privilege = privilege
        /\ s.next_pc = pc' /\ s.next_privilege = privilege' /\ s.halted = halted'
        /\ halted' => s.trap = terminal_trap'
  BY <1>1, StepRecorded
<1>4. trace' = IF tracing THEN trace \o <<s>> ELSE trace
  BY <1>3, SingletonSeq DEF RunStep, Appended
<1>5. /\ tracing \in BOOLEAN /\ trace \in Seq(Record)
      /\ attempted \in Nat /\ maximum_steps \in Nat /\ attempted < maximum_steps
  BY DEF RunInv, LoopTyped, RunStep, Looping
<1>6. /\ attempted' = attempted + 1 /\ UNCHANGED <<tracing, maximum_steps, result>>
  BY DEF RunStep
<1>7. trace' \in Seq(Record)
  BY <1>3, <1>4, <1>5
<1>8. LoopTyped'
  BY <1>5, <1>6, <1>7 DEF LoopTyped
<1>9. tracing => /\ Len(trace') = Len(trace) + 1 /\ Len(trace) \in Nat
                 /\ trace'[Len(trace) + 1] = s
                 /\ \A i \in 1..Len(trace) : trace'[i] = trace[i]
  BY <1>3, <1>4, <1>5
<1>10. TraceIsExecution'
  <2> SUFFICES ASSUME tracing
               PROVE  LET n == Len(trace')
                      IN  /\ n = sequence'
                          /\ \A i \in 1..n : trace'[i].sequence = i - 1
                          /\ \A i \in 1..n-1 :
                               /\ trace'[i + 1].pc = trace'[i].next_pc
                               /\ trace'[i + 1].privilege = trace'[i].next_privilege
                               /\ ~trace'[i].halted
                          /\ n > 0 => /\ trace'[n].next_pc = pc'
                                      /\ trace'[n].next_privilege = privilege'
    BY <1>6 DEF TraceIsExecution
  <2> DEFINE m == Len(trace)
  <2>1. /\ m = sequence
        /\ \A i \in 1..m : trace[i].sequence = i - 1
        /\ \A i \in 1..m-1 :
             /\ trace[i + 1].pc = trace[i].next_pc
             /\ trace[i + 1].privilege = trace[i].next_privilege
             /\ ~trace[i].halted
        /\ m > 0 => trace[m].next_pc = pc /\ trace[m].next_privilege = privilege
    BY DEF RunInv, TraceIsExecution
  <2>2. m > 0 => trace[m].halted = halted
    BY DEF RunInv, LastRecord
  <2>3. /\ Len(trace') = m + 1 /\ m \in Nat /\ trace'[m + 1] = s
        /\ \A i \in 1..m : trace'[i] = trace[i]
    BY <1>9
  <2> HIDE DEF m
  <2>4. ASSUME NEW i \in 1..m+1 PROVE trace'[i].sequence = i - 1
    <3>1. CASE i = m + 1
      BY <1>3, <2>1, <2>3, <3>1
    <3>2. CASE i # m + 1
      <4>1. i \in 1..m
        BY <2>3, <3>2
      <4> QED BY <2>1, <2>3, <4>1
    <3> QED BY <3>1, <3>2
  <2>5. ASSUME NEW i \in 1..m
        PROVE  /\ trace'[i + 1].pc = trace'[i].next_pc
               /\ trace'[i + 1].privilege = trace'[i].next_privilege
               /\ ~trace'[i].halted
    <3>1. CASE i = m
      BY <1>2, <1>3, <2>1, <2>2, <2>3, <3>1
    <3>2. CASE i # m
      <4>1. i \in 1..m-1 /\ i + 1 \in 1..m
        BY <2>3, <3>2
      <4> QED BY <2>1, <2>3, <4>1
    <3> QED BY <3>1, <3>2
  <2> QED BY <1>2, <1>3, <2>1, <2>3, <2>4, <2>5
<1>11. LastRecord'
  <2>1. tracing => /\ Len(trace') > 0 /\ trace'[Len(trace')] = s
    BY <1>9
  <2> QED BY <1>3, <1>6, <2>1 DEF LastRecord
<1>12. result' = {} /\ exit = {}
  BY <1>1, <1>6 DEF RunInv, ResultCurrent, ExitLast
<1>13. ResultCurrent'
  BY <1>12 DEF ResultCurrent
<1>14. ExitLast' /\ ExitTruthful'
  <2>1. CASE UNCHANGED <<mode, on_disk, exit>>
    BY <1>12, <2>1 DEF ExitLast, ExitTruthful
  <2>2. CASE WriteThrows(trace')
    BY <2>2 DEF WriteThrows, ExitLast, ExitTruthful
  <2> QED BY <2>1, <2>2 DEF RunStep
<1> QED BY <1>2, <1>8, <1>10, <1>11, <1>13, <1>14 DEF RunInv

(* The parts of the invariant that only the hart and the trace decide.     *)
LEMMA HartUnchanged ==
  ASSUME RunInv, UNCHANGED <<vars, tracing, trace>>
  PROVE  HartInv' /\ TraceIsExecution' /\ LastRecord'
<1>1. UNCHANGED <<trap_policy, registers, pc, privilege, csrs, sequence, halted,
                  terminal_trap, ram, transmitted, record>>
  BY DEF vars
<1>2. HartInv'
  BY <1>1 DEF RunInv, HartInv, TypeOK, LegalState, RecordTruthful, StoppedAtTrap
<1>3. TraceIsExecution'
  BY <1>1 DEF RunInv, TraceIsExecution
<1>4. LastRecord'
  BY <1>1 DEF RunInv, LastRecord
<1> QED BY <1>2, <1>3, <1>4

(* The exit status of a result.                                            *)
LEMMA StatusTruthful ==
  ASSUME RunInv, NEW r \in result, tracing
  PROVE  LET status == ExitStatus(r)
             stop == IF trace = <<>> THEN {} ELSE Last(trace).trap
         IN  /\ status = 0 => halted /\ \A t \in stop : t.cause = Breakpoint
             /\ status = 3 => halted /\ \E t \in stop : t.cause # Breakpoint
             /\ status = 2 => ~halted
<1> DEFINE stop == IF trace = <<>> THEN {} ELSE Last(trace).trap
<1>1. r.reason = (IF halted THEN "Halted" ELSE "StepLimit")
      /\ r.terminal_trap = terminal_trap
  BY DEF RunInv, ResultCurrent, RunResult
<1>2. CASE halted
  <2>1. Len(trace) > 0 /\ trace[Len(trace)].trap = terminal_trap
    BY <1>2 DEF RunInv, LastRecord
  <2>2. stop = terminal_trap
    BY <2>1 DEF Last
  <2>3. ExitStatus(r) = IF \E t \in terminal_trap : t.cause # Breakpoint THEN 3 ELSE 0
    BY <1>1, <1>2 DEF ExitStatus
  <2> HIDE DEF stop
  <2>4. /\ ExitStatus(r) = 0 => halted /\ \A t \in stop : t.cause = Breakpoint
        /\ ExitStatus(r) = 3 => halted /\ \E t \in stop : t.cause # Breakpoint
        /\ ExitStatus(r) = 2 => ~halted
    BY <1>2, <2>2, <2>3
  <2> QED BY <2>4 DEF stop
<1>3. CASE ~halted
  <2>1. ExitStatus(r) = 2
    BY <1>1, <1>3 DEF ExitStatus
  <2> QED BY <1>3, <2>1
<1> QED BY <1>2, <1>3

LEMMA RunOtherInv ==
  ASSUME RunInv,
         \/ OpenFails \/ \E limit \in Limits : StartRun(limit)
         \/ RunReturn \/ Exit \/ FlushFails \/ UNCHANGED allvars
  PROVE  RunInv'
<1>1. UNCHANGED <<vars, tracing, trace>>
  BY DEF OpenFails, StartRun, RunReturn, Exit, FlushFails, allvars, loop
<1>2. /\ UNCHANGED <<pc, privilege, csrs, sequence, halted, terminal_trap>>
      /\ HartInv' /\ TraceIsExecution' /\ LastRecord'
  BY <1>1, HartUnchanged DEF vars
<1>3. /\ LoopTyped /\ ResultCurrent /\ ExitLast /\ ExitTruthful /\ TraceIsExecution
  BY DEF RunInv
<1>4. LoopTyped' /\ ResultCurrent' /\ ExitLast' /\ ExitTruthful'
  <2>1. CASE OpenFails
    <3>1. /\ UNCHANGED <<attempted, maximum_steps, result>>
          /\ mode = "ready" /\ mode' = "exited" /\ exit' = {1}
      BY <2>1 DEF OpenFails
    <3>2. LoopTyped'
      BY <1>1, <1>3, <3>1 DEF LoopTyped
    <3>3. result' = {}
      BY <1>3, <3>1 DEF ResultCurrent
    <3> QED BY <3>1, <3>2, <3>3 DEF ResultCurrent, ExitLast, ExitTruthful
  <2>2. CASE \E limit \in Limits : StartRun(limit)
    <3>1. /\ mode # "exited" /\ result' = {} /\ UNCHANGED exit
          /\ attempted' = 0 /\ maximum_steps' \in Nat
      BY <2>2, RunAssumption DEF StartRun
    <3>2. exit' = {}
      BY <1>3, <3>1 DEF ExitLast
    <3>3. LoopTyped'
      BY <1>1, <1>3, <3>1 DEF LoopTyped
    <3> QED BY <3>1, <3>2, <3>3 DEF ResultCurrent, ExitLast, ExitTruthful
  <2>3. CASE RunReturn
    <3>1. /\ mode = "running" /\ mode' = "returned" /\ ~Looping /\ result' = {RunResult}
          /\ UNCHANGED <<attempted, maximum_steps, exit>>
      BY <2>3 DEF RunReturn
    <3>2. exit' = {}
      BY <1>3, <3>1 DEF ExitLast
    <3>3. LoopTyped'
      BY <1>1, <1>3, <3>1 DEF LoopTyped
    <3>4. RunResult' = RunResult /\ ~Looping'
      BY <1>2, <3>1 DEF RunResult, Looping
    <3> QED BY <3>1, <3>2, <3>3, <3>4 DEF ResultCurrent, ExitLast, ExitTruthful
  <2>4. CASE Exit \/ FlushFails
    <3>1. /\ mode = "returned" /\ mode' = "exited"
          /\ UNCHANGED <<attempted, maximum_steps, result>>
      BY <2>4 DEF Exit, FlushFails, WriteThrows
    <3>2. LoopTyped'
      BY <1>1, <1>3, <3>1 DEF LoopTyped
    <3>3. ResultCurrent'
      <4>1. RunResult' = RunResult /\ (Looping' <=> Looping)
        BY <1>2, <3>1 DEF RunResult, Looping
      <4> QED BY <1>3, <3>1, <4>1 DEF ResultCurrent
    <3>4. ExitLast'
      BY <3>1 DEF ExitLast
    <3>5. ExitTruthful'
      <4>1. CASE FlushFails
        BY <4>1 DEF FlushFails, WriteThrows, ExitTruthful
      <4>2. CASE Exit
        <5>1. PICK r \in result : exit' = {ExitStatus(r)}
          BY <4>2 DEF Exit
        <5>2. on_disk' = Len(Text(trace))
          BY <4>2 DEF Exit
        <5>3. tracing => Len(trace) = sequence
          BY <1>3 DEF TraceIsExecution
        <5> DEFINE status == ExitStatus(r)
                   stop == IF trace = <<>> THEN {} ELSE Last(trace).trap
        <5>4. tracing =>
                /\ status = 0 => halted /\ \A t \in stop : t.cause = Breakpoint
                /\ status = 3 => halted /\ \E t \in stop : t.cause # Breakpoint
                /\ status = 2 => ~halted
          BY StatusTruthful
        <5> HIDE DEF status
        <5>5. exit' = {status}
          BY <5>1 DEF status
        <5> QED BY <1>1, <1>2, <5>2, <5>3, <5>4, <5>5 DEF ExitTruthful
      <4> QED BY <2>4, <4>1, <4>2
    <3> QED BY <3>2, <3>3, <3>4, <3>5
  <2>5. CASE UNCHANGED allvars
    <3>1. UNCHANGED <<mode, attempted, maximum_steps, result, exit, on_disk>>
      BY <2>5 DEF allvars, loop
    <3>2. LoopTyped' /\ ExitLast'
      BY <1>1, <1>3, <3>1 DEF LoopTyped, ExitLast
    <3>3. ResultCurrent'
      <4>1. RunResult' = RunResult /\ (Looping' <=> Looping)
        BY <1>2, <3>1 DEF RunResult, Looping
      <4> QED BY <1>3, <3>1, <4>1 DEF ResultCurrent
    <3>4. ExitTruthful'
      BY <1>1, <1>2, <1>3, <3>1 DEF ExitTruthful
    <3> QED BY <3>2, <3>3, <3>4
  <2> QED BY <2>1, <2>2, <2>3, <2>4, <2>5
<1> QED BY <1>2, <1>4 DEF RunInv

(* The invariant of Cpu::run and the run command.                          *)
THEOREM RunInvHolds == RunSpec => []RunInv
<1>1. RunInv /\ [RunNext]_allvars => RunInv'
  BY RunStepInv, RunOtherInv DEF RunNext
<1> QED BY <1>1, RunInitInv, PTL DEF RunSpec

(* The trace is the execution, over any number of runs (TraceIsExecution). *)
THEOREM TraceIsExecutionHolds == RunSpec => []TraceIsExecution
<1>1. RunInv => TraceIsExecution
  BY DEF RunInv
<1> QED BY <1>1, RunInvHolds, PTL

(* The exit status agrees with the guest's end and the trace file          *)
(* (ExitTruthful: the end of run_command).                                 *)
THEOREM ExitTruthfulHolds == RunSpec => []ExitTruthful
<1>1. RunInv => ExitTruthful
  BY DEF RunInv
<1> QED BY <1>1, RunInvHolds, PTL

(* What ResultMatchesTrace says of a RunResult beyond the count of retired *)
(* instructions: its reason, its steps and its trap are those of the last  *)
(* record (cpu.cpp run).                                                   *)
ResultFollowsTrace ==
  \A r \in result : tracing =>
    LET n == Len(trace)
    IN  /\ r.retired_instructions = csrs["minstret"]
        /\ r.attempted_steps <= maximum_steps
        /\ r.reason = "Halted" <=> n > 0 /\ trace[n].halted
        /\ r.attempted_steps < maximum_steps => r.reason = "Halted"
        /\ r.terminal_trap # {} => r.terminal_trap = trace[n].trap

(* A RunResult agrees with the trace's last record, after any number of    *)
(* runs of the same machine (ResultFollowsTrace).                          *)
THEOREM ResultFollowsTraceHolds == RunSpec => []ResultFollowsTrace
<1>1. RunInv => ResultFollowsTrace
  <2> SUFFICES ASSUME RunInv, NEW r \in result, tracing
               PROVE  LET n == Len(trace)
                      IN  /\ r.retired_instructions = csrs["minstret"]
                          /\ r.attempted_steps <= maximum_steps
                          /\ r.reason = "Halted" <=> n > 0 /\ trace[n].halted
                          /\ r.attempted_steps < maximum_steps => r.reason = "Halted"
                          /\ r.terminal_trap # {} => r.terminal_trap = trace[n].trap
    BY DEF ResultFollowsTrace
  <2>1. /\ r.reason = (IF halted THEN "Halted" ELSE "StepLimit")
        /\ r.attempted_steps = attempted /\ r.retired_instructions = csrs["minstret"]
        /\ r.terminal_trap = terminal_trap
        /\ halted \/ ~(attempted < maximum_steps)
    BY DEF RunInv, ResultCurrent, RunResult, Looping
  <2>2. attempted <= maximum_steps
    BY DEF RunInv, LoopTyped
  <2>3. r.reason = "Halted" <=> halted
    BY <2>1
  <2>4. /\ Len(trace) > 0 => trace[Len(trace)].halted = halted
        /\ halted => Len(trace) > 0 /\ trace[Len(trace)].trap = terminal_trap
    BY DEF RunInv, LastRecord
  <2>5. terminal_trap # {} => halted
    BY DEF RunInv, HartInv, StoppedAtTrap
  <2> QED BY <2>1, <2>2, <2>3, <2>4, <2>5
<1> QED BY <1>1, RunInvHolds, PTL

(* A run, whatever its limit, its trace and its failures, is an execution  *)
(* of the hart alone: the loop never touches its state but by stepping it, *)
(* so all that is proved of the hart holds during runs (cpu.cpp run).      *)
THEOREM RunImplementsHart == RunSpec => Spec
<1>1. RunInit => Init
  BY DEF RunInit
<1>2. [RunNext]_allvars => [Next]_vars
  BY DEF RunNext, OpenFails, StartRun, RunStep, Step, RunReturn, Exit, FlushFails,
         Next, allvars
<1> QED BY <1>1, <1>2, PTL DEF RunSpec, Spec

-----------------------------------------------------------------------------
(* minstret over a step, while no instruction of the program space writes  *)
(* it: one more when the step retires (retire_instruction in Cpu::step).   *)
LEMMA RetiredStep ==
  ASSUME HartInv, Step, "minstret" \notin WrittenCsrs
  PROVE  \A s \in record' :
           csrs'["minstret"] = IF s.retired THEN Increment(csrs["minstret"], 0)
                               ELSE csrs["minstret"]
<1>1. CASE TrapShape
  <2>1. PICK r, cause, value, stop :
          Trapping(r, cause, value, stop) /\ EnterTrap(r, cause, value, stop)
    BY <1>1 DEF TrapShape
  <2> DEFINE trap == [cause |-> cause, pc |-> pc, value |-> value]
  <2> TrapEffect(r, cause, value)
    BY <2>1, TrapFacts DEF HartInv
  <2>2. /\ csrs' = EnterTrapCsrs(Ticked, trap, privilege)
        /\ \E q : record' = {q} /\ q.retired = FALSE
    BY DEF TrapEffect
  <2> HIDE DEF trap
  <2>3. privilege \in PrivilegeLevel
    BY DEF HartInv, TypeOK
  <2>4. /\ Ticked \in CsrFileType
        /\ \A x \in CsrRegister \ {"mcycle"} : Ticked[x] = csrs[x]
    BY TickFacts DEF HartInv
  <2>5. csrs'["minstret"] = Ticked["minstret"]
    BY <2>2, <2>3, <2>4, TrapCsrs DEF CsrRegister, Bank
  <2>6. csrs'["minstret"] = csrs["minstret"]
    BY <2>4, <2>5 DEF CsrRegister
  <2> QED BY <2>2, <2>6
<1>2. CASE CompleteShape
  <2>1. PICK r, c, next, target, stop :
          Completing(r, c, next, target, stop) /\ Complete(r, c, next, target, stop)
    BY <1>2 DEF CompleteShape
  <2>2. c["minstret"] = csrs["minstret"]
    BY <2>1, CsrsAfterFacts DEF HartInv, Completing
  <2>3. /\ csrs'["minstret"] = Increment(c["minstret"], 0)
        /\ \E q : record' = {q} /\ q.retired = TRUE
    BY <2>1, CompleteFacts DEF HartInv
  <2> QED BY <2>2, <2>3
<1> QED BY <1>1, <1>2, StepShape DEF Step, HartInv

(* The records of a trace that retired, and the count ++minstret_ has      *)
(* reached after n of them.                                                *)
RetiredIn(t) == {i \in 1..Len(t) : t[i].retired}
Counted(count) == tracing => csrs["minstret"] = count[Cardinality(RetiredIn(trace))]

LEMMA CountTo ==
  ASSUME NEW m \in Nat
  PROVE  IsFiniteSet(1..m) /\ Cardinality(1..m) = m
<1>1. /\ IsFiniteSet(1..m)
      /\ Cardinality(1..m) = IF 1 > m THEN 0 ELSE m - 1 + 1
  BY FS_Interval
<1> QED BY <1>1

LEMMA RetiredBound ==
  ASSUME NEW t \in Seq(Record)
  PROVE  /\ IsFiniteSet(RetiredIn(t)) /\ Cardinality(RetiredIn(t)) \in 0..Len(t)
<1>1. Len(t) \in Nat
  OBVIOUS
<1>2. IsFiniteSet(1..Len(t)) /\ Cardinality(1..Len(t)) = Len(t)
  BY <1>1, CountTo
<1>3. RetiredIn(t) \subseteq 1..Len(t)
  BY DEF RetiredIn
<1>4. /\ IsFiniteSet(RetiredIn(t)) /\ Cardinality(RetiredIn(t)) <= Len(t)
  BY <1>2, <1>3, FS_Subset
<1>5. Cardinality(RetiredIn(t)) \in Nat
  BY <1>4, FS_CardinalityType
<1> QED BY <1>1, <1>4, <1>5

LEMMA RetiredAppend ==
  ASSUME NEW t \in Seq(Record), NEW s \in Record
  PROVE  Cardinality(RetiredIn(t \o <<s>>))
           = Cardinality(RetiredIn(t)) + (IF s.retired THEN 1 ELSE 0)
<1> DEFINE n == Len(t)
           u == t \o <<s>>
<1>1. /\ n \in Nat /\ Len(u) = n + 1 /\ u[n + 1] = s
      /\ \A i \in 1..n : u[i] = t[i]
  OBVIOUS
<1>2. \A i : i \in 1..n+1 <=> i \in 1..n \/ i = n + 1
  BY <1>1
<1>3. n + 1 \notin 1..n
  BY <1>1
<1> HIDE DEF n, u
<1>4. RetiredIn(u) = {i \in 1..n+1 : u[i].retired}
  BY <1>1 DEF RetiredIn
<1>5. RetiredIn(t) = {i \in 1..n : t[i].retired}
  BY DEF RetiredIn, n
<1>6. RetiredIn(u) = IF s.retired THEN RetiredIn(t) \cup {n + 1} ELSE RetiredIn(t)
  BY <1>1, <1>2, <1>4, <1>5
<1>7. n + 1 \notin RetiredIn(t)
  BY <1>3, <1>5
<1>8. IsFiniteSet(RetiredIn(t)) /\ Cardinality(RetiredIn(t)) \in Nat
  BY RetiredBound
<1>9. Cardinality(RetiredIn(t) \cup {n + 1}) = Cardinality(RetiredIn(t)) + 1
  BY <1>7, <1>8, FS_AddElement
<1> QED BY <1>6, <1>8, <1>9 DEF u

LEMMA CountedInit ==
  ASSUME NEW count, \A c \in BootCsrs : c["minstret"] = count[0], RunInit
  PROVE  Counted(count)
<1>1. RetiredIn(trace) = {}
  BY DEF RunInit, RetiredIn
<1> QED BY <1>1, FS_EmptySet DEF RunInit, Init, Counted

LEMMA CountedStep ==
  ASSUME NEW count, "minstret" \notin WrittenCsrs,
         \A n \in 0..MaxSteps-1 : count[n + 1] = Increment(count[n], 0),
         RunInv, Counted(count), [RunNext]_allvars
  PROVE  Counted(count)'
<1>1. CASE RunStep
  <2> SUFFICES ASSUME tracing
               PROVE  csrs'["minstret"] = count[Cardinality(RetiredIn(trace'))]
    BY <1>1 DEF RunStep, Counted
  <2>1. HartInv /\ Step /\ trace \in Seq(Record) /\ Len(trace) = sequence
    BY <1>1 DEF RunInv, RunStep, LoopTyped, TraceIsExecution
  <2>2. PICK s \in Record : record' = {s}
    BY <2>1, StepRecorded
  <2>3. trace' = trace \o <<s>>
    BY <1>1, <2>2, SingletonSeq DEF RunStep, Appended
  <2> DEFINE n == Cardinality(RetiredIn(trace))
  <2>4. n \in 0..MaxSteps-1
    <3>1. sequence < MaxSteps /\ sequence \in Nat /\ MaxSteps \in Nat
      BY <2>1, StepRecorded, ConfigAssumption DEF Step, StepFetchTrap, StepInstruction, Attempt
    <3> QED BY <2>1, <3>1, RetiredBound
  <2>5. Cardinality(RetiredIn(trace')) = n + (IF s.retired THEN 1 ELSE 0)
    BY <2>1, <2>2, <2>3, RetiredAppend
  <2>6. csrs["minstret"] = count[n]
    BY DEF Counted
  <2>7. csrs'["minstret"] = IF s.retired THEN Increment(csrs["minstret"], 0)
                            ELSE csrs["minstret"]
    BY <2>1, <2>2, RetiredStep
  <2> HIDE DEF n
  <2>8. count[n + 1] = Increment(count[n], 0) /\ n + 0 = n
    BY <2>4
  <2> QED BY <2>5, <2>6, <2>7, <2>8
<1>2. CASE UNCHANGED <<vars, tracing, trace>>
  BY <1>2 DEF Counted, vars
<1> QED BY <1>1, <1>2 DEF RunNext, OpenFails, StartRun, RunReturn, Exit, FlushFails,
                          allvars, loop

(* minstret counts the retired records of the trace (Counted), from any    *)
(* value at the start and modulo 2^64: count is the table of the values    *)
(* ++minstret_ goes through.  That takes a program space without a write   *)
(* to minstret (retire_instruction, over all the runs of a machine).       *)
THEOREM RetiredCounted ==
  ASSUME NEW count, "minstret" \notin WrittenCsrs,
         \A c \in BootCsrs : c["minstret"] = count[0],
         \A n \in 0..MaxSteps-1 : count[n + 1] = Increment(count[n], 0)
  PROVE  RunSpec => []Counted(count)
<1>1. RunInit => Counted(count)
  BY CountedInit
<1>2. RunInv /\ Counted(count) /\ [RunNext]_allvars => Counted(count)'
  BY CountedStep
<1> QED BY <1>1, <1>2, RunInvHolds, PTL DEF RunSpec

(* A RunResult agrees with the trace, its retired count included, on a     *)
(* machine whose minstret starts at 0, runs fewer than 256 steps and holds *)
(* no write to minstret (ResultMatchesTrace: cpu.cpp run).  Beyond 255     *)
(* NatWord does not reach; RetiredCounted does.                            *)
THEOREM ResultMatchesTraceHolds ==
  ASSUME "minstret" \notin WrittenCsrs,
         \A c \in BootCsrs : c["minstret"] = {},
         MaxSteps < 256
  PROVE  RunSpec => []ResultMatchesTrace
<1> DEFINE count == [n \in 0..MaxSteps |-> NatWord(n)]
<1>1. MaxSteps \in Nat
  BY ConfigAssumption
<1>2. \A n \in 0..MaxSteps : count[n] = NatWord(n)
  OBVIOUS
<1>3. NatWord(0) = {}
  <2>1. \A b \in 0..7 : Weight[b + 1] \in {1, 2, 4, 8, 16, 32, 64, 128}
    BY DEF Weight
  <2>2. \A d \in {1, 2, 4, 8, 16, 32, 64, 128} : (0 \div d) % 2 = 0
    OBVIOUS
  <2> QED BY <2>1, <2>2 DEF NatWord
<1>4. \A c \in BootCsrs : c["minstret"] = count[0]
  BY <1>1, <1>2, <1>3
<1>5. \A n \in 0..MaxSteps-1 : count[n + 1] = Increment(count[n], 0)
  <2> SUFFICES ASSUME NEW n \in 0..MaxSteps-1 PROVE count[n + 1] = Increment(count[n], 0)
    OBVIOUS
  <2>1. n \in 0..MaxSteps /\ n + 1 \in 0..MaxSteps /\ n \in 0..254
    BY <1>1
  <2> QED BY <1>2, <2>1, NatWordNext
<1> HIDE DEF count
<1>6. RunInit => Counted(count)
  BY <1>4, CountedInit
<1>7. RunInv /\ Counted(count) /\ [RunNext]_allvars => Counted(count)'
  BY <1>5, CountedStep
<1>8. RunInv /\ Counted(count) /\ ResultFollowsTrace => ResultMatchesTrace
  <2> SUFFICES ASSUME RunInv, Counted(count), ResultFollowsTrace, NEW r \in result, tracing
               PROVE  r.retired_instructions
                        = NatWord(Cardinality({i \in 1..Len(trace) : trace[i].retired}))
    BY DEF ResultFollowsTrace, ResultMatchesTrace
  <2>1. trace \in Seq(Record) /\ Len(trace) = sequence /\ sequence \in 0..MaxSteps
    BY DEF RunInv, LoopTyped, TraceIsExecution, HartInv, TypeOK
  <2>2. Cardinality(RetiredIn(trace)) \in 0..MaxSteps
    BY <1>1, <2>1, RetiredBound
  <2>3. csrs["minstret"] = NatWord(Cardinality(RetiredIn(trace)))
    BY <1>2, <2>2 DEF Counted
  <2> QED BY <2>3 DEF ResultFollowsTrace, RetiredIn
<1> QED BY <1>6, <1>7, <1>8, RunInvHolds, ResultFollowsTraceHolds, PTL DEF RunSpec

-----------------------------------------------------------------------------
(* The text of a trace file, and what is left of it after a cut.           *)

(* Counting the members of a set of numbers below each of them.  When e    *)
(* lists the set in increasing order, from 0, its k-th member is the one   *)
(* with k below it.                                                        *)
LEMMA RankedStops ==
  ASSUME NEW m \in Nat, NEW e \in [0..m -> Nat],
         \A i, j \in 0..m : i < j => e[i] < e[j]
  PROVE  LET stops == {e[i] : i \in 0..m}
         IN  /\ Cardinality(stops) = m + 1
             /\ \A k \in 0..m : Stop(stops, k) = e[k]
<1> DEFINE Least(k) == {e[i] : i \in 0..k-1}
           stops == {e[i] : i \in 0..m}
           Under(x) == {d \in stops : d < x}
<1>1. \A k \in 0..m+1 : Cardinality(Least(k)) = k
  <2> SUFFICES ASSUME NEW k \in 0..m+1 PROVE Cardinality(Least(k)) = k
    OBVIOUS
  <2> DEFINE f == [i \in 0..k-1 |-> e[i]]
  <2>1. f \in Surjection(0..k-1, Least(k))
    BY DEF Surjection
  <2>2. \A i, j \in 0..k-1 : f[i] = f[j] => i = j
    <3> SUFFICES ASSUME NEW i \in 0..k-1, NEW j \in 0..k-1, e[i] = e[j] PROVE i = j
      OBVIOUS
    <3>1. i \in 0..m /\ j \in 0..m /\ e[i] \in Nat /\ e[j] \in Nat
      OBVIOUS
    <3> QED BY <3>1
  <2>3. f \in Injection(0..k-1, Least(k))
    BY <2>1, <2>2 DEF Injection, IsInjective, Surjection
  <2>4. ExistsBijection(0..k-1, Least(k))
    BY <2>1, <2>3 DEF ExistsBijection, Bijection
  <2>5. IsFiniteSet(0..k-1) /\ Cardinality(0..k-1) = k
    <3>1. 0 \in Int /\ k - 1 \in Int
      OBVIOUS
    <3>2. /\ IsFiniteSet(0..k-1)
          /\ Cardinality(0..k-1) = IF 0 > k - 1 THEN 0 ELSE (k - 1) - 0 + 1
      BY <3>1, FS_Interval
    <3> QED BY <3>2
  <2> HIDE DEF Least
  <2> QED BY <2>4, <2>5, FS_Bijection
<1>2. stops = Least(m + 1)
  OBVIOUS
<1>3. Cardinality(stops) = m + 1
  <2> HIDE DEF Least, stops
  <2> QED BY <1>1, <1>2
<1>4. \A k \in 0..m : Under(e[k]) = Least(k)
  <2> SUFFICES ASSUME NEW k \in 0..m PROVE Under(e[k]) = Least(k)
    OBVIOUS
  <2>1. \A i \in 0..m : e[i] < e[k] <=> i < k
    <3> SUFFICES ASSUME NEW i \in 0..m PROVE e[i] < e[k] <=> i < k
      OBVIOUS
    <3>1. e[i] \in Nat /\ e[k] \in Nat
      OBVIOUS
    <3>2. i < k \/ i = k \/ k < i
      OBVIOUS
    <3> QED BY <3>1, <3>2
  <2>2. \A i : i \in 0..k-1 <=> i \in 0..m /\ i < k
    OBVIOUS
  <2> QED BY <2>1, <2>2
<1>5. \A k \in 0..m : Stop(stops, k) = e[k]
  <2> SUFFICES ASSUME NEW k \in 0..m PROVE Stop(stops, k) = e[k]
    OBVIOUS
  <2>1. e[k] \in stops /\ Cardinality(Under(e[k])) = k
    <3>1. k \in 0..m+1
      OBVIOUS
    <3>2. e[k] \in stops
      OBVIOUS
    <3> HIDE DEF Least, Under, stops
    <3> QED BY <1>1, <1>4, <3>1, <3>2
  <2>2. ASSUME NEW x \in stops, Cardinality(Under(x)) = k PROVE x = e[k]
    <3>1. PICK i \in 0..m : x = e[i]
      OBVIOUS
    <3>2. Cardinality(Under(e[i])) = i
      <4>1. i \in 0..m+1
        OBVIOUS
      <4> HIDE DEF Least, Under, stops
      <4> QED BY <1>1, <1>4, <4>1
    <3>3. i = k
      <4> HIDE DEF Under, stops
      <4> QED BY <2>2, <3>1, <3>2
    <3> QED BY <3>1, <3>3
  <2> QED BY <2>1, <2>2 DEF Stop
<1> QED BY <1>3, <1>5

(* The text of a trace: three pieces for each record.                      *)
LEMMA TextPieces ==
  ASSUME NEW S, NEW t \in Seq(S)
  PROVE  LET x == Text(t)
         IN  /\ Len(x) = 3 * Len(t) /\ x \in Seq({x[i] : i \in 1..3 * Len(t)})
             /\ \A i \in 1..Len(t) : /\ x[3 * i - 2] = <<"opening">>
                                     /\ x[3 * i - 1] = <<"rest", t[i]>>
                                     /\ x[3 * i] = Newline
             /\ \A k \in 1..3 * Len(t) : x[k] = Newline <=> k % 3 = 0
<1> DEFINE n == Len(t)
           x == Text(t)
           pieces(i) == format_trace_record(t[i]) \o <<Newline>>
<1>1. n \in Nat
  OBVIOUS
<1>2. x = [k \in 1..3 * n |-> pieces((k + 2) \div 3)[((k + 2) % 3) + 1]]
  BY DEF Text
<1>3. \A i : /\ pieces(i)[1] = <<"opening">> /\ pieces(i)[2] = <<"rest", t[i]>>
             /\ pieces(i)[3] = Newline
  <2> SUFFICES ASSUME NEW i
               PROVE  /\ pieces(i)[1] = <<"opening">> /\ pieces(i)[2] = <<"rest", t[i]>>
                      /\ pieces(i)[3] = Newline
    OBVIOUS
  <2>1. ASSUME NEW a, NEW b, NEW c
        PROVE  LET p == <<a, b>> \o <<c>> IN p[1] = a /\ p[2] = b /\ p[3] = c
    OBVIOUS
  <2>2. pieces(i) = <<<<"opening">>, <<"rest", t[i]>>>> \o <<Newline>>
    BY DEF format_trace_record
  <2> HIDE DEF pieces
  <2> QED BY <2>1, <2>2
<1> HIDE DEF n, x, pieces
<1>4. Len(x) = 3 * n /\ x \in Seq({x[i] : i \in 1..3 * n})
  <2>1. 3 * n \in Nat
    BY <1>1
  <2> QED BY <1>2, <2>1
<1>5. \A i \in 1..n : /\ x[3 * i - 2] = <<"opening">>
                      /\ x[3 * i - 1] = <<"rest", t[i]>>
                      /\ x[3 * i] = Newline
  <2> SUFFICES ASSUME NEW i \in 1..n
               PROVE  /\ x[3 * i - 2] = <<"opening">>
                      /\ x[3 * i - 1] = <<"rest", t[i]>>
                      /\ x[3 * i] = Newline
    OBVIOUS
  <2>1. /\ 3 * i - 2 \in 1..3 * n /\ 3 * i - 1 \in 1..3 * n /\ 3 * i \in 1..3 * n
    BY <1>1
  <2>2. /\ ((3 * i - 2) + 2) \div 3 = i /\ ((3 * i - 2) + 2) % 3 = 0
        /\ ((3 * i - 1) + 2) \div 3 = i /\ ((3 * i - 1) + 2) % 3 = 1
        /\ (3 * i + 2) \div 3 = i /\ (3 * i + 2) % 3 = 2
    BY <1>1
  <2>3. /\ x[3 * i - 2] = pieces(((3 * i - 2) + 2) \div 3)[(((3 * i - 2) + 2) % 3) + 1]
        /\ x[3 * i - 1] = pieces(((3 * i - 1) + 2) \div 3)[(((3 * i - 1) + 2) % 3) + 1]
        /\ x[3 * i] = pieces((3 * i + 2) \div 3)[((3 * i + 2) % 3) + 1]
    BY <1>2, <2>1
  <2>4. /\ x[3 * i - 2] = pieces(i)[0 + 1] /\ x[3 * i - 1] = pieces(i)[1 + 1]
        /\ x[3 * i] = pieces(i)[2 + 1]
    BY <2>2, <2>3
  <2> QED BY <1>3, <2>4
<1>6. \A k \in 1..3 * n : x[k] = Newline <=> k % 3 = 0
  <2> SUFFICES ASSUME NEW k \in 1..3 * n PROVE x[k] = Newline <=> k % 3 = 0
    OBVIOUS
  <2> DEFINE i == (k + 2) \div 3
  <2>1. i \in 1..n /\ (k = 3 * i - 2 \/ k = 3 * i - 1 \/ k = 3 * i)
    BY <1>1
  <2> HIDE DEF i
  <2>2. /\ k = 3 * i - 2 => k % 3 = 1
        /\ k = 3 * i - 1 => k % 3 = 2
        /\ k = 3 * i => k % 3 = 0
    BY <2>1
  <2>3. <<"opening">> # Newline /\ <<"rest", t[i]>> # Newline
    <3>1. <<"opening">>[1] # <<"newline">>[1] /\ <<"rest", t[i]>>[1] # <<"newline">>[1]
      OBVIOUS
    <3> QED BY <3>1 DEF Newline
  <2>4. /\ x[3 * i - 2] = <<"opening">> /\ x[3 * i - 1] = <<"rest", t[i]>>
        /\ x[3 * i] = Newline
    BY <1>5, <2>1
  <2>5. x[3 * i - 2] # Newline /\ x[3 * i - 1] # Newline
    BY <2>3, <2>4, Zenon
  <2>6. x[3 * i] = Newline
    BY <2>4
  <2>7. CASE k = 3 * i - 2
    <3>1. k % 3 # 0
      BY <2>2, <2>7
    <3>2. x[k] # Newline
      BY <2>5, <2>7
    <3> QED BY <3>1, <3>2
  <2>8. CASE k = 3 * i - 1
    <3>1. k % 3 # 0
      BY <2>2, <2>8
    <3>2. x[k] # Newline
      BY <2>5, <2>8
    <3> QED BY <3>1, <3>2
  <2>9. CASE k = 3 * i
    BY <2>2, <2>6, <2>9
  <2> QED BY <2>1, <2>7, <2>8, <2>9
<1> QED BY <1>4, <1>5, <1>6 DEF n, x

(* The stops of a beginning of the text: one after each record's line, and *)
(* one for what there is of the next.                                      *)
Whole(d) == d \div 3
LinesIn(d) == IF d % 3 = 0 THEN Whole(d) ELSE Whole(d) + 1
StopOf(d) == [i \in 0..LinesIn(d) |-> IF i <= Whole(d) THEN 3 * i ELSE d + 1]

LEMMA CutFacts ==
  ASSUME NEW S, NEW t \in Seq(S), NEW d \in 0..3 * Len(t)
  PROVE  LET x == Text(t)
             file == SubSeq(x, 1, d)
         IN  Len(file) = d /\ \A i \in 1..d : file[i] = x[i]
<1> DEFINE x == Text(t)
<1>1. Len(t) \in Nat
  OBVIOUS
<1>2. 1 \in Int /\ d \in Int /\ \A i \in 1..d : x[i] \in {x[j] : j \in 1..d}
  BY <1>1
<1> HIDE DEF x
<1>3. /\ Len(SubSeq(x, 1, d)) = IF 1 <= d THEN d - 1 + 1 ELSE 0
      /\ \A i \in 1..d-1+1 : SubSeq(x, 1, d)[i] = x[1 + i - 1]
  BY <1>2, SubSeqProperties
<1>4. d \in Nat /\ d - 1 + 1 = d
  BY <1>1
<1>5. \A i \in 1..d : 1 + i - 1 = i
  BY <1>4
<1> QED BY <1>3, <1>4, <1>5 DEF x

LEMMA CutStops ==
  ASSUME NEW S, NEW t \in Seq(S), NEW d \in 0..3 * Len(t)
  PROVE  /\ d \in Nat /\ Whole(d) \in Nat /\ LinesIn(d) \in Nat
         /\ StopOf(d) \in [0..LinesIn(d) -> Nat]
         /\ \A i, j \in 0..LinesIn(d) : i < j => StopOf(d)[i] < StopOf(d)[j]
         /\ Stops(SubSeq(Text(t), 1, d)) = {StopOf(d)[i] : i \in 0..LinesIn(d)}
<1> DEFINE file == SubSeq(Text(t), 1, d)
           q == Whole(d)
           m == LinesIn(d)
           e == StopOf(d)
<1>1. Len(t) \in Nat /\ d \in Nat
  OBVIOUS
<1>2. /\ q \in Nat /\ m \in Nat /\ m \in {q, q + 1}
      /\ 3 * q <= d /\ d < 3 * q + 3
      /\ m = q <=> d = 3 * q
      /\ d % 3 = 0 <=> d = 3 * q
  BY <1>1 DEF Whole, LinesIn
<1>3. Len(file) = d /\ \A i \in 1..d : file[i] = Text(t)[i]
  BY CutFacts
<1>4. \A k \in 1..d : file[k] = Newline <=> k % 3 = 0
  <2>1. \A k \in 1..3 * Len(t) : Text(t)[k] = Newline <=> k % 3 = 0
    BY TextPieces
  <2>2. \A k \in 1..d : k \in 1..3 * Len(t)
    BY <1>1
  <2> HIDE DEF file
  <2> QED BY <1>3, <2>1, <2>2
<1>5. e = [i \in 0..m |-> IF i <= q THEN 3 * i ELSE d + 1]
  BY DEF StopOf
<1> HIDE DEF file, q, m, e
<1>6. e \in [0..m -> Nat]
  BY <1>1, <1>2, <1>5
<1>7. \A i, j \in 0..m : i < j => e[i] < e[j]
  BY <1>1, <1>2, <1>5
<1>8. Stops(file) = {0} \cup {k \in 1..d : k % 3 = 0} \cup (IF d = 3 * q THEN {} ELSE {d + 1})
  <2>1. Stops(file) = {0} \cup {k \in 1..d : file[k] = Newline}
                        \cup (IF d > 0 /\ file[d] # Newline THEN {d + 1} ELSE {})
    BY <1>3 DEF Stops
  <2>2. d > 0 /\ file[d] # Newline <=> d # 3 * q
    <3>1. d > 0 => d \in 1..d
      BY <1>1
    <3> QED BY <1>1, <1>2, <1>4, <3>1
  <2>3. {k \in 1..d : file[k] = Newline} = {k \in 1..d : k % 3 = 0}
    BY <1>4
  <2> QED BY <2>1, <2>2, <2>3
<1>9. \A x \in Stops(file) : \E i \in 0..m : x = e[i]
  <2> SUFFICES ASSUME NEW x \in Stops(file) PROVE \E i \in 0..m : x = e[i]
    OBVIOUS
  <2>1. CASE x = 0
    <3>1. 0 \in 0..m /\ e[0] = 0
      BY <1>2, <1>5
    <3> QED BY <2>1, <3>1
  <2>2. CASE x \in 1..d /\ x % 3 = 0
    <3>1. x \div 3 \in 0..q /\ x = 3 * (x \div 3)
      BY <1>1, <1>2, <2>2
    <3>2. x \div 3 \in 0..m /\ e[x \div 3] = x
      BY <1>2, <1>5, <3>1
    <3> QED BY <3>2
  <2>3. CASE d # 3 * q /\ x = d + 1
    <3>1. m = q + 1 /\ e[m] = d + 1 /\ m \in 0..m
      BY <1>2, <1>5, <2>3
    <3> QED BY <2>3, <3>1
  <2> QED BY <1>8, <2>1, <2>2, <2>3
<1>10. \A i \in 0..m : e[i] \in Stops(file)
  <2> SUFFICES ASSUME NEW i \in 0..m PROVE e[i] \in Stops(file)
    OBVIOUS
  <2>1. CASE i = 0
    BY <1>2, <1>5, <1>8, <2>1
  <2>2. CASE i > 0 /\ i <= q
    <3>1. 3 * i \in 1..d /\ (3 * i) % 3 = 0 /\ e[i] = 3 * i
      BY <1>1, <1>2, <1>5, <2>2
    <3> QED BY <1>8, <3>1
  <2>3. CASE i > q
    <3>1. d # 3 * q /\ e[i] = d + 1
      BY <1>2, <1>5, <2>3
    <3> QED BY <1>8, <3>1
  <2> QED BY <1>2, <2>1, <2>2, <2>3
<1>11. Stops(file) = {e[i] : i \in 0..m}
  BY <1>9, <1>10
<1> QED BY <1>1, <1>2, <1>6, <1>7, <1>11 DEF file, q, m, e

(* The lines of a beginning of the text are those of the records, but the  *)
(* last may have only its opening.                                         *)
LEMMA TwoPieces ==
  ASSUME NEW f, NEW a \in Nat
  PROVE  SubSeq(f, a, a + 1) = <<f[a], f[a + 1]>>
<1> DEFINE T == {f[a], f[a + 1]}
           u == SubSeq(f, a, a + 1)
           v == <<f[a], f[a + 1]>>
<1>1. a \in Int /\ a + 1 \in Int /\ \A i \in a..a+1 : f[i] \in T
  <2>1. \A i \in a..a+1 : i = a \/ i = a + 1
    OBVIOUS
  <2> QED BY <2>1
<1>2. v \in Seq(T) /\ Len(v) = 2 /\ v[1] = f[a] /\ v[2] = f[a + 1]
  OBVIOUS
<1> HIDE DEF T
<1>3. /\ u \in Seq(T)
      /\ Len(u) = IF a <= a + 1 THEN (a + 1) - a + 1 ELSE 0
      /\ \A i \in 1..(a+1)-a+1 : u[i] = f[a + i - 1]
  BY <1>1, SubSeqProperties
<1>4. Len(u) = 2 /\ u[1] = f[a] /\ u[2] = f[a + 1]
  <2>1. (a + 1) - a + 1 = 2 /\ a + 1 - 1 = a /\ a + 2 - 1 = a + 1 /\ a <= a + 1
    OBVIOUS
  <2>2. 1 \in 1..2 /\ 2 \in 1..2
    OBVIOUS
  <2> HIDE DEF u
  <2>3. Len(u) = 2 /\ \A i \in 1..2 : u[i] = f[a + i - 1]
    BY <1>3, <2>1
  <2>4. u[1] = f[a + 1 - 1] /\ u[2] = f[a + 2 - 1]
    BY <2>2, <2>3
  <2> QED BY <2>1, <2>3, <2>4
<1>5. \A i \in 1..2 : i = 1 \/ i = 2
  OBVIOUS
<1> HIDE DEF u, v
<1>6. \A i \in 1..Len(u) : u[i] = v[i]
  BY <1>2, <1>4, <1>5
<1>7. u = v
  BY <1>2, <1>3, <1>4, <1>6, SeqEqual
<1> QED BY <1>7 DEF u, v

LEMMA CutLines ==
  ASSUME NEW S, NEW t \in Seq(S), NEW d \in 0..3 * Len(t)
  PROVE  LET lines == Lines(SubSeq(Text(t), 1, d))
         IN  /\ DOMAIN lines = 1..LinesIn(d)
             /\ \A k \in 1..LinesIn(d) :
                  IF 3 * k <= d + 1 THEN lines[k] = format_trace_record(t[k])
                                    ELSE Len(lines[k]) = 1
<1> DEFINE file == SubSeq(Text(t), 1, d)
           stops == Stops(file)
           lines == Lines(file)
           q == Whole(d)
           m == LinesIn(d)
           e == StopOf(d)
<1>1. Len(t) \in Nat /\ d \in Nat
  OBVIOUS
<1>2. /\ q \in Nat /\ m \in Nat /\ m \in {q, q + 1}
      /\ 3 * q <= d /\ d < 3 * q + 3
      /\ m = q <=> d = 3 * q
  BY <1>1 DEF Whole, LinesIn
<1>3. e = [i \in 0..m |-> IF i <= q THEN 3 * i ELSE d + 1]
  BY DEF StopOf
<1>4. /\ e \in [0..m -> Nat] /\ \A i, j \in 0..m : i < j => e[i] < e[j]
      /\ stops = {e[i] : i \in 0..m}
  BY CutStops
<1>5. Len(file) = d /\ \A i \in 1..d : file[i] = Text(t)[i]
  BY CutFacts
<1>6. lines = [k \in 1..Cardinality(stops)-1 |->
                 SubSeq(file, Stop(stops, k - 1) + 1, Stop(stops, k) - 1)]
  BY DEF Lines
<1> HIDE DEF file, stops, lines, q, m, e
<1>7. Cardinality(stops) = m + 1 /\ \A k \in 0..m : Stop(stops, k) = e[k]
  BY <1>2, <1>4, RankedStops
<1>8. Cardinality(stops) - 1 = m
  BY <1>2, <1>7
<1>9. lines = [k \in 1..m |-> SubSeq(file, Stop(stops, k - 1) + 1, Stop(stops, k) - 1)]
  BY <1>6, <1>8
<1>10. \A k \in 1..m : lines[k] = SubSeq(file, e[k - 1] + 1, e[k] - 1)
  <2> SUFFICES ASSUME NEW k \in 1..m
               PROVE  lines[k] = SubSeq(file, e[k - 1] + 1, e[k] - 1)
    OBVIOUS
  <2>1. k \in 0..m /\ k - 1 \in 0..m
    BY <1>2
  <2>2. Stop(stops, k) = e[k] /\ Stop(stops, k - 1) = e[k - 1]
    BY <1>7, <2>1
  <2> QED BY <1>9, <2>2
<1>11. \A k \in 1..m : e[k - 1] = 3 * (k - 1) /\ e[k] = IF 3 * k <= d + 1 THEN 3 * k ELSE d + 1
  BY <1>1, <1>2, <1>3
<1>12. ASSUME NEW k \in 1..m, 3 * k <= d + 1
       PROVE  lines[k] = format_trace_record(t[k])
  <2>1. e[k - 1] + 1 = 3 * k - 2 /\ e[k] - 1 = (3 * k - 2) + 1
    BY <1>2, <1>11, <1>12
  <2>2. lines[k] = SubSeq(file, 3 * k - 2, (3 * k - 2) + 1)
    BY <1>10, <2>1
  <2>3. 3 * k - 2 \in Nat /\ 3 * k - 2 \in 1..d /\ (3 * k - 2) + 1 \in 1..d /\ k \in 1..Len(t)
        /\ (3 * k - 2) + 1 = 3 * k - 1
    BY <1>1, <1>2, <1>12
  <2>4. SubSeq(file, 3 * k - 2, (3 * k - 2) + 1) = <<file[3 * k - 2], file[(3 * k - 2) + 1]>>
    BY <2>3, TwoPieces
  <2>5. file[3 * k - 2] = Text(t)[3 * k - 2] /\ file[(3 * k - 2) + 1] = Text(t)[3 * k - 1]
    BY <1>5, <2>3
  <2>6. Text(t)[3 * k - 2] = <<"opening">> /\ Text(t)[3 * k - 1] = <<"rest", t[k]>>
    BY <2>3, TextPieces
  <2> QED BY <2>2, <2>4, <2>5, <2>6, Zenon DEF format_trace_record
<1>13. ASSUME NEW k \in 1..m, ~(3 * k <= d + 1)
       PROVE  Len(lines[k]) = 1
  <2>1. e[k - 1] + 1 = d /\ e[k] - 1 = d /\ d \in Int /\ d - d + 1 = 1 /\ d <= d
    <3>1. k = q + 1 /\ d = 3 * q + 1 /\ k - 1 = q
      BY <1>1, <1>2, <1>13
    <3>2. e[k - 1] = 3 * q /\ e[k] = d + 1
      BY <1>11, <1>13, <3>1
    <3> QED BY <1>1, <1>2, <3>1, <3>2
  <2>2. lines[k] = SubSeq(file, d, d)
    BY <1>10, <2>1
  <2>3. \A i \in d..d : file[i] \in {file[d]}
    BY <2>1
  <2>4. Len(SubSeq(file, d, d)) = IF d <= d THEN d - d + 1 ELSE 0
    BY <2>1, <2>3, SubSeqProperties
  <2> QED BY <2>1, <2>2, <2>4
<1>14. DOMAIN lines = 1..m
  BY <1>9
<1> QED BY <1>12, <1>13, <1>14 DEF file, lines, m

(* The lines of the text whose pieces are all there after a cut at d.      *)
LEMMA CompleteLines ==
  ASSUME NEW S, NEW t \in Seq(S), NEW d \in 0..3 * Len(t)
  PROVE  LET x == Text(t)
         IN  Cardinality({i \in 1..d : i < Len(x) /\ x[i + 1] = Newline}) = (d + 1) \div 3
<1> DEFINE x == Text(t)
           n == Len(t)
           c == (d + 1) \div 3
           C == {i \in 1..d : i < Len(x) /\ x[i + 1] = Newline}
           f == [j \in 1..c |-> 3 * j - 1]
<1>1. n \in Nat /\ d \in Nat /\ c \in Nat
  OBVIOUS
<1>2. Len(x) = 3 * n /\ \A k \in 1..3 * n : x[k] = Newline <=> k % 3 = 0
  BY TextPieces
<1> HIDE DEF x
<1>3. \A i : i \in C <=> i \in 1..d /\ (i + 1) % 3 = 0
  <2> SUFFICES ASSUME NEW i \in 1..d
               PROVE  i < 3 * n /\ x[i + 1] = Newline <=> (i + 1) % 3 = 0
    BY <1>2
  <2>1. CASE i < 3 * n
    <3>1. i + 1 \in 1..3 * n
      BY <1>1, <2>1
    <3> QED BY <1>2, <2>1, <3>1
  <2>2. CASE ~(i < 3 * n)
    <3>1. i = 3 * n /\ (3 * n + 1) % 3 = 1
      BY <1>1, <2>2
    <3> QED BY <2>2, <3>1
  <2> QED BY <2>1, <2>2
<1> HIDE DEF C
<1>4. \A j \in 1..c : f[j] \in C
  <2> SUFFICES ASSUME NEW j \in 1..c PROVE 3 * j - 1 \in C
    OBVIOUS
  <2>1. 3 * j - 1 \in 1..d /\ ((3 * j - 1) + 1) % 3 = 0
    BY <1>1
  <2> QED BY <1>3, <2>1
<1>5. \A i \in C : \E j \in 1..c : f[j] = i
  <2> SUFFICES ASSUME NEW i \in C PROVE \E j \in 1..c : f[j] = i
    OBVIOUS
  <2>1. i \in 1..d /\ (i + 1) % 3 = 0
    BY <1>3
  <2>2. (i + 1) \div 3 \in 1..c /\ 3 * ((i + 1) \div 3) - 1 = i
    BY <1>1, <2>1
  <2> QED BY <2>2
<1>6. \A i, j \in 1..c : f[i] = f[j] => i = j
  BY <1>1
<1>7. f \in [1..c -> C]
  BY <1>4
<1>8. f \in Bijection(1..c, C)
  BY <1>5, <1>6, <1>7 DEF Bijection, Injection, Surjection, IsInjective
<1> HIDE DEF c, f
<1>9. IsFiniteSet(1..c) /\ Cardinality(1..c) = c
  <2>1. c \in Nat
    BY <1>1 DEF c
  <2> QED BY <2>1, CountTo
<1>10. Cardinality(C) = c
  BY <1>8, <1>9, FS_Bijection DEF ExistsBijection
<1> QED BY <1>10 DEF C, c, x

LEMMA FirstBeyond ==
  ASSUME NEW c \in Nat, NEW n \in Nat, c < n
  PROVE  Min((1..n) \ (1..c)) = c + 1
<1> DEFINE D == (1..n) \ (1..c)
<1>1. c + 1 \in D /\ \A y \in D : c + 1 <= y
  OBVIOUS
<1>2. \A x \in D : (\A y \in D : x <= y) => x = c + 1
  BY <1>1
<1> QED BY <1>1, <1>2 DEF Min

(* compare_trace_files finds the cut.                                      *)
LEMMA CutFound ==
  ASSUME NEW S, NEW t \in Seq(S), NEW d \in 0..3 * Len(t)
  PROVE  LET whole == Text(t)
             file == SubSeq(whole, 1, d)
             complete == (d + 1) \div 3
             verdict == IF complete = Len(t) THEN {} ELSE {complete + 1}
         IN  /\ compare_trace_files(file, whole) = verdict
             /\ compare_trace_files(whole, file) = verdict
<1> DEFINE whole == Text(t)
           file == SubSeq(whole, 1, d)
           n == Len(t)
           m == LinesIn(d)
           c == (d + 1) \div 3
           verdict == IF c = n THEN {} ELSE {c + 1}
           l == Lines(file)
           r == Lines(whole)
<1>1. n \in Nat /\ d \in Nat
  OBVIOUS
<1>2. /\ m \in Nat /\ c \in Nat /\ c <= m /\ m <= n
      /\ \A k \in 1..m : 3 * k <= d + 1 <=> k \in 1..c
  BY <1>1 DEF LinesIn, Whole
<1>3. 3 * n \in 0..3 * n /\ LinesIn(3 * n) = n
  BY <1>1 DEF LinesIn, Whole
<1>4. whole = SubSeq(whole, 1, 3 * n)
  <2>1. whole \in Seq({whole[i] : i \in 1..3 * n}) /\ Len(whole) = 3 * n
    BY TextPieces
  <2> HIDE DEF whole
  <2> QED BY <2>1, SubSeqFull
<1>5. /\ DOMAIN l = 1..m
      /\ \A k \in 1..m : IF 3 * k <= d + 1 THEN l[k] = format_trace_record(t[k])
                                          ELSE Len(l[k]) = 1
  BY CutLines
<1>6. DOMAIN r = 1..n /\ \A k \in 1..n : r[k] = format_trace_record(t[k])
  <2> DEFINE u == Lines(SubSeq(whole, 1, 3 * n))
  <2>1. /\ DOMAIN u = 1..LinesIn(3 * n)
        /\ \A k \in 1..LinesIn(3 * n) :
             IF 3 * k <= 3 * n + 1 THEN u[k] = format_trace_record(t[k]) ELSE Len(u[k]) = 1
    BY <1>3, CutLines
  <2>2. u = r
    BY <1>4
  <2>3. \A k \in 1..n : 3 * k <= 3 * n + 1
    BY <1>1
  <2> HIDE DEF u, r
  <2> QED BY <1>3, <2>1, <2>2, <2>3
<1> HIDE DEF n, m, c, l, r
<1>7. \A k \in 1..m : l[k] = r[k] <=> k \in 1..c
  <2> SUFFICES ASSUME NEW k \in 1..m PROVE l[k] = r[k] <=> k \in 1..c
    OBVIOUS
  <2>1. k \in 1..n /\ r[k] = format_trace_record(t[k])
    BY <1>1, <1>2, <1>6
  <2>2. Len(format_trace_record(t[k])) # 1
    <3>1. ASSUME NEW a, NEW b PROVE Len(<<a, b>>) # 1
      OBVIOUS
    <3> QED BY <3>1 DEF format_trace_record
  <2>3. CASE k \in 1..c
    BY <1>2, <1>5, <2>1, <2>3
  <2>4. CASE k \notin 1..c
    BY <1>2, <1>5, <2>1, <2>2, <2>4
  <2> QED BY <2>3, <2>4
<1>8. DOMAIN l \cap DOMAIN r = 1..m /\ DOMAIN l \cup DOMAIN r = 1..n
  BY <1>1, <1>2, <1>5, <1>6
<1>9. {k \in DOMAIN l \cap DOMAIN r : l[k] = r[k]} = 1..c
  <2>1. \A k \in 1..c : k \in 1..m
    BY <1>2
  <2> QED BY <1>7, <1>8, <2>1
<1>10. /\ DOMAIN r \cap DOMAIN l = DOMAIN l \cap DOMAIN r
       /\ DOMAIN r \cup DOMAIN l = DOMAIN l \cup DOMAIN r
       /\ {k \in DOMAIN l \cap DOMAIN r : r[k] = l[k]} = 1..c
  BY <1>9
<1>11. (IF (1..n) \ (1..c) = {} THEN {} ELSE {Min((1..n) \ (1..c))}) = verdict
  <2>1. CASE c = n
    BY <2>1
  <2>2. CASE c # n
    <3>1. c < n /\ c + 1 \in (1..n) \ (1..c)
      BY <1>1, <1>2, <2>2
    <3> QED BY <1>1, <1>2, <2>2, <3>1, FirstBeyond
  <2> QED BY <2>1, <2>2
<1>12. compare_trace_files(file, whole) = verdict
  BY <1>8, <1>9, <1>11 DEF compare_trace_files, l, r
<1>13. compare_trace_files(whole, file) = verdict
  BY <1>8, <1>10, <1>11 DEF compare_trace_files, l, r
<1> QED BY <1>12, <1>13 DEF c, n

(* What has reached the file is some beginning of the trace's text.        *)
OnDisk == on_disk \in 0..3 * Len(trace)

(* verify-trace finds every cut a failed write leaves but that of the last *)
(* newline, at the right line, for traces of any length (TruncationFound:  *)
(* compare_trace_files).                                                   *)
THEOREM TruncationFoundHolds == RunSpec => []TruncationFound
<1>1. RunInit => OnDisk
  BY DEF RunInit, OnDisk
<1>2. RunInv /\ RunInv' /\ OnDisk /\ [RunNext]_allvars => OnDisk'
  <2> SUFFICES ASSUME RunInv, RunInv', OnDisk, [RunNext]_allvars PROVE OnDisk'
    OBVIOUS
  <2>1. trace \in Seq(Record) /\ trace' \in Seq(Record)
    BY DEF RunInv, LoopTyped
  <2>2. Len(Text(trace)) = 3 * Len(trace) /\ Len(Text(trace')) = 3 * Len(trace')
    BY <2>1, TextPieces
  <2>3. Len(trace) \in Nat /\ Len(trace') \in Nat
    BY <2>1
  <2>4. CASE RunStep
    <3>1. Len(trace) <= Len(trace')
      <4>1. HartInv /\ Step /\ trace' = Appended
        BY <2>4 DEF RunInv, RunStep
      <4>2. PICK s \in Record : record' = {s}
        BY <4>1, StepRecorded
      <4>3. trace' = trace \/ trace' = trace \o <<s>>
        BY <4>1, <4>2, SingletonSeq DEF Appended
      <4> QED BY <2>1, <4>3
    <3>2. on_disk' = on_disk \/ on_disk' \in 0..Len(Text(trace'))
      BY <2>4 DEF RunStep, WriteThrows
    <3> QED BY <2>2, <2>3, <3>1, <3>2 DEF OnDisk
  <2>5. CASE /\ UNCHANGED trace
             /\ \/ UNCHANGED on_disk
                \/ on_disk' \in 0..Len(Text(trace))
                \/ on_disk' = Len(Text(trace))
    BY <2>2, <2>3, <2>5 DEF OnDisk
  <2> QED BY <2>4, <2>5 DEF RunNext, OpenFails, StartRun, RunReturn, Exit, FlushFails,
                            WriteThrows, allvars, loop
<1>3. RunInv /\ OnDisk => TruncationFound
  <2> SUFFICES ASSUME RunInv, OnDisk PROVE TruncationFound
    OBVIOUS
  <2> DEFINE whole == Text(trace)
             complete == Cardinality({i \in 1..on_disk : i < Len(whole) /\ whole[i + 1] = Newline})
             verdict == IF WrittenFile = whole THEN {} ELSE {complete + 1}
  <2> SUFFICES ASSUME on_disk # Len(whole) - 1
               PROVE  /\ compare_trace_files(WrittenFile, whole) = verdict
                      /\ compare_trace_files(whole, WrittenFile) = verdict
    BY DEF TruncationFound
  <2>1. trace \in Seq(Record) /\ Len(trace) \in Nat /\ on_disk \in 0..3 * Len(trace)
    BY DEF RunInv, LoopTyped, OnDisk
  <2>2. complete = (on_disk + 1) \div 3
    BY <2>1, CompleteLines
  <2>3. /\ compare_trace_files(WrittenFile, whole)
             = IF (on_disk + 1) \div 3 = Len(trace) THEN {} ELSE {(on_disk + 1) \div 3 + 1}
        /\ compare_trace_files(whole, WrittenFile)
             = IF (on_disk + 1) \div 3 = Len(trace) THEN {} ELSE {(on_disk + 1) \div 3 + 1}
    BY <2>1, CutFound DEF WrittenFile
  <2>4. /\ Len(whole) = 3 * Len(trace)
        /\ whole \in Seq({whole[i] : i \in 1..3 * Len(trace)})
    BY <2>1, TextPieces
  <2>5. Len(WrittenFile) = on_disk
    BY <2>1, CutFacts DEF WrittenFile
  <2> HIDE DEF whole, complete
  <2>6. WrittenFile = whole <=> on_disk = 3 * Len(trace)
    BY <2>4, <2>5, SubSeqFull DEF WrittenFile, whole
  <2>7. (on_disk + 1) \div 3 = Len(trace) <=> on_disk = 3 * Len(trace)
    BY <2>1, <2>4
  <2> QED BY <2>2, <2>3, <2>6, <2>7
<1> QED BY <1>1, <1>2, <1>3, RunInvHolds, PTL DEF RunSpec
=============================================================================
