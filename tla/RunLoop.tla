------------------------------ MODULE RunLoop ------------------------------
(***************************************************************************)
(* Cpu::run, the trace it writes and the exit status of the run command.   *)
(* The hart of module Cpu starts loaded; the loop steps it until it halts  *)
(* or the step limit is reached, appending each record to the trace.  The  *)
(* stream behind the trace may fail at any append, or when it is opened or *)
(* flushed: the command then ends with an exception, and what has reached  *)
(* the file is some beginning of the text.                                 *)
(***************************************************************************)
EXTENDS Cpu, Trace

CONSTANTS Limits,        \* the values of maximum_steps
          Tracing,       \* whether runs are traced, a subset of BOOLEAN
          MaxRuns        \* bound on the runs of one machine

ASSUME RunAssumption ==
  Limits \subseteq Nat /\ Tracing \subseteq BOOLEAN /\ MaxRuns \in Nat

VARIABLES mode,          \* "ready", "running", "returned" or "exited"
          tracing,       \* a trace writer is attached
          runs, maximum_steps, attempted,
          result,        \* the RunResult of the last run, if it returned
          trace,         \* the records passed to append so far
          on_disk,       \* how much of the text the file holds at the end
          exit           \* the exit status, if the command has ended

loop == <<mode, tracing, runs, maximum_steps, attempted, result, trace,
          on_disk, exit>>
allvars == <<vars, loop>>

RunInit ==
  /\ Init
  /\ mode = "ready"
  /\ tracing \in Tracing
  /\ runs = 0 /\ maximum_steps = 0 /\ attempted = 0
  /\ result = {} /\ trace = <<>>
  /\ on_disk = 0 /\ exit = {}

(* A write fails and the exception reaches main: EXIT_FAILURE, with some   *)
(* beginning of the text in the file.  It can be all of it, as the stream  *)
(* writes out its buffer once more when it is closed.                      *)
WriteThrows(records) ==
  /\ mode' = "exited"
  /\ exit' = {1}
  /\ on_disk' \in 0..Len(Text(records))

(* JsonlTraceWriter's constructor cannot open the file.                    *)
OpenFails ==
  /\ mode = "ready" /\ tracing
  /\ mode' = "exited" /\ exit' = {1}
  /\ UNCHANGED <<vars, tracing, runs, maximum_steps, attempted, result, trace,
                 on_disk>>

(* run is called, or called again on a machine that ran before.            *)
StartRun(limit) ==
  /\ mode \in {"ready", "returned"} /\ runs < MaxRuns
  /\ mode' = "running"
  /\ runs' = runs + 1
  /\ maximum_steps' = limit
  /\ attempted' = 0
  /\ result' = {}
  /\ UNCHANGED <<vars, tracing, trace, on_disk, exit>>

(* The condition of the loop.                                              *)
Looping_counts_retired ==
  ~halted /\ Cardinality({i \in DOMAIN trace : trace[i].retired}) < maximum_steps
Looping == ~halted /\ attempted < maximum_steps

Step == StepFetchTrap \/ StepInstruction

(* trace->append(record), when there is a trace.                           *)
Appended_if_retired ==
  IF tracing THEN trace \o SetToSeq({r \in record' : r.retired}) ELSE trace
Appended == IF tracing THEN trace \o SetToSeq(record') ELSE trace

(* A pass of the loop.  When append finds that the stream has failed, the  *)
(* step has been taken already.                                            *)
RunStep ==
  /\ mode = "running" /\ Looping
  /\ attempted' = attempted + 1
  /\ UNCHANGED <<tracing, runs, maximum_steps, result>>
  /\ Step
  /\ trace' = Appended
  /\ \/ UNCHANGED <<mode, on_disk, exit>>
     \/ tracing /\ WriteThrows(trace')

RunResult_by_limit ==
  [reason |-> IF attempted < maximum_steps THEN "Halted" ELSE "StepLimit",
   attempted_steps |-> attempted,
   retired_instructions |-> csrs["minstret"],
   terminal_trap |-> terminal_trap]

RunResult ==
  [reason |-> IF halted THEN "Halted" ELSE "StepLimit",
   attempted_steps |-> attempted,
   retired_instructions |-> csrs["minstret"],
   terminal_trap |-> terminal_trap]

RunReturn ==
  /\ mode = "running" /\ ~Looping
  /\ mode' = "returned"
  /\ result' = {RunResult}
  /\ UNCHANGED <<vars, tracing, runs, maximum_steps, attempted, trace, on_disk,
                 exit>>

(* The end of run_command: flush, then the exit status.                    *)
ExitStatus_any_trap(r) ==
  IF r.reason = "StepLimit" THEN 2
  ELSE IF r.terminal_trap # {} THEN 3 ELSE 0
ExitStatus(r) ==
  IF r.reason = "StepLimit" THEN 2
  ELSE IF \E t \in r.terminal_trap : t.cause # Breakpoint THEN 3 ELSE 0

Exit ==
  /\ mode = "returned"
  /\ mode' = "exited"
  /\ \E r \in result : exit' = {ExitStatus(r)}
  /\ on_disk' = Len(Text(trace))
  /\ UNCHANGED <<vars, tracing, runs, maximum_steps, attempted, result, trace>>

FlushFails ==
  /\ mode = "returned" /\ tracing
  /\ WriteThrows(trace)
  /\ UNCHANGED <<vars, tracing, runs, maximum_steps, attempted, result, trace>>

RunNext ==
  \/ OpenFails
  \/ \E limit \in Limits : StartRun(limit)
  \/ RunStep
  \/ RunReturn
  \/ Exit
  \/ FlushFails

(* The loop runs on the caller's thread and nothing in it blocks, so it    *)
(* goes on as long as it can.                                              *)
RunSpec ==
  /\ RunInit /\ [][RunNext]_allvars
  /\ WF_allvars(RunStep) /\ WF_allvars(RunReturn)

-----------------------------------------------------------------------------
(* Every run ends, whatever the guest does: a jump to itself and a trap    *)
(* whose handler traps again, which retires nothing, use up the limit too  *)
(* (cpu.cpp run).                                                          *)
RunEnds == mode = "running" ~> mode # "running"

(* The trace is the execution.  Its records are numbered from 0 without a  *)
(* gap, each starts where the one before it ended, across runs too, and    *)
(* the last ends at the hart's present pc and privilege; only the last can *)
(* have halted, or have trapped for good.                                  *)
TraceIsExecution ==
  tracing =>
    LET n == Len(trace) IN
      /\ n = sequence
      /\ \A i \in 1..n : trace[i].sequence = i - 1
      /\ \A i \in 1..n-1 :
           /\ trace[i + 1].pc = trace[i].next_pc
           /\ trace[i + 1].privilege = trace[i].next_privilege
           /\ ~trace[i].halted
      /\ n > 0 => trace[n].next_pc = pc /\ trace[n].next_privilege = privilege

(* A result agrees with the trace: the retired count is that of all        *)
(* records since reset (no program here writes minstret), a run that       *)
(* stopped early stopped because its last record says so, and a run of a   *)
(* halted hart attempts nothing and reports the old halt.                  *)
ResultMatchesTrace ==
  \A r \in result : tracing =>
    LET n == Len(trace)
        retired == Cardinality({i \in 1..n : trace[i].retired})
    IN  /\ r.retired_instructions = NatWord(retired)
        /\ r.attempted_steps <= maximum_steps
        /\ r.reason = "Halted" <=> n > 0 /\ trace[n].halted
        /\ r.attempted_steps < maximum_steps => r.reason = "Halted"
        /\ r.terminal_trap # {} => r.terminal_trap = trace[n].trap

(* The exit status tells the truth about guest and trace.  0: the guest    *)
(* stopped by EBREAK or WFI; 3: it died of another trap; 2: it was still   *)
(* running; and with any of these the trace file holds every step.         *)
ExitTruthful ==
  \A status \in exit : tracing =>
    LET stop == IF trace = <<>> THEN {} ELSE Last(trace).trap IN
      /\ status = 0 => halted /\ \A t \in stop : t.cause = Breakpoint
      /\ status = 3 => halted /\ \E t \in stop : t.cause # Breakpoint
      /\ status = 2 => ~halted
      /\ status # 1 => on_disk = Len(Text(trace)) /\ Len(trace) = sequence

(* verify-trace of a file cut short by a failed write, against the whole   *)
(* trace: the cut is found, whichever file comes first, at the first line  *)
(* whose text is not all there, and a file that is all there passes.  A    *)
(* file that lacks only the last newline is left to VerifiedIsIdentical,   *)
(* below (trace.cpp compare_trace_files).                                  *)
WrittenFile == SubSeq(Text(trace), 1, on_disk)

TruncationFound ==
  LET whole == Text(trace)
      complete == Cardinality({i \in 1..on_disk : i < Len(whole) /\ whole[i + 1] = Newline})
      verdict == IF WrittenFile = whole THEN {} ELSE {complete + 1}
  IN mode = "exited" /\ on_disk # Len(whole) - 1 =>
       /\ compare_trace_files(WrittenFile, whole) = verdict
       /\ compare_trace_files(whole, WrittenFile) = verdict

(* What verify-trace prints when it finds no difference, "traces are       *)
(* byte-for-byte identical" (main.cpp:83), is true: no difference between  *)
(* what a run left on disk and the whole trace means that they are the     *)
(* same bytes.  compare_trace_files compares the lines getline yields, and *)
(* getline yields a last line with or without its newline.                 *)
VerifiedIsIdentical ==
  mode = "exited" /\ compare_trace_files(WrittenFile, Text(trace)) = {}
    => WrittenFile = Text(trace)
=============================================================================
