----------------------------- MODULE CpuProofs -----------------------------
(***************************************************************************)
(* The hart is correct for every program, memory, boot state and           *)
(* configuration.  A step of a running hart has one of two shapes: it      *)
(* traps (EnterTrap) or it completes (Complete).  StepShape says so once,  *)
(* with what is known of the parameters in each case, and the theorems     *)
(* follow from the shapes rather than from the instructions.               *)
(***************************************************************************)
EXTENDS Cpu, HartLemmas

(* Cpu::translate either faults or keeps the page offset.                  *)
LEMMA TranslateFacts ==
  ASSUME NEW va \in Word, NEW access
  PROVE  LET t == translate(va, access)
         IN  /\ t.kind \in {"Translation", "Fault"}
             /\ t.kind = "Translation" =>
                  t.physical \in Word /\ t.physical \cap 0..11 = va \cap 0..11
<1> DEFINE ctx == [root_ppn |-> csrs["satp"] \cap kSatpPpnMask, privilege |-> privilege,
                   access |-> access, sum |-> SUM \in csrs["mstatus"],
                   mxr |-> MXR \in csrs["mstatus"]]
<1>1. CASE Translating
  <2>1. translate(va, access) = walk_sv39(ram, va, ctx)
    BY <1>1 DEF translate
  <2> HIDE DEF ctx
  <2> QED BY <2>1, WalkFacts
<1>2. CASE ~Translating
  BY <1>2 DEF translate
<1> QED BY <1>1, <1>2

(* An access stops with an exception, or it is aligned, translated and     *)
(* accepted by the bus.                                                    *)
LEMMA AccessFacts ==
  ASSUME NEW va \in Word, NEW width \in AccessWidth, NEW access \in VirtualAccess
  PROVE  LET x == Access(va, width, access)
         IN  /\ x.cause \subseteq 0..15
             /\ x.translation \subseteq Translation
             /\ \A t \in x.translation :
                  /\ t.virtual = va
                  /\ translate(va, access).kind = "Translation"
                  /\ t.physical = translate(va, access).physical
             /\ x.cause = {} =>
                  /\ NaturallyAligned(va, width)
                  /\ \A t \in x.translation :
                       /\ BusAccepts(t.physical, width)
                       /\ NaturallyAligned(t.physical, width)
<1> DEFINE x == Access(va, width, access)
           walk == translate(va, access)
<1>1. /\ walk.kind \in {"Translation", "Fault"}
      /\ walk.kind = "Translation" =>
           walk.physical \in Word /\ walk.physical \cap 0..11 = va \cap 0..11
  BY TranslateFacts
<1>2. /\ Misaligned(access) \in 0..15 /\ AccessFault(access) \in 0..15
      /\ PageFault(access) \in 0..15
  BY DEF Misaligned, AccessFault, PageFault, VirtualAccess
<1> HIDE DEF walk
<1>3. CASE ~NaturallyAligned(va, width)
  <2>1. x = [cause |-> {Misaligned(access)}, translation |-> {}]
    BY <1>3 DEF Access
  <2> QED BY <1>2, <2>1
<1>4. CASE NaturallyAligned(va, width) /\ walk.kind = "Fault"
  <2>1. x.cause \in {{AccessFault(access)}, {PageFault(access)}} /\ x.translation = {}
    BY <1>4 DEF Access, walk
  <2> QED BY <1>2, <2>1
<1>5. CASE NaturallyAligned(va, width) /\ walk.kind = "Translation"
  <2>1. x = [cause |-> IF BusAccepts(walk.physical, width) THEN {}
                       ELSE {AccessFault(access)},
             translation |-> {[virtual |-> va, physical |-> walk.physical]}]
    BY <1>5 DEF Access, walk
  <2>2. NaturallyAligned(walk.physical, width)
    BY <1>1, <1>5 DEF NaturallyAligned, AccessWidth
  <2>3. [virtual |-> va, physical |-> walk.physical] \in Translation
    BY <1>1, <1>5 DEF Translation
  <2> QED BY <1>2, <1>5, <2>1, <2>2, <2>3 DEF walk
<1> QED BY <1>1, <1>3, <1>4, <1>5

-----------------------------------------------------------------------------
(* A record while its step is under way: neither retired nor trapped, and  *)
(* its translations are those of the accesses made.                        *)
Underway(r) ==
  /\ r \in Record
  /\ r.sequence = sequence /\ r.pc = pc /\ r.privilege = privilege
  /\ r.retired = FALSE /\ r.trap = {}
  /\ r.instruction_translation \subseteq Access(pc, 4, "InstructionFetch").translation
  /\ \A d \in r.data_translation :
       \E va \in Word, width \in AccessWidth, access \in {"Load", "Store"} :
         d \in Access(va, width, access).translation

Unwritten(r) == r.register_write = {} /\ r.memory_write = {}

(* The parameters of a trap: a step that traps writes nothing, and the     *)
(* value it reports is the address of a failed data access, or the pc  *)
(* if that is misaligned.                                                  *)
Trapping(r, cause, value, stop) ==
  /\ Underway(r) /\ Unwritten(r) /\ UNCHANGED <<registers, ram, transmitted>>
  /\ cause \in 0..15 /\ value \in Word /\ stop \in BOOLEAN
  /\ \A d \in r.data_translation : value = d.virtual
  /\ IsAligned4(pc) \/ value = pc

(* The instructions a program can have, and the CSRs they can write.       *)
Programmed == {InstructionSet[w] : w \in DOMAIN InstructionSet}
WrittenCsrs == {i.csr : i \in {j \in Programmed : j.op \in CsrOps}}

(* What an instruction that completes may have done to the CSRs, ...       *)
CsrsAfter(c) ==
  \/ c = Ticked
  \/ \E a \in CsrName \cap WrittenCsrs, v \in Word :
       validate_access(csrs, a, privilege, TRUE) = "ok" /\ c = WriteCsr(Ticked, a, v)
  \/ \E xret \in {Supervisor, Machine} :
       privilege_at_least(privilege, xret) /\ c = return_from_trap(Ticked, xret)

(* ... the registers, ...                                                  *)
RegistersAfter(r) ==
  \/ UNCHANGED registers /\ r.register_write = {}
  \/ \E rd \in RegIndex, v \in Word :
       /\ SetRegister(rd, v)
       /\ r.register_write = IF rd = 0 THEN {} ELSE {[index |-> rd, value |-> v]}

(* ... and memory and the UART.                                            *)
MemoryAfter(r) ==
  \/ UNCHANGED <<ram, transmitted>> /\ r.memory_write = {}
  \/ \E va \in Word, width \in AccessWidth, v \in Word :
       LET access == Access(va, width, "Store")
       IN  /\ v \subseteq WidthMask(width)
           /\ access.cause = {}
           /\ \E t \in access.translation :
                /\ ram' = BusWriteRam(ram, t.physical, width, v)
                /\ transmitted' = transmitted \o BusWriteUart(t.physical, v)
                /\ r.memory_write = {[address |-> va, width |-> width, value |-> v,
                                      physical |-> t.physical]}

Completing(r, c, next, target, stop) ==
  /\ Underway(r)
  /\ CsrsAfter(c)
  /\ next \in Word /\ IsAligned4(next)
  /\ target \in PrivilegeLevel /\ target <= privilege
  /\ stop \in BOOLEAN
  /\ RegistersAfter(r) /\ MemoryAfter(r)

TrapShape ==
  \E r, cause, value, stop :
    Trapping(r, cause, value, stop) /\ EnterTrap(r, cause, value, stop)
CompleteShape ==
  \E r, c, next, target, stop :
    Completing(r, c, next, target, stop) /\ Complete(r, c, next, target, stop)

-----------------------------------------------------------------------------
LEMMA FreshFacts ==
  ASSUME TypeOK
  PROVE  /\ Underway(FreshRecord) /\ Unwritten(FreshRecord)
         /\ FreshRecord.data_translation = {}
         /\ FreshRecord.next_pc = pc /\ FreshRecord.next_privilege = privilege
         /\ FreshRecord.halted = halted
<1>1. FreshRecord \in Record
  BY ConfigAssumption DEF TypeOK, FreshRecord, Record, Word
<1> QED BY <1>1 DEF FreshRecord, Underway, Unwritten

(* A fetch that succeeds leaves a record of the fetch, at an aligned pc.   *)
LEMMA FetchedFacts ==
  ASSUME TypeOK, NEW r \in Fetched
  PROVE  /\ Underway(r) /\ Unwritten(r) /\ r.data_translation = {}
         /\ IsAligned4(pc)
<1> DEFINE fetch == Access(pc, 4, "InstructionFetch")
<1>1. PICK t \in fetch.translation :
        /\ fetch.cause = {}
        /\ r = [FreshRecord EXCEPT !.raw = BusRead(ram, t.physical, 4),
                                   !.instruction_translation = {t}]
  BY DEF Fetched
<1>2. /\ pc \in Word /\ 4 \in AccessWidth /\ "InstructionFetch" \in VirtualAccess
  BY DEF TypeOK, AccessWidth, VirtualAccess
<1>3. fetch.translation \subseteq Translation /\ NaturallyAligned(pc, 4)
  BY <1>1, <1>2, AccessFacts
<1>4. BusRead(ram, t.physical, 4) \in Word
  BY <1>2, BusReadType
<1> HIDE DEF fetch
<1>5. /\ FreshRecord \in Record /\ Underway(FreshRecord) /\ Unwritten(FreshRecord)
      /\ FreshRecord.data_translation = {}
  BY FreshFacts DEF Underway
<1>6. r \in Record
  BY <1>1, <1>3, <1>4, <1>5 DEF Record
<1>7. /\ r.instruction_translation = {t} /\ r.data_translation = {}
      /\ r.sequence = sequence /\ r.pc = pc /\ r.privilege = privilege
      /\ r.retired = FALSE /\ r.trap = {}
      /\ r.register_write = {} /\ r.memory_write = {}
  BY <1>1 DEF FreshRecord
<1> QED BY <1>1, <1>3, <1>6, <1>7 DEF Underway, Unwritten, NaturallyAligned, IsAligned4, fetch

(* A step that traps at the fetch.                                         *)
LEMMA FetchTrapShape ==
  ASSUME TypeOK, StepFetchTrap
  PROVE  TrapShape
<1> DEFINE fetch == Access(pc, 4, "InstructionFetch")
           r == [FreshRecord EXCEPT !.instruction_translation = fetch.translation]
<1>1. PICK cause \in fetch.cause : RaiseTrap(r, cause, pc)
  BY DEF StepFetchTrap
<1>2. /\ pc \in Word /\ 4 \in AccessWidth /\ "InstructionFetch" \in VirtualAccess
  BY DEF TypeOK, AccessWidth, VirtualAccess
<1>3. fetch.translation \subseteq Translation /\ cause \in 0..15
  BY <1>1, <1>2, AccessFacts
<1> HIDE DEF fetch
<1>4. /\ FreshRecord \in Record /\ Underway(FreshRecord) /\ Unwritten(FreshRecord)
      /\ FreshRecord.data_translation = {}
  BY FreshFacts DEF Underway
<1>5. r \in Record
  BY <1>3, <1>4 DEF Record
<1>6. /\ r.instruction_translation = fetch.translation /\ r.data_translation = {}
      /\ r.sequence = sequence /\ r.pc = pc /\ r.privilege = privilege
      /\ r.retired = FALSE /\ r.trap = {}
      /\ r.register_write = {} /\ r.memory_write = {}
  BY DEF FreshRecord
<1> HIDE DEF r
<1>7. UNCHANGED <<registers, ram, transmitted>>
  BY DEF StepFetchTrap
<1>8. Trapping(r, cause, pc, trap_policy = "Halt")
  BY <1>2, <1>3, <1>5, <1>6, <1>7 DEF Trapping, Underway, Unwritten, fetch
<1> QED BY <1>1, <1>8 DEF RaiseTrap, TrapShape

-----------------------------------------------------------------------------
(* What holds when Cpu::execute is called.                                 *)
Executing(r, i) ==
  /\ TypeOK /\ LegalState /\ IsAligned4(pc)
  /\ Underway(r) /\ Unwritten(r) /\ r.data_translation = {}
  /\ i \in Instruction /\ i \in Programmed

LEMMA RaiseShape ==
  ASSUME NEW r, NEW i, Executing(r, i), NEW cause \in 0..15, NEW value \in Word,
         RaiseTrap(r, cause, value), UNCHANGED <<registers, ram, transmitted>>
  PROVE  TrapShape
<1>1. Trapping(r, cause, value, trap_policy = "Halt")
  BY DEF Executing, Trapping
<1> QED BY <1>1 DEF RaiseTrap, TrapShape

LEMMA WithWriteFacts ==
  ASSUME NEW r, Underway(r), NEW rd \in RegIndex, NEW v \in Word
  PROVE  /\ Underway(WithWrite(r, rd, v))
         /\ WithWrite(r, rd, v).register_write
              = IF rd = 0 THEN {} ELSE {[index |-> rd, value |-> v]}
         /\ WithWrite(r, rd, v).memory_write = r.memory_write
<1> DEFINE w == WithWrite(r, rd, v)
           write == IF rd = 0 THEN {} ELSE {[index |-> rd, value |-> v]}
<1>1. r \in Record
  BY DEF Underway
<1>2. w = [r EXCEPT !.register_write = write]
  BY DEF WithWrite
<1>3. write \in SUBSET [index : RegIndex, value : Word]
  OBVIOUS
<1> HIDE DEF w, write
<1>4. /\ w \in Record /\ w.register_write = write
      /\ w.memory_write = r.memory_write
      /\ w.sequence = r.sequence /\ w.pc = r.pc /\ w.privilege = r.privilege
      /\ w.retired = r.retired /\ w.trap = r.trap
      /\ w.instruction_translation = r.instruction_translation
      /\ w.data_translation = r.data_translation
  BY <1>1, <1>2, <1>3 DEF Record
<1> QED BY <1>4 DEF Underway, w, write

(* The pc after this instruction, and the operands of one.                 *)
LEMMA OperandFacts ==
  ASSUME NEW r, NEW i, Executing(r, i)
  PROVE  /\ pc \in Word /\ Sequential \in Word /\ IsAligned4(Sequential)
         /\ i.op \in Operation /\ i.rd \in RegIndex /\ i.imm \in Word /\ i.csr \in CsrName
         /\ registers[i.rs1] \in Word /\ registers[i.rs2] \in Word
         /\ privilege \in PrivilegeLevel /\ privilege <= privilege
         /\ halted \in BOOLEAN /\ r.raw \in Word
         /\ csrs \in CsrFileType /\ Warl(csrs) /\ Ticked \in CsrFileType
<1>1. pc \in Word /\ Sequential \in Word /\ IsAligned4(Sequential)
  BY IncrementType, SequentialAligned DEF Executing, TypeOK, Sequential
<1>2. privilege \in PrivilegeLevel /\ privilege <= privilege
  BY DEF Executing, TypeOK, PrivilegeLevel, User, Supervisor, Machine
<1>3. csrs \in CsrFileType /\ Warl(csrs) /\ Ticked \in CsrFileType
  BY CounterFacts DEF Executing, TypeOK, LegalState, Ticked
<1>4. r.raw \in Word
  BY DEF Executing, Underway, Record
<1> QED BY <1>1, <1>2, <1>3, <1>4 DEF Executing, TypeOK, Instruction

(* An instruction that writes a register and goes on to an aligned pc.     *)
LEMMA WriteShape ==
  ASSUME NEW r, NEW i, Executing(r, i), NEW s, Underway(s), s.memory_write = {},
         NEW v \in Word, NEW c, CsrsAfter(c), NEW next \in Word, IsAligned4(next),
         SetRegister(i.rd, v), UNCHANGED <<ram, transmitted>>,
         Complete(WithWrite(s, i.rd, v), c, next, privilege, halted)
  PROVE  CompleteShape
<1> DEFINE w == WithWrite(s, i.rd, v)
<1>1. i.rd \in RegIndex /\ privilege \in PrivilegeLevel /\ privilege <= privilege
      /\ halted \in BOOLEAN
  BY OperandFacts
<1>2. /\ Underway(w) /\ w.memory_write = {}
      /\ w.register_write = IF i.rd = 0 THEN {} ELSE {[index |-> i.rd, value |-> v]}
  BY <1>1, WithWriteFacts
<1> HIDE DEF w
<1>3. RegistersAfter(w) /\ MemoryAfter(w)
  BY <1>1, <1>2 DEF RegistersAfter, MemoryAfter
<1>4. Completing(w, c, next, privilege, halted)
  BY <1>1, <1>2, <1>3 DEF Completing
<1> QED BY <1>4 DEF CompleteShape, w

(* An instruction that writes nothing but CSRs, pc and privilege.          *)
LEMMA QuietShape ==
  ASSUME NEW r, NEW i, Executing(r, i), NEW c, CsrsAfter(c),
         NEW next \in Word, IsAligned4(next), NEW target \in PrivilegeLevel,
         target <= privilege, NEW stop \in BOOLEAN,
         UNCHANGED <<registers, ram, transmitted>>, Complete(r, c, next, target, stop)
  PROVE  CompleteShape
<1>1. RegistersAfter(r) /\ MemoryAfter(r)
  BY DEF Executing, Unwritten, RegistersAfter, MemoryAfter
<1>2. Completing(r, c, next, target, stop)
  BY <1>1 DEF Completing, Executing
<1> QED BY <1>2 DEF CompleteShape

LEMMA TickedAfter == CsrsAfter(Ticked)
BY DEF CsrsAfter

LEMMA AluShape ==
  ASSUME NEW r, NEW i, Executing(r, i), ExecAlu(r, i)
  PROVE  CompleteShape
<1> DEFINE v == AluResult(i.op, pc, registers[i.rs1], registers[i.rs2], i.imm)
<1>1. v \in Word
  BY OperandFacts, AluType DEF ExecAlu
<1>2. /\ SetRegister(i.rd, v) /\ UNCHANGED <<ram, transmitted>>
      /\ Complete(WithWrite(r, i.rd, v), Ticked, Sequential, privilege, halted)
  BY DEF ExecAlu, Continue
<1>3. Underway(r) /\ r.memory_write = {}
  BY DEF Executing, Unwritten
<1> HIDE DEF v
<1> QED BY <1>1, <1>2, <1>3, OperandFacts, TickedAfter, WriteShape

LEMMA JumpShape ==
  ASSUME NEW r, NEW i, Executing(r, i), ExecJump(r, i)
  PROVE  TrapShape \/ CompleteShape
<1> DEFINE target == JumpTarget(i)
<1>1. target \in Word
  <2>1. Add(pc, i.imm) \in Word /\ Add(registers[i.rs1], i.imm) \in Word
    BY OperandFacts, WordOps
  <2> QED BY <2>1 DEF JumpTarget, Word
<1>2. Underway(r) /\ r.memory_write = {}
  BY DEF Executing, Unwritten
<1>3. CASE TargetAligned(target)
  <2>1. /\ SetRegister(i.rd, Sequential) /\ UNCHANGED <<ram, transmitted>>
        /\ Complete(WithWrite(r, i.rd, Sequential), Ticked, target, privilege, halted)
    BY <1>3 DEF ExecJump, Continue
  <2>2. IsAligned4(target)
    BY <1>3 DEF TargetAligned
  <2> HIDE DEF target
  <2> QED BY <1>1, <1>2, <2>1, <2>2, OperandFacts, TickedAfter, WriteShape
<1>4. CASE ~TargetAligned(target)
  <2>1. RaiseTrap(r, 0, target) /\ UNCHANGED <<registers, ram, transmitted>>
    BY <1>4 DEF ExecJump, Misaligned
  <2> HIDE DEF target
  <2> QED BY <1>1, <2>1, RaiseShape
<1> QED BY <1>3, <1>4

LEMMA BranchShape ==
  ASSUME NEW r, NEW i, Executing(r, i), ExecBranch(r, i)
  PROVE  TrapShape \/ CompleteShape
<1> DEFINE taken == BranchTaken(i.op, registers[i.rs1], registers[i.rs2])
           target == Add(pc, i.imm)
           next == IF taken THEN target ELSE Sequential
<1>1. target \in Word
  BY OperandFacts, WordOps
<1>2. CASE taken /\ ~TargetAligned(target)
  <2>1. RaiseTrap(r, 0, target) /\ UNCHANGED <<registers, ram, transmitted>>
    BY <1>2 DEF ExecBranch, Misaligned
  <2> HIDE DEF target
  <2> QED BY <1>1, <2>1, RaiseShape
<1>3. CASE ~(taken /\ ~TargetAligned(target))
  <2>1. /\ Complete(r, Ticked, next, privilege, halted)
        /\ UNCHANGED <<registers, ram, transmitted>>
    BY <1>3 DEF ExecBranch, Continue
  <2>2. next \in Word /\ IsAligned4(next)
    BY <1>1, <1>3, OperandFacts DEF TargetAligned
  <2> HIDE DEF next
  <2> QED BY <2>1, <2>2, OperandFacts, TickedAfter, QuietShape
<1> QED BY <1>2, <1>3

LEMMA FenceShape ==
  ASSUME NEW r, NEW i, Executing(r, i), ExecFence(r, i)
  PROVE  TrapShape \/ CompleteShape
<1>1. CASE i.op = "sfence_vma" /\ privilege = User
  BY <1>1, OperandFacts, RaiseShape DEF ExecFence, IllegalInstruction
<1>2. CASE ~(i.op = "sfence_vma" /\ privilege = User)
  <2>1. /\ Complete(r, Ticked, Sequential, privilege, halted)
        /\ UNCHANGED <<registers, ram, transmitted>>
    BY <1>2 DEF ExecFence, Continue
  <2> QED BY <2>1, OperandFacts, TickedAfter, QuietShape
<1> QED BY <1>1, <1>2

LEMMA EcallShape ==
  ASSUME NEW r, NEW i, Executing(r, i), ExecEcall(r, i)
  PROVE  TrapShape
<1>1. EnvironmentCall(privilege) \in 0..15 /\ {} \in Word
  BY OperandFacts DEF EnvironmentCall, PrivilegeLevel, User, Supervisor, Machine, Word
<1> QED BY <1>1, RaiseShape DEF ExecEcall

LEMMA EbreakShape ==
  ASSUME NEW r, NEW i, Executing(r, i), ExecEbreak(r, i)
  PROVE  TrapShape
<1> DEFINE stop == trap_policy = "Halt" \/ HaltOnEbreak
<1>1. stop \in BOOLEAN
  OBVIOUS
<1>2. EnterTrap(r, 3, {}, stop) /\ UNCHANGED <<registers, ram, transmitted>>
  BY DEF ExecEbreak, Breakpoint
<1> HIDE DEF stop
<1>3. Trapping(r, 3, {}, stop)
  BY <1>1, <1>2 DEF Executing, Trapping, Word
<1> QED BY <1>2, <1>3 DEF TrapShape

LEMMA ReturnShape ==
  ASSUME NEW r, NEW i, Executing(r, i), ExecReturn(r, i)
  PROVE  TrapShape \/ CompleteShape
<1> DEFINE xret == IF i.op = "sret" THEN Supervisor ELSE Machine
<1>1. xret \in {Supervisor, Machine}
  OBVIOUS
<1>2. CASE privilege_at_least(privilege, xret)
  <2> DEFINE c == return_from_trap(Ticked, xret)
             next == ReturnPc(csrs, xret)
             target == ReturnTarget(csrs, xret)
  <2>1. /\ Complete(r, c, next, target, halted)
        /\ UNCHANGED <<registers, ram, transmitted>>
    BY <1>2 DEF ExecReturn
  <2> HIDE DEF xret
  <2>2. /\ next \in Word /\ IsAligned4(next) /\ target \in PrivilegeLevel
    BY <1>1, OperandFacts, ReturnFacts
  <2>3. target <= privilege
    BY <1>1, <1>2, OperandFacts, PrivilegeOrder
  <2>4. CsrsAfter(c)
    BY <1>1, <1>2 DEF CsrsAfter
  <2> HIDE DEF c, next, target
  <2> QED BY <2>1, <2>2, <2>3, <2>4, OperandFacts, QuietShape
<1>3. CASE ~privilege_at_least(privilege, xret)
  BY <1>3, OperandFacts, RaiseShape DEF ExecReturn, IllegalInstruction
<1> QED BY <1>2, <1>3

LEMMA WfiShape ==
  ASSUME NEW r, NEW i, Executing(r, i), ExecWfi(r, i)
  PROVE  CompleteShape
BY OperandFacts, TickedAfter, QuietShape, ConfigAssumption DEF ExecWfi

LEMMA CsrShape ==
  ASSUME NEW r, NEW i, Executing(r, i), ExecCsr(r, i)
  PROVE  TrapShape \/ CompleteShape
<1> DEFINE old == ReadCsr(Ticked, i.csr)
           operand == CsrOperand(i)
           writes == CsrWrites(i.op, operand)
           new == CsrUpdate(i.op, old, operand)
           refused == \/ validate_access(csrs, i.csr, privilege, FALSE) # "ok"
                      \/ writes /\ validate_access(csrs, i.csr, privilege, TRUE) # "ok"
           c == IF writes THEN WriteCsr(Ticked, i.csr, new) ELSE Ticked
<1>1. CASE refused
  <2>1. RaiseTrap(r, 2, r.raw) /\ UNCHANGED <<registers, ram, transmitted>>
    BY <1>1 DEF ExecCsr, IllegalInstruction
  <2> QED BY <2>1, OperandFacts, RaiseShape
<1>2. CASE ~refused
  <2>1. /\ SetRegister(i.rd, old) /\ UNCHANGED <<ram, transmitted>>
        /\ Complete(WithWrite(r, i.rd, old), c, Sequential, privilege, halted)
    BY <1>2 DEF ExecCsr
  <2>2. is_implemented(i.csr)
    BY <1>2 DEF validate_access
  <2>3. old \in Word
    BY <2>2, OperandFacts, ReadType
  <2>4. operand \in Word
    BY OperandFacts, NatWordType DEF CsrOperand
  <2> HIDE DEF old, operand
  <2>5. new \in Word
    BY <2>3, <2>4 DEF CsrUpdate, ExecCsr, CsrOps, Word
  <2> HIDE DEF new
  <2>6. i.csr \in WrittenCsrs
    BY DEF Executing, ExecCsr, WrittenCsrs
  <2>7. CsrsAfter(c)
    BY <1>2, <2>5, <2>6, OperandFacts DEF CsrsAfter
  <2>8. Underway(r) /\ r.memory_write = {}
    BY DEF Executing, Unwritten
  <2> HIDE DEF c
  <2> QED BY <2>1, <2>3, <2>7, <2>8, OperandFacts, WriteShape
<1> QED BY <1>1, <1>2

(* The record of an instruction that has accessed data.                    *)
LEMMA DataFacts ==
  ASSUME NEW r, NEW i, Executing(r, i), NEW va \in Word, NEW width \in AccessWidth,
         NEW access \in {"Load", "Store"}
  PROVE  LET x == Access(va, width, access)
             d == [r EXCEPT !.data_translation = x.translation]
         IN  /\ Underway(d) /\ Unwritten(d) /\ d.data_translation = x.translation
             /\ \A cause \in x.cause :
                  RaiseTrap(d, cause, va) /\ UNCHANGED <<registers, ram, transmitted>>
                    => TrapShape
<1> DEFINE x == Access(va, width, access)
           d == [r EXCEPT !.data_translation = x.translation]
<1>1. /\ x.cause \subseteq 0..15 /\ x.translation \subseteq Translation
      /\ \A t \in x.translation : t.virtual = va
  BY AccessFacts DEF VirtualAccess
<1>2. r \in Record /\ Underway(r) /\ Unwritten(r)
  BY DEF Executing, Underway
<1> HIDE DEF x
<1>3. /\ d \in Record /\ d.data_translation = x.translation
      /\ d.register_write = r.register_write /\ d.memory_write = r.memory_write
      /\ d.sequence = r.sequence /\ d.pc = r.pc /\ d.privilege = r.privilege
      /\ d.retired = r.retired /\ d.trap = r.trap
      /\ d.instruction_translation = r.instruction_translation
  BY <1>1, <1>2 DEF Record
<1> HIDE DEF d
<1>4. Underway(d) /\ Unwritten(d)
  BY <1>2, <1>3 DEF Underway, Unwritten, x
<1>5. ASSUME NEW cause \in x.cause, RaiseTrap(d, cause, va),
             UNCHANGED <<registers, ram, transmitted>>
      PROVE  TrapShape
  <2>1. Trapping(d, cause, va, trap_policy = "Halt")
    BY <1>1, <1>3, <1>4, <1>5 DEF Executing, Trapping
  <2> QED BY <1>5, <2>1 DEF RaiseTrap, TrapShape
<1> QED BY <1>3, <1>4, <1>5 DEF d, x

LEMMA WidthFacts ==
  ASSUME NEW op \in LoadOps \cup StoreOps
  PROVE  Width(op) \in AccessWidth /\ 8 * Width(op) \in 1..64
BY DEF Width, LoadOps, StoreOps, AccessWidth

LEMMA LoadShape ==
  ASSUME NEW r, NEW i, Executing(r, i), ExecLoad(r, i)
  PROVE  TrapShape \/ CompleteShape
<1> DEFINE va == Add(registers[i.rs1], i.imm)
           width == Width(i.op)
           x == Access(va, width, "Load")
           d == [r EXCEPT !.data_translation = x.translation]
<1>1. va \in Word /\ width \in AccessWidth /\ 8 * width \in 1..64
  BY OperandFacts, WordOps, WidthFacts DEF ExecLoad
<1>2. /\ Underway(d) /\ Unwritten(d)
      /\ \A cause \in x.cause :
           RaiseTrap(d, cause, va) /\ UNCHANGED <<registers, ram, transmitted>>
             => TrapShape
  <2> HIDE DEF va, width
  <2> QED BY <1>1, DataFacts
<1>3. CASE /\ \E cause \in x.cause : RaiseTrap(d, cause, va)
           /\ UNCHANGED <<registers, ram, transmitted>>
  BY <1>2, <1>3
<1>4. CASE ~(/\ \E cause \in x.cause : RaiseTrap(d, cause, va)
             /\ UNCHANGED <<registers, ram, transmitted>>)
  <2>1. PICK t \in x.translation :
          LET raw == BusRead(ram, t.physical, width)
              v == IF is_unsigned_load(i.op) THEN raw ELSE SignExtend(raw, 8 * width)
          IN  /\ SetRegister(i.rd, v)
              /\ Continue(WithWrite(d, i.rd, v), Sequential)
    BY <1>4 DEF ExecLoad
  <2> DEFINE raw == BusRead(ram, t.physical, width)
             v == IF is_unsigned_load(i.op) THEN raw ELSE SignExtend(raw, 8 * width)
  <2>2. UNCHANGED <<ram, transmitted>>
    BY <1>4 DEF ExecLoad
  <2>3. /\ SetRegister(i.rd, v)
        /\ Complete(WithWrite(d, i.rd, v), Ticked, Sequential, privilege, halted)
    BY <2>1 DEF Continue
  <2> HIDE DEF va, width, d
  <2>4. raw \in Word
    BY <1>1, BusReadType
  <2> HIDE DEF raw
  <2>5. v \in Word
    BY <1>1, <2>4, SignExtendType
  <2>6. d.memory_write = {}
    BY <1>2 DEF Unwritten
  <2> HIDE DEF v
  <2> QED BY <1>2, <2>2, <2>3, <2>5, <2>6, OperandFacts, TickedAfter, WriteShape
<1> QED BY <1>3, <1>4

LEMMA StoreShape ==
  ASSUME NEW r, NEW i, Executing(r, i), ExecStore(r, i)
  PROVE  TrapShape \/ CompleteShape
<1> DEFINE va == Add(registers[i.rs1], i.imm)
           width == Width(i.op)
           v == registers[i.rs2] \cap WidthMask(width)
           x == Access(va, width, "Store")
           d == [r EXCEPT !.data_translation = x.translation]
<1>1. va \in Word /\ width \in AccessWidth /\ v \in Word /\ v \subseteq WidthMask(width)
  <2>1. va \in Word
    BY OperandFacts, WordOps
  <2>2. width \in AccessWidth
    BY WidthFacts DEF ExecStore
  <2>3. registers[i.rs2] \in Word
    BY OperandFacts
  <2>4. v \in Word /\ v \subseteq WidthMask(width)
    BY <2>3 DEF Word
  <2> QED BY <2>1, <2>2, <2>4
<1>2. /\ Underway(d) /\ Unwritten(d)
      /\ \A cause \in x.cause :
           RaiseTrap(d, cause, va) /\ UNCHANGED <<registers, ram, transmitted>>
             => TrapShape
  <2> HIDE DEF va, width
  <2> QED BY <1>1, DataFacts
<1>3. CASE /\ \E cause \in x.cause : RaiseTrap(d, cause, va)
           /\ UNCHANGED <<registers, ram, transmitted>>
  BY <1>2, <1>3
<1>4. CASE ~(/\ \E cause \in x.cause : RaiseTrap(d, cause, va)
             /\ UNCHANGED <<registers, ram, transmitted>>)
  <2>1. x.cause = {} /\ UNCHANGED registers
    BY <1>4 DEF ExecStore
  <2>2. PICK t \in x.translation :
          /\ ram' = BusWriteRam(ram, t.physical, width, v)
          /\ transmitted' = transmitted \o BusWriteUart(t.physical, v)
          /\ Continue([d EXCEPT !.memory_write =
               {[address |-> va, width |-> width, value |-> v,
                 physical |-> t.physical]}], Sequential)
    BY <1>4 DEF ExecStore
  <2> DEFINE write == [address |-> va, width |-> width, value |-> v,
                       physical |-> t.physical]
             m == [d EXCEPT !.memory_write = {write}]
  <2>3. Complete(m, Ticked, Sequential, privilege, halted)
    BY <2>2 DEF Continue
  <2> HIDE DEF va, width, v, x, d
  <2>4. t.physical \in Word
    BY <1>1, AccessFacts DEF VirtualAccess, Translation, x
  <2>5. write \in [address : Word, width : {1, 2, 4, 8}, value : Word, physical : Word]
    BY <1>1, <2>4 DEF AccessWidth
  <2> HIDE DEF write
  <2>6. d \in Record
    BY <1>2 DEF Underway
  <2>7. /\ m \in Record /\ m.memory_write = {write}
        /\ m.register_write = d.register_write
        /\ m.sequence = d.sequence /\ m.pc = d.pc /\ m.privilege = d.privilege
        /\ m.retired = d.retired /\ m.trap = d.trap
        /\ m.instruction_translation = d.instruction_translation
        /\ m.data_translation = d.data_translation
    BY <2>5, <2>6 DEF Record
  <2> HIDE DEF m
  <2>8. Underway(m) /\ m.register_write = {}
    BY <1>2, <2>7 DEF Underway, Unwritten
  <2>9. MemoryAfter(m)
    BY <1>1, <2>1, <2>2, <2>7 DEF MemoryAfter, write, x
  <2>10. Completing(m, Ticked, Sequential, privilege, halted)
    BY <2>1, <2>8, <2>9, OperandFacts, TickedAfter DEF Completing, RegistersAfter
  <2> QED BY <2>3, <2>10 DEF CompleteShape
<1> QED BY <1>3, <1>4

(* Every step of a running hart has one of the two shapes.                 *)
LEMMA StepShape ==
  ASSUME TypeOK, LegalState, StepFetchTrap \/ StepInstruction
  PROVE  TrapShape \/ CompleteShape
<1>1. CASE StepFetchTrap
  BY <1>1, FetchTrapShape
<1>2. CASE StepInstruction
  <2>1. PICK r \in Fetched :
          \/ \E i \in Decodes(r.raw) : Execute(r, i)
          \/ /\ RaiseTrap(r, IllegalInstruction, r.raw)
             /\ UNCHANGED <<registers, ram, transmitted>>
    BY <1>2 DEF StepInstruction
  <2>2. /\ Underway(r) /\ Unwritten(r) /\ r.data_translation = {} /\ IsAligned4(pc)
    BY FetchedFacts
  <2>3. ASSUME NEW i \in Decodes(r.raw), Execute(r, i)
        PROVE  TrapShape \/ CompleteShape
    <3>1. i \in Instruction /\ i \in Programmed
      BY InstructionSetAssumption DEF Decodes, Programmed
    <3>2. Executing(r, i)
      BY <2>2, <3>1 DEF Executing
    <3> QED BY <2>3, <3>2, AluShape, JumpShape, BranchShape, LoadShape, StoreShape,
               FenceShape, EcallShape, EbreakShape, ReturnShape, WfiShape, CsrShape
            DEF Execute
  <2>4. ASSUME RaiseTrap(r, IllegalInstruction, r.raw),
               UNCHANGED <<registers, ram, transmitted>>
        PROVE  TrapShape
    <3>1. r.raw \in Word
      BY <2>2 DEF Underway, Record
    <3>2. Trapping(r, IllegalInstruction, r.raw, trap_policy = "Halt")
      BY <2>2, <2>4, <3>1 DEF Trapping, IllegalInstruction
    <3> QED BY <2>4, <3>2 DEF RaiseTrap, TrapShape
  <2> QED BY <2>1, <2>3, <2>4
<1> QED BY <1>1, <1>2

-----------------------------------------------------------------------------
(* The file after the cycle tick.                                          *)
LEMMA TickFacts ==
  ASSUME TypeOK, LegalState
  PROVE  /\ Ticked \in CsrFileType /\ Warl(Ticked)
         /\ Ticked["mcycle"] = Increment(csrs["mcycle"], 0)
         /\ \A x \in CsrRegister \ {"mcycle"} : Ticked[x] = csrs[x]
<1>1. csrs \in CsrFileType /\ Warl(csrs)
  BY DEF TypeOK, LegalState
<1>2. Ticked \in CsrFileType /\ Warl(Ticked)
  BY <1>1, CounterFacts DEF Ticked
<1> QED BY <1>1, <1>2 DEF Ticked, tick_cycle, CsrFileType, CsrRegister

LEMMA AlignedFixed ==
  ASSUME NEW w \in Word, IsAligned4(w)
  PROVE  AlignDown4(w) = w
BY DEF AlignDown4, IsAligned4, Word

(* Trap entry fills one bank and leaves every other register; of mstatus   *)
(* it changes the stack of the mode it enters.                             *)
LEMMA TrapCsrs ==
  ASSUME NEW c \in CsrFileType, NEW trap, NEW origin \in PrivilegeLevel
  PROVE  LET e == EnterTrapCsrs(c, trap, origin)
             p == TrapTarget(c, trap.cause, origin)
         IN  /\ p \in {Supervisor, Machine}
             /\ origin = Machine => p = Machine
             /\ e[Epc(p)] = AlignDown4(trap.pc) /\ e[Tval(p)] = trap.value
             /\ \A x \in CsrRegister \ ({"mstatus"} \cup Bank(p)) : e[x] = c[x]
             /\ e["mstatus"] \ Stack(p) = c["mstatus"] \ Stack(p)
<1>1. CASE delegated(c, trap.cause, origin)
  <2>1. /\ TrapTarget(c, trap.cause, origin) = Supervisor /\ origin # Machine
        /\ EnterTrapCsrs(c, trap, origin) =
             [c EXCEPT !["mstatus"] = PushSupervisor(@, origin),
                       !["sepc"] = AlignDown4(trap.pc),
                       !["scause"] = NatWord(trap.cause),
                       !["stval"] = trap.value]
    BY <1>1 DEF TrapTarget, EnterTrapCsrs, delegated
  <2>2. PushSupervisor(c["mstatus"], origin) \ Stack(Supervisor)
          = c["mstatus"] \ Stack(Supervisor)
    BY DEF PushSupervisor, Stack, Supervisor, Machine
  <2> QED BY <2>1, <2>2 DEF CsrFileType, CsrRegister, Epc, Tval, Bank, Supervisor, Machine
<1>2. CASE ~delegated(c, trap.cause, origin)
  <2>1. /\ TrapTarget(c, trap.cause, origin) = Machine
        /\ EnterTrapCsrs(c, trap, origin) =
             [c EXCEPT !["mstatus"] = PushMachine(@, origin),
                       !["mepc"] = AlignDown4(trap.pc),
                       !["mcause"] = NatWord(trap.cause),
                       !["mtval"] = trap.value]
    BY <1>2 DEF TrapTarget, EnterTrapCsrs
  <2>2. PushMachine(c["mstatus"], origin) \ Stack(Machine)
          = c["mstatus"] \ Stack(Machine)
    BY MppOfOrigin DEF PushMachine, Stack
  <2> QED BY <2>1, <2>2 DEF CsrFileType, CsrRegister, Epc, Tval, Bank, Supervisor, Machine
<1> QED BY <1>1, <1>2

(* A record s closes the record r of the step when it adds where the step  *)
(* led.                                                                    *)
Closes(s, r) ==
  /\ s \in Record
  /\ s.sequence = sequence /\ s.pc = pc /\ s.privilege = privilege
  /\ s.next_pc = pc' /\ s.next_privilege = privilege' /\ s.halted = halted'
  /\ s.register_write = r.register_write /\ s.memory_write = r.memory_write
  /\ s.instruction_translation = r.instruction_translation
  /\ s.data_translation = r.data_translation

(* What a step that traps does.                                            *)
TrapEffect(r, cause, value) ==
  LET trap == [cause |-> cause, pc |-> pc, value |-> value]
  IN  /\ trap \in Trap
      /\ csrs' = EnterTrapCsrs(Ticked, trap, privilege)
      /\ privilege' = TrapTarget(Ticked, cause, privilege)
      /\ csrs' \in CsrFileType /\ Warl(csrs')
      /\ privilege' \in PrivilegeLevel /\ privilege' >= privilege
      /\ pc' \in Word /\ (IsAligned4(pc) => IsAligned4(pc'))
      /\ halted' \in BOOLEAN
      /\ \/ pc' = pc /\ halted' /\ terminal_trap' = {trap}
         \/ /\ pc' = csrs[IF privilege' = Machine THEN "mtvec" ELSE "stvec"]
            /\ UNCHANGED <<halted, terminal_trap>>
      /\ UNCHANGED <<registers, ram, transmitted>>
      /\ \E s : /\ record' = {s} /\ Closes(s, r)
                /\ s.trap = {trap} /\ s.retired = FALSE

LEMMA TrapFacts ==
  ASSUME TypeOK, LegalState, NEW r, NEW cause, NEW value, NEW stop,
         Trapping(r, cause, value, stop), EnterTrap(r, cause, value, stop)
  PROVE  TrapEffect(r, cause, value)
<1> DEFINE trap == [cause |-> cause, pc |-> pc, value |-> value]
           s == [r EXCEPT !.trap = {trap}, !.next_pc = pc',
                          !.next_privilege = privilege', !.halted = halted']
<1>1. /\ pc \in Word /\ privilege \in PrivilegeLevel /\ halted \in BOOLEAN
      /\ csrs \in CsrFileType /\ Warl(csrs)
  BY DEF TypeOK, LegalState
<1>2. /\ cause \in 0..15 /\ value \in Word /\ stop \in BOOLEAN /\ Underway(r)
  BY DEF Trapping
<1>3. /\ trap \in Trap /\ trap.cause = cause /\ trap.pc = pc /\ trap.value = value
  BY <1>1, <1>2 DEF Trap
<1>4. /\ csrs' = EnterTrapCsrs(Ticked, trap, privilege)
      /\ privilege' = TrapTarget(Ticked, cause, privilege)
      /\ \/ stop /\ pc' = pc /\ halted' = TRUE /\ terminal_trap' = {trap}
         \/ /\ ~stop
            /\ pc' = TrapVector(Ticked, cause, privilege)
            /\ UNCHANGED <<halted, terminal_trap>>
      /\ record' = {s}
      /\ UNCHANGED <<registers, ram, transmitted>>
  BY <1>2 DEF EnterTrap, Ticked, Trapping, Underway
<1>5. /\ Ticked \in CsrFileType /\ Warl(Ticked)
      /\ \A x \in CsrRegister \ {"mcycle"} : Ticked[x] = csrs[x]
  BY TickFacts
<1> HIDE DEF trap
<1>6. /\ csrs' \in CsrFileType /\ Warl(csrs')
      /\ privilege' \in PrivilegeLevel
      /\ TrapVector(Ticked, cause, privilege) \in Word
      /\ IsAligned4(TrapVector(Ticked, cause, privilege))
  BY <1>1, <1>2, <1>3, <1>4, <1>5, EnterTrapFacts
<1>7. privilege' >= privilege
  BY <1>1, <1>4, PrivilegeOrder
<1>8. TrapVector(Ticked, cause, privilege)
        = csrs[IF privilege' = Machine THEN "mtvec" ELSE "stvec"]
  <2>1. Ticked["mtvec"] = csrs["mtvec"] /\ Ticked["stvec"] = csrs["stvec"]
    BY <1>5 DEF CsrRegister
  <2>2. /\ AlignDown4(csrs["mtvec"]) = csrs["mtvec"]
        /\ AlignDown4(csrs["stvec"]) = csrs["stvec"]
    <3>1. /\ csrs["mtvec"] \in Word /\ csrs["stvec"] \in Word
          /\ IsAligned4(csrs["mtvec"]) /\ IsAligned4(csrs["stvec"])
      BY <1>1 DEF CsrFileType, CsrRegister, Warl
    <3> QED BY <3>1, AlignedFixed
  <2> QED BY <1>4, <2>1, <2>2 DEF TrapVector, TrapTarget, Supervisor, Machine
<1>9. pc' \in Word /\ halted' \in BOOLEAN /\ (IsAligned4(pc) => IsAligned4(pc'))
  BY <1>1, <1>4, <1>6
<1>10. Closes(s, r) /\ s.trap = {trap} /\ s.retired = FALSE
  <2>1. r \in Record /\ r.sequence = sequence /\ r.pc = pc /\ r.privilege = privilege
        /\ r.retired = FALSE
    BY <1>2 DEF Underway
  <2>2. s \in Record /\ s.retired = r.retired
    BY <1>3, <1>6, <1>9, <2>1 DEF Record
  <2>3. /\ s.sequence = r.sequence /\ s.pc = r.pc /\ s.privilege = r.privilege
        /\ s.next_pc = pc' /\ s.next_privilege = privilege' /\ s.halted = halted'
        /\ s.register_write = r.register_write /\ s.memory_write = r.memory_write
        /\ s.instruction_translation = r.instruction_translation
        /\ s.data_translation = r.data_translation /\ s.trap = {trap}
    BY <2>1 DEF Record
  <2> QED BY <2>1, <2>2, <2>3 DEF Closes
<1> HIDE DEF s
<1> QED BY <1>3, <1>4, <1>6, <1>7, <1>8, <1>9, <1>10 DEF trap, TrapEffect

(* The CSRs after an instruction that completes.  Below M mode, no         *)
(* instruction touches the machine's registers or the counters.            *)
MachineKept(c) ==
  /\ \A x \in MachineOwned : c[x] = csrs[x]
  /\ \A x \in {"mie", "mip"} : c[x] \ csrs["mideleg"] = csrs[x] \ csrs["mideleg"]
  /\ c["mstatus"] \cap ({MIE, MPIE} \cup kMppMask)
       = csrs["mstatus"] \cap ({MIE, MPIE} \cup kMppMask)

LEMMA CsrsAfterFacts ==
  ASSUME TypeOK, LegalState, NEW c, CsrsAfter(c)
  PROVE  /\ c \in CsrFileType /\ Warl(c)
         /\ privilege # Machine =>
              /\ MachineKept(c)
              /\ c["mcycle"] = Increment(csrs["mcycle"], 0)
              /\ c["minstret"] = csrs["minstret"]
         /\ "minstret" \notin WrittenCsrs => c["minstret"] = csrs["minstret"]
<1>1. /\ Ticked \in CsrFileType /\ Warl(Ticked)
      /\ Ticked["mcycle"] = Increment(csrs["mcycle"], 0)
      /\ \A x \in CsrRegister \ {"mcycle"} : Ticked[x] = csrs[x]
  BY TickFacts
<1>2. MachineOwned \cup {"mie", "mip", "mstatus", "minstret", "mideleg"}
        \subseteq CsrRegister \ {"mcycle"}
  BY DEF MachineOwned, CsrRegister
<1>3. MachineKept(Ticked) /\ Ticked["minstret"] = csrs["minstret"]
  BY <1>1, <1>2 DEF MachineKept
<1>4. CASE c = Ticked
  BY <1>1, <1>3, <1>4
<1>5. CASE \E a \in CsrName \cap WrittenCsrs, v \in Word :
             validate_access(csrs, a, privilege, TRUE) = "ok" /\ c = WriteCsr(Ticked, a, v)
  <2>1. PICK a \in CsrName \cap WrittenCsrs, v \in Word :
          validate_access(csrs, a, privilege, TRUE) = "ok" /\ c = WriteCsr(Ticked, a, v)
    BY <1>5
  <2>2. c \in CsrFileType /\ Warl(c)
    BY <1>1, <2>1, WriteType, WriteWarl
  <2>3. ASSUME privilege # Machine
        PROVE  /\ MachineKept(c) /\ c["mcycle"] = Ticked["mcycle"]
               /\ c["minstret"] = Ticked["minstret"]
    <3>1. a \in SupervisorCsr
      <4>1. privilege \in {User, Supervisor}
        BY <2>3 DEF TypeOK, PrivilegeLevel
      <4> QED BY <2>1, <4>1, WritableBelowMachine
    <3>2. /\ \A x \in MachineOwned \cup {"mcycle", "minstret"} : c[x] = Ticked[x]
          /\ \A x \in {"mie", "mip"} : c[x] \ Ticked["mideleg"] = Ticked[x] \ Ticked["mideleg"]
      BY <1>1, <2>1, <3>1
      DEF WriteCsr, Merge, InterruptWritable, SupervisorCsr, MachineOwned,
          CsrFileType, CsrRegister
    <3>3. c["mstatus"] = Ticked["mstatus"]
            \/ c["mstatus"] = Merge(Ticked["mstatus"], v, kSstatusWritableMask)
      BY <1>1, <2>1, <3>1 DEF WriteCsr, SupervisorCsr, CsrFileType, CsrRegister
    <3>4. c["mstatus"] \cap ({MIE, MPIE} \cup kMppMask)
            = Ticked["mstatus"] \cap ({MIE, MPIE} \cup kMppMask)
      BY <3>3 DEF Merge, kSstatusWritableMask, kMppMask, SIE, MIE, SPIE, MPIE, SPP, SUM, MXR
    <3> QED BY <1>1, <1>2, <3>2, <3>4 DEF MachineKept
  <2>4. a # "minstret" => c["minstret"] = Ticked["minstret"]
    BY <1>1, <2>1 DEF WriteCsr, CsrFileType, CsrRegister
  <2> QED BY <1>1, <1>3, <2>1, <2>2, <2>3, <2>4
<1>6. CASE \E xret \in {Supervisor, Machine} :
             privilege_at_least(privilege, xret) /\ c = return_from_trap(Ticked, xret)
  <2>1. PICK xret \in {Supervisor, Machine} :
          privilege_at_least(privilege, xret) /\ c = return_from_trap(Ticked, xret)
    BY <1>6
  <2>2. c \in CsrFileType /\ Warl(c)
    BY <1>1, <2>1, ReturnFacts
  <2>3. ASSUME privilege # Machine
        PROVE  /\ MachineKept(c) /\ c["mcycle"] = Ticked["mcycle"]
               /\ c["minstret"] = Ticked["minstret"]
    <3>1. xret = Supervisor
      BY <2>1, <2>3
      DEF TypeOK, PrivilegeLevel, privilege_at_least, User, Supervisor, Machine
    <3>2. /\ c["mstatus"] = PopSupervisor(Ticked["mstatus"])
          /\ \A x \in CsrRegister \ {"mstatus"} : c[x] = Ticked[x]
      BY <1>1, <2>1, <3>1 DEF return_from_trap, CsrFileType, CsrRegister
    <3>3. c["mstatus"] \cap ({MIE, MPIE} \cup kMppMask)
            = Ticked["mstatus"] \cap ({MIE, MPIE} \cup kMppMask)
      BY <3>2 DEF PopSupervisor, kMppMask, SIE, MIE, SPIE, MPIE, SPP, MPRV
    <3>4. MachineOwned \cup {"mie", "mip", "mcycle", "minstret"}
            \subseteq CsrRegister \ {"mstatus"}
      BY DEF MachineOwned, CsrRegister
    <3> QED BY <1>1, <1>2, <3>2, <3>3, <3>4 DEF MachineKept
  <2>4. c["minstret"] = Ticked["minstret"]
    BY <1>1, <2>1 DEF return_from_trap, CsrFileType, CsrRegister
  <2> QED BY <1>1, <1>3, <2>2, <2>3, <2>4
<1> QED BY <1>4, <1>5, <1>6 DEF CsrsAfter

(* What a completed step leaves in the registers, ...                      *)
LEMMA RegistersAfterFacts ==
  ASSUME TypeOK, LegalState, NEW r, RegistersAfter(r)
  PROVE  /\ registers' \in [RegIndex -> Word] /\ registers'[0] = {}
         /\ \A w \in r.register_write : w.index # 0 /\ registers'[w.index] = w.value
<1>1. registers \in [RegIndex -> Word] /\ registers[0] = {}
  BY DEF TypeOK, LegalState
<1>2. CASE UNCHANGED registers /\ r.register_write = {}
  BY <1>1, <1>2
<1>3. CASE \E rd \in RegIndex, v \in Word :
             /\ SetRegister(rd, v)
             /\ r.register_write = IF rd = 0 THEN {} ELSE {[index |-> rd, value |-> v]}
  <2>1. PICK rd \in RegIndex, v \in Word :
             /\ SetRegister(rd, v)
             /\ r.register_write = IF rd = 0 THEN {} ELSE {[index |-> rd, value |-> v]}
    BY <1>3
  <2>2. registers' = [registers EXCEPT ![rd] = IF rd = 0 THEN {} ELSE v]
    BY <2>1 DEF SetRegister
  <2>3. (IF rd = 0 THEN {} ELSE v) \in Word
    BY DEF Word
  <2>4. registers' \in [RegIndex -> Word] /\ registers'[0] = {}
    BY <1>1, <2>2, <2>3 DEF RegIndex
  <2>5. ASSUME NEW w \in r.register_write
        PROVE  w.index # 0 /\ registers'[w.index] = w.value
    BY <1>1, <2>1, <2>2, <2>5
  <2> QED BY <2>4, <2>5
<1> QED BY <1>2, <1>3 DEF RegistersAfter

(* ... and in memory: the value the record reports.                        *)
LEMMA MemoryAfterFacts ==
  ASSUME TypeOK, NEW r, MemoryAfter(r)
  PROVE  /\ ram' \in Ram /\ transmitted' \in Seq(Word)
         /\ \A m \in r.memory_write :
              InRam(m.physical) => RamRead(ram', m.physical, m.width) = m.value
<1>1. ram \in Ram /\ transmitted \in Seq(Word)
  BY DEF TypeOK
<1>2. CASE UNCHANGED <<ram, transmitted>> /\ r.memory_write = {}
  BY <1>1, <1>2
<1>3. CASE ~(UNCHANGED <<ram, transmitted>> /\ r.memory_write = {})
  <2>1. PICK va \in Word, width \in AccessWidth, v \in Word :
          LET access == Access(va, width, "Store")
          IN  /\ v \subseteq WidthMask(width)
              /\ access.cause = {}
              /\ \E t \in access.translation :
                   /\ ram' = BusWriteRam(ram, t.physical, width, v)
                   /\ transmitted' = transmitted \o BusWriteUart(t.physical, v)
                   /\ r.memory_write = {[address |-> va, width |-> width, value |-> v,
                                         physical |-> t.physical]}
    BY <1>3 DEF MemoryAfter
  <2> DEFINE x == Access(va, width, "Store")
  <2>2. PICK t \in x.translation :
          /\ ram' = BusWriteRam(ram, t.physical, width, v)
          /\ transmitted' = transmitted \o BusWriteUart(t.physical, v)
          /\ r.memory_write = {[address |-> va, width |-> width, value |-> v,
                                physical |-> t.physical]}
    BY <2>1
  <2>3. t.physical \in Word /\ NaturallyAligned(t.physical, width)
    BY <2>1, AccessFacts DEF VirtualAccess, Translation
  <2> DEFINE a == t.physical
  <2> HIDE DEF x, a
  <2>4. BusWriteUart(a, v) \in Seq(Word)
    <3>1. v \cap 0..7 \in Word
      BY DEF Word
    <3> QED BY <3>1 DEF BusWriteUart
  <2>5. transmitted' \in Seq(Word)
    BY <1>1, <2>2, <2>4 DEF a
  <2>6. InRam(a) => ram' \in Ram /\ RamRead(ram', a, width) = v
    <3> HAVE InRam(a)
    <3>1. ram' = RamWrite(ram, a, width, v)
      BY <2>2 DEF BusWriteRam, a
    <3>2. a \in Word /\ NaturallyAligned(a, width)
      BY <2>3 DEF a
    <3>3. ram' \in Ram /\ RamRead(ram', a, width) = v \cap WidthMask(width)
      BY <1>1, <3>1, <3>2, RamWriteFacts
    <3> QED BY <2>1, <3>3
  <2>7. ~InRam(a) => ram' \in Ram
    BY <1>1, <2>2 DEF BusWriteRam, a
  <2> QED BY <2>2, <2>5, <2>6, <2>7 DEF a
<1> QED BY <1>2, <1>3

(* A step that completes.                                                  *)
LEMMA CompleteFacts ==
  ASSUME TypeOK, LegalState, NEW r, NEW c, NEW next, NEW target, NEW stop,
         Completing(r, c, next, target, stop), Complete(r, c, next, target, stop)
  PROVE  /\ csrs' \in CsrFileType /\ Warl(csrs')
         /\ csrs'["minstret"] = Increment(c["minstret"], 0)
         /\ \A x \in CsrRegister \ {"minstret"} : csrs'[x] = c[x]
         /\ privilege' \in PrivilegeLevel /\ privilege' <= privilege
         /\ pc' \in Word /\ IsAligned4(pc')
         /\ halted' \in BOOLEAN /\ UNCHANGED terminal_trap
         /\ \E s : record' = {s} /\ Closes(s, r) /\ s.trap = {} /\ s.retired = TRUE
<1> DEFINE s == [r EXCEPT !.retired = TRUE, !.next_pc = next,
                          !.next_privilege = target, !.halted = stop]
<1>1. /\ csrs' = retire_instruction(c) /\ pc' = next /\ privilege' = target
      /\ halted' = stop /\ record' = {s} /\ UNCHANGED terminal_trap
  BY DEF Complete
<1>2. /\ next \in Word /\ IsAligned4(next) /\ target \in PrivilegeLevel
      /\ target <= privilege /\ stop \in BOOLEAN /\ Underway(r) /\ CsrsAfter(c)
  BY DEF Completing
<1>3. c \in CsrFileType /\ Warl(c)
  BY <1>2, CsrsAfterFacts
<1>4. csrs' \in CsrFileType /\ Warl(csrs')
  BY <1>1, <1>3, CounterFacts
<1>5. /\ csrs'["minstret"] = Increment(c["minstret"], 0)
      /\ \A x \in CsrRegister \ {"minstret"} : csrs'[x] = c[x]
  BY <1>1, <1>3 DEF retire_instruction, CsrFileType, CsrRegister
<1>6. Closes(s, r) /\ s.trap = {} /\ s.retired = TRUE
  <2>1. r \in Record /\ r.sequence = sequence /\ r.pc = pc /\ r.privilege = privilege
        /\ r.trap = {}
    BY <1>2 DEF Underway
  <2>2. s \in Record /\ s.retired = TRUE
    BY <1>2, <2>1 DEF Record
  <2>3. /\ s.sequence = r.sequence /\ s.pc = r.pc /\ s.privilege = r.privilege
        /\ s.next_pc = next /\ s.next_privilege = target /\ s.halted = stop
        /\ s.register_write = r.register_write /\ s.memory_write = r.memory_write
        /\ s.instruction_translation = r.instruction_translation
        /\ s.data_translation = r.data_translation /\ s.trap = r.trap
    BY <2>1 DEF Record
  <2> QED BY <1>1, <2>1, <2>2, <2>3 DEF Closes
<1> HIDE DEF s
<1> QED BY <1>1, <1>2, <1>4, <1>5, <1>6

(* The steps of the hart.                                                  *)
LEMMA StepKinds ==
  ASSUME TypeOK, LegalState, Next
  PROVE  \/ \E entry \in ResetEntries : Reset(entry)
         \/ StepHalted
         \/ Attempt /\ ~halted /\ TrapShape
         \/ Attempt /\ ~halted /\ CompleteShape
<1>1. StepFetchTrap \/ StepInstruction => Attempt /\ ~halted /\ (TrapShape \/ CompleteShape)
  BY StepShape DEF StepFetchTrap, StepInstruction
<1> QED BY <1>1 DEF Next

-----------------------------------------------------------------------------
(* A hart with a terminal trap is halted at the pc of the trap, whether or *)
(* not it has a record; a running hart therefore has none.                 *)
StoppedAtTrap == \A t \in terminal_trap : halted /\ t.pc = pc

HartInv == TypeOK /\ LegalState /\ RecordTruthful /\ StoppedAtTrap

LEMMA HartInit == Init => HartInv
<1> SUFFICES ASSUME Init PROVE HartInv
  OBVIOUS
<1>1. TypeOK
  <2>1. /\ registers \in [RegIndex -> Word] /\ pc \in Word
        /\ privilege \in PrivilegeLevel /\ csrs \in CsrFileType /\ ram \in Ram
    BY BootAssumption DEF Init
  <2>2. sequence \in 0..MaxSteps
    BY ConfigAssumption DEF Init
  <2>3. halted \in BOOLEAN /\ trap_policy \in TrapPolicies
    BY DEF Init
  <2>4. terminal_trap \in SUBSET Trap /\ record \in SUBSET Record
    BY DEF Init
  <2>5. transmitted \in Seq(Word)
    BY DEF Init
  <2> QED BY <2>1, <2>2, <2>3, <2>4, <2>5 DEF TypeOK
<1>2. LegalState
  BY BootAssumption DEF Init, LegalState
<1> QED BY <1>1, <1>2 DEF Init, HartInv, RecordTruthful, StoppedAtTrap

LEMMA ResetInv ==
  ASSUME HartInv, NEW entry \in ResetEntries, Reset(entry)
  PROVE  HartInv'
<1>1. ResetCsrs \in CsrFileType /\ Warl(ResetCsrs)
  <2>1. ResetCsrs \in CsrFileType /\ \A x \in CsrRegister : ResetCsrs[x] = {}
    BY DEF ResetCsrs, CsrFileType, Word
  <2> QED BY <2>1 DEF Warl, CsrRegister, IsAligned4, kMppMask
<1>2. entry \in Word /\ Machine \in PrivilegeLevel /\ {} \in Word
  BY ResetAssumption DEF PrivilegeLevel, Word
<1>3. TypeOK'
  <2>1. /\ registers' \in [RegIndex -> Word] /\ pc' \in Word
        /\ privilege' \in PrivilegeLevel /\ csrs' \in CsrFileType
    BY <1>1, <1>2 DEF Reset
  <2>2. sequence' \in 0..MaxSteps
    BY ConfigAssumption DEF Reset
  <2>3. halted' \in BOOLEAN
    BY DEF Reset
  <2>4. terminal_trap' \in SUBSET Trap /\ record' \in SUBSET Record
    BY DEF Reset
  <2>5. trap_policy' \in TrapPolicies /\ ram' \in Ram /\ transmitted' \in Seq(Word)
    BY DEF HartInv, TypeOK, Reset
  <2> QED BY <2>1, <2>2, <2>3, <2>4, <2>5 DEF TypeOK
<1>4. LegalState'
  BY <1>1 DEF Reset, LegalState, RegIndex
<1> QED BY <1>3, <1>4 DEF Reset, HartInv, RecordTruthful, StoppedAtTrap

LEMMA HaltedInv ==
  ASSUME HartInv, StepHalted
  PROVE  HartInv'
<1>1. /\ Underway(FreshRecord) /\ Unwritten(FreshRecord)
      /\ FreshRecord.next_pc = pc /\ FreshRecord.next_privilege = privilege
      /\ FreshRecord.halted = halted
  BY FreshFacts DEF HartInv
<1>2. /\ record' = {FreshRecord} /\ halted /\ sequence' \in 0..MaxSteps
      /\ UNCHANGED <<trap_policy, registers, pc, privilege, csrs, halted, terminal_trap,
                     ram, transmitted>>
  BY ConfigAssumption DEF StepHalted, Attempt, hart, HartInv, TypeOK
<1>3. TypeOK'
  <2>1. record' \in SUBSET Record
    BY <1>1, <1>2 DEF Underway
  <2> QED BY <1>2, <2>1 DEF HartInv, TypeOK
<1>4. LegalState' /\ StoppedAtTrap'
  BY <1>2 DEF HartInv, LegalState, StoppedAtTrap
<1> HIDE DEF FreshRecord
<1>5. RecordTruthful'
  <2> SUFFICES ASSUME NEW s \in record' PROVE
        /\ s.next_pc = pc' /\ s.next_privilege = privilege' /\ s.halted = halted'
        /\ \A w \in s.register_write : w.index # 0 /\ registers'[w.index] = w.value
        /\ \A m \in s.memory_write :
             InRam(m.physical) => RamRead(ram', m.physical, m.width) = m.value
        /\ s.retired => s.trap = {}
        /\ ~s.retired /\ s.trap = {} => halted' /\ s.pc = pc'
        /\ \A t \in terminal_trap' : halted' /\ t.pc = pc'
    BY DEF RecordTruthful
  <2> QED BY <1>1, <1>2, <1>4 DEF Underway, Unwritten, StoppedAtTrap
<1> QED BY <1>3, <1>4, <1>5 DEF HartInv

LEMMA TrapInv ==
  ASSUME HartInv, Attempt, ~halted, TrapShape
  PROVE  HartInv'
<1>1. PICK r, cause, value, stop :
        Trapping(r, cause, value, stop) /\ EnterTrap(r, cause, value, stop)
  BY DEF TrapShape
<1> DEFINE trap == [cause |-> cause, pc |-> pc, value |-> value]
<1>2. /\ trap \in Trap /\ csrs' \in CsrFileType /\ Warl(csrs')
      /\ privilege' \in PrivilegeLevel /\ pc' \in Word /\ halted' \in BOOLEAN
      /\ \/ pc' = pc /\ halted' /\ terminal_trap' = {trap}
         \/ UNCHANGED <<halted, terminal_trap>>
      /\ UNCHANGED <<registers, ram, transmitted>>
      /\ \E s : /\ record' = {s} /\ Closes(s, r)
                /\ s.trap = {trap} /\ s.retired = FALSE
  BY <1>1, TrapFacts DEF HartInv, TrapEffect
<1>3. PICK s : /\ record' = {s} /\ Closes(s, r)
               /\ s.trap = {trap} /\ s.retired = FALSE
  BY <1>2
<1>4. trap.pc = pc /\ Unwritten(r)
  BY <1>1 DEF Trapping
<1> HIDE DEF trap
<1>5. sequence' \in 0..MaxSteps /\ trap_policy' \in TrapPolicies
  BY ConfigAssumption DEF Attempt, HartInv, TypeOK
<1>6. TypeOK'
  BY <1>2, <1>3, <1>5 DEF HartInv, TypeOK, Closes
<1>7. LegalState'
  BY <1>2 DEF HartInv, LegalState
<1>8. StoppedAtTrap'
  <2>1. CASE pc' = pc /\ halted' /\ terminal_trap' = {trap}
    BY <1>4, <2>1 DEF StoppedAtTrap
  <2>2. CASE UNCHANGED <<halted, terminal_trap>>
    BY <2>2 DEF HartInv, StoppedAtTrap
  <2> QED BY <1>2, <2>1, <2>2
<1>9. RecordTruthful'
  <2>1. s.register_write = {} /\ s.memory_write = {}
    BY <1>3, <1>4 DEF Closes, Unwritten
  <2>2. s.next_pc = pc' /\ s.next_privilege = privilege' /\ s.halted = halted'
    BY <1>3 DEF Closes
  <2> QED BY <1>3, <1>8, <2>1, <2>2 DEF RecordTruthful, StoppedAtTrap
<1> QED BY <1>6, <1>7, <1>8, <1>9 DEF HartInv

LEMMA CompleteInv ==
  ASSUME HartInv, Attempt, ~halted, CompleteShape
  PROVE  HartInv'
<1>1. PICK r, c, next, target, stop :
        Completing(r, c, next, target, stop) /\ Complete(r, c, next, target, stop)
  BY DEF CompleteShape
<1>2. /\ csrs' \in CsrFileType /\ Warl(csrs')
      /\ privilege' \in PrivilegeLevel /\ pc' \in Word /\ halted' \in BOOLEAN
      /\ UNCHANGED terminal_trap
      /\ \E s : record' = {s} /\ Closes(s, r) /\ s.trap = {} /\ s.retired = TRUE
  BY <1>1, CompleteFacts DEF HartInv
<1>3. PICK s : record' = {s} /\ Closes(s, r) /\ s.trap = {} /\ s.retired = TRUE
  BY <1>2
<1>4. RegistersAfter(r) /\ MemoryAfter(r)
  BY <1>1 DEF Completing
<1>5. /\ registers' \in [RegIndex -> Word] /\ registers'[0] = {}
      /\ \A w \in r.register_write : w.index # 0 /\ registers'[w.index] = w.value
  BY <1>4, RegistersAfterFacts DEF HartInv
<1>6. /\ ram' \in Ram /\ transmitted' \in Seq(Word)
      /\ \A m \in r.memory_write :
           InRam(m.physical) => RamRead(ram', m.physical, m.width) = m.value
  BY <1>4, MemoryAfterFacts DEF HartInv
<1>7. sequence' \in 0..MaxSteps /\ trap_policy' \in TrapPolicies
  BY ConfigAssumption DEF Attempt, HartInv, TypeOK
<1>8. TypeOK'
  BY <1>2, <1>3, <1>5, <1>6, <1>7 DEF HartInv, TypeOK, Closes
<1>9. LegalState'
  BY <1>2, <1>5 DEF LegalState
<1>10. StoppedAtTrap' /\ terminal_trap' = {}
  BY <1>2 DEF HartInv, StoppedAtTrap
<1>11. RecordTruthful'
  <2>1. s.register_write = r.register_write /\ s.memory_write = r.memory_write
    BY <1>3 DEF Closes
  <2>2. s.next_pc = pc' /\ s.next_privilege = privilege' /\ s.halted = halted'
    BY <1>3 DEF Closes
  <2> QED BY <1>3, <1>5, <1>6, <1>10, <2>1, <2>2 DEF RecordTruthful
<1> QED BY <1>8, <1>9, <1>10, <1>11 DEF HartInv

LEMMA HartStep == HartInv /\ [Next]_vars => HartInv'
<1> SUFFICES ASSUME HartInv, [Next]_vars PROVE HartInv'
  OBVIOUS
<1>1. CASE Next
  BY <1>1, StepKinds, ResetInv, HaltedInv, TrapInv, CompleteInv DEF HartInv
<1>2. CASE UNCHANGED vars
  BY <1>2 DEF vars, HartInv, TypeOK, LegalState, RecordTruthful, StoppedAtTrap
<1> QED BY <1>1, <1>2

(* The invariant of the hart, for every program it can meet.               *)
THEOREM HartInvHolds == Spec => []HartInv
BY HartInit, HartStep, PTL DEF Spec

(* Every value stays in its type: no instruction, trap or reset leaves     *)
(* bits beyond the 64 of a word or a cell outside RAM (cpu.cpp step).      *)
THEOREM HartTyping == Spec => []TypeOK
<1>1. HartInv => TypeOK
  BY DEF HartInv
<1> QED BY <1>1, HartInvHolds, PTL

(* x0 reads zero and every CSR holds a legal value, whatever the program   *)
(* writes and however its traps nest (cpu.cpp step, csr.cpp write).        *)
THEOREM LegalStateHolds == Spec => []LegalState
<1>1. HartInv => LegalState
  BY DEF HartInv
<1> QED BY <1>1, HartInvHolds, PTL

(* A StepRecord names the state its step left and the values it wrote are  *)
(* there to be read (cpu.cpp step).                                        *)
THEOREM RecordTruthfulHolds == Spec => []RecordTruthful
<1>1. HartInv => RecordTruthful
  BY DEF HartInv
<1> QED BY <1>1, HartInvHolds, PTL

-----------------------------------------------------------------------------
(* The steps that leave a record: all but reset.                           *)
Idle ==
  /\ halted /\ record' = {FreshRecord}
  /\ UNCHANGED <<registers, pc, privilege, csrs, halted, terminal_trap, ram, transmitted>>

LEMMA RecordedSteps ==
  ASSUME HartInv, Next, record' # {}
  PROVE  \/ Idle
         \/ ~halted /\ TrapShape
         \/ ~halted /\ CompleteShape
<1>1. ASSUME StepHalted PROVE Idle
  BY <1>1 DEF StepHalted, Idle, hart
<1>2. ~\E entry \in ResetEntries : Reset(entry)
  BY DEF Reset
<1> QED BY <1>1, <1>2, StepKinds DEF HartInv

(* A step never makes an aligned pc misaligned (PcStaysAligned: the checks *)
(* and masks of jump, branch, trap entry and return).                      *)
THEOREM PcAlignmentKept == Spec => PcStaysAligned
<1> DEFINE A == record' # {} /\ IsAligned4(pc) => IsAligned4(pc')
<1>1. HartInv /\ [Next]_vars => [A]_vars
  <2> SUFFICES ASSUME HartInv, Next, record' # {}, IsAligned4(pc)
               PROVE  IsAligned4(pc')
    OBVIOUS
  <2>1. CASE Idle
    BY <2>1 DEF Idle
  <2>2. CASE TrapShape
    BY <2>2, TrapFacts DEF TrapShape, HartInv, TrapEffect
  <2>3. CASE CompleteShape
    BY <2>3, CompleteFacts DEF CompleteShape, HartInv
  <2> QED BY <2>1, <2>2, <2>3, RecordedSteps
<1> QED BY <1>1, HartInvHolds, PTL DEF Spec, PcStaysAligned

(* Traps are precise (PreciseTraps: raise_trap and CsrFile::enter_trap).   *)
THEOREM TrapsArePrecise == Spec => PreciseTraps
<1> DEFINE A == \A r \in record' : r.trap # {} =>
       /\ UNCHANGED <<registers, ram, transmitted>>
       /\ \A x \in CsrRegister \ ({"mstatus", "mcycle"} \cup Bank(privilege')) :
            csrs'[x] = csrs[x]
       /\ csrs'["mstatus"] \ Stack(privilege') = csrs["mstatus"] \ Stack(privilege')
       /\ csrs'[Epc(privilege')] = AlignDown4(pc)
       /\ IsAligned4(pc) \/ csrs'[Tval(privilege')] = pc
       /\ \A t \in r.trap, d \in r.data_translation : t.value = d.virtual
       /\ privilege = Machine => privilege' = Machine
       /\ privilege' >= privilege
<1>1. HartInv /\ [Next]_vars => [A]_vars
  <2> SUFFICES ASSUME HartInv, Next, NEW s \in record', s.trap # {}
               PROVE
       /\ UNCHANGED <<registers, ram, transmitted>>
       /\ \A x \in CsrRegister \ ({"mstatus", "mcycle"} \cup Bank(privilege')) :
            csrs'[x] = csrs[x]
       /\ csrs'["mstatus"] \ Stack(privilege') = csrs["mstatus"] \ Stack(privilege')
       /\ csrs'[Epc(privilege')] = AlignDown4(pc)
       /\ IsAligned4(pc) \/ csrs'[Tval(privilege')] = pc
       /\ \A t \in s.trap, d \in s.data_translation : t.value = d.virtual
       /\ privilege = Machine => privilege' = Machine
       /\ privilege' >= privilege
    OBVIOUS
  <2>1. ~Idle
    BY FreshFacts DEF Idle, HartInv, Underway
  <2>2. ~CompleteShape
    BY CompleteFacts DEF CompleteShape, HartInv
  <2>3. PICK r, cause, value, stop :
          Trapping(r, cause, value, stop) /\ EnterTrap(r, cause, value, stop)
    BY <2>1, <2>2, RecordedSteps DEF TrapShape
  <2> DEFINE trap == [cause |-> cause, pc |-> pc, value |-> value]
  <2> TrapEffect(r, cause, value)
    BY <2>3, TrapFacts DEF HartInv
  <2>4. /\ csrs' = EnterTrapCsrs(Ticked, trap, privilege)
        /\ privilege' = TrapTarget(Ticked, cause, privilege)
        /\ privilege' >= privilege
        /\ UNCHANGED <<registers, ram, transmitted>>
        /\ \E q : record' = {q} /\ Closes(q, r) /\ q.trap = {trap}
    BY DEF TrapEffect
  <2>5. trap.cause = cause /\ trap.pc = pc /\ trap.value = value
    OBVIOUS
  <2> HIDE DEF trap
  <2>6. privilege \in PrivilegeLevel
    BY DEF HartInv, TypeOK
  <2>7. /\ Ticked \in CsrFileType
        /\ \A x \in CsrRegister \ {"mcycle"} : Ticked[x] = csrs[x]
    BY TickFacts DEF HartInv
  <2>8. /\ privilege' \in {Supervisor, Machine}
        /\ privilege = Machine => privilege' = Machine
        /\ csrs'[Epc(privilege')] = AlignDown4(pc) /\ csrs'[Tval(privilege')] = value
        /\ \A x \in CsrRegister \ ({"mstatus"} \cup Bank(privilege')) : csrs'[x] = Ticked[x]
        /\ csrs'["mstatus"] \ Stack(privilege') = Ticked["mstatus"] \ Stack(privilege')
    BY <2>4, <2>5, <2>6, <2>7, TrapCsrs
  <2>9. /\ \A x \in CsrRegister \ ({"mstatus", "mcycle"} \cup Bank(privilege')) :
             csrs'[x] = csrs[x]
        /\ csrs'["mstatus"] \ Stack(privilege') = csrs["mstatus"] \ Stack(privilege')
    BY <2>7, <2>8 DEF CsrRegister
  <2>10. \A t \in s.trap, d \in s.data_translation : t.value = d.virtual
    BY <2>3, <2>4, <2>5 DEF Trapping, Closes
  <2>11. IsAligned4(pc) \/ value = pc
    BY <2>3 DEF Trapping
  <2> QED BY <2>4, <2>8, <2>9, <2>10, <2>11
<1> QED BY <1>1, HartInvHolds, PTL DEF Spec, PreciseTraps

(* Privilege rises only in a trap, and then to the handler the new mode    *)
(* installed (PrivilegeGate: raise_trap against the other writes of        *)
(* privilege_).                                                            *)
THEOREM PrivilegeGated == Spec => PrivilegeGate
<1> DEFINE A == record' # {} /\ privilege' > privilege =>
       /\ \A r \in record' : r.trap # {}
       /\ halted' \/ pc' = csrs[IF privilege' = Machine THEN "mtvec" ELSE "stvec"]
<1>1. HartInv /\ [Next]_vars => [A]_vars
  <2> SUFFICES ASSUME HartInv, Next, record' # {}, privilege' > privilege
               PROVE  /\ \A r \in record' : r.trap # {}
                      /\ \/ halted'
                         \/ pc' = csrs[IF privilege' = Machine THEN "mtvec" ELSE "stvec"]
    OBVIOUS
  <2>1. privilege \in PrivilegeLevel
    BY DEF HartInv, TypeOK
  <2>2. ~Idle
    BY <2>1 DEF Idle, PrivilegeLevel, User, Supervisor, Machine
  <2>3. ~CompleteShape
    <3> SUFFICES ASSUME CompleteShape PROVE FALSE
      OBVIOUS
    <3>1. privilege' \in PrivilegeLevel /\ privilege' <= privilege
      BY CompleteFacts DEF CompleteShape, HartInv
    <3> QED BY <2>1, <3>1 DEF PrivilegeLevel, User, Supervisor, Machine
  <2>4. PICK r, cause, value, stop :
          Trapping(r, cause, value, stop) /\ EnterTrap(r, cause, value, stop)
    BY <2>2, <2>3, RecordedSteps DEF TrapShape
  <2> TrapEffect(r, cause, value)
    BY <2>4, TrapFacts DEF HartInv
  <2>5. /\ halted' \/ pc' = csrs[IF privilege' = Machine THEN "mtvec" ELSE "stvec"]
        /\ \E q : /\ record' = {q}
                  /\ q.trap = {[cause |-> cause, pc |-> pc, value |-> value]}
    BY DEF TrapEffect
  <2> QED BY <2>5
<1> QED BY <1>1, HartInvHolds, PTL DEF Spec, PrivilegeGate

(* Below M mode only the trap into M mode changes what M mode owns         *)
(* (MachineConfinement: validate_access, the views, delegation).           *)
THEOREM MachineConfined == Spec => MachineConfinement
<1> DEFINE A == record' # {} /\ privilege # Machine /\ privilege' # Machine =>
       /\ \A x \in MachineOwned : csrs'[x] = csrs[x]
       /\ \A x \in {"mie", "mip"} :
            csrs'[x] \ csrs["mideleg"] = csrs[x] \ csrs["mideleg"]
       /\ csrs'["mstatus"] \cap ({MIE, MPIE} \cup kMppMask)
            = csrs["mstatus"] \cap ({MIE, MPIE} \cup kMppMask)
<1>1. HartInv /\ [Next]_vars => [A]_vars
  <2> SUFFICES ASSUME HartInv, Next, record' # {}, privilege # Machine,
                      privilege' # Machine
               PROVE  MachineKept(csrs')
    BY DEF MachineKept
  <2>1. CASE Idle
    BY <2>1 DEF Idle, MachineKept
  <2>2. CASE TrapShape
    <3>1. PICK r, cause, value, stop :
            Trapping(r, cause, value, stop) /\ EnterTrap(r, cause, value, stop)
      BY <2>2 DEF TrapShape
    <3> DEFINE trap == [cause |-> cause, pc |-> pc, value |-> value]
    <3> TrapEffect(r, cause, value)
      BY <3>1, TrapFacts DEF HartInv
    <3>2. /\ csrs' = EnterTrapCsrs(Ticked, trap, privilege)
          /\ privilege' = TrapTarget(Ticked, cause, privilege)
      BY DEF TrapEffect
    <3>3. trap.cause = cause
      OBVIOUS
    <3> HIDE DEF trap
    <3>4. privilege \in PrivilegeLevel
      BY DEF HartInv, TypeOK
    <3>5. /\ Ticked \in CsrFileType
          /\ \A x \in CsrRegister \ {"mcycle"} : Ticked[x] = csrs[x]
      BY TickFacts DEF HartInv
    <3>6. /\ privilege' = Supervisor
          /\ \A x \in CsrRegister \ ({"mstatus"} \cup Bank(privilege')) : csrs'[x] = Ticked[x]
          /\ csrs'["mstatus"] \ Stack(Supervisor) = Ticked["mstatus"] \ Stack(Supervisor)
      BY <3>2, <3>3, <3>4, <3>5, TrapCsrs
    <3>7. MachineOwned \cup {"mie", "mip"}
            \subseteq CsrRegister \ ({"mstatus", "mcycle"} \cup Bank(privilege'))
      BY <3>6 DEF MachineOwned, Bank, CsrRegister, Supervisor, Machine
    <3>8. Ticked["mstatus"] = csrs["mstatus"]
      BY <3>5 DEF CsrRegister
    <3>9. ({MIE, MPIE} \cup kMppMask) \cap Stack(Supervisor) = {}
      BY DEF Stack, Supervisor, Machine, kMppMask, SIE, MIE, SPIE, MPIE, SPP
    <3>10. csrs'["mstatus"] \cap ({MIE, MPIE} \cup kMppMask)
             = csrs["mstatus"] \cap ({MIE, MPIE} \cup kMppMask)
      BY <3>6, <3>8, <3>9
    <3> QED BY <3>5, <3>6, <3>7, <3>10 DEF MachineKept
  <2>3. CASE CompleteShape
    <3>1. PICK r, c, next, target, stop :
            Completing(r, c, next, target, stop) /\ Complete(r, c, next, target, stop)
      BY <2>3 DEF CompleteShape
    <3>2. MachineKept(c)
      BY <3>1, CsrsAfterFacts DEF HartInv, Completing
    <3>3. \A x \in CsrRegister \ {"minstret"} : csrs'[x] = c[x]
      BY <3>1, CompleteFacts DEF HartInv
    <3>4. MachineOwned \cup {"mie", "mip", "mstatus"} \subseteq CsrRegister \ {"minstret"}
      BY DEF MachineOwned, CsrRegister
    <3> QED BY <3>2, <3>3, <3>4 DEF MachineKept
  <2> QED BY <2>1, <2>2, <2>3, RecordedSteps
<1> QED BY <1>1, HartInvHolds, PTL DEF Spec, MachineConfinement

(* Below M mode mcycle counts the steps of a running hart and minstret     *)
(* those that retire (CountersExact: the two ends of Cpu::step).           *)
THEOREM CountersAreExact == Spec => CountersExact
<1> DEFINE A == \A r \in record' : privilege # Machine =>
       /\ csrs'["mcycle"] = IF halted THEN csrs["mcycle"] ELSE Increment(csrs["mcycle"], 0)
       /\ csrs'["minstret"] = IF r.retired THEN Increment(csrs["minstret"], 0)
                              ELSE csrs["minstret"]
<1>1. HartInv /\ [Next]_vars => [A]_vars
  <2> SUFFICES ASSUME HartInv, Next, NEW s \in record', privilege # Machine
               PROVE
       /\ csrs'["mcycle"] = IF halted THEN csrs["mcycle"] ELSE Increment(csrs["mcycle"], 0)
       /\ csrs'["minstret"] = IF s.retired THEN Increment(csrs["minstret"], 0)
                              ELSE csrs["minstret"]
    OBVIOUS
  <2>1. CASE Idle
    <3>1. s.retired = FALSE
      BY <2>1 DEF Idle, FreshRecord
    <3> QED BY <2>1, <3>1 DEF Idle
  <2>2. CASE ~halted /\ TrapShape
    <3>1. PICK r, cause, value, stop :
            Trapping(r, cause, value, stop) /\ EnterTrap(r, cause, value, stop)
      BY <2>2 DEF TrapShape
    <3> DEFINE trap == [cause |-> cause, pc |-> pc, value |-> value]
    <3> TrapEffect(r, cause, value)
      BY <3>1, TrapFacts DEF HartInv
    <3>2. /\ csrs' = EnterTrapCsrs(Ticked, trap, privilege)
          /\ \E q : record' = {q} /\ q.retired = FALSE
      BY DEF TrapEffect
    <3> HIDE DEF trap
    <3>3. privilege \in PrivilegeLevel
      BY DEF HartInv, TypeOK
    <3>4. /\ Ticked \in CsrFileType
          /\ Ticked["mcycle"] = Increment(csrs["mcycle"], 0)
          /\ \A x \in CsrRegister \ {"mcycle"} : Ticked[x] = csrs[x]
      BY TickFacts DEF HartInv
    <3>5. \A x \in {"mcycle", "minstret"} : csrs'[x] = Ticked[x]
      BY <3>2, <3>3, <3>4, TrapCsrs DEF CsrRegister, Bank
    <3>6. csrs'["mcycle"] = Increment(csrs["mcycle"], 0) /\ csrs'["minstret"] = csrs["minstret"]
      BY <3>4, <3>5 DEF CsrRegister
    <3> QED BY <2>2, <3>2, <3>6
  <2>3. CASE ~halted /\ CompleteShape
    <3>1. PICK r, c, next, target, stop :
            Completing(r, c, next, target, stop) /\ Complete(r, c, next, target, stop)
      BY <2>3 DEF CompleteShape
    <3>2. c["mcycle"] = Increment(csrs["mcycle"], 0) /\ c["minstret"] = csrs["minstret"]
      BY <3>1, CsrsAfterFacts DEF HartInv, Completing
    <3>3. /\ csrs'["minstret"] = Increment(c["minstret"], 0)
          /\ \A x \in CsrRegister \ {"minstret"} : csrs'[x] = c[x]
          /\ \E q : record' = {q} /\ q.retired = TRUE
      BY <3>1, CompleteFacts DEF HartInv
    <3>4. csrs'["mcycle"] = c["mcycle"]
      BY <3>3 DEF CsrRegister
    <3> QED BY <2>3, <3>2, <3>3, <3>4
  <2> QED BY <2>1, <2>2, <2>3, RecordedSteps
<1> QED BY <1>1, HartInvHolds, PTL DEF Spec, CountersExact

-----------------------------------------------------------------------------
(* What the page tables grant user mode, at the present root.              *)
May(rights, a) == UserMay(rights, ram, csrs["satp"] \cap kSatpPpnMask, a)

(* A translation in user mode rests on an entry that grants the access.    *)
LEMMA UserGrant ==
  ASSUME privilege = User, Translating, NEW va \in Word, NEW access \in VirtualAccess,
         translate(va, access).kind = "Translation"
  PROVE  LET a == translate(va, access).physical
         IN  /\ access = "InstructionFetch" => May({kPteX}, a)
             /\ access = "Load" => May({kPteR}, a) \/ May({kPteX}, a)
             /\ access = "Store" => May({kPteR}, a) /\ May(StoreRights, a)
<1> DEFINE ctx == [root_ppn |-> csrs["satp"] \cap kSatpPpnMask, privilege |-> privilege,
                   access |-> access, sum |-> SUM \in csrs["mstatus"],
                   mxr |-> MXR \in csrs["mstatus"]]
           w == walk_sv39(ram, va, ctx)
<1>1. translate(va, access) = w
  BY DEF translate
<1>2. /\ ctx.root_ppn = csrs["satp"] \cap kSatpPpnMask /\ ctx.privilege = User
      /\ ctx.access = access
  OBVIOUS
<1> HIDE DEF ctx
<1>3. /\ w.level \in 0..2
      /\ \E table \in TablesAt(ram, ctx.root_ppn, w.level) :
           w.pte \in EntriesOf(ram, table)
      /\ PteVerdict(w.pte, w.level, ctx) = "Leaf"
      /\ w.physical \ OffsetMask(w.level) = Shl(Ppn(w.pte), 12)
  BY <1>1, WalkGrants
<1> HIDE DEF w
<1>4. /\ kPteV \in w.pte /\ kPteA \in w.pte
      /\ kPteR \in w.pte \/ (kPteX \in w.pte /\ kPteW \notin w.pte)
      /\ ~PrivilegeRejects(w.pte, ctx)
      /\ access_is_permitted(w.pte, access, ctx.mxr)
      /\ access = "Store" => kPteD \in w.pte
  BY <1>2, <1>3, LeafPte
<1>5. kPteU \in w.pte
  BY <1>2, <1>4 DEF PrivilegeRejects
<1>6. ASSUME NEW rights, rights \subseteq w.pte
      PROVE  May(rights, w.physical)
  <2>1. {kPteV, kPteU, kPteA} \cup rights \subseteq w.pte
    BY <1>4, <1>5, <1>6
  <2> QED BY <1>2, <1>3, <2>1 DEF May, UserMay
<1>7. /\ access = "InstructionFetch" => {kPteX} \subseteq w.pte
      /\ access = "Store" => {kPteR} \subseteq w.pte /\ StoreRights \subseteq w.pte
  BY <1>4 DEF access_is_permitted, StoreRights
<1>8. {kPteR} \subseteq w.pte \/ {kPteX} \subseteq w.pte
  BY <1>4
<1> QED BY <1>1, <1>6, <1>7, <1>8

(* A store changes only the slot of its address, and sends a byte only     *)
(* through the transmit register.                                          *)
LEMMA StoreReach ==
  ASSUME NEW a \in Word, NEW width, NEW v
  PROVE  /\ \A x \in (BusWriteRam(ram, a, width, v) \ ram)
                       \cup (ram \ BusWriteRam(ram, a, width, v)) : x[1] = Slot(a)
         /\ BusWriteUart(a, v) # <<>> => a = {28}
<1>1. \A x \in (BusWriteRam(ram, a, width, v) \ ram)
                  \cup (ram \ BusWriteRam(ram, a, width, v)) : x[1] = Slot(a)
  BY DEF BusWriteRam, RamWrite
<1>2. BusWriteUart(a, v) # <<>> => a = {28}
  <2> HAVE BusWriteUart(a, v) # <<>>
  <2>1. a \ 0..2 = {28} /\ a \cap {0, 1, 2} = {}
    BY DEF BusWriteUart, InUart
  <2> QED BY <2>1
<1> QED BY <1>1, <1>2

(* User mode reaches only what its page tables grant it (UserConfinement:  *)
(* translate before every access, and walk_sv39's checks).                 *)
THEOREM UserConfined == Spec => UserConfinement
<1> DEFINE A == \A r \in record' : privilege = User /\ Translating =>
       LET may(rights, a) == UserMay(rights, ram, csrs["satp"] \cap kSatpPpnMask, a)
       IN  /\ \A t \in r.instruction_translation : may({kPteX}, t.physical)
           /\ \A t \in r.data_translation :
                may({kPteR}, t.physical) \/ may({kPteX}, t.physical)
           /\ \A x \in (ram' \ ram) \cup (ram \ ram') : may(StoreRights, x[1])
           /\ transmitted' # transmitted => may(StoreRights, {28})
<1>1. HartInv /\ [Next]_vars => [A]_vars
  <2> SUFFICES ASSUME HartInv, Next, NEW s \in record', privilege = User, Translating
               PROVE
       /\ \A t \in s.instruction_translation : May({kPteX}, t.physical)
       /\ \A t \in s.data_translation : May({kPteR}, t.physical) \/ May({kPteX}, t.physical)
       /\ \A x \in (ram' \ ram) \cup (ram \ ram') : May(StoreRights, x[1])
       /\ transmitted' # transmitted => May(StoreRights, {28})
    BY DEF May
  <2>1. pc \in Word /\ 4 \in AccessWidth /\ "InstructionFetch" \in VirtualAccess
    BY DEF HartInv, TypeOK, AccessWidth, VirtualAccess
  <2>2. ASSUME NEW r, Underway(r)
        PROVE  /\ \A t \in r.instruction_translation : May({kPteX}, t.physical)
               /\ \A t \in r.data_translation :
                    May({kPteR}, t.physical) \/ May({kPteX}, t.physical)
    <3>1. ASSUME NEW t \in r.instruction_translation
          PROVE  May({kPteX}, t.physical)
      <4>1. t \in Access(pc, 4, "InstructionFetch").translation
        BY <2>2 DEF Underway
      <4>2. /\ translate(pc, "InstructionFetch").kind = "Translation"
            /\ t.physical = translate(pc, "InstructionFetch").physical
        BY <2>1, <4>1, AccessFacts
      <4> QED BY <2>1, <4>2, UserGrant
    <3>2. ASSUME NEW t \in r.data_translation
          PROVE  May({kPteR}, t.physical) \/ May({kPteX}, t.physical)
      <4>1. PICK va \in Word, width \in AccessWidth, access \in {"Load", "Store"} :
              t \in Access(va, width, access).translation
        BY <2>2 DEF Underway
      <4>2. access \in VirtualAccess
        BY DEF VirtualAccess
      <4>3. /\ translate(va, access).kind = "Translation"
            /\ t.physical = translate(va, access).physical
        BY <4>1, <4>2, AccessFacts
      <4> QED BY <4>2, <4>3, UserGrant
    <3> QED BY <3>1, <3>2
  <2>3. CASE Idle
    <3>1. s.instruction_translation = {} /\ s.data_translation = {}
      BY <2>3 DEF Idle, FreshRecord
    <3> QED BY <2>3, <3>1 DEF Idle
  <2>4. CASE TrapShape
    <3>1. PICK r, cause, value, stop :
            Trapping(r, cause, value, stop) /\ EnterTrap(r, cause, value, stop)
      BY <2>4 DEF TrapShape
    <3> TrapEffect(r, cause, value)
      BY <3>1, TrapFacts DEF HartInv
    <3>2. UNCHANGED <<ram, transmitted>> /\ Closes(s, r)
      BY DEF TrapEffect
    <3>3. Underway(r)
      BY <3>1 DEF Trapping
    <3> QED BY <2>2, <3>2, <3>3 DEF Closes
  <2>5. CASE CompleteShape
    <3>1. PICK r, c, next, target, stop :
            Completing(r, c, next, target, stop) /\ Complete(r, c, next, target, stop)
      BY <2>5 DEF CompleteShape
    <3>2. Underway(r) /\ MemoryAfter(r)
      BY <3>1 DEF Completing
    <3>3. Closes(s, r)
      BY <3>1, CompleteFacts DEF HartInv
    <3>4. /\ \A x \in (ram' \ ram) \cup (ram \ ram') : May(StoreRights, x[1])
          /\ transmitted' # transmitted => May(StoreRights, {28})
      <4>1. CASE UNCHANGED <<ram, transmitted>>
        BY <4>1
      <4>2. CASE ~UNCHANGED <<ram, transmitted>>
        <5>1. PICK va \in Word, width \in AccessWidth, v \in Word :
                \E t \in Access(va, width, "Store").translation :
                  /\ ram' = BusWriteRam(ram, t.physical, width, v)
                  /\ transmitted' = transmitted \o BusWriteUart(t.physical, v)
          BY <3>2, <4>2 DEF MemoryAfter
        <5>2. PICK t \in Access(va, width, "Store").translation :
                /\ ram' = BusWriteRam(ram, t.physical, width, v)
                /\ transmitted' = transmitted \o BusWriteUart(t.physical, v)
          BY <5>1
        <5>3. "Store" \in VirtualAccess
          BY DEF VirtualAccess
        <5>4. /\ t.physical \in Word
              /\ translate(va, "Store").kind = "Translation"
              /\ t.physical = translate(va, "Store").physical
          BY <5>2, <5>3, AccessFacts DEF Translation
        <5> DEFINE a == t.physical
        <5>5. a \in Word /\ May(StoreRights, a)
          BY <5>3, <5>4, UserGrant
        <5> HIDE DEF a
        <5>6. May(StoreRights, Slot(a))
          <6>1. \A level \in 0..2 : Slot(a) \ OffsetMask(level) = a \ OffsetMask(level)
            BY DEF Slot, OffsetMask
          <6> QED BY <5>5, <6>1 DEF May, UserMay
        <5>7. /\ \A x \in (ram' \ ram) \cup (ram \ ram') : x[1] = Slot(a)
              /\ BusWriteUart(a, v) # <<>> => a = {28}
          BY <5>2, <5>5, StoreReach DEF a
        <5>8. transmitted' # transmitted => BusWriteUart(a, v) # <<>>
          <6>1. transmitted \in Seq(Word)
            BY DEF HartInv, TypeOK
          <6>2. transmitted \o <<>> = transmitted
            BY <6>1
          <6> QED BY <5>2, <6>2 DEF a
        <5> QED BY <5>5, <5>6, <5>7, <5>8
      <4> QED BY <4>1, <4>2
    <3> QED BY <2>2, <3>2, <3>3, <3>4 DEF Closes
  <2> QED BY <2>3, <2>4, <2>5, RecordedSteps
<1> QED BY <1>1, HartInvHolds, PTL DEF Spec, UserConfinement
=============================================================================
