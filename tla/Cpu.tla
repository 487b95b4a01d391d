-------------------------------- MODULE Cpu --------------------------------
(***************************************************************************)
(* The hart: Cpu::step, one action per way a step can go, and Cpu::reset.  *)
(* A step is a single action, as nothing runs between its parts; its       *)
(* effects on the CSR file compose in the order of the code: the cycle     *)
(* ticks first, the retirement comes last.                                 *)
(*                                                                         *)
(* Programs live in RAM.  Decoding is the table InstructionSet: a word     *)
(* outside its domain is one that decode() rejects.                        *)
(***************************************************************************)
EXTENDS Sv39, Alu, Sequences

CONSTANTS TrapPolicies,    \* the values of CpuConfig::trap_policy
          HaltOnEbreak,    \* CpuConfig::halt_on_ebreak
          HaltOnWfi,       \* CpuConfig::halt_on_wfi
          InstructionSet,  \* decode(): 32-bit words to decoded instructions
          BootRegisters, BootPcs, BootPrivileges, BootCsrs, BootRams,
                           \* the states the hart may start in
          ResetEntries,    \* the entries it may be reset to
          MaxSteps,        \* bound on the steps between two resets
          MaxOutput        \* bound on the bytes sent through the UART

RegIndex == 0..31
LoadOps == {"lb", "lh", "lw", "ld", "lbu", "lhu", "lwu"}
StoreOps == {"sb", "sh", "sw", "sd"}
CsrOps == {"csrrw", "csrrs", "csrrc", "csrrwi", "csrrsi", "csrrci"}
Operation ==
  AluOps \cup BranchOps \cup LoadOps \cup StoreOps \cup CsrOps
    \cup {"jal", "jalr", "fence", "fence_i", "sfence_vma", "ecall", "ebreak",
          "sret", "mret", "wfi"}

Instruction ==
  [op : Operation, rd : RegIndex, rs1 : RegIndex, rs2 : RegIndex,
   imm : Word, csr : CsrName]

ASSUME ConfigAssumption ==
  /\ TrapPolicies \subseteq {"Halt", "Vector"}
  /\ HaltOnEbreak \in BOOLEAN /\ HaltOnWfi \in BOOLEAN
  /\ MaxSteps \in Nat /\ MaxOutput \in Nat
ASSUME InstructionSetAssumption ==
  /\ \A w \in DOMAIN InstructionSet : w \subseteq 0..31
  /\ InstructionSet \in [DOMAIN InstructionSet -> Instruction]
ASSUME BootAssumption ==
  /\ \A r \in BootRegisters : r \in [RegIndex -> Word] /\ r[0] = {}
  /\ BootPcs \subseteq Word
  /\ BootPrivileges \subseteq PrivilegeLevel
  /\ \A c \in BootCsrs : c \in CsrFileType /\ Warl(c)
  /\ BootRams \subseteq Ram
ASSUME ResetAssumption == ResetEntries \subseteq Word

VARIABLES trap_policy,
          registers, pc, privilege, csrs, sequence, halted, terminal_trap,
          ram, transmitted,
          record    \* the StepRecord of the last step since reset, if any

hart == <<registers, pc, privilege, csrs, halted, terminal_trap>>
vars == <<trap_policy, registers, pc, privilege, csrs, sequence, halted,
          terminal_trap, ram, transmitted, record>>

(* The record at the start of a step; optional parts are sets of at most   *)
(* one element.                                                            *)
FreshRecord ==
  [sequence |-> sequence, pc |-> pc, privilege |-> privilege,
   next_pc |-> pc, next_privilege |-> privilege, retired |-> FALSE,
   halted |-> halted, raw |-> {}, register_write |-> {}, memory_write |-> {},
   trap |-> {}, instruction_translation |-> {}, data_translation |-> {}]

Init ==
  /\ trap_policy \in TrapPolicies
  /\ registers \in BootRegisters
  /\ pc \in BootPcs
  /\ privilege \in BootPrivileges
  /\ csrs \in BootCsrs
  /\ ram \in BootRams
  /\ sequence = 0
  /\ halted = FALSE
  /\ terminal_trap = {}
  /\ transmitted = <<>>
  /\ record = {}

(***************************************************************************)
(* Cpu::translate, at the current privilege.                               *)
(***************************************************************************)
Translating ==
  privilege # Machine /\ csrs["satp"] \cap kSatpModeMask = kSatpModeSv39

translate(va, access) ==
  IF Translating
  THEN walk_sv39(ram, va,
         [root_ppn |-> csrs["satp"] \cap kSatpPpnMask, privilege |-> privilege,
          access |-> access, sum |-> SUM \in csrs["mstatus"],
          mxr |-> MXR \in csrs["mstatus"]])
  ELSE [kind |-> "Translation", physical |-> va]

PageFault(access) ==
  CASE access = "InstructionFetch" -> 12 [] access = "Load" -> 13
    [] access = "Store" -> 15
AccessFault(access) ==
  CASE access = "InstructionFetch" -> 1 [] access = "Load" -> 5
    [] access = "Store" -> 7
Misaligned(access) ==
  CASE access = "InstructionFetch" -> 0 [] access = "Load" -> 4
    [] access = "Store" -> 6
IllegalInstruction == 2
Breakpoint == 3
EnvironmentCall(p) ==
  CASE p = User -> 8 [] p = Supervisor -> 9 [] p = Machine -> 11

(* An access of step, load or store to va, in the order of the code: the   *)
(* alignment, the translation, then the bus.  cause holds the exception    *)
(* that stops it, if any; translation is what the record keeps of it.      *)
Access(va, width, access) ==
  LET walk == translate(va, access)
  IN  IF ~NaturallyAligned(va, width)
      THEN [cause |-> {Misaligned(access)}, translation |-> {}]
      ELSE IF walk.kind = "Fault"
      THEN [cause |-> {IF walk.reason = "PageTableAccess"
                       THEN AccessFault(access) ELSE PageFault(access)},
            translation |-> {}]
      ELSE [cause |-> IF BusAccepts(walk.physical, width) THEN {}
                      ELSE {AccessFault(access)},
            translation |-> {[virtual |-> va, physical |-> walk.physical]}]

(***************************************************************************)
(* Cpu::raise_trap, on the file after the cycle tick.  It leaves           *)
(* registers, memory and the UART as they are: what the step has written   *)
(* before it traps is said where the trap is raised.                       *)
(***************************************************************************)
EnterTrap(r, cause, value, stop) ==
  LET trap == [cause |-> cause, pc |-> r.pc, value |-> value]
      ticked == tick_cycle(csrs)
  IN  /\ csrs' = EnterTrapCsrs(ticked, trap, privilege)
      /\ privilege' = TrapTarget(ticked, cause, privilege)
      /\ IF stop
         THEN pc' = r.pc /\ halted' = TRUE /\ terminal_trap' = {trap}
         ELSE /\ pc' = TrapVector(ticked, cause, privilege)
              /\ UNCHANGED <<halted, terminal_trap>>
      /\ record' = {[r EXCEPT !.trap = {trap}, !.next_pc = pc',
                              !.next_privilege = privilege', !.halted = halted']}

RaiseTrap(r, cause, value) == EnterTrap(r, cause, value, trap_policy = "Halt")

(***************************************************************************)
(* The end of a step that did not trap.  c is the file after the           *)
(* instruction; retiring counts it.                                        *)
(***************************************************************************)
Complete_stale_mode(r, c, next, target, stop) ==
  /\ csrs' = retire_instruction(c)
  /\ pc' = next
  /\ privilege' = target
  /\ halted' = stop
  /\ record' = {[r EXCEPT !.retired = TRUE, !.next_pc = next, !.halted = stop]}
  /\ UNCHANGED terminal_trap

Complete(r, c, next, target, stop) ==
  /\ csrs' = retire_instruction(c)
  /\ pc' = next
  /\ privilege' = target
  /\ halted' = stop
  /\ record' = {[r EXCEPT !.retired = TRUE, !.next_pc = next,
                          !.next_privilege = target, !.halted = stop]}
  /\ UNCHANGED terminal_trap

Sequential == Increment(pc, 2)
Ticked == tick_cycle(csrs)
Continue(r, next) == Complete(r, Ticked, next, privilege, halted)

(* write_register, and x0 forced to zero at the end of the step.           *)
WithWrite_reports_x0(r, rd, v) ==
  [r EXCEPT !.register_write = {[index |-> rd, value |-> v]}]
WithWrite(r, rd, v) ==
  [r EXCEPT !.register_write = IF rd = 0 THEN {} ELSE {[index |-> rd, value |-> v]}]
SetRegister(rd, v) ==
  registers' = [registers EXCEPT ![rd] = IF rd = 0 THEN {} ELSE v]

(***************************************************************************)
(* Cpu::execute, by kind of instruction.                                   *)
(***************************************************************************)
ExecAlu(r, i) ==
  LET v == AluResult(i.op, pc, registers[i.rs1], registers[i.rs2], i.imm)
  IN  /\ i.op \in AluOps
      /\ SetRegister(i.rd, v)
      /\ Continue(WithWrite(r, i.rd, v), Sequential)
      /\ UNCHANGED <<ram, transmitted>>

(* `target % kInstructionBytes == 0` of the jump and branch lambdas.        *)
TargetAligned_halfword(target) == 0 \notin target
TargetAligned(target) == IsAligned4(target)

JumpTarget(i) ==
  IF i.op = "jal" THEN Add(pc, i.imm) ELSE Add(registers[i.rs1], i.imm) \ {0}

ExecJump_links_first(r, i) ==
  LET linked == WithWrite(r, i.rd, Sequential)
  IN  /\ i.op \in {"jal", "jalr"}
      /\ SetRegister(i.rd, Sequential)
      /\ IF TargetAligned(JumpTarget(i))
         THEN Continue(linked, JumpTarget(i))
         ELSE RaiseTrap(linked, Misaligned("InstructionFetch"), JumpTarget(i))
      /\ UNCHANGED <<ram, transmitted>>

(* The link is written only once the target is known to be aligned.        *)
ExecJump(r, i) ==
  /\ i.op \in {"jal", "jalr"}
  /\ IF TargetAligned(JumpTarget(i))
     THEN /\ SetRegister(i.rd, Sequential)
          /\ Continue(WithWrite(r, i.rd, Sequential), JumpTarget(i))
     ELSE /\ RaiseTrap(r, Misaligned("InstructionFetch"), JumpTarget(i))
          /\ UNCHANGED registers
  /\ UNCHANGED <<ram, transmitted>>

ExecBranch(r, i) ==
  LET taken == BranchTaken(i.op, registers[i.rs1], registers[i.rs2])
      target == Add(pc, i.imm)
  IN  /\ i.op \in BranchOps
      /\ IF taken /\ ~TargetAligned(target)
         THEN RaiseTrap(r, Misaligned("InstructionFetch"), target)
         ELSE Continue(r, IF taken THEN target ELSE Sequential)
      /\ UNCHANGED <<registers, ram, transmitted>>

Width(op) ==
  CASE op \in {"lb", "lbu", "sb"} -> 1 [] op \in {"lh", "lhu", "sh"} -> 2
    [] op \in {"lw", "lwu", "sw"} -> 4 [] op \in {"ld", "sd"} -> 8
is_unsigned_load(op) == op \in {"lbu", "lhu", "lwu"}

ExecLoad(r, i) ==
  LET va == Add(registers[i.rs1], i.imm)
      access == Access(va, Width(i.op), "Load")
      d == [r EXCEPT !.data_translation = access.translation]
  IN  /\ i.op \in LoadOps
      /\ \/ /\ \E cause \in access.cause : RaiseTrap(d, cause, va)
            /\ UNCHANGED registers
         \/ /\ access.cause = {}
            /\ \E t \in access.translation :
                 LET raw == BusRead(ram, t.physical, Width(i.op))
                     v == IF is_unsigned_load(i.op) THEN raw
                          ELSE SignExtend(raw, 8 * Width(i.op))
                 IN  /\ SetRegister(i.rd, v)
                     /\ Continue(WithWrite(d, i.rd, v), Sequential)
      /\ UNCHANGED <<ram, transmitted>>

ExecStore(r, i) ==
  LET va == Add(registers[i.rs1], i.imm)
      width == Width(i.op)
      v == registers[i.rs2] \cap WidthMask(width)
      access == Access(va, width, "Store")
      d == [r EXCEPT !.data_translation = access.translation]
  IN  /\ i.op \in StoreOps
      /\ \/ /\ \E cause \in access.cause : RaiseTrap(d, cause, va)
            /\ UNCHANGED <<ram, transmitted>>
         \/ /\ access.cause = {}
            /\ \E t \in access.translation :
                 /\ ram' = BusWriteRam(ram, t.physical, width, v)
                 /\ transmitted' = transmitted \o BusWriteUart(t.physical, v)
                 /\ Continue([d EXCEPT !.memory_write =
                      {[address |-> va, width |-> width, value |-> v,
                        physical |-> t.physical]}], Sequential)
      /\ UNCHANGED registers

(* FENCE and FENCE.I do nothing; there is no TLB for SFENCE.VMA to flush.  *)
ExecFence(r, i) ==
  /\ i.op \in {"fence", "fence_i", "sfence_vma"}
  /\ IF i.op = "sfence_vma" /\ privilege = User
     THEN RaiseTrap(r, IllegalInstruction, r.raw)
     ELSE Continue(r, Sequential)
  /\ UNCHANGED <<registers, ram, transmitted>>

ExecEcall(r, i) ==
  /\ i.op = "ecall"
  /\ RaiseTrap(r, EnvironmentCall(privilege), {})
  /\ UNCHANGED <<registers, ram, transmitted>>

(* With halt_on_ebreak a vectored EBREAK still enters the trap, then stops *)
(* the hart at the EBREAK.                                                 *)
ExecEbreak(r, i) ==
  /\ i.op = "ebreak"
  /\ EnterTrap(r, Breakpoint, {}, trap_policy = "Halt" \/ HaltOnEbreak)
  /\ UNCHANGED <<registers, ram, transmitted>>

ExecReturn(r, i) ==
  LET mode == IF i.op = "sret" THEN Supervisor ELSE Machine
  IN  /\ i.op \in {"sret", "mret"}
      /\ IF privilege_at_least(privilege, mode)
         THEN Complete(r, return_from_trap(Ticked, mode), ReturnPc(csrs, mode),
                       ReturnTarget(csrs, mode), halted)
         ELSE RaiseTrap(r, IllegalInstruction, r.raw)
      /\ UNCHANGED <<registers, ram, transmitted>>

ExecWfi(r, i) ==
  /\ i.op = "wfi"
  /\ Complete(r, Ticked, Sequential, privilege, HaltOnWfi)
  /\ UNCHANGED <<registers, ram, transmitted>>

(* The six CSR instructions.  The old value is read first, at the current  *)
(* privilege; the set and clear forms write only a non-zero operand.       *)
CsrOperand(i) ==
  IF i.op \in {"csrrwi", "csrrsi", "csrrci"} THEN NatWord(i.rs1)
  ELSE registers[i.rs1]
CsrUpdate(op, old, operand) ==
  CASE op \in {"csrrw", "csrrwi"} -> operand
    [] op \in {"csrrs", "csrrsi"} -> old \cup operand
    [] op \in {"csrrc", "csrrci"} -> old \ operand
CsrWrites(op, operand) == op \in {"csrrw", "csrrwi"} \/ operand # {}

ExecCsr(r, i) ==
  LET old == ReadCsr(Ticked, i.csr)
      operand == CsrOperand(i)
      writes == CsrWrites(i.op, operand)
      new == CsrUpdate(i.op, old, operand)
  IN  /\ i.op \in CsrOps
      /\ IF \/ validate_access(csrs, i.csr, privilege, FALSE) # "ok"
            \/ writes /\ validate_access(csrs, i.csr, privilege, TRUE) # "ok"
         THEN /\ RaiseTrap(r, IllegalInstruction, r.raw)
              /\ UNCHANGED registers
         ELSE /\ SetRegister(i.rd, old)
              /\ Complete(WithWrite(r, i.rd, old),
                          IF writes THEN WriteCsr(Ticked, i.csr, new) ELSE Ticked,
                          Sequential, privilege, halted)
      /\ UNCHANGED <<ram, transmitted>>

Execute(r, i) ==
  \/ ExecAlu(r, i)
  \/ ExecJump(r, i)
  \/ ExecBranch(r, i)
  \/ ExecLoad(r, i)
  \/ ExecStore(r, i)
  \/ ExecFence(r, i)
  \/ ExecEcall(r, i)
  \/ ExecEbreak(r, i)
  \/ ExecReturn(r, i)
  \/ ExecWfi(r, i)
  \/ ExecCsr(r, i)

(***************************************************************************)
(* Cpu::step.                                                              *)
(***************************************************************************)
Attempt ==
  /\ sequence < MaxSteps /\ Len(transmitted) <= MaxOutput
  /\ sequence' = sequence + 1
  /\ UNCHANGED trap_policy

(* A halted hart only consumes a sequence number.                          *)
StepHalted ==
  /\ Attempt
  /\ halted
  /\ record' = {FreshRecord}
  /\ UNCHANGED <<hart, ram, transmitted>>

(* The fetch traps: misaligned pc, translation, or bus.                    *)
StepFetchTrap ==
  /\ Attempt
  /\ ~halted
  /\ LET fetch == Access(pc, 4, "InstructionFetch")
     IN  \E cause \in fetch.cause :
           RaiseTrap([FreshRecord EXCEPT !.instruction_translation = fetch.translation],
                     cause, pc)
  /\ UNCHANGED <<registers, ram, transmitted>>

(* The record after a fetch that succeeds, and the decoder's answer to the *)
(* word fetched, as sets of at most one.                                   *)
Fetched ==
  LET fetch == Access(pc, 4, "InstructionFetch")
  IN  IF fetch.cause # {} THEN {}
      ELSE {[FreshRecord EXCEPT !.raw = BusRead(ram, t.physical, 4),
                                !.instruction_translation = {t}] :
              t \in fetch.translation}
Decodes(raw) == {InstructionSet[w] : w \in {raw} \cap DOMAIN InstructionSet}

StepInstruction ==
  /\ Attempt
  /\ ~halted
  /\ \E r \in Fetched :
       \/ \E i \in Decodes(r.raw) : Execute(r, i)
       \/ /\ Decodes(r.raw) = {}
          /\ RaiseTrap(r, IllegalInstruction, r.raw)
          /\ UNCHANGED <<registers, ram, transmitted>>

(* Cpu::reset.  RAM and the UART are not the hart's to clear.              *)
Reset(entry) ==
  /\ registers' = [x \in RegIndex |-> {}]
  /\ pc' = entry
  /\ privilege' = Machine
  /\ csrs' = ResetCsrs
  /\ sequence' = 0
  /\ halted' = FALSE
  /\ terminal_trap' = {}
  /\ record' = {}
  /\ UNCHANGED <<trap_policy, ram, transmitted>>

Next ==
  \/ StepHalted
  \/ StepFetchTrap
  \/ StepInstruction
  \/ \E entry \in ResetEntries : Reset(entry)

Spec == Init /\ [][Next]_vars

-----------------------------------------------------------------------------
Trap == [cause : 0..15, pc : Word, value : Word]
Translation == [virtual : Word, physical : Word]
Record ==
  [sequence : Nat, pc : Word, privilege : PrivilegeLevel, next_pc : Word,
   next_privilege : PrivilegeLevel, retired : BOOLEAN, halted : BOOLEAN,
   raw : Word,
   register_write : SUBSET [index : RegIndex, value : Word],
   memory_write : SUBSET [address : Word, width : {1, 2, 4, 8}, value : Word,
                          physical : Word],
   trap : SUBSET Trap, instruction_translation : SUBSET Translation,
   data_translation : SUBSET Translation]

TypeOK ==
  /\ trap_policy \in TrapPolicies
  /\ registers \in [RegIndex -> Word]
  /\ pc \in Word
  /\ privilege \in PrivilegeLevel
  /\ csrs \in CsrFileType
  /\ sequence \in 0..MaxSteps
  /\ halted \in BOOLEAN
  /\ terminal_trap \in SUBSET Trap
  /\ ram \in Ram
  /\ transmitted \in Seq(Word)
  /\ record \in SUBSET Record

(* x0 reads zero, and no program, whatever it writes to CSRs and however   *)
(* its traps nest, leaves a reserved encoding in one (architecture.md,     *)
(* invariant 1; csr.cpp).                                                  *)
LegalState == registers[0] = {} /\ Warl(csrs)

(* Stepping never makes an aligned pc misaligned: the targets of jumps and *)
(* taken branches are checked before the pc moves (cpu.cpp:249-272), so    *)
(* only a misaligned entry can trap at fetch for it.                       *)
PcStaysAligned == [][record' # {} /\ IsAligned4(pc) => IsAligned4(pc')]_vars

(* A trap is precise.  Nothing of the instruction remains: no register,    *)
(* memory or output changes, though JAL links, a CSR instruction writes rd *)
(* and a store has its translation when others of its kind complete.  Of   *)
(* the CSRs only the selected bank, the selected mode's stack in mstatus   *)
(* and the cycle counter change.  The bank holds the faulting pc; an       *)
(* access that was translated and then failed reports its virtual address; *)
(* a trap from M mode stays in M mode (architecture.md, invariants 3, 4, 8 *)
(* and 10; cpu.cpp raise_trap and its callers).  xepc cannot hold the pc   *)
(* of a misaligned entry, which is then found in xtval instead.            *)
Bank(p) == IF p = Machine THEN {"mepc", "mcause", "mtval"}
                          ELSE {"sepc", "scause", "stval"}
Epc(p) == IF p = Machine THEN "mepc" ELSE "sepc"
Tval(p) == IF p = Machine THEN "mtval" ELSE "stval"
Stack(p) == IF p = Machine THEN {MIE, MPIE} \cup kMppMask ELSE {SIE, SPIE, SPP}

PreciseTraps ==
  [][\A r \in record' : r.trap # {} =>
       /\ UNCHANGED <<registers, ram, transmitted>>
       /\ \A x \in CsrRegister \ ({"mstatus", "mcycle"} \cup Bank(privilege')) :
            csrs'[x] = csrs[x]
       /\ csrs'["mstatus"] \ Stack(privilege') = csrs["mstatus"] \ Stack(privilege')
       /\ csrs'[Epc(privilege')] = AlignDown4(pc)
       /\ IsAligned4(pc) \/ csrs'[Tval(privilege')] = pc
       /\ \A t \in r.trap, d \in r.data_translation : t.value = d.virtual
       /\ privilege = Machine => privilege' = Machine
       /\ privilege' >= privilege
    ]_vars

(* Privilege is gained only by a trap, and then only at the handler that   *)
(* the more privileged mode installed, or with the hart stopped.           *)
PrivilegeGate ==
  [][record' # {} /\ privilege' > privilege =>
       /\ \A r \in record' : r.trap # {}
       /\ halted' \/ pc' = csrs[IF privilege' = Machine THEN "mtvec" ELSE "stvec"]
    ]_vars

(* Below M mode no step but the trap into M mode changes what M mode owns: *)
(* delegation, its vector, scratch and counter controls, its trap bank,    *)
(* and the undelegated interrupt bits.                                     *)
MachineOwned ==
  {"medeleg", "mideleg", "mtvec", "mcounteren", "mscratch", "mepc", "mcause",
   "mtval"}
MachineConfinement ==
  [][record' # {} /\ privilege # Machine /\ privilege' # Machine =>
       /\ \A x \in MachineOwned : csrs'[x] = csrs[x]
       /\ \A x \in {"mie", "mip"} :
            csrs'[x] \ csrs["mideleg"] = csrs[x] \ csrs["mideleg"]
       /\ csrs'["mstatus"] \cap ({MIE, MPIE} \cup kMppMask)
            = csrs["mstatus"] \cap ({MIE, MPIE} \cup kMppMask)
    ]_vars

(* The counters.  Below M mode, where no instruction can write them, every *)
(* step of a running hart counts one cycle and a retired one counts one    *)
(* instruction, even when the step changes mode (cpu.cpp:564 and 593-595). *)
CountersExact ==
  [][\A r \in record' : privilege # Machine =>
       /\ csrs'["mcycle"] = IF halted THEN csrs["mcycle"] ELSE Increment(csrs["mcycle"], 0)
       /\ csrs'["minstret"] = IF r.retired THEN Increment(csrs["minstret"], 0)
                              ELSE csrs["minstret"]
    ]_vars

(* The record tells the truth: it names the state the step left, what it   *)
(* wrote is there, and it either retired or trapped unless the hart was    *)
(* already halted.                                                         *)
RecordTruthful ==
  \A r \in record :
    /\ r.next_pc = pc /\ r.next_privilege = privilege /\ r.halted = halted
    /\ \A w \in r.register_write : w.index # 0 /\ registers[w.index] = w.value
    /\ \A m \in r.memory_write :
         InRam(m.physical) => RamRead(ram, m.physical, m.width) = m.value
    /\ r.retired => r.trap = {}
    /\ ~r.retired /\ r.trap = {} => halted /\ r.pc = pc
    /\ \A t \in terminal_trap : halted /\ t.pc = pc

(* User mode under Sv39 is confined to what the page tables grant it.  It  *)
(* executes, loads and stores only in frames with the right in an entry    *)
(* marked U, so no step of it reads or changes the kernel's memory or the  *)
(* page tables, or sends a byte, unless they map that for it (ADR 0008).   *)
UserConfinement ==
  [][\A r \in record' : privilege = User /\ Translating =>
       LET may(rights, a) == UserMay(rights, ram, csrs["satp"] \cap kSatpPpnMask, a)
       IN  /\ \A t \in r.instruction_translation : may({kPteX}, t.physical)
           /\ \A t \in r.data_translation :
                may({kPteR}, t.physical) \/ may({kPteX}, t.physical)
           /\ \A x \in (ram' \ ram) \cup (ram \ ram') : may(StoreRights, x[1])
           /\ transmitted' # transmitted => may(StoreRights, {28})
    ]_vars
=============================================================================
