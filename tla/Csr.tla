-------------------------------- MODULE Csr --------------------------------
(***************************************************************************)
(* The control and status registers: csr.hpp, csr.cpp and privilege.hpp as *)
(* operators on the register file.  A file c is a function from the        *)
(* backing registers to words; the views (sstatus, sie, sip, cycle,        *)
(* instret) have no storage of their own.  CsrFile.tla drives these        *)
(* operators as an API of their own, Cpu.tla from instructions.            *)
(*                                                                         *)
(* Here and in the other modules a definition name_slip, placed before     *)
(* name, is name with a plausible slip in it.  Nothing uses it: it is put  *)
(* in name's place to see that a property would notice.                    *)
(***************************************************************************)
EXTENDS Words

(***************************************************************************)
(* Privilege levels carry their architectural encoding.                    *)
(***************************************************************************)
User == 0
Supervisor == 1
Machine == 3
PrivilegeLevel == {User, Supervisor, Machine}

(* static_cast<std::uint64_t>(privilege)                                   *)
PrivilegeWord(p) ==
  IF p = User THEN {} ELSE IF p = Supervisor THEN {0} ELSE {0, 1}

privilege_at_least(current, required) == current >= required

(***************************************************************************)
(* The CSR address space by name.  The last five stand for the addresses   *)
(* the file does not implement, one for each privilege and access class.   *)
(***************************************************************************)
CsrAddress ==
  [sstatus |-> 256, sie |-> 260, stvec |-> 261, scounteren |-> 262,
   sscratch |-> 320, sepc |-> 321, scause |-> 322, stval |-> 323,
   sip |-> 324, satp |-> 384,
   mstatus |-> 768, misa |-> 769, medeleg |-> 770, mideleg |-> 771,
   mie |-> 772, mtvec |-> 773, mcounteren |-> 774, mscratch |-> 832,
   mepc |-> 833, mcause |-> 834, mtval |-> 835, mip |-> 836,
   mcycle |-> 2816, minstret |-> 2818, cycle |-> 3072, instret |-> 3074,
   mhartid |-> 3860,
   fflags |-> 1, senvcfg |-> 266, hstatus |-> 1536, pmpaddr0 |-> 944,
   time |-> 3073]

CsrName == DOMAIN CsrAddress
is_implemented(a) ==
  a \notin {"fflags", "senvcfg", "hstatus", "pmpaddr0", "time"}

(* The registers with storage: the private members of CsrFile.             *)
CsrRegister ==
  {"mstatus", "medeleg", "mideleg", "mie", "mtvec", "mcounteren",
   "mscratch", "mepc", "mcause", "mtval", "mip", "stvec", "scounteren",
   "sscratch", "sepc", "scause", "stval", "satp", "mcycle", "minstret"}

CsrFileType == [CsrRegister -> Word]
ResetCsrs == [r \in CsrRegister |-> {}]

(***************************************************************************)
(* Bit positions of mstatus, and the masks built from them.                *)
(***************************************************************************)
SIE == 1
MIE == 3
SPIE == 5
MPIE == 7
SPP == 8
kMppMask == {11, 12}
MPRV == 17
SUM == 18
MXR == 19
kUxl64 == {33}
kSxl64 == {35}
kSstatusWritableMask == {SIE, SPIE, SPP, SUM, MXR}
kMstatusWritableMask ==
  {SIE, MIE, SPIE, MPIE, SPP, MPRV, SUM, MXR} \cup kMppMask
kMstatusFixedValue == kUxl64 \cup kSxl64

kMisa == {63, 8}
kCounterEnableMask == {0, 1, 2}
kSupervisorSoftwareInterrupt == {1}
kSupervisorInterruptMask == {1, 5, 9}
kImplementedInterruptMask == kSupervisorInterruptMask \cup {3, 7, 11}
kDelegatableExceptionMask == {0, 1, 2, 3, 4, 5, 6, 7, 8, 9, 12, 13, 15}
kSatpModeMask == {60, 61, 62, 63}
kSatpModeSv39 == {63}
kSatpPpnMask == 0..43

(***************************************************************************)
(* Access validation.  Bits 9:8 of the address give the least privilege,   *)
(* bits 11:10 the read-only class.                                         *)
(***************************************************************************)
csr_minimum_privilege(a) ==
  LET encoded == (CsrAddress[a] \div 256) % 4
  IN  IF encoded = 0 THEN User ELSE IF encoded = 1 THEN Supervisor ELSE Machine

csr_is_read_only(a) == (CsrAddress[a] \div 1024) % 4 = 3

counter_bit(a) ==
  CASE a = "cycle" -> {0} [] a = "instret" -> {2} [] OTHER -> {}

(* mcounteren gates S and U, scounteren only U, and only reads.            *)
counter_enabled(c, a, privilege) ==
  \/ privilege = Machine
  \/ /\ counter_bit(a) \subseteq c["mcounteren"]
     /\ privilege = User => counter_bit(a) \subseteq c["scounteren"]

(* The first failing check decides; a read of a view is checked as a read.  *)
validate_access(c, a, privilege, write) ==
  IF ~privilege_at_least(privilege, csr_minimum_privilege(a))
  THEN "PrivilegeViolation"
  ELSE IF ~is_implemented(a) THEN "Unimplemented"
  ELSE IF write /\ csr_is_read_only(a) THEN "ReadOnly"
  ELSE IF ~write /\ ~counter_enabled(c, a, privilege) THEN "CounterDisabled"
  ELSE "ok"

(* The interrupt bits that sie and sip show, and those of a mask that they *)
(* let through to mie and mip.                                             *)
InterruptView_undelegated(c, r) == c[r] \cap kSupervisorInterruptMask
InterruptView(c, r) == c[r] \cap c["mideleg"] \cap kSupervisorInterruptMask

InterruptWritable_undelegated(c, mask) == mask
InterruptWritable(c, mask) == c["mideleg"] \cap mask

(***************************************************************************)
(* CsrFile::read, for an address that passed validate_access.              *)
(***************************************************************************)
ReadCsr(c, a) ==
  CASE a = "sstatus" -> (c["mstatus"] \cap kSstatusWritableMask) \cup kUxl64
    [] a = "sie" -> InterruptView(c, "mie")
    [] a = "sip" -> InterruptView(c, "mip")
    [] a = "mstatus" -> c["mstatus"] \cup kMstatusFixedValue
    [] a = "misa" -> kMisa
    [] a = "mhartid" -> {}
    [] a = "cycle" -> c["mcycle"]
    [] a = "instret" -> c["minstret"]
    [] OTHER -> c[a]

(***************************************************************************)
(* CsrFile::write, for an address that passed validate_access: each        *)
(* register legalises the value (WARL), the views merge it into the        *)
(* register they alias.                                                    *)
(***************************************************************************)
normalize_mstatus_keeps_mpp(v) == v \cap kMstatusWritableMask
normalize_mstatus(v) ==
  LET normalized == v \cap kMstatusWritableMask
  IN  IF v \cap kMppMask = {12} THEN normalized \ kMppMask ELSE normalized

Merge(old, v, mask) == (old \ mask) \cup (v \cap mask)

WriteCsr(c, a, v) ==
  CASE a = "sstatus" ->
         [c EXCEPT !["mstatus"] = Merge(@, v, kSstatusWritableMask)]
    [] a = "sie" ->
         [c EXCEPT !["mie"] =
                     Merge(@, v, InterruptWritable(c, kSupervisorInterruptMask))]
    [] a = "sip" ->
         [c EXCEPT !["mip"] =
                     Merge(@, v, InterruptWritable(c, kSupervisorSoftwareInterrupt))]
    [] a = "satp" ->
         [c EXCEPT !["satp"] =
            CASE v \cap kSatpModeMask = {} -> {}
              [] v \cap kSatpModeMask = kSatpModeSv39 -> v
              [] OTHER -> @]
    [] a = "mstatus" -> [c EXCEPT !["mstatus"] = normalize_mstatus(v)]
    [] a = "misa" -> c
    [] a = "medeleg" -> [c EXCEPT !["medeleg"] = v \cap kDelegatableExceptionMask]
    [] a = "mideleg" -> [c EXCEPT !["mideleg"] = v \cap kSupervisorInterruptMask]
    [] a \in {"mie", "mip"} -> [c EXCEPT ![a] = v \cap kImplementedInterruptMask]
    [] a \in {"scounteren", "mcounteren"} ->
         [c EXCEPT ![a] = v \cap kCounterEnableMask]
    [] a \in {"stvec", "mtvec", "sepc", "mepc"} -> [c EXCEPT ![a] = AlignDown4(v)]
    [] OTHER -> [c EXCEPT ![a] = v]

(* The legal register files: every masked field within its mask,           *)
(* mstatus.MPP not the reserved 2, satp Bare or Sv39, vectors and return   *)
(* pcs aligned.                                                            *)
Warl(c) ==
  /\ c["mstatus"] \subseteq kMstatusWritableMask
  /\ c["mstatus"] \cap kMppMask # {12}
  /\ c["medeleg"] \subseteq kDelegatableExceptionMask
  /\ c["mideleg"] \subseteq kSupervisorInterruptMask
  /\ c["mie"] \subseteq kImplementedInterruptMask
  /\ c["mip"] \subseteq kImplementedInterruptMask
  /\ c["mcounteren"] \subseteq kCounterEnableMask
  /\ c["scounteren"] \subseteq kCounterEnableMask
  /\ c["satp"] = {} \/ c["satp"] \cap kSatpModeMask = kSatpModeSv39
  /\ \A r \in {"mtvec", "stvec", "mepc", "sepc"} : IsAligned4(c[r])

tick_cycle_counts_both(c) ==
  [c EXCEPT !["mcycle"] = Increment(@, 0), !["minstret"] = Increment(@, 0)]
tick_cycle(c) == [c EXCEPT !["mcycle"] = Increment(@, 0)]
retire_instruction(c) == [c EXCEPT !["minstret"] = Increment(@, 0)]

(***************************************************************************)
(* Synchronous trap entry.  Only a trap from below M mode can be           *)
(* delegated.  The selected bank gets pc, cause and value, and the         *)
(* selected privilege stack (xIE, xPIE, xPP) is pushed.                    *)
(***************************************************************************)
delegated_from_any_mode(c, cause, origin) == cause \in c["medeleg"]
delegated(c, cause, origin) == origin # Machine /\ cause \in c["medeleg"]

PushSupervisor(mstatus, origin) ==
  (mstatus \ {SIE, SPIE, SPP})
    \cup (IF SIE \in mstatus THEN {SPIE} ELSE {})
    \cup (IF origin = Supervisor THEN {SPP} ELSE {})

PushMachine(mstatus, origin) ==
  (mstatus \ ({MIE, MPIE} \cup kMppMask))
    \cup (IF MIE \in mstatus THEN {MPIE} ELSE {})
    \cup Shl(PrivilegeWord(origin), 11)

EnterTrapCsrs(c, trap, origin) ==
  IF delegated(c, trap.cause, origin)
  THEN [c EXCEPT !["mstatus"] = PushSupervisor(@, origin),
                 !["sepc"] = AlignDown4(trap.pc),
                 !["scause"] = NatWord(trap.cause),
                 !["stval"] = trap.value]
  ELSE [c EXCEPT !["mstatus"] = PushMachine(@, origin),
                 !["mepc"] = AlignDown4(trap.pc),
                 !["mcause"] = NatWord(trap.cause),
                 !["mtval"] = trap.value]

TrapTarget(c, cause, origin) ==
  IF delegated(c, cause, origin) THEN Supervisor ELSE Machine
TrapVector_always_machine(c, cause, origin) == AlignDown4(c["mtvec"])
TrapVector(c, cause, origin) ==
  AlignDown4(c[IF delegated(c, cause, origin) THEN "stvec" ELSE "mtvec"])

(***************************************************************************)
(* xRET.  Pops the privilege stack; MPRV is cleared on the way out of M.   *)
(***************************************************************************)
ReturnTarget_shifted_mpp(c, mode) ==
  IF mode = Supervisor
  THEN IF SPP \in c["mstatus"] THEN Supervisor ELSE User
  ELSE 2 * Bit(c["mstatus"], 11) + 4 * Bit(c["mstatus"], 12)

ReturnTarget(c, mode) ==
  IF mode = Supervisor
  THEN IF SPP \in c["mstatus"] THEN Supervisor ELSE User
  ELSE CASE c["mstatus"] \cap kMppMask = kMppMask -> Machine
         [] c["mstatus"] \cap kMppMask = {11} -> Supervisor
         [] OTHER -> User

ReturnPc(c, mode) == c[IF mode = Supervisor THEN "sepc" ELSE "mepc"]

PopSupervisor(mstatus) ==
  (mstatus \ {SIE, SPP, MPRV})
    \cup {SPIE} \cup (IF SPIE \in mstatus THEN {SIE} ELSE {})

PopMachine_drops_enable(mstatus, target) ==
  (mstatus \ ({MIE} \cup kMppMask
               \cup IF target # Machine THEN {MPRV} ELSE {}))
    \cup {MPIE}

PopMachine_keeps_mprv(mstatus, target) ==
  (mstatus \ ({MIE} \cup kMppMask))
    \cup {MPIE} \cup (IF MPIE \in mstatus THEN {MIE} ELSE {})

PopMachine(mstatus, target) ==
  (mstatus \ ({MIE} \cup kMppMask
               \cup IF target # Machine THEN {MPRV} ELSE {}))
    \cup {MPIE} \cup (IF MPIE \in mstatus THEN {MIE} ELSE {})

return_from_trap(c, mode) ==
  [c EXCEPT !["mstatus"] = IF mode = Supervisor
                           THEN PopSupervisor(@)
                           ELSE PopMachine(@, ReturnTarget(c, mode))]
=============================================================================
