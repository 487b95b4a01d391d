--------------------------- MODULE CsrFileProofs ---------------------------
(***************************************************************************)
(* CsrFile keeps its registers legal, leaves MPRV set only in M mode and   *)
(* preserves interrupted contexts, for all write values, traps and pcs.    *)
(***************************************************************************)
EXTENDS CsrFile, HartLemmas

(* CsrFile has its types in every reachable state.                         *)
THEOREM CsrFileTyping == Spec => []TypeOK
<1>1. Init => TypeOK
  BY MaxCallsAssumption
  DEF Init, TypeOK, ResetCsrs, CsrFileType, Word, PrivilegeLevel
<1>2. TypeOK /\ [Next]_vars => TypeOK'
  <2> SUFFICES ASSUME TypeOK, [Next]_vars
               PROVE  TypeOK'
    OBVIOUS
  <2> USE DEF TypeOK
  <2>1. ASSUME NEW w \in Writes, Write(w)
        PROVE  TypeOK'
    <3>1. w[1] \in CsrName /\ w[2] \in Word
      BY WritesAssumption
    <3>2. csrs' \in CsrFileType
      BY <2>1, <3>1, WriteType DEF Write, WriteAccepted, WriteRejected
    <3>3. sframe' \in SUBSET Frame /\ mframe' \in SUBSET Frame
      BY <2>1 DEF Write, WriteAccepted, WriteRejected
    <3>4. privilege' = privilege
      BY <2>1 DEF Write, WriteAccepted, WriteRejected
    <3>5. calls' \in 0..MaxCalls
      BY <2>1, MaxCallsAssumption DEF Write, Call
    <3>. QED
      BY <3>2, <3>3, <3>4, <3>5
  <2>2. ASSUME NEW trap \in Trap, EnterTrap(trap)
        PROVE  TypeOK'
    <3>1. trap.cause \in 0..15 /\ trap.pc \in Word /\ trap.value \in Word
      BY TrapAssumption DEF Trap
    <3>2. csrs' \in CsrFileType /\ privilege' \in PrivilegeLevel
      BY <2>2, <3>1, EnterTrapFacts DEF EnterTrap
    <3>3. /\ Bit(csrs["mstatus"], SIE) \in {0, 1}
          /\ Bit(csrs["mstatus"], MIE) \in {0, 1}
      BY DEF Bit
    <3>4. sframe' \in SUBSET Frame /\ mframe' \in SUBSET Frame
      BY <2>2, <3>1, <3>3 DEF EnterTrap, Frame
    <3>. QED
      BY <2>2, <3>2, <3>4, MaxCallsAssumption DEF EnterTrap, Call
  <2>3. CASE ReturnS
    BY <2>3, ReturnFacts, MaxCallsAssumption DEF ReturnS, Call
  <2>4. CASE ReturnM
    BY <2>4, ReturnFacts, MaxCallsAssumption DEF ReturnM, Call
  <2>5. CASE Tick
    BY <2>5, CounterFacts, MaxCallsAssumption DEF Tick, Call
  <2>6. CASE Retire
    BY <2>6, CounterFacts, MaxCallsAssumption DEF Retire, Call
  <2>7. CASE Reset
    BY <2>7, MaxCallsAssumption
    DEF Reset, ResetCsrs, CsrFileType, Word, PrivilegeLevel
  <2>8. CASE UNCHANGED vars
    BY <2>8 DEF vars
  <2>. QED
    BY <2>1, <2>2, <2>3, <2>4, <2>5, <2>6, <2>7, <2>8 DEF Next
<1>. QED
  BY <1>1, <1>2, PTL DEF Spec

(* No register ever holds a reserved encoding (WarlInv).                   *)
THEOREM CsrFileWarl == Spec => []WarlInv
<1> USE DEF WarlInv
<1>1. Init => WarlInv
  BY DEF Init, ResetCsrs, Warl, IsAligned4, CsrRegister
<1>2. TypeOK /\ WarlInv /\ [Next]_vars => WarlInv'
  <2> SUFFICES ASSUME TypeOK, WarlInv, [Next]_vars
               PROVE  WarlInv'
    OBVIOUS
  <2>0. csrs \in CsrFileType /\ privilege \in PrivilegeLevel
    BY DEF TypeOK
  <2>1. ASSUME NEW w \in Writes, Write(w)
        PROVE  WarlInv'
    <3>1. w[1] \in CsrName /\ w[2] \in Word
      BY WritesAssumption
    <3>. QED
      BY <2>0, <2>1, <3>1, WriteWarl DEF Write, WriteAccepted, WriteRejected
  <2>2. ASSUME NEW trap \in Trap, EnterTrap(trap)
        PROVE  WarlInv'
    <3>1. trap.pc \in Word /\ trap.value \in Word
      BY TrapAssumption DEF Trap
    <3>. QED
      BY <2>0, <2>2, <3>1, EnterTrapFacts DEF EnterTrap
  <2>3. CASE ReturnS
    BY <2>0, <2>3, ReturnFacts DEF ReturnS
  <2>4. CASE ReturnM
    BY <2>0, <2>4, ReturnFacts DEF ReturnM
  <2>5. CASE Tick \/ Retire
    BY <2>0, <2>5, CounterFacts DEF Tick, Retire
  <2>6. CASE Reset
    BY <2>6 DEF Reset, ResetCsrs, Warl, IsAligned4, CsrRegister
  <2>7. CASE UNCHANGED vars
    BY <2>7 DEF vars
  <2>. QED
    BY <2>1, <2>2, <2>3, <2>4, <2>5, <2>6, <2>7 DEF Next
<1>. QED
  BY <1>1, <1>2, CsrFileTyping, PTL DEF Spec

(* MPRV is set only in M mode.  The invariant is inductive as it stands:   *)
(* only a machine-mode write sets MPRV, and every return that leaves M     *)
(* mode clears it.                                                         *)
THEOREM CsrFileMprv == Spec => []MprvOnlyInMachine
<1> USE DEF MprvOnlyInMachine
<1>1. Init => MprvOnlyInMachine
  BY DEF Init
<1>2. TypeOK /\ MprvOnlyInMachine /\ [Next]_vars => MprvOnlyInMachine'
  <2> SUFFICES ASSUME TypeOK, MprvOnlyInMachine, [Next]_vars
               PROVE  MprvOnlyInMachine'
    OBVIOUS
  <2>0. csrs \in CsrFileType /\ privilege \in PrivilegeLevel
    BY DEF TypeOK
  <2>1. ASSUME NEW w \in Writes, Write(w)
        PROVE  MprvOnlyInMachine'
    <3> SUFFICES ASSUME privilege # Machine, WriteAccepted(w)
                 PROVE  MPRV \notin csrs'["mstatus"]
      BY <2>1 DEF Write, WriteAccepted, WriteRejected
    <3>1. w[1] \in CsrName /\ privilege \in {User, Supervisor}
      BY <2>0, WritesAssumption DEF PrivilegeLevel
    <3>2. w[1] \in SupervisorCsr
      BY <3>1, WritableBelowMachine DEF WriteAccepted
    <3>3. MPRV \notin Merge(csrs["mstatus"], w[2], kSstatusWritableMask)
      BY DEF Merge, kSstatusWritableMask, MPRV, SIE, SPIE, SPP, SUM, MXR
    <3>4. \/ csrs'["mstatus"] = csrs["mstatus"]
          \/ csrs'["mstatus"] = Merge(csrs["mstatus"], w[2], kSstatusWritableMask)
      BY <2>0, <3>2
      DEF WriteAccepted, WriteCsr, SupervisorCsr, CsrFileType, CsrRegister
    <3>. QED
      BY <3>3, <3>4
  <2>2. ASSUME NEW trap \in Trap, EnterTrap(trap)
        PROVE  MprvOnlyInMachine'
    BY <2>0, <2>2
    DEF EnterTrap, EnterTrapCsrs, TrapTarget, delegated, PushSupervisor,
        CsrFileType, CsrRegister, MPRV, SIE, SPIE, SPP
  <2>3. CASE ReturnS
    BY <2>0, <2>3
    DEF ReturnS, return_from_trap, PopSupervisor, CsrFileType, CsrRegister,
        MPRV, SIE, SPIE, SPP
  <2>4. CASE ReturnM
    BY <2>0, <2>4
    DEF ReturnM, return_from_trap, PopMachine, CsrFileType, CsrRegister,
        MPRV, MIE, MPIE, Supervisor, Machine
  <2>5. CASE Tick \/ Retire
    BY <2>0, <2>5
    DEF Tick, Retire, tick_cycle, retire_instruction, CsrFileType, CsrRegister
  <2>6. CASE Reset
    BY <2>6 DEF Reset
  <2>7. CASE UNCHANGED vars
    BY <2>7 DEF vars
  <2>. QED
    BY <2>1, <2>2, <2>3, <2>4, <2>5, <2>6, <2>7 DEF Next
<1>. QED
  BY <1>1, <1>2, CsrFileTyping, PTL DEF Spec

(* A return leaves in xIE what was saved in xPIE.                          *)
LEMMA EnableRestored ==
  ASSUME NEW c \in CsrFileType
  PROVE  /\ Bit(return_from_trap(c, Supervisor)["mstatus"], SIE)
              = Bit(c["mstatus"], SPIE)
         /\ Bit(return_from_trap(c, Machine)["mstatus"], MIE)
              = Bit(c["mstatus"], MPIE)
<1>1. /\ return_from_trap(c, Supervisor)["mstatus"] = PopSupervisor(c["mstatus"])
      /\ return_from_trap(c, Machine)["mstatus"]
           = PopMachine(c["mstatus"], ReturnTarget(c, Machine))
  BY DEF return_from_trap, CsrFileType, CsrRegister, Supervisor, Machine
<1>2. SIE \in PopSupervisor(c["mstatus"]) <=> SPIE \in c["mstatus"]
  BY DEF PopSupervisor, SIE, SPIE, SPP, MPRV
<1>3. \A t : MIE \in PopMachine(c["mstatus"], t) <=> MPIE \in c["mstatus"]
  BY DEF PopMachine, kMppMask, MIE, MPIE, MPRV
<1>. QED
  BY <1>1, <1>2, <1>3 DEF Bit

(* What a bank returns to depends on these fields only.                    *)
LEMMA SupervisorFields ==
  ASSUME csrs \in CsrFileType, csrs' \in CsrFileType,
         csrs'["mstatus"] \cap {SPIE, SPP} = csrs["mstatus"] \cap {SPIE, SPP},
         csrs'["sepc"] = csrs["sepc"],
         NEW f, Restores(Supervisor, SIE, f)
  PROVE  Restores(Supervisor, SIE, f)'
<1>1. Bit(csrs'["mstatus"], SPIE) = Bit(csrs["mstatus"], SPIE)
  BY DEF Bit
<1>2. Bit(return_from_trap(csrs', Supervisor)["mstatus"], SIE)
        = Bit(return_from_trap(csrs, Supervisor)["mstatus"], SIE)
  BY <1>1, EnableRestored
<1>. QED
  BY <1>2 DEF Restores, ReturnTarget, ReturnPc

LEMMA MachineFields ==
  ASSUME csrs \in CsrFileType, csrs' \in CsrFileType,
         csrs'["mstatus"] \cap ({MPIE} \cup kMppMask)
           = csrs["mstatus"] \cap ({MPIE} \cup kMppMask),
         csrs'["mepc"] = csrs["mepc"],
         NEW f, Restores(Machine, MIE, f)
  PROVE  Restores(Machine, MIE, f)'
<1>1. csrs'["mstatus"] \cap kMppMask = csrs["mstatus"] \cap kMppMask
  OBVIOUS
<1>2. Bit(csrs'["mstatus"], MPIE) = Bit(csrs["mstatus"], MPIE)
  BY DEF Bit
<1>3. Bit(return_from_trap(csrs', Machine)["mstatus"], MIE)
        = Bit(return_from_trap(csrs, Machine)["mstatus"], MIE)
  BY <1>2, EnableRestored
<1>. QED
  BY <1>1, <1>3 DEF Restores, ReturnTarget, ReturnPc, Machine, Supervisor

(* A trap stores in the bank it selects what a return from that bank gives *)
(* back, and leaves what the other bank gives back alone.                  *)
LEMMA EnterTrapFrames ==
  ASSUME csrs \in CsrFileType, csrs' \in CsrFileType,
         privilege \in PrivilegeLevel,
         FramesRestored, NEW trap, EnterTrap(trap)
  PROVE  FramesRestored'
<1> DEFINE old == csrs["mstatus"]
           new == csrs'["mstatus"]
<1>1. CASE delegated(csrs, trap.cause, privilege)
  <2>1. /\ csrs'["sepc"] = AlignDown4(trap.pc)
        /\ csrs'["mepc"] = csrs["mepc"]
        /\ new = PushSupervisor(old, privilege)
    BY <1>1 DEF EnterTrap, EnterTrapCsrs, CsrFileType, CsrRegister
  <2>2. \A f \in sframe' : Restores(Supervisor, SIE, f)'
    <3> SUFFICES ASSUME NEW f \in sframe'
                 PROVE  Restores(Supervisor, SIE, f)'
      OBVIOUS
    <3>1. /\ f.privilege = privilege /\ f.pc = trap.pc
          /\ f.ie = Bit(old, SIE)
      BY <1>1 DEF EnterTrap
    <3>2. privilege \in {User, Supervisor}
      BY <1>1 DEF delegated, PrivilegeLevel
    <3>3. /\ SPP \in new <=> privilege = Supervisor
          /\ Bit(new, SPIE) = Bit(old, SIE)
      BY <2>1 DEF PushSupervisor, Bit, SIE, SPIE, SPP
    <3>. QED
      BY <2>1, <3>1, <3>2, <3>3, EnableRestored
      DEF Restores, ReturnTarget, ReturnPc
  <2>3. new \cap ({MPIE} \cup kMppMask) = old \cap ({MPIE} \cup kMppMask)
    BY <2>1 DEF PushSupervisor, kMppMask, MPIE, SIE, SPIE, SPP
  <2>4. mframe' = mframe
    BY <1>1 DEF EnterTrap
  <2>. QED
    BY <2>1, <2>2, <2>3, <2>4, MachineFields DEF FramesRestored
<1>2. CASE ~delegated(csrs, trap.cause, privilege)
  <2>1. /\ csrs'["mepc"] = AlignDown4(trap.pc)
        /\ csrs'["sepc"] = csrs["sepc"]
        /\ new = PushMachine(old, privilege)
    BY <1>2 DEF EnterTrap, EnterTrapCsrs, CsrFileType, CsrRegister
  <2>2. \A f \in mframe' : Restores(Machine, MIE, f)'
    <3> SUFFICES ASSUME NEW f \in mframe'
                 PROVE  Restores(Machine, MIE, f)'
      OBVIOUS
    <3>1. /\ f.privilege = privilege /\ f.pc = trap.pc
          /\ f.ie = Bit(old, MIE)
      BY <1>2 DEF EnterTrap
    <3>2. /\ new \cap kMppMask = Shl(PrivilegeWord(privilege), 11)
          /\ Bit(new, MPIE) = Bit(old, MIE)
      BY <2>1, MppOfOrigin DEF PushMachine, Bit, kMppMask, MIE, MPIE
    <3>3. ReturnTarget(csrs', Machine) = privilege
      BY <3>2, MppOfOrigin
      DEF ReturnTarget, kMppMask, PrivilegeLevel, User, Supervisor, Machine
    <3>. QED
      BY <2>1, <3>1, <3>2, <3>3, EnableRestored
      DEF Restores, ReturnPc, Machine, Supervisor
  <2>3. new \cap {SPIE, SPP} = old \cap {SPIE, SPP}
    BY <2>1, MppOfOrigin DEF PushMachine, kMppMask, MIE, MPIE, SPIE, SPP
  <2>4. sframe' = sframe
    BY <1>2 DEF EnterTrap
  <2>. QED
    BY <2>1, <2>2, <2>3, <2>4, SupervisorFields DEF FramesRestored
<1>. QED
  BY <1>1, <1>2

(* An interrupted context survives in its bank until it is returned to or  *)
(* overwritten, however the two banks' traps nest (FramesRestored).        *)
THEOREM CsrFileFrames == Spec => []FramesRestored
<1>1. Init => FramesRestored
  BY DEF Init, FramesRestored
<1>2. TypeOK /\ TypeOK' /\ FramesRestored /\ [Next]_vars => FramesRestored'
  <2> SUFFICES ASSUME TypeOK, TypeOK', FramesRestored, [Next]_vars
               PROVE  FramesRestored'
    OBVIOUS
  <2>0. /\ csrs \in CsrFileType /\ csrs' \in CsrFileType
        /\ privilege \in PrivilegeLevel
    BY DEF TypeOK
  <2>1. ASSUME NEW w \in Writes, Write(w)
        PROVE  FramesRestored'
    <3>1. CASE WriteRejected(w)
      BY <3>1 DEF WriteRejected, FramesRestored, Restores
    <3>2. CASE WriteAccepted(w)
      <4>1. csrs' = WriteCsr(csrs, w[1], w[2])
        BY <3>2 DEF WriteAccepted
      <4>2. sframe' # {} => /\ csrs'["mstatus"] = csrs["mstatus"]
                            /\ csrs'["sepc"] = csrs["sepc"]
                            /\ sframe' = sframe
        BY <2>0, <3>2, <4>1 DEF WriteAccepted, WriteCsr, CsrFileType, CsrRegister
      <4>3. mframe' # {} => /\ csrs'["mepc"] = csrs["mepc"]
                            /\ mframe' = mframe
        BY <2>0, <3>2, <4>1 DEF WriteAccepted, WriteCsr, CsrFileType, CsrRegister
      <4>4. mframe' # {} => csrs'["mstatus"] \cap ({MPIE} \cup kMppMask)
                             = csrs["mstatus"] \cap ({MPIE} \cup kMppMask)
        <5>1. Merge(csrs["mstatus"], w[2], kSstatusWritableMask)
                \cap ({MPIE} \cup kMppMask)
                = csrs["mstatus"] \cap ({MPIE} \cup kMppMask)
          BY DEF Merge, kSstatusWritableMask, kMppMask, MPIE, SIE, SPIE, SPP,
                 SUM, MXR
        <5>. QED
          BY <2>0, <3>2, <4>1, <5>1
          DEF WriteAccepted, WriteCsr, CsrFileType, CsrRegister
      <4>. QED
        BY <2>0, <4>2, <4>3, <4>4, SupervisorFields, MachineFields DEF FramesRestored
    <3>. QED
      BY <2>1, <3>1, <3>2 DEF Write
  <2>2. ASSUME NEW trap \in Trap, EnterTrap(trap)
        PROVE  FramesRestored'
    BY <2>0, <2>2, EnterTrapFrames
  <2>3. CASE ReturnS
    <3>1. /\ csrs'["mepc"] = csrs["mepc"]
          /\ csrs'["mstatus"] = PopSupervisor(csrs["mstatus"])
          /\ mframe' = mframe /\ sframe' = {}
      BY <2>0, <2>3 DEF ReturnS, return_from_trap, CsrFileType, CsrRegister
    <3>2. csrs'["mstatus"] \cap ({MPIE} \cup kMppMask)
            = csrs["mstatus"] \cap ({MPIE} \cup kMppMask)
      BY <3>1 DEF PopSupervisor, kMppMask, MPIE, SIE, SPIE, SPP, MPRV
    <3>. QED
      BY <2>0, <3>1, <3>2, MachineFields DEF FramesRestored
  <2>4. CASE ReturnM
    <3>1. /\ csrs'["sepc"] = csrs["sepc"]
          /\ csrs'["mstatus"] = PopMachine(csrs["mstatus"], ReturnTarget(csrs, Machine))
          /\ mframe' = {} /\ sframe' = sframe
      BY <2>0, <2>4
      DEF ReturnM, return_from_trap, CsrFileType, CsrRegister, Supervisor, Machine
    <3>2. csrs'["mstatus"] \cap {SPIE, SPP} = csrs["mstatus"] \cap {SPIE, SPP}
      BY <3>1 DEF PopMachine, kMppMask, MPIE, MIE, SPIE, SPP, MPRV
    <3>. QED
      BY <2>0, <3>1, <3>2, SupervisorFields DEF FramesRestored
  <2>5. CASE Tick \/ Retire
    <3>1. /\ csrs'["mstatus"] = csrs["mstatus"]
          /\ csrs'["sepc"] = csrs["sepc"] /\ csrs'["mepc"] = csrs["mepc"]
          /\ sframe' = sframe /\ mframe' = mframe
      BY <2>0, <2>5
      DEF Tick, Retire, tick_cycle, retire_instruction, CsrFileType, CsrRegister
    <3>. QED
      BY <2>0, <3>1, SupervisorFields, MachineFields DEF FramesRestored
  <2>6. CASE Reset
    BY <2>6 DEF Reset, FramesRestored
  <2>7. CASE UNCHANGED vars
    BY <2>7 DEF vars, FramesRestored, Restores
  <2>. QED
    BY <2>1, <2>2, <2>3, <2>4, <2>5, <2>6, <2>7 DEF Next
<1>. QED
  BY <1>1, <1>2, CsrFileTyping, PTL DEF Spec

(* Calls made below M mode leave machine-owned state alone, except for the *)
(* trap that enters M mode (SupervisorConfinement).                        *)
THEOREM CsrFileConfinement == Spec => SupervisorConfinement
<1> DEFINE A == privilege # Machine /\ calls' > calls =>
       /\ \A r \in MachineOnly : csrs'[r] = csrs[r]
       /\ \A r \in MachineBank : csrs'[r] = csrs[r] \/ privilege' = Machine
       /\ \/ csrs'["mstatus"] \cap MachineStack = csrs["mstatus"] \cap MachineStack
          \/ privilege' = Machine
       /\ MPRV \in csrs'["mstatus"] => MPRV \in csrs["mstatus"]
       /\ \A r \in {"mie", "mip"} :
            csrs'[r] \ csrs["mideleg"] = csrs[r] \ csrs["mideleg"]
<1>1. TypeOK /\ [Next]_vars => [A]_vars
  <2> SUFFICES ASSUME TypeOK, Next, privilege # Machine, calls' > calls
               PROVE  A
    OBVIOUS
  <2>0. /\ csrs \in CsrFileType /\ privilege \in {User, Supervisor}
        /\ calls \in Nat
    BY MaxCallsAssumption DEF TypeOK, PrivilegeLevel
  <2>1. ASSUME NEW w \in Writes, Write(w)
        PROVE  A
    <3>1. CASE WriteRejected(w)
      BY <3>1 DEF WriteRejected
    <3>2. CASE WriteAccepted(w)
      <4>1. csrs' = WriteCsr(csrs, w[1], w[2]) /\ w[1] \in SupervisorCsr
        BY <2>0, <3>2, WritesAssumption, WritableBelowMachine DEF WriteAccepted
      <4>2. LET m == Merge(csrs["mstatus"], w[2], kSstatusWritableMask)
            IN  /\ m \cap MachineStack = csrs["mstatus"] \cap MachineStack
                /\ MPRV \in m => MPRV \in csrs["mstatus"]
        BY DEF Merge, MachineStack, kSstatusWritableMask, kMppMask, MIE, MPIE,
               SIE, SPIE, SPP, MPRV, SUM, MXR
      <4>3. \A o, m : Merge(o, w[2], InterruptWritable(csrs, m)) \ csrs["mideleg"]
                        = o \ csrs["mideleg"]
        BY DEF Merge, InterruptWritable
      <4>. QED
        BY <2>0, <4>1, <4>2, <4>3
        DEF WriteCsr, SupervisorCsr, MachineOnly, MachineBank, CsrFileType, CsrRegister
    <3>. QED
      BY <2>1, <3>1, <3>2 DEF Write
  <2>2. ASSUME NEW trap \in Trap, EnterTrap(trap)
        PROVE  A
    <3>1. CASE delegated(csrs, trap.cause, privilege)
      <4>1. LET m == PushSupervisor(csrs["mstatus"], privilege)
            IN  /\ m \cap MachineStack = csrs["mstatus"] \cap MachineStack
                /\ MPRV \in m => MPRV \in csrs["mstatus"]
        BY DEF PushSupervisor, MachineStack, kMppMask, MIE, MPIE, SIE, SPIE, SPP, MPRV
      <4>. QED
        BY <2>0, <2>2, <3>1, <4>1
        DEF EnterTrap, EnterTrapCsrs, MachineOnly, MachineBank, CsrFileType, CsrRegister
    <3>2. CASE ~delegated(csrs, trap.cause, privilege)
      <4>1. privilege' = Machine
        BY <2>2, <3>2 DEF EnterTrap, TrapTarget
      <4>2. privilege \in PrivilegeLevel
        BY <2>0 DEF PrivilegeLevel
      <4>3. MPRV \in PushMachine(csrs["mstatus"], privilege) => MPRV \in csrs["mstatus"]
        BY <4>2, MppOfOrigin DEF PushMachine, kMppMask, MIE, MPIE, MPRV
      <4>. QED
        BY <2>0, <2>2, <3>2, <4>1, <4>3
        DEF EnterTrap, EnterTrapCsrs, MachineOnly, MachineBank, CsrFileType, CsrRegister
    <3>. QED
      BY <3>1, <3>2
  <2>3. CASE ReturnS
    <3>1. LET m == PopSupervisor(csrs["mstatus"])
          IN  /\ m \cap MachineStack = csrs["mstatus"] \cap MachineStack
              /\ MPRV \notin m
      BY DEF PopSupervisor, MachineStack, kMppMask, MIE, MPIE, SIE, SPIE, SPP, MPRV
    <3>. QED
      BY <2>0, <2>3, <3>1
      DEF ReturnS, return_from_trap, MachineOnly, MachineBank, CsrFileType, CsrRegister
  <2>4. CASE ReturnM
    BY <2>4 DEF ReturnM
  <2>5. CASE Tick \/ Retire
    BY <2>0, <2>5
    DEF Tick, Retire, tick_cycle, retire_instruction, MachineOnly, MachineBank,
        CsrFileType, CsrRegister
  <2>6. CASE Reset
    BY <2>0, <2>6 DEF Reset
  <2>. QED
    BY <2>1, <2>2, <2>3, <2>4, <2>5, <2>6 DEF Next
<1>. QED
  BY <1>1, CsrFileTyping, PTL DEF Spec, SupervisorConfinement

(* Reads made below M mode do not depend on machine-owned state, in any    *)
(* state of the file (NoMachineLeak).                                      *)
THEOREM CsrFileNoLeak == Spec => []NoMachineLeak
<1>1. TypeOK => NoMachineLeak
  <2> SUFFICES ASSUME TypeOK, NEW a \in CsrName, NEW p \in {User, Supervisor}
               PROVE  LET verdict == validate_access(csrs, a, p, FALSE)
                      IN  /\ verdict = validate_access(Scrambled(csrs), a, p, FALSE)
                          /\ verdict = "ok" => ReadCsr(csrs, a) = ReadCsr(Scrambled(csrs), a)
    BY DEF NoMachineLeak
  <2> DEFINE s == Scrambled(csrs)
  <2>0. csrs \in CsrFileType
    BY DEF TypeOK
  <2>1. \A r \in {"mideleg", "stvec", "mcounteren", "scounteren", "sscratch",
                  "sepc", "scause", "stval", "satp", "mcycle", "minstret"} : s[r] = csrs[r]
    BY DEF Scrambled, CsrRegister, MachineBank
  <2>2. /\ s["mstatus"] \cap kSstatusWritableMask = csrs["mstatus"] \cap kSstatusWritableMask
        /\ s["mie"] \cap csrs["mideleg"] = csrs["mie"] \cap csrs["mideleg"]
        /\ s["mip"] \cap csrs["mideleg"] = csrs["mip"] \cap csrs["mideleg"]
    <3>1. /\ s["mstatus"] = (csrs["mstatus"] \cap kSstatusWritableMask)
              \cup ((kMstatusWritableMask \ kSstatusWritableMask) \ csrs["mstatus"])
          /\ \A r \in {"mie", "mip"} : s[r] = (csrs[r] \cap csrs["mideleg"])
              \cup (kImplementedInterruptMask \ (csrs[r] \cup csrs["mideleg"]))
      BY DEF Scrambled, CsrRegister, MachineBank
    <3>. QED
      BY <3>1
  <2>3. validate_access(csrs, a, p, FALSE) = validate_access(s, a, p, FALSE)
    BY <2>1 DEF validate_access, counter_enabled
  <2>4. ASSUME validate_access(csrs, a, p, FALSE) = "ok"
        PROVE  ReadCsr(csrs, a) = ReadCsr(s, a)
    <3>1. a \in SupervisorCsr \cup {"cycle", "instret"}
      <4>1. privilege_at_least(p, csr_minimum_privilege(a)) /\ is_implemented(a)
        BY <2>4 DEF validate_access
      <4>2. csr_minimum_privilege(a) # Machine
        BY <4>1 DEF privilege_at_least, User, Supervisor, Machine
      <4>3. (CsrAddress[a] \div 256) % 4 \in {0, 1}
        BY <4>2 DEF csr_minimum_privilege
      <4>. QED
        BY <4>1, <4>3 DEF CsrName, CsrAddress, is_implemented, SupervisorCsr
    <3>. QED
      BY <2>1, <2>2, <3>1 DEF ReadCsr, InterruptView, SupervisorCsr
  <2>. QED
    BY <2>3, <2>4
<1>. QED
  BY <1>1, CsrFileTyping, PTL
=============================================================================
