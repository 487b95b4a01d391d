------------------------------ MODULE CsrFile ------------------------------
(***************************************************************************)
(* The CsrFile object and its caller's privilege.  Any sequence of its     *)
(* public calls is explored: CSR writes at the current privilege, trap     *)
(* entries, trap returns, the counters and reset.  The caller follows the  *)
(* target of every TrapEntry and TrapReturn, as Cpu does.                  *)
(*                                                                         *)
(* sframe and mframe are history variables.  While a bank holds the        *)
(* context of an interrupted program, the frame is that context; it is     *)
(* gone once the bank is used by a return, or software writes a register   *)
(* that carries part of it.                                                *)
(***************************************************************************)
EXTENDS Csr

CONSTANTS Writes,      \* the <<name, value>> pairs a caller may write
          Causes,      \* the exception causes that occur
          TrapPcs,     \* the pcs that trap
          TrapValues,  \* the xtval values reported
          MaxCalls     \* bound on the calls between two resets

ASSUME WritesAssumption == Writes \subseteq CsrName \X Word
ASSUME TrapAssumption ==
  Causes \subseteq 0..15 /\ TrapPcs \subseteq Word /\ TrapValues \subseteq Word
ASSUME MaxCallsAssumption == MaxCalls \in Nat

VARIABLES csrs, privilege, sframe, mframe, calls

vars == <<csrs, privilege, sframe, mframe, calls>>

Frame == [privilege : PrivilegeLevel, pc : Word, ie : {0, 1}]

Init ==
  /\ csrs = ResetCsrs
  /\ privilege = Machine
  /\ sframe = {}
  /\ mframe = {}
  /\ calls = 0

Call ==
  /\ calls < MaxCalls
  /\ calls' = calls + 1

(* CsrFile::write.  A rejected write changes nothing (the caller traps).   *)
WriteAccepted(w) ==
  /\ validate_access(csrs, w[1], privilege, TRUE) = "ok"
  /\ csrs' = WriteCsr(csrs, w[1], w[2])
  /\ sframe' = IF w[1] \in {"mstatus", "sstatus", "sepc"} THEN {} ELSE sframe
  /\ mframe' = IF w[1] \in {"mstatus", "mepc"} THEN {} ELSE mframe
  /\ UNCHANGED privilege

WriteRejected(w) ==
  /\ validate_access(csrs, w[1], privilege, TRUE) # "ok"
  /\ UNCHANGED <<csrs, privilege, sframe, mframe>>

Write(w) == Call /\ (WriteAccepted(w) \/ WriteRejected(w))

(* CsrFile::enter_trap, for a trap raised at the caller's privilege.       *)
EnterTrap(trap) ==
  /\ Call
  /\ csrs' = EnterTrapCsrs(csrs, trap, privilege)
  /\ privilege' = TrapTarget(csrs, trap.cause, privilege)
  /\ IF delegated(csrs, trap.cause, privilege)
     THEN /\ sframe' = {[privilege |-> privilege, pc |-> trap.pc,
                         ie |-> Bit(csrs["mstatus"], SIE)]}
          /\ UNCHANGED mframe
     ELSE /\ mframe' = {[privilege |-> privilege, pc |-> trap.pc,
                         ie |-> Bit(csrs["mstatus"], MIE)]}
          /\ UNCHANGED sframe

(* CsrFile::return_from_trap.  Cpu calls it from SRET only in S or M mode, *)
(* and from MRET only in M mode.                                           *)
ReturnS ==
  /\ Call
  /\ privilege # User
  /\ csrs' = return_from_trap(csrs, Supervisor)
  /\ privilege' = ReturnTarget(csrs, Supervisor)
  /\ sframe' = {}
  /\ UNCHANGED mframe

ReturnM ==
  /\ Call
  /\ privilege = Machine
  /\ csrs' = return_from_trap(csrs, Machine)
  /\ privilege' = ReturnTarget(csrs, Machine)
  /\ mframe' = {}
  /\ UNCHANGED sframe

Tick ==
  /\ Call
  /\ csrs' = tick_cycle(csrs)
  /\ UNCHANGED <<privilege, sframe, mframe>>

Retire ==
  /\ Call
  /\ csrs' = retire_instruction(csrs)
  /\ UNCHANGED <<privilege, sframe, mframe>>

(* CsrFile::reset, from Cpu::reset, which also returns the hart to M mode. *)
Reset ==
  /\ csrs' = ResetCsrs
  /\ privilege' = Machine
  /\ sframe' = {}
  /\ mframe' = {}
  /\ calls' = 0

Trap == [cause : Causes, pc : TrapPcs, value : TrapValues]

Next ==
  \/ \E w \in Writes : Write(w)
  \/ \E trap \in Trap : EnterTrap(trap)
  \/ ReturnS
  \/ ReturnM
  \/ Tick
  \/ Retire
  \/ Reset

Spec == Init /\ [][Next]_vars

-----------------------------------------------------------------------------
(* The registers, the privilege and the frames have their types.           *)
TypeOK ==
  /\ csrs \in CsrFileType
  /\ privilege \in PrivilegeLevel
  /\ sframe \in SUBSET Frame
  /\ mframe \in SUBSET Frame
  /\ calls \in 0..MaxCalls

(* No sequence of writes, trap entries and returns leaves a reserved or    *)
(* unimplemented encoding in a register: mstatus.MPP is never 2, and every *)
(* field a write masks stays within its mask (csr.cpp write, enter_trap    *)
(* and return_from_trap).                                                  *)
WarlInv == Warl(csrs)

(* MPRV is only ever set in M mode: whatever way the hart leaves M mode,   *)
(* return_from_trap has cleared it (csr.cpp:371 and 389-391), and nothing  *)
(* below M mode can set it again.                                          *)
MprvOnlyInMachine == privilege # Machine => MPRV \notin csrs["mstatus"]

(* A bank that holds an interrupted context returns exactly to it: xRET    *)
(* goes to the interrupted pc and privilege, and leaves in xIE the enable  *)
(* the trap found there, however many traps were taken into, and returned  *)
(* from, the other bank in between (csr.cpp enter_trap and                 *)
(* return_from_trap).                                                      *)
Restores(mode, ie, frame) ==
  /\ ReturnTarget(csrs, mode) = frame.privilege
  /\ ReturnPc(csrs, mode) = AlignDown4(frame.pc)
  /\ Bit(return_from_trap(csrs, mode)["mstatus"], ie) = frame.ie

FramesRestored ==
  /\ \A f \in sframe : Restores(Supervisor, SIE, f)
  /\ \A f \in mframe : Restores(Machine, MIE, f)

(* What M mode owns: everything that no supervisor CSR exposes.  A trap    *)
(* into M mode uses the machine bank and stack; nothing else below M mode  *)
(* changes them.  MPRV is cleared by SRET, so it may only go away.         *)
MachineBank == {"mepc", "mcause", "mtval"}
MachineOnly == {"medeleg", "mideleg", "mtvec", "mcounteren", "mscratch"}
MachineStack == {MIE, MPIE} \cup kMppMask

(* A call made below M mode changes no machine-owned state, unless it is   *)
(* the trap that enters M mode, which changes only the machine bank and    *)
(* stack; and of mie and mip it changes delegated bits only (csr.cpp       *)
(* write, the views sstatus, sie and sip).                                 *)
SupervisorConfinement ==
  [][privilege # Machine /\ calls' > calls =>
       /\ \A r \in MachineOnly : csrs'[r] = csrs[r]
       /\ \A r \in MachineBank : csrs'[r] = csrs[r] \/ privilege' = Machine
       /\ \/ csrs'["mstatus"] \cap MachineStack = csrs["mstatus"] \cap MachineStack
          \/ privilege' = Machine
       /\ MPRV \in csrs'["mstatus"] => MPRV \in csrs["mstatus"]
       /\ \A r \in {"mie", "mip"} :
            csrs'[r] \ csrs["mideleg"] = csrs[r] \ csrs["mideleg"]
    ]_vars

(* The file with all machine-owned state replaced: the part of mstatus     *)
(* that sstatus hides, the undelegated interrupt bits, and the machine     *)
(* registers.  mideleg and mcounteren stay, they shape the views.          *)
Scrambled(c) ==
  [r \in CsrRegister |->
     CASE r = "mstatus" ->
            (c[r] \cap kSstatusWritableMask)
              \cup ((kMstatusWritableMask \ kSstatusWritableMask) \ c[r])
       [] r \in {"mie", "mip"} ->
            (c[r] \cap c["mideleg"])
              \cup (kImplementedInterruptMask \ (c[r] \cup c["mideleg"]))
       [] r \in MachineBank \cup {"medeleg", "mtvec", "mscratch"} ->
            Complement(c[r])
       [] OTHER -> c[r]]

(* Below M mode a CSR read tells nothing of machine-owned state: it gives  *)
(* the same error or value when that state is replaced (csr.cpp read).     *)
NoMachineLeak ==
  \A a \in CsrName : \A p \in {User, Supervisor} :
    LET verdict == validate_access(csrs, a, p, FALSE)
    IN  /\ verdict = validate_access(Scrambled(csrs), a, p, FALSE)
        /\ verdict = "ok" => ReadCsr(csrs, a) = ReadCsr(Scrambled(csrs), a)
=============================================================================
