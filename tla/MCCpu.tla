------------------------------- MODULE MCCpu -------------------------------
(***************************************************************************)
(* Cpu for TLC.  Each run takes every program of three instructions over   *)
(* its instruction set, from several privileges and CSR set-ups; the       *)
(* fourth slot holds zeros, an illegal instruction.  Machine traps go to   *)
(* the second slot, delegated ones to the third, so that handlers are      *)
(* programs too.  Programs are machine words: an instruction is placed in  *)
(* memory in its encoding, and what executes is what decode makes of it.   *)
(* The table of a run has every word its programs place in the code, or    *)
(* store there, and that decode accepts.                                   *)
(***************************************************************************)
EXTENDS Cpu, Programs

Data == {31, 14}                   \* 0x8000_4000
Uart == {28}                       \* 0x1000_0000
Ones == Bits

ProgramRams(words) ==
  {UNION {Placed(CodeSlot(k), program[k]) : k \in 0..2} :
     program \in [0..2 -> words]}

Csrs(medeleg, satp) ==
  [ResetCsrs EXCEPT !["mtvec"] = CodeSlot(1), !["stvec"] = CodeSlot(2),
                    !["mepc"] = Code, !["sepc"] = Code,
                    !["medeleg"] = medeleg \cap kDelegatableExceptionMask,
                    !["mideleg"] = {1}, !["mcounteren"] = {0},
                    !["satp"] = satp]

(* x5: all ones but MPP[0]; x6, x7: the data page and the UART; x8: the    *)
(* encoding of ECALL; x9: the address of the second code slot.             *)
MCBootRegisters ==
  {[x \in RegIndex |->
      CASE x = 5 -> Ones \ {11} [] x = 6 -> Data [] x = 7 -> Uart
        [] x = 8 -> WordOf(Plain("ecall")) [] x = 9 -> CodeSlot(1) [] OTHER -> {}]}
MCEntries == {Code}

-----------------------------------------------------------------------------
(* Mode changes and CSR accesses.                                          *)
ModesList ==
  <<Plain("ecall"), Plain("ebreak"), Plain("mret"), Plain("sret"),
    Plain("wfi"), Plain("sfence_vma"),
    CsrI("csrrw", 1, "mstatus", 5), CsrI("csrrs", 1, "sstatus", 5),
    CsrI("csrrw", 0, "sie", 5), CsrI("csrrsi", 0, "mie", 31),
    CsrI("csrrw", 0, "mepc", 9), CsrI("csrrs", 1, "cycle", 0)>>

ModesAssembly == Assembled(ModesList)
ModesSet == Decoder(ModesAssembly)
ModesCsrs == {Csrs({}, {}), Csrs(Ones, {})}
ModesRams == ProgramRams(DOMAIN ModesSet)

(* Memory accesses, jumps, branches and arithmetic, in M mode.  SW x8      *)
(* overwrites the second instruction.                                      *)
MemoryList ==
  <<Plain("ecall"), Plain("wfi"),
    I("lw", 1, 6, 0, {}), I("lh", 1, 6, 0, {0}), I("lbu", 1, 7, 0, {0, 2}),
    I("lw", 1, 7, 0, {}), I("sd", 0, 6, 5, {}), I("sb", 0, 7, 5, {}),
    I("sw", 0, 9, 8, {}), I("sh", 0, 0, 5, {}),
    I("jal", 1, 0, 0, 3..63), I("jalr", 1, 9, 0, {1}),
    I("beq", 0, 0, 0, {1}), I("bltu", 0, 1, 5, {3}),
    I("subw", 1, 1, 5, {}), I("addi", 0, 5, 0, {0})>>

MemoryAssembly == Assembled(MemoryList)
MemorySet == Decoder(MemoryAssembly)
MemoryPrivileges == {Machine}
MemoryCsrs == {Csrs({}, {})}
MemoryRams == ProgramRams(DOMAIN MemorySet)
(* The ELF loader takes any entry inside a segment, aligned or not.        *)
MemoryEntries == {Code, Code \cup {1}}

(* Sv39.  The fourth slot is SRET, so that a fault handler can end.  The   *)
(* user's code page is at 0x1000 and its data page at 0x2000; the kernel   *)
(* is the identity gigapage at 0x8000_0000.  At 0x3000 there is the UART,  *)
(* a page whose D bit is clear, or the last-level table itself.            *)
Root == {31, 12}
Middle == {31, 13}
Last == {31, 12, 13}
Entry(address, flags) == Shl(Shr(address, 12), 10) \cup flags \cup {kPteV}
Rwx == {kPteR, kPteW, kPteX, kPteA, kPteD}
UserRw == {kPteU, kPteR, kPteW, kPteA, kPteD}

PageTables(third) ==
  Placed(Root, Entry(Middle, {})) \cup Placed(Root \cup {4}, Entry({31}, Rwx))
  \cup Placed(Middle, Entry(Last, {}))
  \cup Placed(Last \cup {3}, Entry(Code, {kPteU, kPteR, kPteX, kPteA}))
  \cup Placed(Last \cup {4}, Entry(Data, UserRw))
  \cup Placed(Last \cup {3, 4}, third)

PagedList ==
  <<Plain("ecall"), Plain("sret"), Plain("sfence_vma"),
    I("sd", 0, 6, 5, {}), I("sb", 0, 7, 5, {}), I("sw", 0, 9, 5, {}),
    I("sd", 0, 10, 5, {}), I("lw", 1, 6, 0, {}), I("jalr", 0, 9, 0, {}),
    CsrI("csrrs", 0, "sstatus", 11)>>

(* Storing x5 over an instruction makes it LB x0, 0(x0).                   *)
Overwritten == <<I("lb", 0, 0, 0, {})>>

PagedWords == {WordOf(PagedList[k]) : k \in DOMAIN PagedList}
PagedAssembly == Assembled(PagedList \o Overwritten)
PagedSet == Decoder(PagedAssembly)
PagedPrivileges == {User, Supervisor}
PagedPcs == {{12}, Code}
PagedCsrs == {Csrs({12, 13, 15}, {63} \cup Shr(Root, 12))}
PagedRams ==
  {program \cup Placed(CodeSlot(3), WordOf(Plain("sret"))) \cup PageTables(third) :
     program \in ProgramRams(PagedWords),
     third \in {Entry(Uart, UserRw), Entry(Data, UserRw \ {kPteD}),
                Entry(Last, UserRw)}}

(* x6, x7: the user's pages; x9: kernel code; x10: the entry of the data   *)
(* page, as the kernel sees it; x11: SUM.                                  *)
PagedRegisters ==
  {[x \in RegIndex |->
      CASE x = 5 -> {0, 1} [] x = 6 -> {13} [] x = 7 -> {12, 13}
        [] x = 9 -> CodeSlot(1) [] x = 10 -> Last \cup {4}
        [] x = 11 -> {SUM} [] OTHER -> {}]}
=============================================================================
