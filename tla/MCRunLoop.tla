----------------------------- MODULE MCRunLoop -----------------------------
(***************************************************************************)
(* The run loop over every program of two instructions from a short list,  *)
(* with a machine trap vector at the second one, or at address 0, where    *)
(* nothing is mapped and the handler itself traps.                         *)
(***************************************************************************)
EXTENDS RunLoop, Programs

(* ADDI, a jump to itself, EBREAK, ECALL, WFI, a store to the UART.        *)
List ==
  <<I("addi", 1, 1, 0, {0}), I("jal", 0, 0, 0, {}), Plain("ebreak"),
    Plain("ecall"), Plain("wfi"), I("sb", 0, 7, 1, {})>>

Assembly == Assembled(List)
MCInstructionSet == Decoder(Assembly)
MCRams ==
  {Placed(Code, WordOf(List[first])) \cup Placed(CodeSlot(1), WordOf(List[second])) :
     first, second \in DOMAIN List}

MCRegisters == {[x \in RegIndex |-> IF x = 7 THEN {28} ELSE {}]}
MCCsrs == {ResetCsrs, [ResetCsrs EXCEPT !["mtvec"] = CodeSlot(1)]}
MCEntries == {Code}
MCPrivileges == {Machine}
=============================================================================
