----------------------------- MODULE MCCsrFile -----------------------------
(***************************************************************************)
(* CsrFile for TLC.  The values aim at the masks: all ones, none, the      *)
(* reserved MPP = 2, reserved satp modes, unaligned vectors.               *)
(***************************************************************************)
EXTENDS CsrFile

Ones == Bits

MCWrites ==
  ({"mstatus", "sstatus"} \X {{}, Ones})
  \cup ({"mstatus"} \X {Ones \ {11}, {SIE, MPIE, 11, MPRV}})
  \cup ({"satp"} \X {{63, 4}, {63, 60, 5}})
  \cup ({"medeleg", "mideleg", "mie", "mip", "sie", "sip", "mtvec", "sepc",
         "mepc", "scounteren", "misa", "cycle", "hstatus"} \X {Ones})
  \cup ({"sie", "sip"} \X {{}})

MCCauses == {8, 11}
MCTrapPcs == {{31}, {31, 1, 3}}
MCTrapValues == {{}}
=============================================================================
