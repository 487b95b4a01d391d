------------------------------ MODULE Encoding ------------------------------
(***************************************************************************)
(* The instruction encodings of RV64I, Zicsr, Zifencei and the privileged  *)
(* instructions of docs/isa-support.md, as the ISA manual tabulates them:  *)
(* a format and fixed fields for each operation, and for each format the   *)
(* place of every immediate bit.  It is written from the other end than    *)
(* decode.cpp, instruction to word, and is what module Decode is checked   *)
(* against.                                                                *)
(***************************************************************************)
EXTENDS Words

(* A row: the format, and the numbers its fixed fields hold.               *)
E(format, opcode, funct3, funct7) ==
  [format |-> format, opcode |-> opcode, funct3 |-> funct3, funct7 |-> funct7,
   funct5 |-> 0]
(* A privileged instruction without operands has a code in place of rs2.   *)
P(funct7, funct5) == [E("whole", 115, 0, funct7) EXCEPT !.funct5 = funct5]

Table ==
  [lui |-> E("U", 55, 0, 0), auipc |-> E("U", 23, 0, 0),
   jal |-> E("J", 111, 0, 0), jalr |-> E("I", 103, 0, 0),
   beq |-> E("B", 99, 0, 0), bne |-> E("B", 99, 1, 0), blt |-> E("B", 99, 4, 0),
   bge |-> E("B", 99, 5, 0), bltu |-> E("B", 99, 6, 0), bgeu |-> E("B", 99, 7, 0),
   lb |-> E("I", 3, 0, 0), lh |-> E("I", 3, 1, 0), lw |-> E("I", 3, 2, 0),
   ld |-> E("I", 3, 3, 0), lbu |-> E("I", 3, 4, 0), lhu |-> E("I", 3, 5, 0),
   lwu |-> E("I", 3, 6, 0),
   sb |-> E("S", 35, 0, 0), sh |-> E("S", 35, 1, 0), sw |-> E("S", 35, 2, 0),
   sd |-> E("S", 35, 3, 0),
   addi |-> E("I", 19, 0, 0), slti |-> E("I", 19, 2, 0), sltiu |-> E("I", 19, 3, 0),
   xori |-> E("I", 19, 4, 0), ori |-> E("I", 19, 6, 0), andi |-> E("I", 19, 7, 0),
   slli |-> E("shift6", 19, 1, 0), srli |-> E("shift6", 19, 5, 0),
   srai |-> E("shift6", 19, 5, 32),
   add |-> E("R", 51, 0, 0), sub |-> E("R", 51, 0, 32), sll |-> E("R", 51, 1, 0),
   slt |-> E("R", 51, 2, 0), sltu |-> E("R", 51, 3, 0), xor |-> E("R", 51, 4, 0),
   srl |-> E("R", 51, 5, 0), sra |-> E("R", 51, 5, 32), or |-> E("R", 51, 6, 0),
   and |-> E("R", 51, 7, 0),
   addiw |-> E("I", 27, 0, 0), slliw |-> E("shift5", 27, 1, 0),
   srliw |-> E("shift5", 27, 5, 0), sraiw |-> E("shift5", 27, 5, 32),
   addw |-> E("R", 59, 0, 0), subw |-> E("R", 59, 0, 32), sllw |-> E("R", 59, 1, 0),
   srlw |-> E("R", 59, 5, 0), sraw |-> E("R", 59, 5, 32),
   fence |-> E("fence", 15, 0, 0), fence_i |-> E("whole", 15, 1, 0),
   sfence_vma |-> E("SFENCE", 115, 0, 9),
   ecall |-> P(0, 0), ebreak |-> P(0, 1), sret |-> P(8, 2), mret |-> P(24, 2),
   wfi |-> P(8, 5),
   csrrw |-> E("csr", 115, 1, 0), csrrs |-> E("csr", 115, 2, 0),
   csrrc |-> E("csr", 115, 3, 0), csrrwi |-> E("csr", 115, 5, 0),
   csrrsi |-> E("csr", 115, 6, 0), csrrci |-> E("csr", 115, 7, 0)]

(* The bits a row fixes.                                                   *)
Fixed(e) ==
  NatWord(e.opcode) \cup Shl(NatWord(e.funct3), 12)
    \cup Shl(NatWord(e.funct5), 20) \cup Shl(NatWord(e.funct7), 25)

(* Where the bits of an immediate go, by format.                           *)
ImmediatePlace(format) ==
  CASE format = "I" -> [b \in 0..11 |-> b + 20]
    [] format = "S" -> [b \in 0..11 |-> IF b < 5 THEN b + 7 ELSE b + 20]
    [] format = "B" -> [b \in 1..12 |-> IF b < 5 THEN b + 7
                          ELSE CASE b = 11 -> 7 [] b = 12 -> 31 [] OTHER -> b + 20]
    [] format = "U" -> [b \in 12..31 |-> b]
    [] format = "J" -> [b \in 1..20 |-> CASE b < 11 -> b + 20 [] b = 11 -> 20
                          [] b = 20 -> 31 [] OTHER -> b]
    [] format = "shift6" -> [b \in 0..5 |-> b + 20]
    [] format = "shift5" -> [b \in 0..4 |-> b + 20]
    [] OTHER -> <<>>
SignBit(format) ==
  CASE format \in {"I", "S"} -> {11} [] format = "B" -> {12} [] format = "U" -> {31}
    [] format = "J" -> {20} [] OTHER -> {}

HasRd(format) == format \in {"R", "I", "shift6", "shift5", "U", "J", "csr"}
HasRs1(format) ==
  format \in {"R", "I", "shift6", "shift5", "S", "B", "csr", "SFENCE"}
HasRs2(format) == format \in {"R", "S", "B", "SFENCE"}
Ignored(format) == IF format = "fence" THEN (7..11) \cup (15..31) ELSE {}

(* The bits of a word that hold operands.                                  *)
OperandBits(format) ==
  LET place == ImmediatePlace(format)
  IN {place[b] : b \in DOMAIN place}
       \cup (IF HasRd(format) THEN 7..11 ELSE {})
       \cup (IF HasRs1(format) THEN 15..19 ELSE {})
       \cup (IF HasRs2(format) THEN 20..24 ELSE {})
       \cup (IF format = "csr" THEN 20..31 ELSE {})

Encode(i) ==
  LET format == Table[i.op].format
      place == ImmediatePlace(format)
  IN Fixed(Table[i.op])
       \cup {place[b] : b \in i.imm \cap DOMAIN place}
       \cup (IF HasRd(format) THEN Shl(NatWord(i.rd), 7) ELSE {})
       \cup (IF HasRs1(format) THEN Shl(NatWord(i.rs1), 15) ELSE {})
       \cup (IF HasRs2(format) THEN Shl(NatWord(i.rs2), 20) ELSE {})
       \cup (IF format = "csr" THEN Shl(i.csr, 20) ELSE {})

(* The operations a word encodes: its bits outside the operands are fixed. *)
Encodings(raw) ==
  {op \in DOMAIN Table :
     raw \ (OperandBits(Table[op].format) \cup Ignored(Table[op].format))
       = Fixed(Table[op])}
=============================================================================
