------------------------------- MODULE Decode -------------------------------
(***************************************************************************)
(* decode(): the instruction a 32-bit word encodes, as a set of at most    *)
(* one; the empty set is a DecodeError.  Words are sets of bits, as in     *)
(* module Words.                                                           *)
(***************************************************************************)
EXTENDS Words

(* A field of the word as a number.                                        *)
field(raw, shift, n) == Value(Field(raw, shift, n))

immediate_i(raw) == SignExtend(Shr(raw, 20), 12)

immediate_s(raw) == SignExtend(Shl(Shr(raw, 25), 5) \cup Field(raw, 7, 5), 12)

immediate_b_low_bit_11(raw) ==
  SignExtend(Shl(Shr(raw, 31), 12) \cup Shl(Field(raw, 25, 6), 5)
               \cup Field(raw, 7, 5), 13)
immediate_b(raw) ==
  SignExtend(Shl(Shr(raw, 31), 12) \cup Shl(Field(raw, 7, 1), 11)
               \cup Shl(Field(raw, 25, 6), 5) \cup Shl(Field(raw, 8, 4), 1), 13)

immediate_u(raw) == SignExtend(raw \ 0..11, 32)

immediate_j(raw) ==
  SignExtend(Shl(Shr(raw, 31), 20) \cup Shl(Field(raw, 12, 8), 12)
               \cup Shl(Field(raw, 20, 1), 11) \cup Shl(Field(raw, 21, 10), 1), 21)

error == {}

(* Every field is filled in, whether or not the operation has it.          *)
instruction(raw, operation, immediate) ==
  {[op |-> operation, rd |-> field(raw, 7, 5), rs1 |-> field(raw, 15, 5),
    rs2 |-> field(raw, 20, 5), imm |-> immediate, csr |-> Field(raw, 20, 12)]}

(* A switch: the operation whose selector in the table is the one given,   *)
(* if there is one.                                                        *)
Select(table, selector, raw, immediate) ==
  UNION {instruction(raw, op, immediate) :
           op \in {o \in DOMAIN table : table[o] = selector}}

decode_branch(raw, funct3) ==
  Select([beq |-> 0, bne |-> 1, blt |-> 4, bge |-> 5, bltu |-> 6, bgeu |-> 7],
         funct3, raw, immediate_b(raw))

decode_load(raw, funct3) ==
  Select([lb |-> 0, lh |-> 1, lw |-> 2, ld |-> 3, lbu |-> 4, lhu |-> 5, lwu |-> 6],
         funct3, raw, immediate_i(raw))

decode_store(raw, funct3) ==
  Select([sb |-> 0, sh |-> 1, sw |-> 2, sd |-> 3], funct3, raw, immediate_s(raw))

(* Immediate shifts have a six-bit amount below funct6.                    *)
decode_op_imm(raw, funct3) ==
  IF funct3 \in {1, 5}
  THEN Select([slli |-> <<1, 0>>, srli |-> <<5, 0>>, srai |-> <<5, 16>>],
              <<funct3, field(raw, 26, 6)>>, raw, Field(raw, 20, 6))
  ELSE Select([addi |-> 0, slti |-> 2, sltiu |-> 3, xori |-> 4, ori |-> 6, andi |-> 7],
              funct3, raw, immediate_i(raw))

(* The register forms are selected by funct7 and funct3.                   *)
OpTable ==
  [add |-> <<0, 0>>, sll |-> <<0, 1>>, slt |-> <<0, 2>>, sltu |-> <<0, 3>>,
   xor |-> <<0, 4>>, srl |-> <<0, 5>>, or |-> <<0, 6>>, and |-> <<0, 7>>,
   sub |-> <<32, 0>>, sra |-> <<32, 5>>]

decode_op_bit_30_only(raw, funct3) ==
  Select(OpTable, <<32 * Bit(raw, 30), funct3>>, raw, {})
decode_op(raw, funct3) == Select(OpTable, <<field(raw, 25, 7), funct3>>, raw, {})

decode_op_imm_32(raw, funct3) ==
  IF funct3 = 0 THEN instruction(raw, "addiw", immediate_i(raw))
  ELSE Select([slliw |-> <<0, 1>>, srliw |-> <<0, 5>>, sraiw |-> <<32, 5>>],
              <<field(raw, 25, 7), funct3>>, raw, Field(raw, 20, 5))

decode_op_32(raw, funct3) ==
  Select([addw |-> <<0, 0>>, sllw |-> <<0, 1>>, srlw |-> <<0, 5>>,
          subw |-> <<32, 0>>, sraw |-> <<32, 5>>],
         <<field(raw, 25, 7), funct3>>, raw, {})

(* With funct3 zero the whole word is fixed, but for the two registers of  *)
(* SFENCE.VMA.  The selectors are words: 0x10200073 is SRET.               *)
System == {0, 1, 4, 5, 6}
decode_system(raw, funct3) ==
  IF funct3 = 0
  THEN IF raw \ 15..24 = System \cup {25, 28}
       THEN instruction(raw, "sfence_vma", {})
       ELSE Select([ecall |-> System, ebreak |-> System \cup {20},
                    sret |-> System \cup {21, 28}, mret |-> System \cup {21, 28, 29},
                    wfi |-> System \cup {20, 22, 28}], raw, raw, {})
  ELSE Select([csrrw |-> 1, csrrs |-> 2, csrrc |-> 3, csrrwi |-> 5, csrrsi |-> 6,
               csrrci |-> 7], funct3, raw, {})

decode_misc_mem(raw, funct3) ==
  IF funct3 = 0 THEN instruction(raw, "fence", {})
  ELSE IF raw = {0, 1, 2, 3, 12} THEN instruction(raw, "fence_i", {}) ELSE error

decode(raw) ==
  LET opcode == field(raw, 0, 7)
      funct3 == field(raw, 12, 3)
  IN CASE opcode = 55 -> instruction(raw, "lui", immediate_u(raw))
       [] opcode = 23 -> instruction(raw, "auipc", immediate_u(raw))
       [] opcode = 111 -> instruction(raw, "jal", immediate_j(raw))
       [] opcode = 103 /\ funct3 = 0 -> instruction(raw, "jalr", immediate_i(raw))
       [] opcode = 99 -> decode_branch(raw, funct3)
       [] opcode = 3 -> decode_load(raw, funct3)
       [] opcode = 35 -> decode_store(raw, funct3)
       [] opcode = 19 -> decode_op_imm(raw, funct3)
       [] opcode = 51 -> decode_op(raw, funct3)
       [] opcode = 27 -> decode_op_imm_32(raw, funct3)
       [] opcode = 59 -> decode_op_32(raw, funct3)
       [] opcode = 15 -> decode_misc_mem(raw, funct3)
       [] opcode = 115 -> decode_system(raw, funct3)
       [] OTHER -> error      \* compressed words end here too
=============================================================================
