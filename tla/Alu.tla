-------------------------------- MODULE Alu --------------------------------
(***************************************************************************)
(* The register-to-register and register-immediate operations of           *)
(* Cpu::execute, on 64-bit words.  Immediates are sign-extended words.     *)
(***************************************************************************)
EXTENDS Words

Sub(v, w) == Complement(Add(Complement(v), w))
Xor(v, w) == (v \ w) \cup (w \ v)

(* signed_value(v) < signed_value(w): the sign bit orders the other way.   *)
SignedBelow(v, w) == Below(Xor(v, {63}), Xor(w, {63}))

Truth(p) == IF p THEN {0} ELSE {}

(* w & ((1 << n) - 1) as a number, for shift amounts.                      *)
Amount(w, n) ==
  Bit(w, 0) + 2 * Bit(w, 1) + 4 * Bit(w, 2) + 8 * Bit(w, 3) + 16 * Bit(w, 4)
    + (IF n = 6 THEN 32 * Bit(w, 5) ELSE 0)

Low32(w) == w \cap 0..31
sign_extend_word(w) == SignExtend(Low32(w), 32)

arithmetic_shift_right(w, n) ==
  Shr(w, n) \cup (IF 63 \in w THEN 64-n..63 ELSE {})
arithmetic_shift_right_word(w, n) ==
  Shr(Low32(w), n) \cup (IF 31 \in w THEN 32-n..31 ELSE {})

AluOps ==
  {"lui", "auipc", "addi", "slti", "sltiu", "xori", "ori", "andi", "slli",
   "srli", "srai", "add", "sub", "sll", "slt", "sltu", "xor", "srl", "sra",
   "or", "and", "addiw", "slliw", "srliw", "sraiw", "addw", "subw", "sllw",
   "srlw", "sraw"}

AluResult(op, pc, lhs, rhs, imm) ==
  CASE op = "lui" -> imm
    [] op = "auipc" -> Add(pc, imm)
    [] op = "addi" -> Add(lhs, imm)
    [] op = "slti" -> Truth(SignedBelow(lhs, imm))
    [] op = "sltiu" -> Truth(Below(lhs, imm))
    [] op = "xori" -> Xor(lhs, imm)
    [] op = "ori" -> lhs \cup imm
    [] op = "andi" -> lhs \cap imm
    [] op = "slli" -> Shl(lhs, Amount(imm, 6))
    [] op = "srli" -> Shr(lhs, Amount(imm, 6))
    [] op = "srai" -> arithmetic_shift_right(lhs, Amount(imm, 6))
    [] op = "add" -> Add(lhs, rhs)
    [] op = "sub" -> Sub(lhs, rhs)
    [] op = "sll" -> Shl(lhs, Amount(rhs, 6))
    [] op = "slt" -> Truth(SignedBelow(lhs, rhs))
    [] op = "sltu" -> Truth(Below(lhs, rhs))
    [] op = "xor" -> Xor(lhs, rhs)
    [] op = "srl" -> Shr(lhs, Amount(rhs, 6))
    [] op = "sra" -> arithmetic_shift_right(lhs, Amount(rhs, 6))
    [] op = "or" -> lhs \cup rhs
    [] op = "and" -> lhs \cap rhs
    [] op = "addiw" -> sign_extend_word(Add(lhs, imm))
    [] op = "slliw" -> sign_extend_word(Shl(Low32(lhs), Amount(imm, 5)))
    [] op = "srliw" -> sign_extend_word(Shr(Low32(lhs), Amount(imm, 5)))
    [] op = "sraiw" ->
         sign_extend_word(arithmetic_shift_right_word(lhs, Amount(imm, 5)))
    [] op = "addw" -> sign_extend_word(Add(Low32(lhs), Low32(rhs)))
    [] op = "subw" -> sign_extend_word(Sub(Low32(lhs), Low32(rhs)))
    [] op = "sllw" -> sign_extend_word(Shl(Low32(lhs), Amount(rhs, 5)))
    [] op = "srlw" -> sign_extend_word(Shr(Low32(lhs), Amount(rhs, 5)))
    [] op = "sraw" ->
         sign_extend_word(arithmetic_shift_right_word(lhs, Amount(rhs, 5)))

BranchOps == {"beq", "bne", "blt", "bge", "bltu", "bgeu"}

BranchTaken(op, lhs, rhs) ==
  CASE op = "beq" -> lhs = rhs
    [] op = "bne" -> lhs # rhs
    [] op = "blt" -> SignedBelow(lhs, rhs)
    [] op = "bge" -> ~SignedBelow(lhs, rhs)
    [] op = "bltu" -> Below(lhs, rhs)
    [] op = "bgeu" -> ~Below(lhs, rhs)
=============================================================================
