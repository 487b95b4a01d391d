------------------------------ MODULE Programs ------------------------------
(***************************************************************************)
(* Guest programs for the models: instructions, their words by the         *)
(* encoding table, the words in memory, and what decode makes of them.     *)
(***************************************************************************)
EXTENDS Csr, PhysicalBus, Decode, Encoding

Code == {31}                       \* 0x8000_0000
CodeSlot(k) == Code \cup Shl(NatWord(k), 2)

I(op, rd, rs1, rs2, imm) ==
  [op |-> op, rd |-> rd, rs1 |-> rs1, rs2 |-> rs2, imm |-> imm, csr |-> "mstatus"]
Plain(op) == I(op, 0, 0, 0, {})
CsrI(op, rd, csr, rs1) == [I(op, rd, rs1, 0, {}) EXCEPT !.csr = csr]

(* The word of an instruction, whose CSR is its 12-bit address, and what   *)
(* decode makes of a word.                                                 *)
CsrWord(name) == {b \in 0..11 : (CsrAddress[name] \div 2^b) % 2 = 1}
WordOf(i) == Encode([i EXCEPT !.csr = CsrWord(i.csr)])
Decoded(w) ==
  LET d == CHOOSE d \in decode(w) : TRUE
      named == {name \in CsrName : CsrWord(name) = d.csr}
  IN [d EXCEPT !.csr = IF named = {} THEN "mstatus" ELSE CHOOSE n \in named : TRUE]

(* The words of a list of instructions with their decoding, as a set of    *)
(* pairs and as a function.                                                *)
Assembled(list) ==
  LET words == {WordOf(list[k]) : k \in DOMAIN list}
  IN {<<w, Decoded(w)>> : w \in words}
Decoder(pairs) ==
  [w \in {p[1] : p \in pairs} |-> (CHOOSE p \in pairs : p[1] = w)[2]]

(* A 4-byte word at an address, as bits of RAM.                            *)
Placed(a, w) == {<<Slot(a), Lane(a) + b>> : b \in w}
=============================================================================
