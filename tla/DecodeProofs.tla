---------------------------- MODULE DecodeProofs ----------------------------
(***************************************************************************)
(* decode() agrees with the encoding table on every word of 32 bits.       *)
(*                                                                         *)
(* A word is an encoding of a row of the table, bit by bit, exactly when   *)
(* the fields that decode() switches on have the row's numbers             *)
(* (RowMatches).  So each switch selects the rows of its opcode (the       *)
(* lemmas *Exact, which end in DecodeExact), and what is left is that      *)
(* every operand bit goes back to its place (EncodeDecoded).               *)
(***************************************************************************)
EXTENDS InstructionWords, HartLemmas

(* Seven binary digits are determined by the number they make.             *)
LEMMA Digits ==
  ASSUME NEW a0 \in 0..1, NEW a1 \in 0..1, NEW a2 \in 0..1, NEW a3 \in 0..1,
         NEW a4 \in 0..1, NEW a5 \in 0..1, NEW a6 \in 0..1,
         NEW b0 \in 0..1, NEW b1 \in 0..1, NEW b2 \in 0..1, NEW b3 \in 0..1,
         NEW b4 \in 0..1, NEW b5 \in 0..1, NEW b6 \in 0..1,
         a0 + 2 * a1 + 4 * a2 + 8 * a3 + 16 * a4 + 32 * a5 + 64 * a6
           = b0 + 2 * b1 + 4 * b2 + 8 * b3 + 16 * b4 + 32 * b5 + 64 * b6
  PROVE  a0 = b0 /\ a1 = b1 /\ a2 = b2 /\ a3 = b3 /\ a4 = b4 /\ a5 = b5 /\ a6 = b6
OBVIOUS

(* Value reads back what NatWord wrote, for numbers of seven bits.         *)
LEMMA ValueNatWord ==
  ASSUME NEW n \in 0..127
  PROVE  NatWord(n) \subseteq 0..6 /\ Value(NatWord(n)) = n
<1> DEFINE d(k) == (n \div k) % 2
<1>1. d(128) # 1
  OBVIOUS
<1>2. NatWord(n) \subseteq 0..6
  BY <1>1, NatWordBits
<1>3. n = (n % 2) + 2 * d(2) + 4 * d(4) + 8 * d(8) + 16 * d(16) + 32 * d(32) + 64 * d(64)
  OBVIOUS
<1>4. /\ n % 2 \in 0..1 /\ d(2) \in 0..1 /\ d(4) \in 0..1 /\ d(8) \in 0..1
      /\ d(16) \in 0..1 /\ d(32) \in 0..1 /\ d(64) \in 0..1
  OBVIOUS
<1>5. LET w == NatWord(n) IN
      /\ Bit(w, 0) = n % 2 /\ Bit(w, 1) = d(2) /\ Bit(w, 2) = d(4)
      /\ Bit(w, 3) = d(8) /\ Bit(w, 4) = d(16) /\ Bit(w, 5) = d(32)
      /\ Bit(w, 6) = d(64)
  BY <1>4, NatWordBits DEF Bit
<1> QED BY <1>2, <1>3, <1>5 DEF Value

(* Sets of seven bits with the same value are the same.                    *)
LEMMA ValueInjective ==
  ASSUME NEW v \in SUBSET (0..6), NEW w \in SUBSET (0..6), Value(v) = Value(w)
  PROVE  v = w
<1>1. \A x, b : Bit(x, b) \in 0..1 /\ (Bit(x, b) = 1 <=> b \in x)
  BY DEF Bit
<1>2. /\ Bit(v, 0) = Bit(w, 0) /\ Bit(v, 1) = Bit(w, 1) /\ Bit(v, 2) = Bit(w, 2)
      /\ Bit(v, 3) = Bit(w, 3) /\ Bit(v, 4) = Bit(w, 4) /\ Bit(v, 5) = Bit(w, 5)
      /\ Bit(v, 6) = Bit(w, 6)
  BY <1>1, Digits DEF Value
<1>3. \A b \in 0..6 : b \in v <=> b \in w
  BY <1>1, <1>2
<1> QED BY <1>3

(* A field is a given number when it has that number's bits.               *)
LEMMA FieldIs ==
  ASSUME NEW w, NEW low \in Nat, NEW n \in 1..7, NEW k \in 0..127
  PROVE  field(w, low, n) = k <=> Field(w, low, n) = NatWord(k)
<1>1. Field(w, low, n) \in SUBSET (0..6)
  BY DEF Field
<1> QED BY <1>1, ValueNatWord, ValueInjective DEF field

(* The type of the table's rows.                                           *)
Row ==
  [format : {"U", "J", "I", "S", "B", "R", "shift6", "shift5", "csr", "fence",
             "SFENCE", "whole"},
   opcode : 0..127, funct3 : 0..7, funct7 : 0..127, funct5 : 0..31]

(* The rows of the table have their types, and a row fixes only what its   *)
(* format leaves free.                                                     *)
LEMMA RowFacts ==
  ASSUME NEW op \in DOMAIN Table
  PROVE  LET e == Table[op] IN
         /\ e \in Row
         /\ e.format \in {"U", "J"} => e.funct3 = 0
         /\ e.format \in {"U", "J", "I", "S", "B", "csr", "fence"} => e.funct7 = 0
         /\ e.format = "shift6" => e.funct7 \in {0, 32}
         /\ e.format # "whole" => e.funct5 = 0
BY DEF Table, E, P, Row

(* The bits a row does not fix, by format.                                 *)
Free(format) == OperandBits(format) \cup Ignored(format)

(* The free bits of the twelve formats.                                    *)
LEMMA FreeBits ==
  /\ \A f \in {"U", "J"} : Free(f) = 7..31
  /\ \A f \in {"I", "S", "B", "csr", "fence"} : Free(f) = (7..11) \cup (15..31)
  /\ Free("shift6") = (7..11) \cup (15..25)
  /\ \A f \in {"R", "shift5"} : Free(f) = (7..11) \cup (15..24)
  /\ Free("SFENCE") = 15..24
  /\ Free("whole") = {}
<1>1. Free("U") = 7..31
  BY DEF Free, OperandBits, Ignored, ImmediatePlace, HasRd, HasRs1, HasRs2
<1>2. Free("J") = 7..31
  BY DEF Free, OperandBits, Ignored, ImmediatePlace, HasRd, HasRs1, HasRs2
<1>3. Free("I") = (7..11) \cup (15..31)
  BY DEF Free, OperandBits, Ignored, ImmediatePlace, HasRd, HasRs1, HasRs2
<1>4. Free("S") = (7..11) \cup (15..31)
  BY DEF Free, OperandBits, Ignored, ImmediatePlace, HasRd, HasRs1, HasRs2
<1>5. Free("B") = (7..11) \cup (15..31)
  BY DEF Free, OperandBits, Ignored, ImmediatePlace, HasRd, HasRs1, HasRs2
<1>6. Free("csr") = (7..11) \cup (15..31)
  BY DEF Free, OperandBits, Ignored, ImmediatePlace, HasRd, HasRs1, HasRs2
<1>7. Free("fence") = (7..11) \cup (15..31)
  BY DEF Free, OperandBits, Ignored, ImmediatePlace, HasRd, HasRs1, HasRs2
<1>8. Free("shift6") = (7..11) \cup (15..25)
  BY DEF Free, OperandBits, Ignored, ImmediatePlace, HasRd, HasRs1, HasRs2
<1>9. Free("shift5") = (7..11) \cup (15..24)
  BY DEF Free, OperandBits, Ignored, ImmediatePlace, HasRd, HasRs1, HasRs2
<1>10. Free("R") = (7..11) \cup (15..24)
  BY DEF Free, OperandBits, Ignored, ImmediatePlace, HasRd, HasRs1, HasRs2
<1>11. Free("SFENCE") = 15..24
  BY DEF Free, OperandBits, Ignored, ImmediatePlace, HasRd, HasRs1, HasRs2
<1>12. Free("whole") = {}
  BY DEF Free, OperandBits, Ignored, ImmediatePlace, HasRd, HasRs1, HasRs2
<1> QED BY <1>1, <1>2, <1>3, <1>4, <1>5, <1>6, <1>7, <1>8, <1>9, <1>10, <1>11, <1>12

(* A word matches a row when its fields have the row's numbers, as far as  *)
(* the format has these fields.                                            *)
Matches(w, e) ==
  /\ field(w, 0, 7) = e.opcode
  /\ e.format \notin {"U", "J"} => field(w, 12, 3) = e.funct3
  /\ e.format \in {"R", "shift5", "SFENCE", "whole"} => field(w, 25, 7) = e.funct7
  /\ e.format = "shift6" => 2 * field(w, 26, 6) = e.funct7
  /\ e.format \in {"SFENCE", "whole"} => field(w, 7, 5) = 0
  /\ e.format = "whole" => field(w, 15, 5) = 0 /\ field(w, 20, 5) = e.funct5

(* How to recognize a field.                                               *)
LEMMA FieldOf ==
  ASSUME NEW w, NEW low, NEW n, NEW v,
         \A b \in v : b \in 0..n-1,
         \A b \in 0..n-1 : b + low \in w <=> b \in v
  PROVE  Field(w, low, n) = v
<1>1. \A b : b \in Field(w, low, n) <=> b \in 0..n-1 /\ b + low \in w
  BY DEF Field
<1>2. \A b : b \in Field(w, low, n) <=> b \in v
  BY <1>1
<1> QED BY <1>2

(* Two words agree on a field exactly when they agree on its bits.         *)
LEMMA FieldAgrees ==
  ASSUME NEW v, NEW w, NEW low \in Nat, NEW n \in Nat
  PROVE  Field(v, low, n) = Field(w, low, n)
           <=> \A b \in low..low+n-1 : b \in v <=> b \in w
<1>1. ASSUME Field(v, low, n) = Field(w, low, n), NEW b \in low..low+n-1
      PROVE  b \in v <=> b \in w
  <2>1. b - low \in 0..n-1 /\ (b - low) + low = b
    OBVIOUS
  <2>2. /\ b - low \in Field(v, low, n) <=> b \in v
        /\ b - low \in Field(w, low, n) <=> b \in w
    BY <2>1 DEF Field
  <2> QED BY <1>1, <2>2
<1>2. ASSUME \A b \in low..low+n-1 : b \in v <=> b \in w
      PROVE  Field(v, low, n) = Field(w, low, n)
  <2>1. \A b \in 0..n-1 : b + low \in low..low+n-1
    OBVIOUS
  <2> QED BY <1>2, <2>1 DEF Field
<1> QED BY <1>1, <1>2

(* The width of small numbers.                                             *)
LEMMA SmallNatWord ==
  /\ NatWord(0) = {}
  /\ \A n \in 0..7 : NatWord(n) \subseteq 0..2
  /\ \A n \in 0..31 : NatWord(n) \subseteq 0..4
  /\ \A n \in 0..127 : NatWord(n) \subseteq 0..6
<1>1. NatWord(0) = {}
  <2>1. 0 \in 0..127 /\ {} \in SUBSET (0..6) /\ Value({}) = 0
    BY DEF Value, Bit
  <2> QED BY <2>1, ValueNatWord, ValueInjective
<1>2. ASSUME NEW n \in 0..7 PROVE NatWord(n) \subseteq 0..2
  <2>1. /\ (n \div 8) % 2 = 0 /\ (n \div 16) % 2 = 0 /\ (n \div 32) % 2 = 0
        /\ (n \div 64) % 2 = 0 /\ (n \div 128) % 2 = 0
    OBVIOUS
  <2> QED BY <2>1, NatWordBits
<1>3. ASSUME NEW n \in 0..31 PROVE NatWord(n) \subseteq 0..4
  <2>1. (n \div 32) % 2 = 0 /\ (n \div 64) % 2 = 0 /\ (n \div 128) % 2 = 0
    OBVIOUS
  <2> QED BY <2>1, NatWordBits
<1> QED BY <1>1, <1>2, <1>3, ValueNatWord

(* The fields of the bits that a row fixes are the row's numbers.          *)
LEMMA FixedFields ==
  ASSUME NEW e \in Row
  PROVE  /\ Fixed(e) \subseteq 0..31
         /\ Field(Fixed(e), 0, 7) = NatWord(e.opcode)
         /\ Field(Fixed(e), 7, 5) = NatWord(0)
         /\ Field(Fixed(e), 12, 3) = NatWord(e.funct3)
         /\ Field(Fixed(e), 15, 5) = NatWord(0)
         /\ Field(Fixed(e), 20, 5) = NatWord(e.funct5)
         /\ Field(Fixed(e), 25, 7) = NatWord(e.funct7)
<1> DEFINE O == NatWord(e.opcode)
           A == NatWord(e.funct3)
           B == NatWord(e.funct5)
           C == NatWord(e.funct7)
<1>1. O \subseteq 0..6 /\ A \subseteq 0..2 /\ B \subseteq 0..4 /\ C \subseteq 0..6
  BY SmallNatWord DEF Row
<1>2. NatWord(0) = {}
  BY SmallNatWord
<1>3. Fixed(e) = O \cup Shl(A, 12) \cup Shl(B, 20) \cup Shl(C, 25)
  BY DEF Fixed
<1> HIDE DEF O, A, B, C
<1>4. /\ \A b \in Shl(A, 12) : b \in 12..14 /\ b - 12 \in A
      /\ \A b \in Shl(B, 20) : b \in 20..24 /\ b - 20 \in B
      /\ \A b \in Shl(C, 25) : b \in 25..31 /\ b - 25 \in C
  BY <1>1 DEF Shl, Bits
<1>5. /\ \A b \in A : b + 12 \in Shl(A, 12)
      /\ \A b \in B : b + 20 \in Shl(B, 20)
      /\ \A b \in C : b + 25 \in Shl(C, 25)
  BY <1>1 DEF Shl, Bits
<1>6. Fixed(e) \subseteq 0..31
  <2>1. ASSUME NEW b \in Fixed(e) PROVE b \in 0..31
    <3>1. \/ b \in 0..6 \/ b \in 12..14 \/ b \in 20..24 \/ b \in 25..31
      BY <1>1, <1>3, <1>4
    <3> QED BY <3>1
  <2> QED BY <2>1
<1>7. Field(Fixed(e), 0, 7) = O
  <2>1. \A b \in 0..7-1 : b + 0 \in Fixed(e) <=> b \in O
    BY <1>3, <1>4
  <2>3. \A b \in O : b \in 0..7-1
    BY <1>1
  <2> QED BY <2>1, <2>3, FieldOf
<1>8. Field(Fixed(e), 7, 5) = {} /\ Field(Fixed(e), 15, 5) = {}
  <2>1. \A b \in (7..11) \cup (15..19) : b \notin Fixed(e)
    BY <1>1, <1>3, <1>4
  <2>2. \A b \in 0..4 : b + 7 \in 7..11 /\ b + 15 \in 15..19
    OBVIOUS
  <2> QED BY <2>1, <2>2 DEF Field
<1>9. Field(Fixed(e), 12, 3) = A
  <2>1. \A b \in 0..2 : (b + 12) - 12 = b /\ b + 12 \in 12..14
    OBVIOUS
  <2>2. \A b \in 0..3-1 : b + 12 \in Fixed(e) <=> b \in A
    BY <1>1, <1>3, <1>4, <1>5, <2>1
  <2>3. \A b \in A : b \in 0..3-1
    BY <1>1
  <2>4. \A b : b \in Field(Fixed(e), 12, 3) <=> b \in A
    BY <2>2, <2>3 DEF Field
  <2> QED BY <2>4
<1>10. Field(Fixed(e), 20, 5) = B
  <2>1. \A b \in 0..4 : (b + 20) - 20 = b /\ b + 20 \in 20..24
    OBVIOUS
  <2>2. \A b \in 0..5-1 : b + 20 \in Fixed(e) <=> b \in B
    BY <1>1, <1>3, <1>4, <1>5, <2>1
  <2>3. \A b \in B : b \in 0..5-1
    BY <1>1
  <2>4. \A b : b \in Field(Fixed(e), 20, 5) <=> b \in B
    BY <2>2, <2>3 DEF Field
  <2> QED BY <2>4
<1>11. Field(Fixed(e), 25, 7) = C
  <2>1. \A b \in 0..6 : (b + 25) - 25 = b /\ b + 25 \in 25..31
    OBVIOUS
  <2>2. \A b \in 0..7-1 : b + 25 \in Fixed(e) <=> b \in C
    BY <1>1, <1>3, <1>4, <1>5, <2>1
  <2>3. \A b \in C : b \in 0..7-1
    BY <1>1
  <2>4. \A b : b \in Field(Fixed(e), 25, 7) <=> b \in C
    BY <2>2, <2>3 DEF Field
  <2> QED BY <2>4
<1> QED BY <1>2, <1>6, <1>7, <1>8, <1>9, <1>10, <1>11 DEF O, A, B, C

(* Outside given positions, in which the second has no bits.               *)
LEMMA AgreeOutside ==
  ASSUME NEW w \in SUBSET (0..31), NEW x \in SUBSET (0..31), NEW f,
         \A b \in f : b \notin x
  PROVE  w \ f = x <=> \A b \in (0..31) \ f : b \in w <=> b \in x
<1>1. w \ f = x <=> \A b : b \in w \ f <=> b \in x
  OBVIOUS
<1> QED BY <1>1

(* A word is an encoding of a row exactly when it matches it.              *)
LEMMA RowMatches ==
  ASSUME NEW w \in SUBSET (0..31), NEW op \in DOMAIN Table
  PROVE  w \ Free(Table[op].format) = Fixed(Table[op]) <=> Matches(w, Table[op])
<1> DEFINE e == Table[op]
           x == Fixed(e)
           Agree(low, high) == \A b \in low..high : b \in w <=> b \in x
           Clear(low, high) == \A b \in low..high : b \notin x
<1>1. /\ e \in Row
      /\ e.format \in {"U", "J"} => e.funct3 = 0
      /\ e.format \in {"U", "J", "I", "S", "B", "csr", "fence"} => e.funct7 = 0
      /\ e.format = "shift6" => e.funct7 \in {0, 32}
      /\ e.format # "whole" => e.funct5 = 0
  BY RowFacts
<1>2. x \in SUBSET (0..31)
  BY <1>1, FixedFields
<1> HIDE DEF e
<1>3. /\ field(w, 0, 7) = e.opcode <=> Agree(0, 6)
      /\ field(w, 12, 3) = e.funct3 <=> Agree(12, 14)
      /\ field(w, 25, 7) = e.funct7 <=> Agree(25, 31)
      /\ field(w, 20, 5) = e.funct5 <=> Agree(20, 24)
      /\ field(w, 7, 5) = 0 <=> Agree(7, 11)
      /\ field(w, 15, 5) = 0 <=> Agree(15, 19)
  <2>1. /\ e.opcode \in 0..127 /\ e.funct3 \in 0..127 /\ e.funct7 \in 0..127
        /\ e.funct5 \in 0..127
    BY <1>1 DEF Row
  <2>2. \A low, n \in Nat : Field(w, low, n) = Field(x, low, n) <=> Agree(low, low+n-1)
    BY FieldAgrees
  <2> HIDE DEF Agree
  <2>3. /\ Field(w, 0, 7) = Field(x, 0, 7) <=> Agree(0, 6)
        /\ Field(w, 12, 3) = Field(x, 12, 3) <=> Agree(12, 14)
        /\ Field(w, 25, 7) = Field(x, 25, 7) <=> Agree(25, 31)
        /\ Field(w, 20, 5) = Field(x, 20, 5) <=> Agree(20, 24)
        /\ Field(w, 7, 5) = Field(x, 7, 5) <=> Agree(7, 11)
        /\ Field(w, 15, 5) = Field(x, 15, 5) <=> Agree(15, 19)
    <3>1. /\ 0+7-1 = 6 /\ 12+3-1 = 14 /\ 25+7-1 = 31 /\ 20+5-1 = 24 /\ 7+5-1 = 11
          /\ 15+5-1 = 19
      OBVIOUS
    <3>2. Field(w, 0, 7) = Field(x, 0, 7) <=> Agree(0, 6)
      BY <2>2, <3>1
    <3>3. Field(w, 12, 3) = Field(x, 12, 3) <=> Agree(12, 14)
      BY <2>2, <3>1
    <3>4. Field(w, 25, 7) = Field(x, 25, 7) <=> Agree(25, 31)
      BY <2>2, <3>1
    <3>5. Field(w, 20, 5) = Field(x, 20, 5) <=> Agree(20, 24)
      BY <2>2, <3>1
    <3>6. Field(w, 7, 5) = Field(x, 7, 5) <=> Agree(7, 11)
      BY <2>2, <3>1
    <3>7. Field(w, 15, 5) = Field(x, 15, 5) <=> Agree(15, 19)
      BY <2>2, <3>1
    <3> QED BY <3>2, <3>3, <3>4, <3>5, <3>6, <3>7
  <2> QED BY <1>1, <2>1, <2>3, FieldIs, FixedFields
<1>4. /\ Clear(7, 11) /\ Clear(15, 19)
      /\ e.funct3 = 0 => Clear(12, 14)
      /\ e.funct5 = 0 => Clear(20, 24)
      /\ e.funct7 = 0 => Clear(25, 31)
      /\ e.format = "shift6" => Clear(25, 25)
  <2>1. \A low, n \in Nat : Field(x, low, n) = {} => \A b \in low..low+n-1 : b \notin x
    <3>1. \A low, n \in Nat : Field({}, low, n) = {}
      BY DEF Field
    <3>2. \A low, n \in Nat : Field(x, low, n) = Field({}, low, n)
                                => \A b \in low..low+n-1 : b \notin x
      BY FieldAgrees
    <3> QED BY <3>1, <3>2
  <2>2. /\ Field(x, 7, 5) = {} /\ Field(x, 15, 5) = {}
        /\ e.funct3 = 0 => Field(x, 12, 3) = {}
        /\ e.funct5 = 0 => Field(x, 20, 5) = {}
        /\ e.funct7 = 0 => Field(x, 25, 7) = {}
    BY <1>1, FixedFields, SmallNatWord
  <2> HIDE DEF x
  <2>3. Clear(7, 11) /\ Clear(15, 19)
    BY <2>1, <2>2
  <2>4. e.funct3 = 0 => Clear(12, 14)
    BY <2>1, <2>2
  <2>5. e.funct5 = 0 => Clear(20, 24)
    BY <2>1, <2>2
  <2>6. e.funct7 = 0 => Clear(25, 31)
    BY <2>1, <2>2
  <2>7. e.format = "shift6" => Clear(25, 25)
    <3>1. 0 \notin NatWord(0) /\ 0 \notin NatWord(32)
      BY NatWordBits
    <3>2. e.format = "shift6" => 0 \notin Field(x, 25, 7)
      BY <1>1, <3>1, FixedFields DEF x
    <3>3. 25 \in x => 0 \in Field(x, 25, 7)
      BY DEF Field
    <3> QED BY <3>2, <3>3
  <2> QED BY <2>3, <2>4, <2>5, <2>6, <2>7
<1>5. e.format = "shift6" => (2 * field(w, 26, 6) = e.funct7 <=> Agree(26, 31))
  <2> SUFFICES ASSUME e.format = "shift6"
               PROVE  2 * field(w, 26, 6) = e.funct7 <=> Agree(26, 31)
    OBVIOUS
  <2>1. e.funct7 = 2 * (e.funct7 \div 2) /\ e.funct7 \div 2 \in 0..127
    BY <1>1
  <2>2. field(w, 26, 6) \in Nat
    BY DEF field, Value, Bit
  <2>3. 2 * field(w, 26, 6) = e.funct7 <=> field(w, 26, 6) = e.funct7 \div 2
    BY <2>1, <2>2
  <2>4. Field(x, 26, 6) = NatWord(e.funct7 \div 2)
    <3>1. Field(x, 25, 7) = NatWord(e.funct7)
      BY <1>1, FixedFields
    <3>2. \A b \in 0..5 : b + 1 \in NatWord(e.funct7) <=> b \in NatWord(e.funct7 \div 2)
      <4>1. CASE e.funct7 = 0
        BY <4>1, SmallNatWord
      <4>2. CASE e.funct7 = 32
        <5>1. NatWord(32) = {5} /\ NatWord(16) = {4}
          BY NatWordBits
        <5> QED BY <4>2, <5>1
      <4> QED BY <1>1, <4>1, <4>2
    <3>3. \A b \in 0..5 : b + 26 \in x <=> b + 1 \in Field(x, 25, 7)
      BY DEF Field
    <3>4. \A b \in NatWord(e.funct7 \div 2) : b \in 0..5
      <4>1. e.funct7 \div 2 \in 0..31
        BY <1>1
      <4>2. NatWord(e.funct7 \div 2) \subseteq 0..4
        BY <4>1, SmallNatWord
      <4> QED BY <4>2
    <3>5. \A b : b \in Field(x, 26, 6) <=> b \in 0..5 /\ b + 26 \in x
      BY DEF Field
    <3>6. \A b : b \in Field(x, 26, 6) <=> b \in NatWord(e.funct7 \div 2)
      <4> HIDE DEF x
      <4> QED BY <3>1, <3>2, <3>3, <3>4, <3>5
    <3> QED BY <3>6
  <2>5. Field(w, 26, 6) = Field(x, 26, 6) <=> Agree(26, 31)
    BY FieldAgrees
  <2> QED BY <2>1, <2>3, <2>4, <2>5, FieldIs
<1>6. CASE e.format \in {"U", "J"}
  <2>1. Free(e.format) = 7..31
    BY <1>6, FreeBits
  <2>2. \A b \in Free(e.format) : b \notin x
    BY <1>1, <1>4, <1>6, <2>1
  <2>3. (\A b \in (0..31) \ Free(e.format) : b \in w <=> b \in x)
          <=> Agree(0, 6)
    BY <2>1
  <2>4. Matches(w, e) <=> Agree(0, 6)
    <3> HIDE DEF Agree
    <3> QED BY <1>3, <1>6 DEF Matches
  <2>5. w \ Free(e.format) = x <=> Matches(w, e)
    <3> HIDE DEF Agree, x
    <3> QED BY <1>2, <2>2, <2>3, <2>4, AgreeOutside
  <2> QED BY <2>5 DEF e
<1>7. CASE e.format \in {"I", "S", "B", "csr", "fence"}
  <2>1. Free(e.format) = (7..11) \cup (15..31)
    BY <1>7, FreeBits
  <2>2. \A b \in Free(e.format) : b \notin x
    BY <1>1, <1>4, <1>7, <2>1
  <2>3. (\A b \in (0..31) \ Free(e.format) : b \in w <=> b \in x)
          <=> Agree(0, 6) /\ Agree(12, 14)
    BY <2>1
  <2>4. Matches(w, e) <=> Agree(0, 6) /\ Agree(12, 14)
    <3> HIDE DEF Agree
    <3> QED BY <1>3, <1>7 DEF Matches
  <2>5. w \ Free(e.format) = x <=> Matches(w, e)
    <3> HIDE DEF Agree, x
    <3> QED BY <1>2, <2>2, <2>3, <2>4, AgreeOutside
  <2> QED BY <2>5 DEF e
<1>8. CASE e.format = "shift6"
  <2>1. Free(e.format) = (7..11) \cup (15..25)
    BY <1>8, FreeBits
  <2>2. \A b \in Free(e.format) : b \notin x
    BY <1>1, <1>4, <1>8, <2>1
  <2>3. (\A b \in (0..31) \ Free(e.format) : b \in w <=> b \in x)
          <=> Agree(0, 6) /\ Agree(12, 14) /\ Agree(26, 31)
    BY <2>1
  <2>4. Matches(w, e) <=> Agree(0, 6) /\ Agree(12, 14) /\ Agree(26, 31)
    <3> HIDE DEF Agree
    <3> QED BY <1>3, <1>8, <1>5 DEF Matches
  <2>5. w \ Free(e.format) = x <=> Matches(w, e)
    <3> HIDE DEF Agree, x
    <3> QED BY <1>2, <2>2, <2>3, <2>4, AgreeOutside
  <2> QED BY <2>5 DEF e
<1>9. CASE e.format \in {"R", "shift5"}
  <2>1. Free(e.format) = (7..11) \cup (15..24)
    BY <1>9, FreeBits
  <2>2. \A b \in Free(e.format) : b \notin x
    BY <1>1, <1>4, <1>9, <2>1
  <2>3. (\A b \in (0..31) \ Free(e.format) : b \in w <=> b \in x)
          <=> Agree(0, 6) /\ Agree(12, 14) /\ Agree(25, 31)
    BY <2>1
  <2>4. Matches(w, e) <=> Agree(0, 6) /\ Agree(12, 14) /\ Agree(25, 31)
    <3> HIDE DEF Agree
    <3> QED BY <1>3, <1>9 DEF Matches
  <2>5. w \ Free(e.format) = x <=> Matches(w, e)
    <3> HIDE DEF Agree, x
    <3> QED BY <1>2, <2>2, <2>3, <2>4, AgreeOutside
  <2> QED BY <2>5 DEF e
<1>10. CASE e.format = "SFENCE"
  <2>1. Free(e.format) = 15..24
    BY <1>10, FreeBits
  <2>2. \A b \in Free(e.format) : b \notin x
    BY <1>1, <1>4, <1>10, <2>1
  <2>3. (\A b \in (0..31) \ Free(e.format) : b \in w <=> b \in x)
          <=> Agree(0, 6) /\ Agree(7, 11) /\ Agree(12, 14) /\ Agree(25, 31)
    BY <2>1
  <2>4. Matches(w, e) <=> Agree(0, 6) /\ Agree(7, 11) /\ Agree(12, 14) /\ Agree(25, 31)
    <3> HIDE DEF Agree
    <3> QED BY <1>3, <1>10 DEF Matches
  <2>5. w \ Free(e.format) = x <=> Matches(w, e)
    <3> HIDE DEF Agree, x
    <3> QED BY <1>2, <2>2, <2>3, <2>4, AgreeOutside
  <2> QED BY <2>5 DEF e
<1>11. CASE e.format = "whole"
  <2>1. Free(e.format) = {}
    BY <1>11, FreeBits
  <2>2. \A b \in Free(e.format) : b \notin x
    BY <1>1, <1>4, <1>11, <2>1
  <2>3. (\A b \in (0..31) \ Free(e.format) : b \in w <=> b \in x)
          <=> Agree(0, 6) /\ Agree(7, 11) /\ Agree(12, 14)
            /\ Agree(15, 19) /\ Agree(20, 24) /\ Agree(25, 31)
    BY <2>1
  <2>4. Matches(w, e) <=> Agree(0, 6) /\ Agree(7, 11) /\ Agree(12, 14)
            /\ Agree(15, 19) /\ Agree(20, 24) /\ Agree(25, 31)
    <3> HIDE DEF Agree
    <3> QED BY <1>3, <1>11 DEF Matches
  <2>5. w \ Free(e.format) = x <=> Matches(w, e)
    <3> HIDE DEF Agree, x
    <3> QED BY <1>2, <2>2, <2>3, <2>4, AgreeOutside
  <2> QED BY <2>5 DEF e
<1> QED BY <1>1, <1>6, <1>7, <1>8, <1>9, <1>10, <1>11 DEF Row

(* The immediate of each format, as decode() assembles it.                 *)
Immediate(w, format) ==
  CASE format = "I" -> immediate_i(w) [] format = "S" -> immediate_s(w)
    [] format = "B" -> immediate_b(w) [] format = "U" -> immediate_u(w)
    [] format = "J" -> immediate_j(w) [] format = "shift6" -> Field(w, 20, 6)
    [] format = "shift5" -> Field(w, 20, 5) [] OTHER -> {}

(* The one member of instruction(w, op, immediate).                        *)
Decoded(w, operation, immediate) ==
  [op |-> operation, rd |-> field(w, 7, 5), rs1 |-> field(w, 15, 5),
   rs2 |-> field(w, 20, 5), imm |-> immediate, csr |-> Field(w, 20, 12)]

(* What decode() should return for a word whose opcode is k.               *)
Specified(d, w, k) ==
  \E op \in DOMAIN Table :
    /\ Table[op].opcode = k
    /\ Matches(w, Table[op])
    /\ d = Decoded(w, op, Immediate(w, Table[op].format))

(* instruction() has one answer.                                           *)
LEMMA InstructionIs ==
  ASSUME NEW w, NEW op, NEW imm
  PROVE  instruction(w, op, imm) = {Decoded(w, op, imm)}
BY DEF instruction, Decoded

(* What a switch returns.                                                  *)
LEMMA SelectIs ==
  ASSUME NEW table, NEW selector, NEW w, NEW imm, NEW d
  PROVE  d \in Select(table, selector, w, imm)
           <=> \E op \in DOMAIN table : table[op] = selector /\ d = Decoded(w, op, imm)
BY InstructionIs DEF Select

(* The switch of OP, on funct7 and funct3, selects the table's rows for    *)
(* this opcode.  The lemmas that follow say the same of the other opcodes. *)
LEMMA OpExact ==
  ASSUME NEW w, field(w, 0, 7) = 51, NEW d
  PROVE  d \in decode_op(w, field(w, 12, 3)) <=> Specified(d, w, 51)
<1> DEFINE f3 == field(w, 12, 3)
           f7 == field(w, 25, 7)
<1>1. d \in decode_op(w, f3)
        <=> \E op \in DOMAIN OpTable : OpTable[op] = <<f7, f3>> /\ d = Decoded(w, op, {})
  BY SelectIs DEF decode_op
<1>2. \A op : op \in DOMAIN Table /\ Table[op].opcode = 51 <=> op \in DOMAIN OpTable
  BY DEF Table, E, P, OpTable
<1>3. \A op \in DOMAIN OpTable :
        /\ Table[op].format = "R" /\ Table[op].opcode = 51
        /\ OpTable[op] = <<f7, f3>> <=> Table[op].funct7 = f7 /\ Table[op].funct3 = f3
  BY DEF Table, OpTable, E
<1>4. \A op \in DOMAIN OpTable : Matches(w, Table[op]) <=> OpTable[op] = <<f7, f3>>
  <2> HIDE DEF f3, f7
  <2> QED BY <1>3 DEF Matches, f3, f7
<1>5. \A op \in DOMAIN OpTable : Immediate(w, Table[op].format) = {}
  BY <1>3 DEF Immediate
<1> QED BY <1>1, <1>2, <1>4, <1>5 DEF Specified

(* decode() of the opcodes with a single operation.                        *)
LEMMA SingleExact ==
  ASSUME NEW w, NEW d
  PROVE  /\ field(w, 0, 7) = 55 =>
              (d \in instruction(w, "lui", immediate_u(w)) <=> Specified(d, w, 55))
         /\ field(w, 0, 7) = 23 =>
              (d \in instruction(w, "auipc", immediate_u(w)) <=> Specified(d, w, 23))
         /\ field(w, 0, 7) = 111 =>
              (d \in instruction(w, "jal", immediate_j(w)) <=> Specified(d, w, 111))
         /\ field(w, 0, 7) = 103 =>
              (field(w, 12, 3) = 0 /\ d \in instruction(w, "jalr", immediate_i(w))
                 <=> Specified(d, w, 103))
<1>1. /\ \A op \in DOMAIN Table : Table[op].opcode = 55 <=> op = "lui"
      /\ \A op \in DOMAIN Table : Table[op].opcode = 23 <=> op = "auipc"
      /\ \A op \in DOMAIN Table : Table[op].opcode = 111 <=> op = "jal"
      /\ \A op \in DOMAIN Table : Table[op].opcode = 103 <=> op = "jalr"
  BY DEF Table, E, P
<1>2. /\ "lui" \in DOMAIN Table /\ Table["lui"].format = "U"
      /\ "auipc" \in DOMAIN Table /\ Table["auipc"].format = "U"
      /\ "jal" \in DOMAIN Table /\ Table["jal"].format = "J"
      /\ "jalr" \in DOMAIN Table /\ Table["jalr"].format = "I" /\ Table["jalr"].funct3 = 0
  BY DEF Table, E
<1>3. /\ Immediate(w, "U") = immediate_u(w)
      /\ Immediate(w, "J") = immediate_j(w)
      /\ Immediate(w, "I") = immediate_i(w)
  BY DEF Immediate
<1>4. /\ field(w, 0, 7) = 55 => Matches(w, Table["lui"])
      /\ field(w, 0, 7) = 23 => Matches(w, Table["auipc"])
      /\ field(w, 0, 7) = 111 => Matches(w, Table["jal"])
      /\ field(w, 0, 7) = 103 => (Matches(w, Table["jalr"]) <=> field(w, 12, 3) = 0)
  BY <1>1, <1>2 DEF Matches
<1>5. field(w, 0, 7) = 55 =>
        (d \in instruction(w, "lui", immediate_u(w)) <=> Specified(d, w, 55))
  BY <1>1, <1>2, <1>3, <1>4, InstructionIs DEF Specified
<1>6. field(w, 0, 7) = 23 =>
        (d \in instruction(w, "auipc", immediate_u(w)) <=> Specified(d, w, 23))
  BY <1>1, <1>2, <1>3, <1>4, InstructionIs DEF Specified
<1>7. field(w, 0, 7) = 111 =>
        (d \in instruction(w, "jal", immediate_j(w)) <=> Specified(d, w, 111))
  BY <1>1, <1>2, <1>3, <1>4, InstructionIs DEF Specified
<1>8. field(w, 0, 7) = 103 =>
        (field(w, 12, 3) = 0 /\ d \in instruction(w, "jalr", immediate_i(w))
           <=> Specified(d, w, 103))
  BY <1>1, <1>2, <1>3, <1>4, InstructionIs DEF Specified
<1> QED BY <1>5, <1>6, <1>7, <1>8

(* BRANCH, whose switch is on funct3 alone, as are the next two.           *)
LEMMA BranchExact ==
  ASSUME NEW w, field(w, 0, 7) = 99, NEW d
  PROVE  d \in decode_branch(w, field(w, 12, 3)) <=> Specified(d, w, 99)
<1> DEFINE f3 == field(w, 12, 3)
           T == [beq |-> 0, bne |-> 1, blt |-> 4, bge |-> 5, bltu |-> 6, bgeu |-> 7]
<1>1. d \in decode_branch(w, f3)
        <=> \E op \in DOMAIN T : T[op] = f3 /\ d = Decoded(w, op, immediate_b(w))
  BY SelectIs DEF decode_branch
<1>2. \A op : op \in DOMAIN Table /\ Table[op].opcode = 99 <=> op \in DOMAIN T
  BY DEF Table, E, P
<1>3. \A op \in DOMAIN T :
        Table[op].format = "B" /\ Table[op].opcode = 99 /\ Table[op].funct3 = T[op]
  BY DEF Table, E
<1> HIDE DEF T
<1>4. \A op \in DOMAIN T : Matches(w, Table[op]) <=> T[op] = f3
  BY <1>3 DEF Matches
<1>5. \A op \in DOMAIN T : Immediate(w, Table[op].format) = immediate_b(w)
  BY <1>3 DEF Immediate
<1> QED BY <1>1, <1>2, <1>4, <1>5 DEF Specified

(* LOAD.                                                                   *)
LEMMA LoadExact ==
  ASSUME NEW w, field(w, 0, 7) = 3, NEW d
  PROVE  d \in decode_load(w, field(w, 12, 3)) <=> Specified(d, w, 3)
<1> DEFINE f3 == field(w, 12, 3)
           T == [lb |-> 0, lh |-> 1, lw |-> 2, ld |-> 3, lbu |-> 4, lhu |-> 5, lwu |-> 6]
<1>1. d \in decode_load(w, f3)
        <=> \E op \in DOMAIN T : T[op] = f3 /\ d = Decoded(w, op, immediate_i(w))
  BY SelectIs DEF decode_load
<1>2. \A op : op \in DOMAIN Table /\ Table[op].opcode = 3 <=> op \in DOMAIN T
  BY DEF Table, E, P
<1>3. \A op \in DOMAIN T :
        Table[op].format = "I" /\ Table[op].opcode = 3 /\ Table[op].funct3 = T[op]
  BY DEF Table, E
<1> HIDE DEF T
<1>4. \A op \in DOMAIN T : Matches(w, Table[op]) <=> T[op] = f3
  BY <1>3 DEF Matches
<1>5. \A op \in DOMAIN T : Immediate(w, Table[op].format) = immediate_i(w)
  BY <1>3 DEF Immediate
<1> QED BY <1>1, <1>2, <1>4, <1>5 DEF Specified

(* STORE.                                                                  *)
LEMMA StoreExact ==
  ASSUME NEW w, field(w, 0, 7) = 35, NEW d
  PROVE  d \in decode_store(w, field(w, 12, 3)) <=> Specified(d, w, 35)
<1> DEFINE f3 == field(w, 12, 3)
           T == [sb |-> 0, sh |-> 1, sw |-> 2, sd |-> 3]
<1>1. d \in decode_store(w, f3)
        <=> \E op \in DOMAIN T : T[op] = f3 /\ d = Decoded(w, op, immediate_s(w))
  BY SelectIs DEF decode_store
<1>2. \A op : op \in DOMAIN Table /\ Table[op].opcode = 35 <=> op \in DOMAIN T
  BY DEF Table, E, P
<1>3. \A op \in DOMAIN T :
        Table[op].format = "S" /\ Table[op].opcode = 35 /\ Table[op].funct3 = T[op]
  BY DEF Table, E
<1> HIDE DEF T
<1>4. \A op \in DOMAIN T : Matches(w, Table[op]) <=> T[op] = f3
  BY <1>3 DEF Matches
<1>5. \A op \in DOMAIN T : Immediate(w, Table[op].format) = immediate_s(w)
  BY <1>3 DEF Immediate
<1> QED BY <1>1, <1>2, <1>4, <1>5 DEF Specified

(* OP-32, on funct7 and funct3 again.                                      *)
LEMMA Op32Exact ==
  ASSUME NEW w, field(w, 0, 7) = 59, NEW d
  PROVE  d \in decode_op_32(w, field(w, 12, 3)) <=> Specified(d, w, 59)
<1> DEFINE f3 == field(w, 12, 3)
           f7 == field(w, 25, 7)
           T == [addw |-> <<0, 0>>, sllw |-> <<0, 1>>, srlw |-> <<0, 5>>,
                 subw |-> <<32, 0>>, sraw |-> <<32, 5>>]
<1>1. d \in decode_op_32(w, f3)
        <=> \E op \in DOMAIN T : T[op] = <<f7, f3>> /\ d = Decoded(w, op, {})
  BY SelectIs DEF decode_op_32
<1>2. \A op : op \in DOMAIN Table /\ Table[op].opcode = 59 <=> op \in DOMAIN T
  BY DEF Table, E, P
<1>3. \A op \in DOMAIN T :
        /\ Table[op].format = "R" /\ Table[op].opcode = 59
        /\ T[op] = <<f7, f3>> <=> Table[op].funct7 = f7 /\ Table[op].funct3 = f3
  BY DEF Table, E
<1> HIDE DEF T
<1>4. \A op \in DOMAIN T : Matches(w, Table[op]) <=> T[op] = <<f7, f3>>
  BY <1>3 DEF Matches
<1>5. \A op \in DOMAIN T : Immediate(w, Table[op].format) = {}
  BY <1>3 DEF Immediate
<1> QED BY <1>1, <1>2, <1>4, <1>5 DEF Specified

(* Immediate shifts and the other immediate forms share an opcode.         *)
LEMMA OpImmExact ==
  ASSUME NEW w, field(w, 0, 7) = 19, NEW d
  PROVE  d \in decode_op_imm(w, field(w, 12, 3)) <=> Specified(d, w, 19)
<1> DEFINE f3 == field(w, 12, 3)
           f6 == field(w, 26, 6)
           S == [slli |-> <<1, 0>>, srli |-> <<5, 0>>, srai |-> <<5, 16>>]
           T == [addi |-> 0, slti |-> 2, sltiu |-> 3, xori |-> 4, ori |-> 6, andi |-> 7]
<1>1. d \in decode_op_imm(w, f3)
        <=> \/ f3 \in {1, 5}
               /\ \E op \in DOMAIN S : S[op] = <<f3, f6>> /\ d = Decoded(w, op, Field(w, 20, 6))
            \/ f3 \notin {1, 5}
               /\ \E op \in DOMAIN T : T[op] = f3 /\ d = Decoded(w, op, immediate_i(w))
  BY SelectIs DEF decode_op_imm
<1>2. \A op : op \in DOMAIN Table /\ Table[op].opcode = 19
                <=> op \in DOMAIN S \/ op \in DOMAIN T
  BY DEF Table, E, P
<1>3. \A op \in DOMAIN S :
        /\ Table[op].format = "shift6" /\ Table[op].opcode = 19
        /\ Table[op].funct3 \in {1, 5}
        /\ S[op][1] = Table[op].funct3 /\ 2 * S[op][2] = Table[op].funct7
        /\ S[op] = <<S[op][1], S[op][2]>> /\ S[op][2] \in Nat
  BY DEF Table, E
<1>4. \A op \in DOMAIN T :
        /\ Table[op].format = "I" /\ Table[op].opcode = 19 /\ Table[op].funct3 = T[op]
        /\ T[op] \notin {1, 5}
  BY DEF Table, E
<1>5. f6 \in Nat
  BY DEF field, Value, Bit
<1> HIDE DEF S, T
<1>6. \A op \in DOMAIN S : Matches(w, Table[op]) <=> S[op] = <<f3, f6>>
  <2> SUFFICES ASSUME NEW op \in DOMAIN S
               PROVE  Matches(w, Table[op]) <=> S[op] = <<f3, f6>>
    OBVIOUS
  <2>1. Matches(w, Table[op]) <=> f3 = Table[op].funct3 /\ 2 * f6 = Table[op].funct7
    BY <1>3 DEF Matches
  <2> HIDE DEF f3, f6
  <2>2. 2 * f6 = Table[op].funct7 <=> f6 = S[op][2]
    BY <1>3, <1>5
  <2>3. S[op] = <<f3, f6>> <=> f3 = S[op][1] /\ f6 = S[op][2]
    BY <1>3
  <2> QED BY <1>3, <2>1, <2>2, <2>3
<1>7. \A op \in DOMAIN T : Matches(w, Table[op]) <=> T[op] = f3
  BY <1>4 DEF Matches
<1>8. /\ \A op \in DOMAIN S : Immediate(w, Table[op].format) = Field(w, 20, 6)
      /\ \A op \in DOMAIN T : Immediate(w, Table[op].format) = immediate_i(w)
  BY <1>3, <1>4 DEF Immediate
<1>9. \A op \in DOMAIN S : S[op] = <<f3, f6>> => f3 \in {1, 5}
  BY <1>3
<1> HIDE DEF f3, f6
<1>10. Specified(d, w, 19)
        <=> \/ \E op \in DOMAIN S : S[op] = <<f3, f6>> /\ d = Decoded(w, op, Field(w, 20, 6))
            \/ \E op \in DOMAIN T : T[op] = f3 /\ d = Decoded(w, op, immediate_i(w))
  BY <1>2, <1>6, <1>7, <1>8 DEF Specified
<1>11. d \in decode_op_imm(w, f3) <=> Specified(d, w, 19)
  BY <1>1, <1>4, <1>9, <1>10
<1> QED BY <1>11 DEF f3

(* OP-IMM-32: ADDIW and the shifts of five bits.                           *)
LEMMA OpImm32Exact ==
  ASSUME NEW w, field(w, 0, 7) = 27, NEW d
  PROVE  d \in decode_op_imm_32(w, field(w, 12, 3)) <=> Specified(d, w, 27)
<1> DEFINE f3 == field(w, 12, 3)
           f7 == field(w, 25, 7)
           S == [slliw |-> <<0, 1>>, srliw |-> <<0, 5>>, sraiw |-> <<32, 5>>]
<1>1. d \in decode_op_imm_32(w, f3)
        <=> \/ f3 = 0 /\ d = Decoded(w, "addiw", immediate_i(w))
            \/ f3 # 0
               /\ \E op \in DOMAIN S : S[op] = <<f7, f3>> /\ d = Decoded(w, op, Field(w, 20, 5))
  BY SelectIs, InstructionIs DEF decode_op_imm_32
<1>2. \A op : op \in DOMAIN Table /\ Table[op].opcode = 27
                <=> op \in DOMAIN S \/ op = "addiw"
  <2>1. \A op \in DOMAIN Table :
          Table[op].opcode = 27 => op \in {"addiw", "slliw", "srliw", "sraiw"}
    BY DEF Table, E, P
  <2>2. \A op \in {"addiw", "slliw", "srliw", "sraiw"} :
          op \in DOMAIN Table /\ Table[op].opcode = 27
    BY DEF Table, E
  <2>3. DOMAIN S = {"slliw", "srliw", "sraiw"}
    OBVIOUS
  <2> QED BY <2>1, <2>2, <2>3
<1>3. \A op \in DOMAIN S :
        /\ Table[op].format = "shift5" /\ Table[op].opcode = 27
        /\ S[op] = <<f7, f3>> <=> Table[op].funct7 = f7 /\ Table[op].funct3 = f3
        /\ Table[op].funct3 # 0
  BY DEF Table, E
<1>4. Table["addiw"].format = "I" /\ Table["addiw"].opcode = 27 /\ Table["addiw"].funct3 = 0
  BY DEF Table, E
<1> HIDE DEF S
<1>5. \A op \in DOMAIN S : Matches(w, Table[op]) <=> S[op] = <<f7, f3>>
  BY <1>3 DEF Matches
<1>6. Matches(w, Table["addiw"]) <=> f3 = 0
  BY <1>4 DEF Matches
<1>7. /\ \A op \in DOMAIN S : Immediate(w, Table[op].format) = Field(w, 20, 5)
      /\ Immediate(w, Table["addiw"].format) = immediate_i(w)
  BY <1>3, <1>4 DEF Immediate
<1> HIDE DEF f3, f7
<1>8. Specified(d, w, 27)
        <=> \/ f3 = 0 /\ d = Decoded(w, "addiw", immediate_i(w))
            \/ \E op \in DOMAIN S : S[op] = <<f7, f3>> /\ d = Decoded(w, op, Field(w, 20, 5))
  BY <1>2, <1>5, <1>6, <1>7 DEF Specified
<1>9. d \in decode_op_imm_32(w, f3) <=> Specified(d, w, 27)
  BY <1>1, <1>3, <1>8
<1> QED BY <1>9 DEF f3

(* Where the source compares the whole word, so does the table.            *)
LEMMA FixedWords ==
  /\ Fixed(Table["fence_i"]) = {0, 1, 2, 3, 12}
  /\ Fixed(Table["sfence_vma"]) = System \cup {25, 28}
  /\ Fixed(Table["ecall"]) = System
  /\ Fixed(Table["ebreak"]) = System \cup {20}
  /\ Fixed(Table["sret"]) = System \cup {21, 28}
  /\ Fixed(Table["mret"]) = System \cup {21, 28, 29}
  /\ Fixed(Table["wfi"]) = System \cup {20, 22, 28}
<1>1. /\ NatWord(115) = System /\ NatWord(15) = {0, 1, 2, 3}
      /\ NatWord(0) = {} /\ NatWord(1) = {0} /\ NatWord(2) = {1} /\ NatWord(5) = {0, 2}
      /\ NatWord(8) = {3} /\ NatWord(9) = {0, 3} /\ NatWord(24) = {3, 4}
  <2>1. NatWord(115) = System
    BY NatWordBits DEF System
  <2>2. NatWord(15) = {0, 1, 2, 3}
    BY NatWordBits
  <2>3. NatWord(0) = {} /\ NatWord(1) = {0} /\ NatWord(2) = {1}
    BY NatWordBits
  <2>4. NatWord(5) = {0, 2} /\ NatWord(8) = {3}
    BY NatWordBits
  <2>5. NatWord(9) = {0, 3} /\ NatWord(24) = {3, 4}
    BY NatWordBits
  <2> QED BY <2>1, <2>2, <2>3, <2>4, <2>5
<1>2. /\ \A n \in Nat : Shl({}, n) = {}
      /\ Shl({0}, 12) = {12} /\ Shl({0}, 20) = {20} /\ Shl({1}, 20) = {21}
      /\ Shl({0, 2}, 20) = {20, 22} /\ Shl({3}, 25) = {28} /\ Shl({0, 3}, 25) = {25, 28}
      /\ Shl({3, 4}, 25) = {28, 29}
  BY DEF Shl, Bits
<1>3. /\ Table["fence_i"] = E("whole", 15, 1, 0) /\ Table["sfence_vma"] = E("SFENCE", 115, 0, 9)
      /\ Table["ecall"] = P(0, 0) /\ Table["ebreak"] = P(0, 1) /\ Table["sret"] = P(8, 2)
      /\ Table["mret"] = P(24, 2) /\ Table["wfi"] = P(8, 5)
  BY DEF Table
<1>4. \A f, o, a, c : Fixed(E(f, o, a, c))
        = NatWord(o) \cup Shl(NatWord(a), 12) \cup Shl(NatWord(0), 20) \cup Shl(NatWord(c), 25)
  BY DEF E, Fixed
<1>5. \A c, b : Fixed(P(c, b))
        = NatWord(115) \cup Shl(NatWord(0), 12) \cup Shl(NatWord(b), 20) \cup Shl(NatWord(c), 25)
  BY DEF E, P, Fixed
<1>6. Fixed(Table["fence_i"]) = {0, 1, 2, 3, 12}
  <2>1. Fixed(Table["fence_i"])
          = NatWord(15) \cup Shl(NatWord(1), 12) \cup Shl(NatWord(0), 20)
              \cup Shl(NatWord(0), 25)
    BY <1>3, <1>4
  <2>2. Fixed(Table["fence_i"])
          = {0, 1, 2, 3} \cup Shl({0}, 12) \cup Shl({}, 20) \cup Shl({}, 25)
    BY <1>1, <2>1
  <2> QED BY <1>2, <2>2
<1>7. Fixed(Table["sfence_vma"]) = System \cup {25, 28}
  <2>1. Fixed(Table["sfence_vma"])
          = NatWord(115) \cup Shl(NatWord(0), 12) \cup Shl(NatWord(0), 20)
              \cup Shl(NatWord(9), 25)
    BY <1>3, <1>4
  <2>2. Fixed(Table["sfence_vma"])
          = System \cup Shl({}, 12) \cup Shl({}, 20) \cup Shl({0, 3}, 25)
    BY <1>1, <2>1
  <2> QED BY <1>2, <2>2
<1>8. Fixed(Table["ecall"]) = System
  <2>1. Fixed(Table["ecall"])
          = NatWord(115) \cup Shl(NatWord(0), 12) \cup Shl(NatWord(0), 20)
              \cup Shl(NatWord(0), 25)
    BY <1>3, <1>5
  <2>2. Fixed(Table["ecall"])
          = System \cup Shl({}, 12) \cup Shl({}, 20) \cup Shl({}, 25)
    BY <1>1, <2>1
  <2> QED BY <1>2, <2>2
<1>9. Fixed(Table["ebreak"]) = System \cup {20}
  <2>1. Fixed(Table["ebreak"])
          = NatWord(115) \cup Shl(NatWord(0), 12) \cup Shl(NatWord(1), 20)
              \cup Shl(NatWord(0), 25)
    BY <1>3, <1>5
  <2>2. Fixed(Table["ebreak"])
          = System \cup Shl({}, 12) \cup Shl({0}, 20) \cup Shl({}, 25)
    BY <1>1, <2>1
  <2> QED BY <1>2, <2>2
<1>10. Fixed(Table["sret"]) = System \cup {21, 28}
  <2>1. Fixed(Table["sret"])
          = NatWord(115) \cup Shl(NatWord(0), 12) \cup Shl(NatWord(2), 20)
              \cup Shl(NatWord(8), 25)
    BY <1>3, <1>5
  <2>2. Fixed(Table["sret"])
          = System \cup Shl({}, 12) \cup Shl({1}, 20) \cup Shl({3}, 25)
    BY <1>1, <2>1
  <2> QED BY <1>2, <2>2
<1>11. Fixed(Table["mret"]) = System \cup {21, 28, 29}
  <2>1. Fixed(Table["mret"])
          = NatWord(115) \cup Shl(NatWord(0), 12) \cup Shl(NatWord(2), 20)
              \cup Shl(NatWord(24), 25)
    BY <1>3, <1>5
  <2>2. Fixed(Table["mret"])
          = System \cup Shl({}, 12) \cup Shl({1}, 20) \cup Shl({3, 4}, 25)
    BY <1>1, <2>1
  <2> QED BY <1>2, <2>2
<1>12. Fixed(Table["wfi"]) = System \cup {20, 22, 28}
  <2>1. Fixed(Table["wfi"])
          = NatWord(115) \cup Shl(NatWord(0), 12) \cup Shl(NatWord(5), 20)
              \cup Shl(NatWord(8), 25)
    BY <1>3, <1>5
  <2>2. Fixed(Table["wfi"])
          = System \cup Shl({}, 12) \cup Shl({0, 2}, 20) \cup Shl({3}, 25)
    BY <1>1, <2>1
  <2> QED BY <1>2, <2>2
<1> QED BY <1>6, <1>7, <1>8, <1>9, <1>10, <1>11, <1>12

(* MISC-MEM: FENCE ignores its operands, FENCE.I is one word.              *)
LEMMA MiscMemExact ==
  ASSUME NEW w \in SUBSET (0..31), field(w, 0, 7) = 15, NEW d
  PROVE  d \in decode_misc_mem(w, field(w, 12, 3)) <=> Specified(d, w, 15)
<1> DEFINE f3 == field(w, 12, 3)
<1>1. d \in decode_misc_mem(w, f3)
        <=> \/ f3 = 0 /\ d = Decoded(w, "fence", {})
            \/ f3 # 0 /\ w = {0, 1, 2, 3, 12} /\ d = Decoded(w, "fence_i", {})
  BY InstructionIs DEF decode_misc_mem, error
<1>2. /\ \A op \in DOMAIN Table : Table[op].opcode = 15 <=> op \in {"fence", "fence_i"}
      /\ "fence" \in DOMAIN Table /\ "fence_i" \in DOMAIN Table
  BY DEF Table, E, P
<1>3. /\ Table["fence"].format = "fence" /\ Table["fence"].opcode = 15
      /\ Table["fence"].funct3 = 0
      /\ Table["fence_i"].format = "whole" /\ Table["fence_i"].funct3 = 1
  BY DEF Table, E
<1>4. Matches(w, Table["fence"]) <=> f3 = 0
  BY <1>3 DEF Matches
<1>5. Matches(w, Table["fence_i"]) <=> w = {0, 1, 2, 3, 12}
  <2>1. w \ Free("whole") = w
    BY FreeBits
  <2> QED BY <1>2, <1>3, <2>1, RowMatches, FixedWords
<1>6. Matches(w, Table["fence_i"]) => f3 # 0
  BY <1>3 DEF Matches
<1>7. Immediate(w, "fence") = {} /\ Immediate(w, "whole") = {}
  BY DEF Immediate
<1> HIDE DEF f3
<1>8. Specified(d, w, 15)
        <=> \/ f3 = 0 /\ d = Decoded(w, "fence", {})
            \/ w = {0, 1, 2, 3, 12} /\ d = Decoded(w, "fence_i", {})
  BY <1>2, <1>3, <1>4, <1>5, <1>7 DEF Specified
<1>9. d \in decode_misc_mem(w, f3) <=> Specified(d, w, 15)
  BY <1>1, <1>5, <1>6, <1>8
<1> QED BY <1>9 DEF f3

(* SYSTEM: the CSR instructions and the words of the privileged ones.      *)
LEMMA SystemExact ==
  ASSUME NEW w \in SUBSET (0..31), field(w, 0, 7) = 115, NEW d
  PROVE  d \in decode_system(w, field(w, 12, 3)) <=> Specified(d, w, 115)
<1> DEFINE f3 == field(w, 12, 3)
           F == w \ 15..24 = System \cup {25, 28}
           S == [ecall |-> System, ebreak |-> System \cup {20},
                 sret |-> System \cup {21, 28}, mret |-> System \cup {21, 28, 29},
                 wfi |-> System \cup {20, 22, 28}]
           T == [csrrw |-> 1, csrrs |-> 2, csrrc |-> 3, csrrwi |-> 5, csrrsi |-> 6,
                 csrrci |-> 7]
<1>1. d \in decode_system(w, f3)
        <=> \/ f3 = 0 /\ F /\ d = Decoded(w, "sfence_vma", {})
            \/ f3 = 0 /\ ~F /\ \E op \in DOMAIN S : S[op] = w /\ d = Decoded(w, op, {})
            \/ f3 # 0 /\ \E op \in DOMAIN T : T[op] = f3 /\ d = Decoded(w, op, {})
  <2>1. f3 = 0 /\ F => decode_system(w, f3) = {Decoded(w, "sfence_vma", {})}
    BY InstructionIs DEF decode_system
  <2>2. f3 = 0 /\ ~F => decode_system(w, f3) = Select(S, w, w, {})
    BY DEF decode_system
  <2>3. f3 # 0 => decode_system(w, f3) = Select(T, f3, w, {})
    BY DEF decode_system
  <2> HIDE DEF S, T, F, f3
  <2> QED BY <2>1, <2>2, <2>3, SelectIs
<1>2. /\ DOMAIN S = {"ecall", "ebreak", "sret", "mret", "wfi"}
      /\ DOMAIN T = {"csrrw", "csrrs", "csrrc", "csrrwi", "csrrsi", "csrrci"}
  OBVIOUS
<1>3. \A op \in DOMAIN Table :
        Table[op].opcode = 115
          <=> op \in {"sfence_vma", "ecall", "ebreak", "sret", "mret", "wfi", "csrrw",
                      "csrrs", "csrrc", "csrrwi", "csrrsi", "csrrci"}
  BY DEF Table, E, P
<1>4. \A op \in {"sfence_vma", "ecall", "ebreak", "sret", "mret", "wfi", "csrrw",
                 "csrrs", "csrrc", "csrrwi", "csrrsi", "csrrci"} : op \in DOMAIN Table
  BY DEF Table
<1>5. /\ Table["sfence_vma"].format = "SFENCE" /\ Table["sfence_vma"].funct3 = 0
      /\ \A op \in DOMAIN S : Table[op].format = "whole" /\ Table[op].funct3 = 0
  BY DEF Table, E, P
<1>6. \A op \in DOMAIN T :
        /\ Table[op].format = "csr" /\ Table[op].opcode = 115 /\ Table[op].funct3 = T[op]
        /\ T[op] # 0
  BY DEF Table, E
<1>7. \A op \in DOMAIN S : S[op] = Fixed(Table[op])
  BY FixedWords
<1>8. \A op \in DOMAIN S : S[op] # w \/ ~F
  <2>1. \A op \in DOMAIN S : 25 \notin S[op]
    BY DEF System
  <2>2. F => 25 \in w
    OBVIOUS
  <2> QED BY <2>1, <2>2
<1> HIDE DEF S, T
<1>9. Matches(w, Table["sfence_vma"]) <=> F
  <2>1. "sfence_vma" \in DOMAIN Table
    BY <1>4
  <2>2. w \ Free("SFENCE") = w \ 15..24
    BY FreeBits
  <2> QED BY <1>5, <2>1, <2>2, RowMatches, FixedWords
<1>10. \A op \in DOMAIN S : Matches(w, Table[op]) <=> S[op] = w
  <2>1. w \ Free("whole") = w
    BY FreeBits
  <2> SUFFICES ASSUME NEW op \in DOMAIN S
               PROVE  Matches(w, Table[op]) <=> S[op] = w
    OBVIOUS
  <2>2. op \in DOMAIN Table
    BY <1>2, <1>4
  <2>3. w \ Free(Table[op].format) = w /\ S[op] = Fixed(Table[op])
    BY <1>5, <1>7, <2>1
  <2> HIDE DEF F, f3
  <2> QED BY <2>2, <2>3, RowMatches
<1>11. \A op \in DOMAIN T : Matches(w, Table[op]) <=> T[op] = f3
  BY <1>6 DEF Matches
<1>12. \A op \in DOMAIN S \cup {"sfence_vma"} : Matches(w, Table[op]) => f3 = 0
  BY <1>5 DEF Matches
<1>13. /\ Immediate(w, "SFENCE") = {} /\ Immediate(w, "whole") = {}
       /\ Immediate(w, "csr") = {}
  BY DEF Immediate
<1> HIDE DEF f3, F
<1>14. Specified(d, w, 115)
        <=> \/ F /\ d = Decoded(w, "sfence_vma", {})
            \/ \E op \in DOMAIN S : S[op] = w /\ d = Decoded(w, op, {})
            \/ \E op \in DOMAIN T : T[op] = f3 /\ d = Decoded(w, op, {})
  <2>1. \A op : op \in DOMAIN Table /\ Table[op].opcode = 115
                  <=> op = "sfence_vma" \/ op \in DOMAIN S \/ op \in DOMAIN T
    BY <1>2, <1>3, <1>4
  <2>2. \A op \in DOMAIN S \cup DOMAIN T \cup {"sfence_vma"} :
          Immediate(w, Table[op].format) = {}
    BY <1>5, <1>6, <1>13
  <2>3. Specified(d, w, 115)
          <=> \/ Matches(w, Table["sfence_vma"]) /\ d = Decoded(w, "sfence_vma", {})
              \/ \E op \in DOMAIN S : Matches(w, Table[op]) /\ d = Decoded(w, op, {})
              \/ \E op \in DOMAIN T : Matches(w, Table[op]) /\ d = Decoded(w, op, {})
    <3> DEFINE A(op) == Matches(w, Table[op]) /\ d = Decoded(w, op, {})
               B(op) == Matches(w, Table[op])
                          /\ d = Decoded(w, op, Immediate(w, Table[op].format))
    <3>1. Specified(d, w, 115) <=> \E op \in DOMAIN Table : Table[op].opcode = 115 /\ B(op)
      BY DEF Specified
    <3>2. \A op : op = "sfence_vma" \/ op \in DOMAIN S \/ op \in DOMAIN T => (A(op) <=> B(op))
      BY <2>2
    <3> HIDE DEF A, B
    <3>3. Specified(d, w, 115)
            <=> A("sfence_vma") \/ (\E op \in DOMAIN S : A(op)) \/ (\E op \in DOMAIN T : A(op))
      BY <2>1, <3>1, <3>2
    <3> QED BY <3>3 DEF A
  <2> QED BY <1>9, <1>10, <1>11, <2>3
<1>15. d \in decode_system(w, f3) <=> Specified(d, w, 115)
  BY <1>1, <1>6, <1>8, <1>9, <1>10, <1>12, <1>14
<1> QED BY <1>15 DEF f3

(* decode() returns what the table specifies.                              *)
LEMMA DecodeExact ==
  ASSUME NEW w \in SUBSET (0..31), NEW d
  PROVE  d \in decode(w)
           <=> \E op \in DOMAIN Table :
                 /\ Matches(w, Table[op])
                 /\ d = Decoded(w, op, Immediate(w, Table[op].format))
<1> DEFINE k == field(w, 0, 7)
           f3 == field(w, 12, 3)
<1>1. (\E op \in DOMAIN Table :
         Matches(w, Table[op]) /\ d = Decoded(w, op, Immediate(w, Table[op].format)))
        <=> Specified(d, w, k)
  BY DEF Specified, Matches
<1>2. \A op \in DOMAIN Table :
        Table[op].opcode \in {55, 23, 111, 103, 99, 3, 35, 19, 51, 27, 59, 15, 115}
  BY DEF Table, E, P
<1>3. /\ k = 103 /\ f3 # 0 => decode(w) = {}
      /\ k \notin {55, 23, 111, 103, 99, 3, 35, 19, 51, 27, 59, 15, 115} => decode(w) = {}
  BY DEF decode, error
<1>4. /\ k = 55 => decode(w) = instruction(w, "lui", immediate_u(w))
      /\ k = 23 => decode(w) = instruction(w, "auipc", immediate_u(w))
      /\ k = 111 => decode(w) = instruction(w, "jal", immediate_j(w))
      /\ k = 103 /\ f3 = 0 => decode(w) = instruction(w, "jalr", immediate_i(w))
      /\ k = 99 => decode(w) = decode_branch(w, f3)
      /\ k = 3 => decode(w) = decode_load(w, f3)
      /\ k = 35 => decode(w) = decode_store(w, f3)
      /\ k = 19 => decode(w) = decode_op_imm(w, f3)
      /\ k = 51 => decode(w) = decode_op(w, f3)
      /\ k = 27 => decode(w) = decode_op_imm_32(w, f3)
      /\ k = 59 => decode(w) = decode_op_32(w, f3)
      /\ k = 15 => decode(w) = decode_misc_mem(w, f3)
      /\ k = 115 => decode(w) = decode_system(w, f3)
  BY DEF decode
<1>5. d \in decode(w) <=> Specified(d, w, k)
  <2>1. CASE k \in {55, 23, 111, 103}
    BY <1>3, <1>4, <2>1, SingleExact
  <2>2. CASE k \in {99, 3, 35, 51, 59}
    BY <1>4, <2>2, BranchExact, LoadExact, StoreExact, OpExact, Op32Exact
  <2>3. CASE k \in {19, 27, 15, 115}
    BY <1>4, <2>3, OpImmExact, OpImm32Exact, MiscMemExact, SystemExact
  <2>4. CASE k \notin {55, 23, 111, 103, 99, 3, 35, 19, 51, 27, 59, 15, 115}
    BY <1>2, <1>3, <2>4 DEF Specified
  <2> QED BY <2>1, <2>2, <2>3, <2>4
<1> QED BY <1>1, <1>5

(* An immediate holds the encoded bits, each at its place, and above them  *)
(* copies of the sign bit if the format has one.                           *)
Assembled(w, imm, format) ==
  LET place == ImmediatePlace(format)
  IN /\ \A b \in DOMAIN place : b \in imm <=> place[b] \in w
     /\ imm \ DOMAIN place = UNION {(s + 1)..63 : s \in SignBit(format) \cap imm}

(* The bits of a sign extension.                                           *)
LEMMA SignExtendIs ==
  ASSUME NEW v, NEW n \in 1..63, NEW b
  PROVE  b \in SignExtend(v, n)
           <=> (b \in 0..n-1 /\ b \in v) \/ (b \in n..63 /\ n - 1 \in v)
BY DEF SignExtend

(* Where each immediate takes its bits from.                               *)
LEMMA ImmediateBits ==
  ASSUME NEW w \in SUBSET (0..31), NEW b
  PROVE  /\ b \in immediate_i(w)
              <=> (b \in 0..11 /\ b + 20 \in w) \/ (b \in 12..63 /\ 31 \in w)
         /\ b \in immediate_s(w)
              <=> \/ (b \in 0..4 /\ b + 7 \in w) \/ (b \in 5..11 /\ b + 20 \in w)
                  \/ (b \in 12..63 /\ 31 \in w)
         /\ b \in immediate_b(w)
              <=> \/ (b \in 1..4 /\ b + 7 \in w) \/ (b \in 5..10 /\ b + 20 \in w)
                  \/ (b = 11 /\ 7 \in w) \/ (b \in 12..63 /\ 31 \in w)
         /\ b \in immediate_u(w)
              <=> (b \in 12..31 /\ b \in w) \/ (b \in 32..63 /\ 31 \in w)
         /\ b \in immediate_j(w)
              <=> \/ (b \in 1..10 /\ b + 20 \in w) \/ (b = 11 /\ 20 \in w)
                  \/ (b \in 12..19 /\ b \in w) \/ (b \in 20..63 /\ 31 \in w)
<1>1. b \in immediate_i(w)
        <=> (b \in 0..11 /\ b + 20 \in w) \/ (b \in 12..63 /\ 31 \in w)
  <2> DEFINE v == Shr(w, 20)
  <2>1. \A c \in 0..11 : c \in v <=> c + 20 \in w
    BY DEF Shl, Shr, Field, Bits
  <2>2. immediate_i(w) = SignExtend(v, 12)
    BY DEF immediate_i
  <2> HIDE DEF v
  <2>3. b \in immediate_i(w) <=> (b \in 0..11 /\ b \in v) \/ (b \in 12..63 /\ 11 \in v)
    BY <2>2, SignExtendIs
  <2> QED BY <2>1, <2>3
<1>2. b \in immediate_s(w)
        <=> \/ (b \in 0..4 /\ b + 7 \in w) \/ (b \in 5..11 /\ b + 20 \in w)
            \/ (b \in 12..63 /\ 31 \in w)
  <2> DEFINE v == Shl(Shr(w, 25), 5) \cup Field(w, 7, 5)
  <2>1. /\ \A c \in 0..4 : c \in v <=> c + 7 \in w
        /\ \A c \in 5..11 : c \in v <=> c + 20 \in w
    BY DEF Shl, Shr, Field, Bits
  <2>2. immediate_s(w) = SignExtend(v, 12)
    BY DEF immediate_s
  <2> HIDE DEF v
  <2>3. b \in immediate_s(w) <=> (b \in 0..11 /\ b \in v) \/ (b \in 12..63 /\ 11 \in v)
    BY <2>2, SignExtendIs
  <2> QED BY <2>1, <2>3
<1>3. b \in immediate_b(w)
        <=> \/ (b \in 1..4 /\ b + 7 \in w) \/ (b \in 5..10 /\ b + 20 \in w)
            \/ (b = 11 /\ 7 \in w) \/ (b \in 12..63 /\ 31 \in w)
  <2> DEFINE v == Shl(Shr(w, 31), 12) \cup Shl(Field(w, 7, 1), 11)
                    \cup Shl(Field(w, 25, 6), 5) \cup Shl(Field(w, 8, 4), 1)
  <2>1. /\ 0 \notin v
        /\ \A c \in 1..4 : c \in v <=> c + 7 \in w
        /\ \A c \in 5..10 : c \in v <=> c + 20 \in w
        /\ 11 \in v <=> 7 \in w
        /\ 12 \in v <=> 31 \in w
    <3>1. \A c : c \in Shl(Shr(w, 31), 12) <=> c \in 12..63 /\ (c - 12) + 31 \in w
      BY DEF Shl, Shr, Field, Bits
    <3>2. \A c : c \in Shl(Field(w, 7, 1), 11) <=> c \in 11..11 /\ (c - 11) + 7 \in w
      BY DEF Shl, Shr, Field, Bits
    <3>3. \A c : c \in Shl(Field(w, 25, 6), 5) <=> c \in 5..10 /\ (c - 5) + 25 \in w
      BY DEF Shl, Shr, Field, Bits
    <3>4. \A c : c \in Shl(Field(w, 8, 4), 1) <=> c \in 1..4 /\ (c - 1) + 8 \in w
      BY DEF Shl, Shr, Field, Bits
    <3> QED BY <3>1, <3>2, <3>3, <3>4
  <2>2. immediate_b(w) = SignExtend(v, 13)
    BY DEF immediate_b
  <2> HIDE DEF v
  <2>3. b \in immediate_b(w) <=> (b \in 0..12 /\ b \in v) \/ (b \in 13..63 /\ 12 \in v)
    BY <2>2, SignExtendIs
  <2> QED BY <2>1, <2>3
<1>4. b \in immediate_u(w)
        <=> (b \in 12..31 /\ b \in w) \/ (b \in 32..63 /\ 31 \in w)
  <2> DEFINE v == w \ 0..11
  <2>1. /\ \A c \in 0..11 : c \notin v
        /\ \A c \in 12..31 : c \in v <=> c \in w
    BY DEF Shl, Shr, Field, Bits
  <2>2. immediate_u(w) = SignExtend(v, 32)
    BY DEF immediate_u
  <2> HIDE DEF v
  <2>3. b \in immediate_u(w) <=> (b \in 0..31 /\ b \in v) \/ (b \in 32..63 /\ 31 \in v)
    BY <2>2 DEF SignExtend
  <2> QED BY <2>1, <2>3
<1>5. b \in immediate_j(w)
        <=> \/ (b \in 1..10 /\ b + 20 \in w) \/ (b = 11 /\ 20 \in w)
            \/ (b \in 12..19 /\ b \in w) \/ (b \in 20..63 /\ 31 \in w)
  <2> DEFINE v == Shl(Shr(w, 31), 20) \cup Shl(Field(w, 12, 8), 12)
                    \cup Shl(Field(w, 20, 1), 11) \cup Shl(Field(w, 21, 10), 1)
  <2>1. /\ 0 \notin v
        /\ \A c \in 1..10 : c \in v <=> c + 20 \in w
        /\ 11 \in v <=> 20 \in w
        /\ \A c \in 12..19 : c \in v <=> c \in w
        /\ 20 \in v <=> 31 \in w
    <3>1. \A c : c \in Shl(Shr(w, 31), 20) <=> c \in 20..63 /\ (c - 20) + 31 \in w
      BY DEF Shl, Shr, Field, Bits
    <3>2. \A c : c \in Shl(Field(w, 12, 8), 12) <=> c \in 12..19 /\ (c - 12) + 12 \in w
      BY DEF Shl, Shr, Field, Bits
    <3>3. \A c : c \in Shl(Field(w, 20, 1), 11) <=> c \in 11..11 /\ (c - 11) + 20 \in w
      BY DEF Shl, Shr, Field, Bits
    <3>4. \A c : c \in Shl(Field(w, 21, 10), 1) <=> c \in 1..10 /\ (c - 1) + 21 \in w
      BY DEF Shl, Shr, Field, Bits
    <3> QED BY <3>1, <3>2, <3>3, <3>4
  <2>2. immediate_j(w) = SignExtend(v, 21)
    BY DEF immediate_j
  <2> HIDE DEF v
  <2>3. b \in immediate_j(w) <=> (b \in 0..20 /\ b \in v) \/ (b \in 21..63 /\ 20 \in v)
    BY <2>2, SignExtendIs
  <2> QED BY <2>1, <2>3
<1> QED BY <1>1, <1>2, <1>3, <1>4, <1>5

(* decode() assembles the immediate of every format.                       *)
LEMMA ImmediateAssembled ==
  ASSUME NEW w \in SUBSET (0..31),
         NEW format \in {"U", "J", "I", "S", "B", "R", "shift6", "shift5", "csr",
                         "fence", "SFENCE", "whole"}
  PROVE  Assembled(w, Immediate(w, format), format)
<1> DEFINE imm == Immediate(w, format)
           place == ImmediatePlace(format)
           signs == UNION {(s + 1)..63 : s \in SignBit(format) \cap imm}
<1>1. ASSUME NEW t \in 0..62, SignBit(format) = {t}
      PROVE  \A b : b \in signs <=> b \in (t + 1)..63 /\ t \in imm
  <2> HIDE DEF imm
  <2> QED BY <1>1
<1>2. ASSUME SignBit(format) = {} PROVE signs = {}
  BY <1>2
<1>3. CASE format = "I"
  <2>1. DOMAIN place = 0..11 /\ SignBit(format) = {11} /\ imm = immediate_i(w)
    BY <1>3 DEF ImmediatePlace, SignBit, Immediate
  <2>2. \A b \in 0..11 : place[b] = b + 20
    BY <1>3 DEF ImmediatePlace
  <2>3. \A b : b \in signs <=> b \in 12..63 /\ 11 \in imm
    BY <1>1, <2>1
  <2> HIDE DEF imm, place, signs
  <2>4. \A b : b \in imm <=> (b \in 0..11 /\ b + 20 \in w) \/ (b \in 12..63 /\ 31 \in w)
    BY <2>1, ImmediateBits
  <2>5. \A b \in DOMAIN place : b \in imm <=> place[b] \in w
    BY <2>1, <2>2, <2>4
  <2>6. \A b : b \in imm \ DOMAIN place <=> b \in signs
    BY <2>1, <2>3, <2>4
  <2>7. imm \ DOMAIN place = signs
    BY <2>6
  <2> QED BY <2>5, <2>7 DEF Assembled, imm, place, signs
<1>4. CASE format = "S"
  <2>1. DOMAIN place = 0..11 /\ SignBit(format) = {11} /\ imm = immediate_s(w)
    BY <1>4 DEF ImmediatePlace, SignBit, Immediate
  <2>2. /\ \A b \in 0..4 : place[b] = b + 7
        /\ \A b \in 5..11 : place[b] = b + 20
    BY <1>4 DEF ImmediatePlace
  <2>3. \A b : b \in signs <=> b \in 12..63 /\ 11 \in imm
    BY <1>1, <2>1
  <2> HIDE DEF imm, place, signs
  <2>4. \A b : b \in imm <=> \/ (b \in 0..4 /\ b + 7 \in w) \/ (b \in 5..11 /\ b + 20 \in w)
                             \/ (b \in 12..63 /\ 31 \in w)
    BY <2>1, ImmediateBits
  <2>5. \A b \in DOMAIN place : b \in imm <=> place[b] \in w
    BY <2>1, <2>2, <2>4
  <2>6. \A b : b \in imm \ DOMAIN place <=> b \in signs
    BY <2>1, <2>3, <2>4
  <2>7. imm \ DOMAIN place = signs
    BY <2>6
  <2> QED BY <2>5, <2>7 DEF Assembled, imm, place, signs
<1>5. CASE format = "B"
  <2>1. DOMAIN place = 1..12 /\ SignBit(format) = {12} /\ imm = immediate_b(w)
    BY <1>5 DEF ImmediatePlace, SignBit, Immediate
  <2>2. /\ \A b \in 1..4 : place[b] = b + 7
        /\ \A b \in 5..10 : place[b] = b + 20
        /\ place[11] = 7 /\ place[12] = 31
    BY <1>5 DEF ImmediatePlace
  <2>3. \A b : b \in signs <=> b \in 13..63 /\ 12 \in imm
    BY <1>1, <2>1
  <2> HIDE DEF imm, place, signs
  <2>4. \A b : b \in imm <=> \/ (b \in 1..4 /\ b + 7 \in w) \/ (b \in 5..10 /\ b + 20 \in w)
                             \/ (b = 11 /\ 7 \in w) \/ (b \in 12..63 /\ 31 \in w)
    BY <2>1, ImmediateBits
  <2>5. \A b \in DOMAIN place : b \in imm <=> place[b] \in w
    BY <2>1, <2>2, <2>4
  <2>6. \A b : b \in imm \ DOMAIN place <=> b \in signs
    BY <2>1, <2>3, <2>4
  <2>7. imm \ DOMAIN place = signs
    BY <2>6
  <2> QED BY <2>5, <2>7 DEF Assembled, imm, place, signs
<1>6. CASE format = "U"
  <2>1. DOMAIN place = 12..31 /\ SignBit(format) = {31} /\ imm = immediate_u(w)
    BY <1>6 DEF ImmediatePlace, SignBit, Immediate
  <2>2. \A b \in 12..31 : place[b] = b
    BY <1>6 DEF ImmediatePlace
  <2>3. \A b : b \in signs <=> b \in 32..63 /\ 31 \in imm
    BY <1>1, <2>1
  <2> HIDE DEF imm, place, signs
  <2>4. \A b : b \in imm <=> (b \in 12..31 /\ b \in w) \/ (b \in 32..63 /\ 31 \in w)
    BY <2>1, ImmediateBits
  <2>5. \A b \in DOMAIN place : b \in imm <=> place[b] \in w
    BY <2>1, <2>2, <2>4
  <2>6. \A b : b \in imm \ DOMAIN place <=> b \in signs
    BY <2>1, <2>3, <2>4
  <2>7. imm \ DOMAIN place = signs
    BY <2>6
  <2> QED BY <2>5, <2>7 DEF Assembled, imm, place, signs
<1>7. CASE format = "J"
  <2>1. DOMAIN place = 1..20 /\ SignBit(format) = {20} /\ imm = immediate_j(w)
    BY <1>7 DEF ImmediatePlace, SignBit, Immediate
  <2>2. /\ \A b \in 1..10 : place[b] = b + 20
        /\ place[11] = 20
        /\ \A b \in 12..19 : place[b] = b
        /\ place[20] = 31
    BY <1>7 DEF ImmediatePlace
  <2>3. \A b : b \in signs <=> b \in 21..63 /\ 20 \in imm
    BY <1>1, <2>1
  <2> HIDE DEF imm, place, signs
  <2>4. \A b : b \in imm <=> \/ (b \in 1..10 /\ b + 20 \in w) \/ (b = 11 /\ 20 \in w)
                             \/ (b \in 12..19 /\ b \in w) \/ (b \in 20..63 /\ 31 \in w)
    BY <2>1, ImmediateBits
  <2>5. \A b \in DOMAIN place : b \in imm <=> place[b] \in w
    BY <2>1, <2>2, <2>4
  <2>6. \A b : b \in imm \ DOMAIN place <=> b \in signs
    BY <2>1, <2>3, <2>4
  <2>7. imm \ DOMAIN place = signs
    BY <2>6
  <2> QED BY <2>5, <2>7 DEF Assembled, imm, place, signs
<1>8. CASE format = "shift6"
  <2>1. /\ DOMAIN place = 0..5 /\ \A b \in 0..5 : place[b] = b + 20
        /\ imm = Field(w, 20, 6) /\ SignBit(format) = {}
    BY <1>8 DEF ImmediatePlace, Immediate, SignBit
  <2>2. \A b : b \in Field(w, 20, 6) <=> b \in 0..5 /\ b + 20 \in w
    BY DEF Field
  <2>3. signs = {}
    BY <1>2, <2>1
  <2> HIDE DEF imm, place, signs
  <2>4. (\A b \in DOMAIN place : b \in imm <=> place[b] \in w) /\ imm \ DOMAIN place = signs
    BY <2>1, <2>2, <2>3
  <2> QED BY <2>4 DEF Assembled, imm, place, signs
<1>9. CASE format = "shift5"
  <2>1. /\ DOMAIN place = 0..4 /\ \A b \in 0..4 : place[b] = b + 20
        /\ imm = Field(w, 20, 5) /\ SignBit(format) = {}
    BY <1>9 DEF ImmediatePlace, Immediate, SignBit
  <2>2. \A b : b \in Field(w, 20, 5) <=> b \in 0..4 /\ b + 20 \in w
    BY DEF Field
  <2>3. signs = {}
    BY <1>2, <2>1
  <2> HIDE DEF imm, place, signs
  <2>4. (\A b \in DOMAIN place : b \in imm <=> place[b] \in w) /\ imm \ DOMAIN place = signs
    BY <2>1, <2>2, <2>3
  <2> QED BY <2>4 DEF Assembled, imm, place, signs
<1>10. CASE format \in {"R", "csr", "fence", "SFENCE", "whole"}
  <2>1. DOMAIN place = {} /\ imm = {} /\ SignBit(format) = {}
    BY <1>10 DEF ImmediatePlace, Immediate, SignBit
  <2>2. signs = {}
    BY <1>2, <2>1
  <2> HIDE DEF imm, place, signs
  <2>3. (\A b \in DOMAIN place : b \in imm <=> place[b] \in w) /\ imm \ DOMAIN place = signs
    BY <2>1, <2>2
  <2> QED BY <2>3 DEF Assembled, imm, place, signs
<1> QED BY <1>3, <1>4, <1>5, <1>6, <1>7, <1>8, <1>9, <1>10

(* The table puts a decoded register back where decode() found it.         *)
LEMMA RegisterBack ==
  ASSUME NEW w
  PROVE  /\ Shl(NatWord(field(w, 7, 5)), 7) = w \cap 7..11
         /\ Shl(NatWord(field(w, 15, 5)), 15) = w \cap 15..19
         /\ Shl(NatWord(field(w, 20, 5)), 20) = w \cap 20..24
         /\ Shl(Field(w, 20, 12), 20) = w \cap 20..31
<1>1. \A low \in Nat : field(w, low, 5) \in 0..127
  BY DEF field, Value, Bit
<1>2. /\ NatWord(field(w, 7, 5)) = Field(w, 7, 5)
      /\ NatWord(field(w, 15, 5)) = Field(w, 15, 5)
      /\ NatWord(field(w, 20, 5)) = Field(w, 20, 5)
  BY <1>1, FieldIs
<1>3. Shl(Field(w, 7, 5), 7) = w \cap 7..11
  <2>1. \A b : b \in Shl(Field(w, 7, 5), 7) <=> b \in w \cap 7..11
    BY DEF Shl, Field, Bits
  <2> QED BY <2>1
<1>4. Shl(Field(w, 15, 5), 15) = w \cap 15..19
  <2>1. \A b : b \in Shl(Field(w, 15, 5), 15) <=> b \in w \cap 15..19
    BY DEF Shl, Field, Bits
  <2> QED BY <2>1
<1>5. Shl(Field(w, 20, 5), 20) = w \cap 20..24
  <2>1. \A b : b \in Shl(Field(w, 20, 5), 20) <=> b \in w \cap 20..24
    BY DEF Shl, Field, Bits
  <2> QED BY <2>1
<1>6. Shl(Field(w, 20, 12), 20) = w \cap 20..31
  <2>1. \A b : b \in Shl(Field(w, 20, 12), 20) <=> b \in w \cap 20..31
    BY DEF Shl, Field, Bits
  <2> QED BY <2>1
<1> QED BY <1>2, <1>3, <1>4, <1>5, <1>6

(* Encoding what decode() made of a word gives the word.                   *)
LEMMA EncodeDecoded ==
  ASSUME NEW w \in SUBSET (0..31), NEW op \in DOMAIN Table, Matches(w, Table[op])
  PROVE  LET format == Table[op].format IN
         Encode(Decoded(w, op, Immediate(w, format))) = w \ Ignored(format)
<1> DEFINE e == Table[op]
           f == e.format
           place == ImmediatePlace(f)
           imm == Immediate(w, f)
           d == Decoded(w, op, imm)
           M == {place[b] : b \in DOMAIN place}
           I == {place[b] : b \in imm \cap DOMAIN place}
           A == IF HasRd(f) THEN 7..11 ELSE {}
           B == IF HasRs1(f) THEN 15..19 ELSE {}
           C == IF HasRs2(f) THEN 20..24 ELSE {}
           D == IF f = "csr" THEN 20..31 ELSE {}
<1>1. f \in {"U", "J", "I", "S", "B", "R", "shift6", "shift5", "csr", "fence",
             "SFENCE", "whole"}
  BY RowFacts DEF Row
<1>2. /\ d.op = op /\ d.imm = imm /\ d.rd = field(w, 7, 5) /\ d.rs1 = field(w, 15, 5)
      /\ d.rs2 = field(w, 20, 5) /\ d.csr = Field(w, 20, 12)
  BY DEF Decoded
<1> HIDE DEF d
<1>3. Encode(d) = Fixed(e) \cup I
        \cup (IF HasRd(f) THEN Shl(NatWord(field(w, 7, 5)), 7) ELSE {})
        \cup (IF HasRs1(f) THEN Shl(NatWord(field(w, 15, 5)), 15) ELSE {})
        \cup (IF HasRs2(f) THEN Shl(NatWord(field(w, 20, 5)), 20) ELSE {})
        \cup (IF f = "csr" THEN Shl(Field(w, 20, 12), 20) ELSE {})
  BY <1>2 DEF Encode
<1>4. I = w \cap M
  <2>1. \A b \in DOMAIN place : b \in imm <=> place[b] \in w
    BY <1>1, ImmediateAssembled DEF Assembled
  <2> HIDE DEF place, imm
  <2> QED BY <2>1
<1>5. Fixed(e) = w \ Free(f)
  BY RowMatches
<1>6. Free(f) = M \cup A \cup B \cup C \cup D \cup Ignored(f)
  BY DEF Free, OperandBits
<1>7. f # "fence" => Ignored(f) = {}
  BY DEF Ignored
<1>8. f = "fence" => M = {} /\ A = {} /\ B = {} /\ C = {} /\ D = {}
  BY DEF ImmediatePlace, HasRd, HasRs1, HasRs2
<1> HIDE DEF e, f, place, imm, I, M
<1>9. Encode(d) = Fixed(e) \cup (w \cap M) \cup (w \cap A) \cup (w \cap B) \cup (w \cap C)
                    \cup (w \cap D)
  BY <1>3, <1>4, RegisterBack
<1> HIDE DEF A, B, C, D
<1>10. Encode(d) = w \ Ignored(f)
  BY <1>5, <1>6, <1>7, <1>8, <1>9
<1> QED BY <1>10 DEF d, imm, f, e

(* The two properties, for every word of 32 bits.                          *)
LEMMA WordExact ==
  ASSUME NEW w \in SUBSET (0..31)
  PROVE  /\ {d.op : d \in decode(w)} = Encodings(w)
         /\ \A d \in decode(w) :
              LET format == Table[d.op].format
                  encoded == DOMAIN ImmediatePlace(format)
              IN /\ Encode(d) = w \ Ignored(format)
                 /\ d.imm \ encoded
                      = UNION {(s + 1)..63 : s \in SignBit(format) \cap d.imm}
<1> DEFINE I(op) == Decoded(w, op, Immediate(w, Table[op].format))
<1>1. \A d : d \in decode(w)
               <=> \E op \in DOMAIN Table : Matches(w, Table[op]) /\ d = I(op)
  BY DecodeExact
<1>2. \A op : I(op).op = op /\ I(op).imm = Immediate(w, Table[op].format)
  BY DEF Decoded
<1>3. \A op : op \in Encodings(w) <=> op \in DOMAIN Table /\ Matches(w, Table[op])
  BY RowMatches DEF Encodings, Free
<1>4. {d.op : d \in decode(w)} = Encodings(w)
  <2> HIDE DEF I
  <2> QED BY <1>1, <1>2, <1>3
<1>5. ASSUME NEW d \in decode(w)
      PROVE  LET format == Table[d.op].format
                 encoded == DOMAIN ImmediatePlace(format)
             IN /\ Encode(d) = w \ Ignored(format)
                /\ d.imm \ encoded
                     = UNION {(s + 1)..63 : s \in SignBit(format) \cap d.imm}
  <2>1. PICK op \in DOMAIN Table : Matches(w, Table[op]) /\ d = I(op)
    BY <1>1
  <2>2. d.op = op /\ d.imm = Immediate(w, Table[op].format)
    BY <1>2, <2>1
  <2>3. Encode(d) = w \ Ignored(Table[op].format)
    BY <2>1, EncodeDecoded
  <2>4. Assembled(w, d.imm, Table[op].format)
    BY <2>2, RowFacts, ImmediateAssembled DEF Row
  <2> QED BY <2>2, <2>3, <2>4 DEF Assembled
<1> QED BY <1>4, <1>5

(* Only the 32 bits of a fetched word are ever set.                        *)
RawWord == raw \in SUBSET (0..31)

(* Flipping bits keeps it so.                                              *)
LEMMA RawWordInvariant == Spec => []RawWord
<1>1. Init => RawWord
  <2>1. \A op \in DOMAIN Table :
          Fixed(Table[op]) \subseteq 0..31 /\ OperandBits(Table[op].format) \subseteq 0..31
    <3> SUFFICES ASSUME NEW op \in DOMAIN Table
                 PROVE  /\ Fixed(Table[op]) \subseteq 0..31
                        /\ OperandBits(Table[op].format) \subseteq 0..31
      OBVIOUS
    <3>1. Table[op] \in Row
      BY RowFacts
    <3>2. Free(Table[op].format) \subseteq 0..31
      BY <3>1, FreeBits DEF Row
    <3> QED BY <3>1, <3>2, FixedFields DEF Free
  <2> QED BY <2>1 DEF Init, RawWord
<1>2. RawWord /\ [Next]_<<raw, flips>> => RawWord'
  BY DEF RawWord, Next, Flip
<1> QED BY <1>1, <1>2, PTL DEF Spec

(* decode() accepts exactly the words the encoding table has, and names    *)
(* the table's operation: for every word of 32 bits.                       *)
THEOREM OperationsDecoded == Spec => []OperationExact
<1>1. RawWord => OperationExact
  BY WordExact DEF RawWord, OperationExact
<1> QED BY <1>1, RawWordInvariant, PTL

(* No operand bit of an accepted word is lost, moved or invented.          *)
THEOREM OperandsDecoded == Spec => []OperandsExact
<1>1. RawWord => OperandsExact
  BY WordExact DEF RawWord, OperandsExact
<1> QED BY <1>1, RawWordInvariant, PTL

(* A switch whose cases differ has at most one answer.                     *)
LEMMA SelectOne ==
  ASSUME NEW table, NEW selector, NEW w, NEW imm,
         \A o, p \in DOMAIN table : table[o] = table[p] => o = p,
         NEW c \in Select(table, selector, w, imm),
         NEW d \in Select(table, selector, w, imm)
  PROVE  c = d
<1>1. PICK o \in DOMAIN table : table[o] = selector /\ c = Decoded(w, o, imm)
  BY SelectIs
<1>2. PICK p \in DOMAIN table : table[p] = selector /\ d = Decoded(w, p, imm)
  BY SelectIs
<1> QED BY <1>1, <1>2

(* decode() is a function: no word decodes to two instructions.            *)
THEOREM DecodeUnambiguous ==
  ASSUME NEW w, NEW c \in decode(w), NEW d \in decode(w)
  PROVE  c = d
<1> DEFINE One(S) == \A x, y \in S : x = y
           f3 == field(w, 12, 3)
<1>1. \A op, imm : One(instruction(w, op, imm))
  BY InstructionIs
<1>2. One(error)
  BY DEF error
<1>3. One(decode_branch(w, f3))
  <2> DEFINE T == [beq |-> 0, bne |-> 1, blt |-> 4, bge |-> 5, bltu |-> 6, bgeu |-> 7]
  <2>1. \A o, p \in DOMAIN T : T[o] = T[p] => o = p
    OBVIOUS
  <2>2. decode_branch(w, f3) = Select(T, f3, w, immediate_b(w))
    BY DEF decode_branch
  <2> HIDE DEF T, f3
  <2> QED BY <2>1, <2>2, SelectOne
<1>4. One(decode_load(w, f3))
  <2> DEFINE T == [lb |-> 0, lh |-> 1, lw |-> 2, ld |-> 3, lbu |-> 4, lhu |-> 5, lwu |-> 6]
  <2>1. \A o, p \in DOMAIN T : T[o] = T[p] => o = p
    OBVIOUS
  <2>2. decode_load(w, f3) = Select(T, f3, w, immediate_i(w))
    BY DEF decode_load
  <2> HIDE DEF T, f3
  <2> QED BY <2>1, <2>2, SelectOne
<1>5. One(decode_store(w, f3))
  <2> DEFINE T == [sb |-> 0, sh |-> 1, sw |-> 2, sd |-> 3]
  <2>1. \A o, p \in DOMAIN T : T[o] = T[p] => o = p
    OBVIOUS
  <2>2. decode_store(w, f3) = Select(T, f3, w, immediate_s(w))
    BY DEF decode_store
  <2> HIDE DEF T, f3
  <2> QED BY <2>1, <2>2, SelectOne
<1>6. One(decode_op_imm(w, f3))
  <2> DEFINE S == [slli |-> <<1, 0>>, srli |-> <<5, 0>>, srai |-> <<5, 16>>]
             T == [addi |-> 0, slti |-> 2, sltiu |-> 3, xori |-> 4, ori |-> 6, andi |-> 7]
  <2>1. /\ \A o, p \in DOMAIN S : S[o] = S[p] => o = p
        /\ \A o, p \in DOMAIN T : T[o] = T[p] => o = p
    OBVIOUS
  <2>2. \/ decode_op_imm(w, f3) = Select(S, <<f3, field(w, 26, 6)>>, w, Field(w, 20, 6))
        \/ decode_op_imm(w, f3) = Select(T, f3, w, immediate_i(w))
    BY DEF decode_op_imm
  <2> HIDE DEF S, T, f3
  <2> QED BY <2>1, <2>2, SelectOne
<1>7. One(decode_op(w, f3))
  <2>1. \A o, p \in DOMAIN OpTable : OpTable[o] = OpTable[p] => o = p
    BY DEF OpTable
  <2> QED BY <2>1, SelectOne DEF decode_op
<1>8. One(decode_op_imm_32(w, f3))
  <2> DEFINE S == [slliw |-> <<0, 1>>, srliw |-> <<0, 5>>, sraiw |-> <<32, 5>>]
  <2>1. \A o, p \in DOMAIN S : S[o] = S[p] => o = p
    OBVIOUS
  <2>2. \/ decode_op_imm_32(w, f3) = instruction(w, "addiw", immediate_i(w))
        \/ decode_op_imm_32(w, f3) = Select(S, <<field(w, 25, 7), f3>>, w, Field(w, 20, 5))
    BY DEF decode_op_imm_32
  <2> HIDE DEF S, f3
  <2> QED BY <1>1, <2>1, <2>2, SelectOne
<1>9. One(decode_op_32(w, f3))
  <2> DEFINE T == [addw |-> <<0, 0>>, sllw |-> <<0, 1>>, srlw |-> <<0, 5>>,
                   subw |-> <<32, 0>>, sraw |-> <<32, 5>>]
  <2>1. \A o, p \in DOMAIN T : T[o] = T[p] => o = p
    OBVIOUS
  <2>2. decode_op_32(w, f3) = Select(T, <<field(w, 25, 7), f3>>, w, {})
    BY DEF decode_op_32
  <2> HIDE DEF T, f3
  <2> QED BY <2>1, <2>2, SelectOne
<1>10. One(decode_misc_mem(w, f3))
  <2>1. \/ decode_misc_mem(w, f3) = instruction(w, "fence", {})
        \/ decode_misc_mem(w, f3) = instruction(w, "fence_i", {})
        \/ decode_misc_mem(w, f3) = error
    BY DEF decode_misc_mem
  <2> HIDE DEF f3
  <2> QED BY <1>1, <1>2, <2>1
<1>11. One(decode_system(w, f3))
  <2> DEFINE S == [ecall |-> System, ebreak |-> System \cup {20},
                   sret |-> System \cup {21, 28}, mret |-> System \cup {21, 28, 29},
                   wfi |-> System \cup {20, 22, 28}]
             T == [csrrw |-> 1, csrrs |-> 2, csrrc |-> 3, csrrwi |-> 5, csrrsi |-> 6,
                   csrrci |-> 7]
  <2>1. \A o, p \in DOMAIN T : T[o] = T[p] => o = p
    OBVIOUS
  <2>2. \A o, p \in DOMAIN S : S[o] = S[p] => o = p
    <3>1. DOMAIN S = {"ecall", "ebreak", "sret", "mret", "wfi"}
      OBVIOUS
    <3>2. /\ 20 \notin S["ecall"] /\ 21 \notin S["ecall"]
          /\ 20 \in S["ebreak"] /\ 21 \notin S["ebreak"] /\ 28 \notin S["ebreak"]
          /\ 20 \notin S["sret"] /\ 21 \in S["sret"] /\ 29 \notin S["sret"]
          /\ 20 \notin S["mret"] /\ 21 \in S["mret"] /\ 29 \in S["mret"]
          /\ 20 \in S["wfi"] /\ 21 \notin S["wfi"] /\ 28 \in S["wfi"]
      BY DEF System
    <3> HIDE DEF S
    <3> QED BY <3>1, <3>2
  <2>3. \/ decode_system(w, f3) = instruction(w, "sfence_vma", {})
        \/ decode_system(w, f3) = Select(S, w, w, {})
        \/ decode_system(w, f3) = Select(T, f3, w, {})
    BY DEF decode_system
  <2> HIDE DEF S, T, f3
  <2> QED BY <1>1, <2>1, <2>2, <2>3, SelectOne
<1>12. \/ \E op, imm : decode(w) = instruction(w, op, imm)
       \/ decode(w) \in {error, decode_branch(w, f3), decode_load(w, f3),
            decode_store(w, f3), decode_op_imm(w, f3), decode_op(w, f3),
            decode_op_imm_32(w, f3), decode_op_32(w, f3), decode_misc_mem(w, f3),
            decode_system(w, f3)}
  BY DEF decode
<1>13. One(decode(w))
  <2> HIDE DEF One, f3
  <2> QED BY <1>1, <1>2, <1>3, <1>4, <1>5, <1>6, <1>7, <1>8, <1>9, <1>10, <1>11, <1>12
<1> QED BY <1>13
=============================================================================
