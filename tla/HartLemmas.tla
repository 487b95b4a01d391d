----------------------------- MODULE HartLemmas -----------------------------
(***************************************************************************)
(* Facts about the operators the hart is built from, for every register    *)
(* file, memory, word and privilege: the CSR operators keep the file's     *)
(* type and its legality, arithmetic and the bus keep within words and     *)
(* RAM, and the page-table walk grants only what entries in RAM grant.     *)
(***************************************************************************)
EXTENDS Sv39, Alu, TLAPS

(* Word arithmetic stays within 64 bits: Increment, the effect of          *)
(* ++mcycle_ and ++minstret_.                                              *)
LEMMA IncrementType == \A w, k : Increment(w, k) \in Word
  BY DEF Increment, Word

LEMMA NatWordType == \A n : NatWord(n) \in Word
  BY DEF NatWord, Word, Bits

(* The binary digits of a number.                                          *)
LEMMA NatWordBits ==
  ASSUME NEW n \in Nat
  PROVE  /\ 0 \in NatWord(n) <=> n % 2 = 1
         /\ 1 \in NatWord(n) <=> (n \div 2) % 2 = 1
         /\ 2 \in NatWord(n) <=> (n \div 4) % 2 = 1
         /\ 3 \in NatWord(n) <=> (n \div 8) % 2 = 1
         /\ 4 \in NatWord(n) <=> (n \div 16) % 2 = 1
         /\ 5 \in NatWord(n) <=> (n \div 32) % 2 = 1
         /\ 6 \in NatWord(n) <=> (n \div 64) % 2 = 1
         /\ 7 \in NatWord(n) <=> (n \div 128) % 2 = 1
         /\ NatWord(n) \subseteq 0..7
<1>1. /\ Weight[1] = 1 /\ Weight[2] = 2 /\ Weight[3] = 4 /\ Weight[4] = 8
      /\ Weight[5] = 16 /\ Weight[6] = 32 /\ Weight[7] = 64 /\ Weight[8] = 128
  BY DEF Weight
<1>2. n \div 1 = n
  OBVIOUS
<1> QED BY <1>1, <1>2 DEF NatWord

(* One more, in binary: a bit of n + 1 differs from that of n exactly when *)
(* all the bits below it are set.  So counting by ++ from 0 reaches        *)
(* NatWord(n) after n steps, up to 255.                                    *)
LEMMA NatWordNext ==
  ASSUME NEW n \in 0..254
  PROVE  Increment(NatWord(n), 0) = NatWord(n + 1)
<1> DEFINE m == n + 1
           w == NatWord(n)
           v == NatWord(m)
           Carry(b) == \A c \in 0..b-1 : c \in w
<1>1. n \in Nat /\ m \in Nat
  OBVIOUS
<1>2. /\ 0 \in w <=> n % 2 = 1
      /\ 1 \in w <=> (n \div 2) % 2 = 1
      /\ 2 \in w <=> (n \div 4) % 2 = 1
      /\ 3 \in w <=> (n \div 8) % 2 = 1
      /\ 4 \in w <=> (n \div 16) % 2 = 1
      /\ 5 \in w <=> (n \div 32) % 2 = 1
      /\ 6 \in w <=> (n \div 64) % 2 = 1
      /\ 7 \in w <=> (n \div 128) % 2 = 1
      /\ w \subseteq 0..7
  BY <1>1, NatWordBits
<1>3. /\ 0 \in v <=> m % 2 = 1
      /\ 1 \in v <=> (m \div 2) % 2 = 1
      /\ 2 \in v <=> (m \div 4) % 2 = 1
      /\ 3 \in v <=> (m \div 8) % 2 = 1
      /\ 4 \in v <=> (m \div 16) % 2 = 1
      /\ 5 \in v <=> (m \div 32) % 2 = 1
      /\ 6 \in v <=> (m \div 64) % 2 = 1
      /\ 7 \in v <=> (m \div 128) % 2 = 1
      /\ v \subseteq 0..7
  BY <1>1, NatWordBits
<1>4. /\ Carry(0)
      /\ Carry(1) <=> 0 \in w
      /\ Carry(2) <=> Carry(1) /\ 1 \in w
      /\ Carry(3) <=> Carry(2) /\ 2 \in w
      /\ Carry(4) <=> Carry(3) /\ 3 \in w
      /\ Carry(5) <=> Carry(4) /\ 4 \in w
      /\ Carry(6) <=> Carry(5) /\ 5 \in w
      /\ Carry(7) <=> Carry(6) /\ 6 \in w
      /\ Carry(8) <=> Carry(7) /\ 7 \in w
  OBVIOUS
<1>5. \A b \in Bits : b \in Increment(w, 0) <=> ~(b \in w <=> Carry(b))
  BY DEF Increment, Bits
<1> HIDE DEF Carry, w, v
<1>6. Carry(1) <=> n % 2 = 1
  BY <1>2, <1>4
<1>7. Carry(2) <=> n % 4 = 3
  BY <1>6, <1>2, <1>4
<1>8. Carry(3) <=> n % 8 = 7
  BY <1>7, <1>2, <1>4
<1>9. Carry(4) <=> n % 16 = 15
  BY <1>8, <1>2, <1>4
<1>10. Carry(5) <=> n % 32 = 31
  BY <1>9, <1>2, <1>4
<1>11. Carry(6) <=> n % 64 = 63
  BY <1>10, <1>2, <1>4
<1>12. Carry(7) <=> n % 128 = 127
  BY <1>11, <1>2, <1>4
<1>13. ~Carry(8)
  BY <1>12, <1>2, <1>4
<1>14. \A b \in 8..63 : ~Carry(b)
  BY <1>13 DEF Carry
<1>15. 0 \in v <=> ~(0 \in w <=> Carry(0))
  BY <1>2, <1>3, <1>4
<1>16. 1 \in v <=> ~(1 \in w <=> Carry(1))
  BY <1>2, <1>3, <1>6
<1>17. 2 \in v <=> ~(2 \in w <=> Carry(2))
  BY <1>2, <1>3, <1>7
<1>18. 3 \in v <=> ~(3 \in w <=> Carry(3))
  BY <1>2, <1>3, <1>8
<1>19. 4 \in v <=> ~(4 \in w <=> Carry(4))
  BY <1>2, <1>3, <1>9
<1>20. 5 \in v <=> ~(5 \in w <=> Carry(5))
  BY <1>2, <1>3, <1>10
<1>21. 6 \in v <=> ~(6 \in w <=> Carry(6))
  BY <1>2, <1>3, <1>11
<1>22. 7 \in v <=> ~(7 \in w <=> Carry(7))
  BY <1>2, <1>3, <1>12
<1>23. \A b \in Bits : b \in v <=> ~(b \in w <=> Carry(b))
  <2> SUFFICES ASSUME NEW b \in Bits
               PROVE  b \in v <=> ~(b \in w <=> Carry(b))
    OBVIOUS
  <2>1. b \in 0..7 \/ b \in 8..63
    BY DEF Bits
  <2>2. CASE b \in 0..7
    <3>1. b = 0 \/ b = 1 \/ b = 2 \/ b = 3 \/ b = 4 \/ b = 5 \/ b = 6 \/ b = 7
      BY <2>2
    <3> QED BY <3>1, <1>15, <1>16, <1>17, <1>18, <1>19, <1>20, <1>21, <1>22
  <2>3. CASE b \in 8..63
    <3>1. b \notin w /\ b \notin v
      BY <2>3, <1>2, <1>3
    <3> QED BY <2>3, <3>1, <1>14
  <2> QED BY <2>1, <2>2, <2>3
<1>24. Increment(w, 0) \subseteq Bits /\ v \subseteq Bits
  BY <1>3 DEF Increment, Bits
<1> QED BY <1>5, <1>23, <1>24 DEF w, v

LEMMA ShlType == \A w, n : Shl(w, n) \in Word
  BY DEF Shl, Word

LEMMA AlignType ==
  ASSUME NEW w \in Word
  PROVE  AlignDown4(w) \in Word /\ IsAligned4(AlignDown4(w))
  BY DEF AlignDown4, IsAligned4, Word

(* Every accepted write keeps the type of the file (csr.cpp write).        *)
LEMMA WriteType ==
  ASSUME NEW c \in CsrFileType, NEW a \in CsrName, NEW v \in Word
  PROVE  WriteCsr(c, a, v) \in CsrFileType
<1> USE DEF CsrFileType
<1>1. normalize_mstatus(v) \in Word
  BY DEF normalize_mstatus, Word
<1>2. \A o, m : o \in Word => Merge(o, v, m) \in Word
  BY DEF Merge, Word
<1>3. \A m : v \cap m \in Word
  BY DEF Word
<1>4. AlignDown4(v) \in Word
  BY AlignType
<1>5. {} \in Word
  BY DEF Word
<1>. QED
  BY <1>1, <1>2, <1>3, <1>4, <1>5 DEF WriteCsr, CsrRegister

(* Every accepted write legalises its value (csr.cpp write).               *)
LEMMA WriteWarl ==
  ASSUME NEW c \in CsrFileType, Warl(c), NEW a \in CsrName, NEW v \in Word
  PROVE  Warl(WriteCsr(c, a, v))
<1>1. /\ normalize_mstatus(v) \subseteq kMstatusWritableMask
      /\ normalize_mstatus(v) \cap kMppMask # {12}
  BY DEF normalize_mstatus, kMstatusWritableMask, kMppMask
<1>2. AlignDown4(v) \in Word /\ IsAligned4(AlignDown4(v))
  BY AlignType
<1>3. LET m == Merge(c["mstatus"], v, kSstatusWritableMask)
      IN  m \subseteq kMstatusWritableMask /\ m \cap kMppMask # {12}
  BY DEF Merge, Warl, kSstatusWritableMask, kMstatusWritableMask, kMppMask,
         SIE, MIE, SPIE, MPIE, SPP, MPRV, SUM, MXR
<1>4. \A m : m \subseteq kSupervisorInterruptMask =>
        /\ Merge(c["mie"], v, m) \subseteq kImplementedInterruptMask
        /\ Merge(c["mip"], v, m) \subseteq kImplementedInterruptMask
  BY DEF Merge, Warl, kImplementedInterruptMask
<1>5. /\ InterruptWritable(c, kSupervisorInterruptMask) \subseteq kSupervisorInterruptMask
      /\ InterruptWritable(c, kSupervisorSoftwareInterrupt) \subseteq kSupervisorInterruptMask
  BY DEF InterruptWritable, kSupervisorSoftwareInterrupt, kSupervisorInterruptMask
<1>. QED
  BY <1>1, <1>2, <1>3, <1>4, <1>5 DEF Warl, WriteCsr, CsrFileType, CsrRegister

(* The counters keep type and legality.                                    *)
LEMMA CounterFacts ==
  ASSUME NEW c \in CsrFileType
  PROVE  /\ tick_cycle(c) \in CsrFileType
         /\ retire_instruction(c) \in CsrFileType
         /\ Warl(c) => Warl(tick_cycle(c)) /\ Warl(retire_instruction(c))
  BY IncrementType
  DEF tick_cycle, retire_instruction, CsrFileType, CsrRegister, Warl

(* The privilege field that enter_trap stores in MPP is a legal one.       *)
LEMMA MppOfOrigin ==
  ASSUME NEW origin \in PrivilegeLevel
  PROVE  /\ Shl(PrivilegeWord(origin), 11) \subseteq kMppMask
         /\ Shl(PrivilegeWord(origin), 11) # {12}
         /\ Shl(PrivilegeWord(origin), 11) =
              IF origin = User THEN {} ELSE IF origin = Supervisor THEN {11} ELSE {11, 12}
<1>1. Shl({}, 11) = {} /\ Shl({0}, 11) = {11} /\ Shl({0, 1}, 11) = {11, 12}
  BY DEF Shl, Bits
<1>. QED
  BY <1>1 DEF PrivilegeWord, PrivilegeLevel, User, Supervisor, Machine, kMppMask

(* Trap entry keeps the type and the legality of the file, and enters a    *)
(* real privilege level (csr.cpp enter_trap).                              *)
LEMMA EnterTrapFacts ==
  ASSUME NEW c \in CsrFileType, NEW origin \in PrivilegeLevel,
         NEW trap, trap.pc \in Word, trap.value \in Word
  PROVE  /\ EnterTrapCsrs(c, trap, origin) \in CsrFileType
         /\ Warl(c) => Warl(EnterTrapCsrs(c, trap, origin))
         /\ TrapTarget(c, trap.cause, origin) \in PrivilegeLevel
         /\ TrapVector(c, trap.cause, origin) \in Word
         /\ IsAligned4(TrapVector(c, trap.cause, origin))
<1> DEFINE s == PushSupervisor(c["mstatus"], origin)
           m == PushMachine(c["mstatus"], origin)
<1>1. c["mstatus"] \in Word /\ c["stvec"] \in Word /\ c["mtvec"] \in Word
  BY DEF CsrFileType, CsrRegister
<1>2. s \in Word /\ m \in Word
  BY <1>1, ShlType DEF PushSupervisor, PushMachine, Word, Bits, SPIE, SPP, MPIE
<1>3. Warl(c) => /\ s \subseteq kMstatusWritableMask
                 /\ s \cap kMppMask # {12}
  BY DEF Warl, PushSupervisor, kMstatusWritableMask, kMppMask,
         SIE, MIE, SPIE, MPIE, SPP, MPRV, SUM, MXR
<1>4. Warl(c) => /\ m \subseteq kMstatusWritableMask
                 /\ m \cap kMppMask # {12}
  <2>1. m \cap kMppMask = Shl(PrivilegeWord(origin), 11)
    BY MppOfOrigin DEF PushMachine, kMppMask, MIE, MPIE
  <2>2. Warl(c) => m \subseteq kMstatusWritableMask
    BY MppOfOrigin DEF Warl, PushMachine, kMstatusWritableMask, MIE, MPIE
  <2>. QED
    BY <2>1, <2>2, MppOfOrigin
<1>5. AlignDown4(trap.pc) \in Word /\ IsAligned4(AlignDown4(trap.pc))
  BY AlignType
<1>6. EnterTrapCsrs(c, trap, origin) \in CsrFileType
  BY <1>2, <1>5, NatWordType DEF EnterTrapCsrs, CsrFileType, CsrRegister
<1>7. Warl(c) => Warl(EnterTrapCsrs(c, trap, origin))
  BY <1>3, <1>4, <1>5 DEF EnterTrapCsrs, Warl, CsrFileType, CsrRegister
<1>8. TrapTarget(c, trap.cause, origin) \in PrivilegeLevel
  BY DEF TrapTarget, PrivilegeLevel
<1>9. /\ TrapVector(c, trap.cause, origin) \in Word
      /\ IsAligned4(TrapVector(c, trap.cause, origin))
  BY <1>1, AlignType DEF TrapVector
<1>. QED
  BY <1>6, <1>7, <1>8, <1>9

(* xRET keeps the type and the legality of the file and returns to a real  *)
(* privilege level (csr.cpp return_from_trap).                             *)
LEMMA ReturnFacts ==
  ASSUME NEW c \in CsrFileType, NEW mode \in {Supervisor, Machine}
  PROVE  /\ return_from_trap(c, mode) \in CsrFileType
         /\ Warl(c) => Warl(return_from_trap(c, mode))
         /\ ReturnTarget(c, mode) \in PrivilegeLevel
         /\ ReturnPc(c, mode) \in Word
         /\ Warl(c) => IsAligned4(ReturnPc(c, mode))
<1> DEFINE s == PopSupervisor(c["mstatus"])
           m == PopMachine(c["mstatus"], ReturnTarget(c, mode))
<1>1. c["mstatus"] \in Word /\ c["sepc"] \in Word /\ c["mepc"] \in Word
  BY DEF CsrFileType, CsrRegister
<1>2. s \in Word /\ m \in Word
  BY <1>1 DEF PopSupervisor, PopMachine, Word, Bits, SIE, SPIE, MIE, MPIE
<1>3. Warl(c) => /\ s \subseteq kMstatusWritableMask
                 /\ s \cap kMppMask # {12}
  BY DEF Warl, PopSupervisor, kMstatusWritableMask, kMppMask,
         SIE, MIE, SPIE, MPIE, SPP, MPRV, SUM, MXR
<1>4. Warl(c) => /\ m \subseteq kMstatusWritableMask
                 /\ m \cap kMppMask # {12}
  BY DEF Warl, PopMachine, kMstatusWritableMask, kMppMask,
         SIE, MIE, SPIE, MPIE, SPP, MPRV, SUM, MXR
<1>5. return_from_trap(c, mode) \in CsrFileType
  BY <1>2 DEF return_from_trap, CsrFileType, CsrRegister
<1>6. Warl(c) => Warl(return_from_trap(c, mode))
  BY <1>3, <1>4 DEF return_from_trap, Warl, CsrFileType, CsrRegister
<1>7. ReturnTarget(c, mode) \in PrivilegeLevel
  BY DEF ReturnTarget, PrivilegeLevel
<1>8. /\ ReturnPc(c, mode) \in Word
      /\ Warl(c) => IsAligned4(ReturnPc(c, mode))
  BY <1>1 DEF ReturnPc, Warl
<1>. QED
  BY <1>5, <1>6, <1>7, <1>8

(* Every accepted read gives a word (csr.cpp read).                        *)
LEMMA ReadType ==
  ASSUME NEW c \in CsrFileType, NEW a \in CsrName, is_implemented(a)
  PROVE  ReadCsr(c, a) \in Word
<1>1. \A r \in CsrRegister : c[r] \in Word
  BY DEF CsrFileType
<1>2. a \in CsrRegister \cup {"sstatus", "sie", "sip", "misa", "mhartid", "cycle", "instret"}
  BY DEF CsrName, CsrAddress, CsrRegister, is_implemented
<1>3. /\ (c["mstatus"] \cap kSstatusWritableMask) \cup kUxl64 \in Word
      /\ c["mstatus"] \cup kMstatusFixedValue \in Word
      /\ InterruptView(c, "mie") \in Word /\ InterruptView(c, "mip") \in Word
      /\ kMisa \in Word /\ {} \in Word
      /\ c["mcycle"] \in Word /\ c["minstret"] \in Word
  BY <1>1 DEF CsrRegister, InterruptView, kMisa, kMstatusFixedValue, kUxl64, kSxl64,
              Word, Bits
<1> QED BY <1>1, <1>2, <1>3 DEF ReadCsr

(* A return never gains privilege, and a trap never loses any.             *)
LEMMA PrivilegeOrder ==
  ASSUME NEW c, NEW p \in PrivilegeLevel
  PROVE  /\ \A mode \in {Supervisor, Machine} :
              privilege_at_least(p, mode) => ReturnTarget(c, mode) <= p
         /\ \A cause : TrapTarget(c, cause, p) >= p
BY DEF PrivilegeLevel, privilege_at_least, ReturnTarget, TrapTarget, delegated,
       User, Supervisor, Machine

(* The next instruction of an aligned one is aligned.                      *)
LEMMA SequentialAligned ==
  ASSUME NEW w \in Word, IsAligned4(w)
  PROVE  IsAligned4(Increment(w, 2))
BY DEF IsAligned4, Increment, Bits

(* Below M mode only the supervisor's own registers can be written: the    *)
(* address of every machine register fails validate_access.                *)
SupervisorCsr ==
  {"sstatus", "sie", "stvec", "scounteren", "sscratch", "sepc", "scause",
   "stval", "sip", "satp"}

LEMMA WritableBelowMachine ==
  ASSUME NEW c, NEW a \in CsrName, NEW p \in {User, Supervisor},
         validate_access(c, a, p, TRUE) = "ok"
  PROVE  a \in SupervisorCsr
<1>1. /\ privilege_at_least(p, csr_minimum_privilege(a))
      /\ is_implemented(a)
      /\ ~csr_is_read_only(a)
  BY DEF validate_access
<1>2. csr_minimum_privilege(a) # Machine
  BY <1>1 DEF privilege_at_least, User, Supervisor, Machine
<1>3. (CsrAddress[a] \div 256) % 4 \in {0, 1}
  BY <1>2 DEF csr_minimum_privilege
<1>. QED
  BY <1>1, <1>3
  DEF CsrName, CsrAddress, is_implemented, csr_is_read_only, SupervisorCsr

-----------------------------------------------------------------------------
(* Arithmetic on words gives words.                                        *)
LEMMA WordOps ==
  ASSUME NEW v \in Word, NEW w \in Word
  PROVE  /\ Add(v, w) \in Word /\ Sub(v, w) \in Word /\ Xor(v, w) \in Word
         /\ v \cup w \in Word /\ v \cap w \in Word /\ v \ w \in Word
         /\ Low32(w) \in Word
BY DEF Add, Sub, Xor, Complement, Word, Low32

LEMMA ShrType == \A w, n : Shr(w, n) \in Word
BY DEF Shr, Word

LEMMA SignExtendType ==
  ASSUME NEW w \in Word, NEW n \in 1..64
  PROVE  SignExtend(w, n) \in Word
BY DEF SignExtend, Word, Bits

LEMMA SignExtendWordType == \A w \in Word : sign_extend_word(w) \in Word
<1> SUFFICES ASSUME NEW w \in Word PROVE sign_extend_word(w) \in Word
  OBVIOUS
<1>1. Low32(w) \in Word /\ 32 \in 1..64
  BY DEF Low32, Word
<1> QED BY <1>1, SignExtendType DEF sign_extend_word

LEMMA AmountType == \A w, n : Amount(w, n) \in 0..63 /\ (n = 5 => Amount(w, n) \in 0..31)
BY DEF Amount, Bit

LEMMA ArithmeticShiftType ==
  ASSUME NEW w \in Word
  PROVE  /\ \A n \in 0..63 : arithmetic_shift_right(w, n) \in Word
         /\ \A n \in 0..31 : arithmetic_shift_right_word(w, n) \in Word
<1>1. \A n \in 0..63 : 64-n..63 \subseteq Bits
  BY DEF Bits
<1>2. \A n \in 0..31 : 32-n..31 \subseteq Bits
  BY DEF Bits
<1> QED BY <1>1, <1>2, ShrType
        DEF arithmetic_shift_right, arithmetic_shift_right_word, Word

LEMMA TruthType == \A p : Truth(p) \in Word
BY DEF Truth, Word, Bits

(* Every operation of the ALU gives a word (cpu.cpp execute).              *)
LEMMA AluType ==
  ASSUME NEW op \in AluOps, NEW pc \in Word, NEW lhs \in Word,
         NEW rhs \in Word, NEW imm \in Word
  PROVE  AluResult(op, pc, lhs, rhs, imm) \in Word
<1>1. /\ Low32(lhs) \in Word /\ Low32(rhs) \in Word
      /\ \A w : Amount(w, 6) \in 0..63 /\ Amount(w, 5) \in 0..31
  BY WordOps, AmountType
<1>2. \A v, w \in Word : /\ Add(v, w) \in Word /\ Sub(v, w) \in Word /\ Xor(v, w) \in Word
                         /\ v \cup w \in Word /\ v \cap w \in Word
  BY WordOps
<1> QED BY <1>1, <1>2, ShrType, ShlType, TruthType, SignExtendWordType,
           ArithmeticShiftType DEF AluResult, AluOps

-----------------------------------------------------------------------------
AccessWidth == {1, 2, 4, 8}

(* A naturally aligned access stays within its 8-byte slot.                *)
LEMMA LaneFits ==
  ASSUME NEW a \in Word, NEW width \in AccessWidth, NaturallyAligned(a, width)
  PROVE  /\ Lane(a) \in 0..56
         /\ \A b \in WidthMask(width) : b \in Bits /\ Lane(a) + b \in Bits
<1>1. /\ Lane(a) \in 0..56
      /\ 0 \notin a => Lane(a) \in 0..48
      /\ a \cap {0, 1} = {} => Lane(a) \in 0..32
      /\ a \cap {0, 1, 2} = {} => Lane(a) = 0
  BY DEF Lane, Bit
<1>2. CASE width = 1
  BY <1>1, <1>2 DEF WidthMask, Bits
<1>3. CASE width = 2
  BY <1>1, <1>3 DEF WidthMask, Bits, NaturallyAligned
<1>4. CASE width = 4
  BY <1>1, <1>4 DEF WidthMask, Bits, NaturallyAligned
<1>5. CASE width = 8
  BY <1>1, <1>5 DEF WidthMask, Bits, NaturallyAligned
<1> QED BY <1>2, <1>3, <1>4, <1>5 DEF AccessWidth

(* A read gives a word of the access width (memory.cpp read).              *)
LEMMA BusReadType ==
  ASSUME NEW ram, NEW a, NEW width \in AccessWidth
  PROVE  BusRead(ram, a, width) \in Word
BY DEF BusRead, RamRead, UartRead, Word, Bits, WidthMask, AccessWidth

(* A write to RAM changes nothing outside RAM, and reading back gives what *)
(* was written (memory.cpp write).                                         *)
LEMMA RamWriteFacts ==
  ASSUME NEW ram \in Ram, NEW a \in Word, InRam(a), NEW width \in AccessWidth,
         NaturallyAligned(a, width), NEW v \in Word
  PROVE  /\ RamWrite(ram, a, width, v) \in Ram
         /\ RamRead(RamWrite(ram, a, width, v), a, width) = v \cap WidthMask(width)
<1>1. Slot(a) \in RamSlot
  BY DEF Slot, RamSlot, InRam, Word
<1>2. /\ Lane(a) \in Int
      /\ \A b \in WidthMask(width) : b \in Int /\ Lane(a) + b \in Bits
  BY LaneFits DEF Bits
<1>3. RamWrite(ram, a, width, v) \in Ram
  BY <1>1, <1>2 DEF RamWrite, Ram
<1>4. ASSUME NEW b \in WidthMask(width)
      PROVE  <<Slot(a), Lane(a) + b>> \in RamWrite(ram, a, width, v) <=> b \in v
  <2>1. Lane(a) + b - Lane(a) = b
    BY <1>2
  <2>2. \A c \in v \cap WidthMask(width) :
          <<Slot(a), Lane(a) + b>> = <<Slot(a), Lane(a) + c>> => b = c
    BY <1>2
  <2> DEFINE e == <<Slot(a), Lane(a) + b>>
             kept == {x \in ram : ~(x[1] = Slot(a) /\ x[2] - Lane(a) \in WidthMask(width))}
             new == {<<Slot(a), Lane(a) + c>> : c \in v \cap WidthMask(width)}
  <2>3. e[1] = Slot(a) /\ e[2] - Lane(a) = b
    <3>1. e[1] = Slot(a) /\ e[2] = Lane(a) + b
      OBVIOUS
    <3> HIDE DEF e
    <3>2. Lane(a) \in Int /\ b \in Int /\ e[2] \in Int
      BY <1>2, <3>1
    <3> QED BY <3>1, <3>2
  <2>4. e \notin kept
    BY <2>3
  <2>5. e \in new <=> b \in v
    BY <2>2
  <2>6. RamWrite(ram, a, width, v) = kept \cup new
    BY DEF RamWrite
  <2> QED BY <2>4, <2>5, <2>6
<1> QED BY <1>3, <1>4 DEF RamRead

-----------------------------------------------------------------------------
(* What an entry is, whoever asks: a pointer to the next level, ...        *)
LEMMA PointerPte ==
  ASSUME NEW pte, NEW level, NEW ctx
  PROVE  PteVerdict(pte, level, ctx) = "Pointer" <=>
           /\ pte \cap kPteReservedHighMask = {}
           /\ kPteV \in pte /\ pte \cap {kPteR, kPteW, kPteX} = {}
           /\ pte \cap {kPteU, kPteA, kPteD} = {}
           /\ level # 0
BY DEF PteVerdict, LeafVerdict, RightsVerdict, PointerVerdict, IsLeaf,
       kPteR, kPteW, kPteX

(* ... or a leaf that grants the access.                                   *)
LEMMA LeafPte ==
  ASSUME NEW pte, NEW level, NEW ctx
  PROVE  PteVerdict(pte, level, ctx) = "Leaf" <=>
           /\ pte \cap kPteReservedHighMask = {}
           /\ kPteV \in pte
           /\ kPteR \in pte \/ (kPteX \in pte /\ kPteW \notin pte)
           /\ Ppn(pte) \cap 0..9*level-1 = {}
           /\ ~PrivilegeRejects(pte, ctx)
           /\ access_is_permitted(pte, ctx.access, ctx.mxr)
           /\ kPteA \in pte
           /\ ctx.access = "Store" => kPteD \in pte
BY DEF PteVerdict, LeafVerdict, RightsVerdict, PointerVerdict, IsLeaf,
       kPteR, kPteW, kPteX

(* The three outcomes of visiting a level.                                 *)
LEMMA VisitFacts ==
  ASSUME NEW ram, NEW va, NEW ctx, NEW table, NEW level
  PROVE  LET v == Visit(ram, va, ctx, table, level)
             address == PteAddress(table, va, level)
             pte == BusRead(ram, address, 8)
         IN  /\ v.kind \in {"Pointer", "Translation", "Fault"}
             /\ v.kind = "Pointer" =>
                  /\ BusAccepts(address, 8) /\ level # 0
                  /\ PteVerdict(pte, level, ctx) = "Pointer"
                  /\ v = [kind |-> "Pointer", table |-> TableAt(Ppn(pte))]
             /\ v.kind = "Translation" =>
                  /\ BusAccepts(address, 8)
                  /\ PteVerdict(pte, level, ctx) = "Leaf"
                  /\ v = [kind |-> "Translation", level |-> level, pte |-> pte,
                          physical |-> LeafAddress(pte, va, level)]
             /\ v.kind = "Fault" => \E reason : v = Fault(reason, level)
BY PointerPte DEF Visit, Fault

LEMMA LeafAddressType ==
  ASSUME NEW pte, NEW va \in Word, NEW level \in 0..2
  PROVE  /\ LeafAddress(pte, va, level) \in Word
         /\ LeafAddress(pte, va, level) \cap 0..11 = va \cap 0..11
<1>1. 0..11 \subseteq OffsetMask(level)
  BY DEF OffsetMask
<1> QED BY <1>1, ShlType DEF LeafAddress, Word

(* A walk either faults or gives a physical address.                       *)
LEMMA WalkFacts ==
  ASSUME NEW ram, NEW va \in Word, NEW ctx
  PROVE  LET w == walk_sv39(ram, va, ctx)
         IN  /\ w.kind \in {"Translation", "Fault"}
             /\ w.kind = "Translation" => /\ w.physical \in Word
                                          /\ w.physical \cap 0..11 = va \cap 0..11
                                          /\ w.level \in 0..2
                                          /\ ctx.privilege \in {User, Supervisor}
                                          /\ is_sv39_canonical(va)
<1> DEFINE v2 == Visit(ram, va, ctx, TableAt(ctx.root_ppn), 2)
           v1 == Visit(ram, va, ctx, v2.table, 1)
           v0 == Visit(ram, va, ctx, v1.table, 0)
           Typed(v) == /\ v.kind \in {"Pointer", "Translation", "Fault"}
                       /\ v.kind = "Translation" =>
                            /\ v.physical \in Word /\ v.level \in 0..2
                            /\ v.physical \cap 0..11 = va \cap 0..11
<1>1. \A t, l : l \in 0..2 => Typed(Visit(ram, va, ctx, t, l))
  <2> SUFFICES ASSUME NEW t, NEW l \in 0..2
               PROVE  Typed(Visit(ram, va, ctx, t, l))
    OBVIOUS
  <2> QED BY VisitFacts, LeafAddressType
<1>2. Typed(v2) /\ Typed(v1) /\ Typed(v0) /\ v0.kind # "Pointer"
  BY <1>1, VisitFacts
<1> HIDE DEF v2, v1, v0
<1>3. walk_sv39(ram, va, ctx) =
        IF ~is_sv39_canonical(va) THEN Fault("NonCanonicalAddress", -1)
        ELSE IF ctx.privilege \notin {Supervisor, User} THEN Fault("PrivilegeViolation", -1)
        ELSE IF v2.kind # "Pointer" THEN v2 ELSE IF v1.kind # "Pointer" THEN v1 ELSE v0
  BY DEF walk_sv39, v2, v1, v0
<1>4. \A reason, level : Fault(reason, level).kind = "Fault"
  BY DEF Fault
<1> QED BY <1>2, <1>3, <1>4

(* Two accesses to one address visit the same entries whatever their       *)
(* privilege and kind: a pointer is one for both, and where the first      *)
(* finds its leaf the second finds it too or faults there.                 *)
LEMMA VisitSame ==
  ASSUME NEW ram, NEW va, NEW c, NEW d, NEW table, NEW level
  PROVE  LET v == Visit(ram, va, c, table, level)
             u == Visit(ram, va, d, table, level)
         IN  /\ v.kind = "Pointer" => u = v
             /\ v.kind = "Translation" =>
                  u = IF PteVerdict(v.pte, level, d) = "Leaf" THEN v
                      ELSE Fault(PteVerdict(v.pte, level, d), level)
<1> DEFINE address == PteAddress(table, va, level)
           pte == BusRead(ram, address, 8)
           v == Visit(ram, va, c, table, level)
           u == Visit(ram, va, d, table, level)
<1>1. ASSUME v.kind = "Pointer" PROVE u = v
  <2>1. /\ BusAccepts(address, 8) /\ PteVerdict(pte, level, c) = "Pointer"
        /\ v = [kind |-> "Pointer", table |-> TableAt(Ppn(pte))]
    BY <1>1, VisitFacts
  <2>2. PteVerdict(pte, level, d) = "Pointer"
    BY <2>1, PointerPte
  <2> QED BY <2>1, <2>2 DEF Visit
<1>2. ASSUME v.kind = "Translation"
      PROVE  u = IF PteVerdict(v.pte, level, d) = "Leaf" THEN v
                 ELSE Fault(PteVerdict(v.pte, level, d), level)
  <2>1. /\ BusAccepts(address, 8) /\ PteVerdict(pte, level, c) = "Leaf"
        /\ v = [kind |-> "Translation", level |-> level, pte |-> pte,
                physical |-> LeafAddress(pte, va, level)]
    BY <1>2, VisitFacts
  <2>2. v.pte = pte
    BY <2>1
  <2>3. PteVerdict(pte, level, d) # "Pointer"
    BY <2>1, LeafPte, PointerPte
  <2>4. u = IF PteVerdict(pte, level, d) = "Leaf"
            THEN [kind |-> "Translation", level |-> level, pte |-> pte,
                  physical |-> LeafAddress(pte, va, level)]
            ELSE Fault(PteVerdict(pte, level, d), level)
    BY <2>1, <2>3 DEF Visit
  <2> QED BY <2>1, <2>2, <2>4
<1> QED BY <1>1, <1>2

(* The same for whole walks.                                               *)
LEMMA WalkSame ==
  ASSUME NEW ram, NEW va \in Word, NEW c, NEW d, d.root_ppn = c.root_ppn,
         d.privilege \in {User, Supervisor},
         walk_sv39(ram, va, c).kind = "Translation"
  PROVE  LET w == walk_sv39(ram, va, c)
         IN  /\ PteVerdict(w.pte, w.level, c) = "Leaf"
             /\ walk_sv39(ram, va, d) =
                  IF PteVerdict(w.pte, w.level, d) = "Leaf" THEN w
                  ELSE Fault(PteVerdict(w.pte, w.level, d), w.level)
<1> DEFINE w == walk_sv39(ram, va, c)
           root == TableAt(c.root_ppn)
           v2 == Visit(ram, va, c, root, 2)
           v1 == Visit(ram, va, c, v2.table, 1)
           v0 == Visit(ram, va, c, v1.table, 0)
           u2 == Visit(ram, va, d, root, 2)
           u1 == Visit(ram, va, d, u2.table, 1)
           u0 == Visit(ram, va, d, u1.table, 0)
           Other(v, l) == IF PteVerdict(v.pte, l, d) = "Leaf" THEN v
                          ELSE Fault(PteVerdict(v.pte, l, d), l)
<1>1. is_sv39_canonical(va) /\ c.privilege \in {User, Supervisor}
  BY WalkFacts
<1>2. \A t, l : LET v == Visit(ram, va, c, t, l)
                    u == Visit(ram, va, d, t, l)
                IN  /\ v.kind \in {"Pointer", "Translation", "Fault"}
                    /\ v.kind = "Pointer" => l # 0 /\ u = v
                    /\ v.kind = "Translation" =>
                         /\ v.level = l /\ PteVerdict(v.pte, l, c) = "Leaf"
                         /\ u = Other(v, l) /\ u.kind # "Pointer"
  <2> SUFFICES ASSUME NEW t, NEW l
               PROVE LET v == Visit(ram, va, c, t, l)
                         u == Visit(ram, va, d, t, l)
                     IN  /\ v.kind \in {"Pointer", "Translation", "Fault"}
                         /\ v.kind = "Pointer" => l # 0 /\ u = v
                         /\ v.kind = "Translation" =>
                              /\ v.level = l /\ PteVerdict(v.pte, l, c) = "Leaf"
                              /\ u = Other(v, l) /\ u.kind # "Pointer"
    OBVIOUS
  <2>1. \A reason, level : Fault(reason, level).kind = "Fault"
    BY DEF Fault
  <2> QED BY <2>1, VisitFacts, VisitSame
<1>3. w = IF v2.kind # "Pointer" THEN v2 ELSE IF v1.kind # "Pointer" THEN v1 ELSE v0
  BY <1>1 DEF walk_sv39
<1>4. walk_sv39(ram, va, d)
        = IF u2.kind # "Pointer" THEN u2 ELSE IF u1.kind # "Pointer" THEN u1 ELSE u0
  BY <1>1 DEF walk_sv39
<1> HIDE DEF w, root
<1>5. CASE v2.kind = "Translation"
  <2>1. w = v2 /\ w.level = 2
    BY <1>2, <1>3, <1>5
  <2>2. walk_sv39(ram, va, d) = u2
    BY <1>2, <1>4, <1>5
  <2> QED BY <1>2, <1>5, <2>1, <2>2 DEF w
<1>6. CASE v2.kind = "Pointer" /\ v1.kind = "Translation"
  <2>1. w = v1 /\ w.level = 1
    BY <1>2, <1>3, <1>6
  <2>2. u2 = v2
    BY <1>2, <1>6
  <2>3. walk_sv39(ram, va, d) = u1
    BY <1>2, <1>4, <1>6, <2>2
  <2> QED BY <1>2, <1>6, <2>1, <2>2, <2>3 DEF w
<1>7. CASE v2.kind = "Pointer" /\ v1.kind = "Pointer" /\ v0.kind = "Translation"
  <2>1. w = v0 /\ w.level = 0
    BY <1>2, <1>3, <1>7
  <2>2. u2 = v2
    BY <1>2, <1>7
  <2>3. u1 = v1
    BY <1>2, <1>7, <2>2
  <2>4. walk_sv39(ram, va, d) = u0
    BY <1>4, <1>7, <2>2, <2>3
  <2> QED BY <1>2, <1>7, <2>1, <2>2, <2>3, <2>4 DEF w
<1> QED BY <1>2, <1>3, <1>5, <1>6, <1>7 DEF w

-----------------------------------------------------------------------------
(* The entry a level reads is one of the entries of its table, and its     *)
(* address holds nothing but the table's page and the index.               *)
LEMMA EntryFound ==
  ASSUME NEW ram, NEW va, NEW ppn, NEW level \in 0..2,
         BusAccepts(PteAddress(TableAt(ppn), va, level), 8),
         kPteV \in BusRead(ram, PteAddress(TableAt(ppn), va, level), 8)
  PROVE  BusRead(ram, PteAddress(TableAt(ppn), va, level), 8)
           \in EntriesOf(ram, TableAt(ppn))
<1> DEFINE table == TableAt(ppn)
           index == Shl(vpn(va, level), 3)
           address == PteAddress(table, va, level)
           x == <<address, 0>>
<1>1. \A b \in table : b \in Int /\ b > 11
  BY DEF TableAt, Shl, Bits, kPpnMask
<1>2. \A b \in index : b \in Int /\ b > 2 /\ b < 12
  BY DEF vpn, Field, Shl, Bits
<1>3. address = table \cup index
  BY DEF PteAddress
<1> HIDE DEF table, index, address
<1>4. address \cap {0, 1, 2} = {} /\ address \ 0..11 = table
  BY <1>1, <1>2, <1>3
<1>5. Slot(address) = address /\ Lane(address) = 0
  BY <1>4 DEF Slot, Lane, Bit
<1>6. BusRead(ram, address, 8) = RamRead(ram, address, 8)
  BY DEF BusAccepts, BusRead, address, table
<1>7. x \in ram
  BY <1>5, <1>6 DEF RamRead, kPteV, address, table
<1>8. x[1] = address
  OBVIOUS
<1> HIDE DEF x
<1>9. x \in {y \in ram : y[1] \ 0..11 = table}
  BY <1>4, <1>7, <1>8
<1>10. RamRead(ram, x[1], 8) \in EntriesOf(ram, table)
  BY <1>9 DEF EntriesOf
<1> QED BY <1>6, <1>8, <1>10 DEF address, table

LEMMA PointerFollowed ==
  ASSUME NEW ram, NEW tables, NEW table \in tables, NEW pte \in EntriesOf(ram, table),
         NEW level, NEW ctx, PteVerdict(pte, level, ctx) = "Pointer"
  PROVE  TableAt(Ppn(pte)) \in NextTables(ram, tables)
<1>1. /\ 0 \in pte /\ 1 \notin pte /\ 2 \notin pte /\ 3 \notin pte
      /\ 4 \notin pte /\ 6 \notin pte /\ 7 \notin pte
  BY PointerPte DEF kPteV, kPteR, kPteW, kPteX, kPteU, kPteA, kPteD
<1>2. 0..7 = {0, 1, 2, 3, 4, 5, 6, 7}
  OBVIOUS
<1>3. IsPointer(pte)
  <2>1. CASE 5 \in pte
    <3>1. pte \cap 0..7 = {0, 5}
      BY <1>1, <1>2, <2>1
    <3> QED BY <3>1 DEF IsPointer, kPteV
  <2>2. CASE 5 \notin pte
    <3>1. pte \cap 0..7 = {0}
      BY <1>1, <1>2, <2>2
    <3> QED BY <3>1 DEF IsPointer, kPteV
  <2> QED BY <2>1, <2>2
<1>4. pte \in UNION {EntriesOf(ram, t) : t \in tables}
  OBVIOUS
<1> QED BY <1>3, <1>4 DEF NextTables

(* The address of a leaf: its frame above the page offset, the virtual     *)
(* address below.                                                          *)
LEMMA LeafFrame ==
  ASSUME NEW pte, NEW va \in Word, NEW level \in 0..2,
         Ppn(pte) \cap 0..9*level-1 = {}
  PROVE  LeafAddress(pte, va, level) \ OffsetMask(level) = Shl(Ppn(pte), 12)
<1>1. \A b \in Shl(Ppn(pte), 12) : b \notin OffsetMask(level)
  BY DEF Shl, Ppn, OffsetMask, kPpnMask, Bits
<1> QED BY <1>1 DEF LeafAddress

(* Whatever a walk translates, an entry of a table reachable from the root *)
(* grants it: the walk of the code never leaves the tree of the reference  *)
(* definition UserMay.                                                     *)
LEMMA WalkGrants ==
  ASSUME NEW ram, NEW va \in Word, NEW ctx,
         walk_sv39(ram, va, ctx).kind = "Translation"
  PROVE  LET w == walk_sv39(ram, va, ctx)
         IN  /\ w.level \in 0..2
             /\ \E table \in TablesAt(ram, ctx.root_ppn, w.level) :
                  w.pte \in EntriesOf(ram, table)
             /\ PteVerdict(w.pte, w.level, ctx) = "Leaf"
             /\ w.physical \ OffsetMask(w.level) = Shl(Ppn(w.pte), 12)
<1> DEFINE w == walk_sv39(ram, va, ctx)
           root == TableAt(ctx.root_ppn)
           v2 == Visit(ram, va, ctx, root, 2)
           v1 == Visit(ram, va, ctx, v2.table, 1)
           v0 == Visit(ram, va, ctx, v1.table, 0)
           Entry(t, l) == BusRead(ram, PteAddress(t, va, l), 8)
<1>1. ASSUME NEW ppn, NEW l \in 0..2,
             Visit(ram, va, ctx, TableAt(ppn), l).kind \in {"Pointer", "Translation"}
      PROVE  LET v == Visit(ram, va, ctx, TableAt(ppn), l)
                 pte == Entry(TableAt(ppn), l)
             IN  /\ pte \in EntriesOf(ram, TableAt(ppn))
                 /\ v.kind = "Pointer" =>
                      /\ v.table = TableAt(Ppn(pte)) /\ l # 0
                      /\ \A tables : TableAt(ppn) \in tables =>
                           v.table \in NextTables(ram, tables)
                 /\ v.kind = "Translation" =>
                      /\ v.level = l /\ v.pte = pte
                      /\ PteVerdict(pte, l, ctx) = "Leaf"
                      /\ v.physical \ OffsetMask(l) = Shl(Ppn(pte), 12)
  <2> DEFINE v == Visit(ram, va, ctx, TableAt(ppn), l)
             pte == Entry(TableAt(ppn), l)
  <2>1. BusAccepts(PteAddress(TableAt(ppn), va, l), 8) /\ kPteV \in pte
    BY <1>1, VisitFacts, PointerPte, LeafPte
  <2>2. pte \in EntriesOf(ram, TableAt(ppn))
    BY <2>1, EntryFound
  <2>3. ASSUME v.kind = "Pointer"
        PROVE  /\ v.table = TableAt(Ppn(pte)) /\ l # 0
               /\ \A tables : TableAt(ppn) \in tables =>
                    v.table \in NextTables(ram, tables)
    <3>1. /\ PteVerdict(pte, l, ctx) = "Pointer" /\ l # 0
          /\ v = [kind |-> "Pointer", table |-> TableAt(Ppn(pte))]
      BY <2>3, VisitFacts
    <3>2. v.table = TableAt(Ppn(pte))
      BY <3>1
    <3> HIDE DEF v, pte
    <3> QED BY <2>2, <3>1, <3>2, PointerFollowed
  <2>4. ASSUME v.kind = "Translation"
        PROVE  /\ v.level = l /\ v.pte = pte
               /\ PteVerdict(pte, l, ctx) = "Leaf"
               /\ v.physical \ OffsetMask(l) = Shl(Ppn(pte), 12)
    <3>1. /\ PteVerdict(pte, l, ctx) = "Leaf"
          /\ v = [kind |-> "Translation", level |-> l, pte |-> pte,
                  physical |-> LeafAddress(pte, va, l)]
      BY <2>4, VisitFacts
    <3>2. v.level = l /\ v.pte = pte /\ v.physical = LeafAddress(pte, va, l)
      BY <3>1
    <3> HIDE DEF v, pte
    <3>3. Ppn(pte) \cap 0..9*l-1 = {}
      BY <3>1, LeafPte
    <3> QED BY <3>1, <3>2, <3>3, LeafFrame
  <2> QED BY <2>2, <2>3, <2>4
<1>2. is_sv39_canonical(va) /\ ctx.privilege \in {User, Supervisor}
  BY WalkFacts
<1>3. w = IF v2.kind # "Pointer" THEN v2 ELSE IF v1.kind # "Pointer" THEN v1 ELSE v0
  BY <1>2 DEF walk_sv39
<1> DEFINE middle == NextTables(ram, {root})
           last == NextTables(ram, middle)
<1>4. /\ TablesAt(ram, ctx.root_ppn, 2) = {root}
      /\ TablesAt(ram, ctx.root_ppn, 1) = middle
      /\ TablesAt(ram, ctx.root_ppn, 0) = last
  BY DEF TablesAt
<1>5. CASE v2.kind # "Pointer"
  <2>1. w = v2 /\ v2.kind = "Translation"
    BY <1>3, <1>5
  <2> QED BY <1>1, <1>4, <2>1
<1>6. CASE v2.kind = "Pointer" /\ v1.kind # "Pointer"
  <2>1. w = v1 /\ v1.kind = "Translation"
    BY <1>3, <1>6
  <2>2. PICK ppn : v2.table = TableAt(ppn) /\ v2.table \in middle
    BY <1>1, <1>6
  <2> QED BY <1>1, <1>4, <2>1, <2>2
<1>7. CASE v2.kind = "Pointer" /\ v1.kind = "Pointer"
  <2>1. w = v0 /\ v0.kind = "Translation"
    BY <1>3, <1>7
  <2>2. PICK ppn : v2.table = TableAt(ppn) /\ v2.table \in middle
    BY <1>1, <1>7
  <2>3. PICK q : v1.table = TableAt(q) /\ v1.table \in last
    BY <1>1, <1>7, <2>2
  <2> QED BY <1>1, <1>4, <2>1, <2>3
<1> QED BY <1>5, <1>6, <1>7
=============================================================================
