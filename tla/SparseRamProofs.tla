-------------------------- MODULE SparseRamProofs --------------------------
(***************************************************************************)
(* SparseRam implements flat memory, for every size, page size, byte set   *)
(* and access width.                                                       *)
(***************************************************************************)
EXTENDS SparseRam, TLAPS

(* What splitting an offset into a page number and an offset within the    *)
(* page gives.                                                             *)
LEMMA Division ==
  ASSUME NEW o \in Nat
  PROVE  /\ PageNumber(o) \in Nat /\ PageOffset(o) \in 0..PageSize-1
         /\ PageNumber(o) * PageSize + PageOffset(o) = o
BY PageAssumption DEF PageNumber, PageOffset

(* Page numbers grow with offsets.                                         *)
LEMMA DivisionMonotonic ==
  ASSUME NEW o \in Nat, NEW q \in Nat, o <= q
  PROVE  PageNumber(o) <= PageNumber(q)
BY PageAssumption DEF PageNumber

(* write_byte over a whole access, seen through read_byte: the bytes of    *)
(* the access hold what was written, every other byte what it held, on     *)
(* whichever pages they fall and whether or not these existed.             *)
LEMMA WriteThenRead ==
  ASSUME NEW offset \in Nat, NEW width \in Nat \ {0}, NEW v \in Bytes(width),
         pages' = WriteBytes(offset, width, v), NEW o \in Nat
  PROVE  read_byte(o)' = IF o - offset \in 0..width-1 THEN v[o - offset]
                         ELSE read_byte(o)
<1> DEFINE nonzero == {i \in 0..width-1 : v[i] # 0}
           present == DOMAIN pages \cup {PageNumber(offset + i) : i \in nonzero}
           Old(p) == IF p \in DOMAIN pages THEN pages[p] ELSE ZeroPage
           Index(p, b) == p * PageSize + b - offset
           p0 == PageNumber(o)
           b0 == PageOffset(o)
<1>1. pages' = [p \in present |-> [b \in 0..PageSize-1 |->
        IF Index(p, b) \in 0..width-1 THEN v[Index(p, b)] ELSE Old(p)[b]]]
  BY DEF WriteBytes
<1>2. b0 \in 0..PageSize-1 /\ Index(p0, b0) = o - offset
  <2>1. /\ p0 \in Nat /\ b0 \in 0..PageSize-1
        /\ p0 * PageSize + b0 = o
    BY Division
  <2> HIDE DEF p0, b0
  <2>2. p0 * PageSize \in Int
    BY <2>1, PageAssumption
  <2> QED BY <2>1, <2>2, PageAssumption
<1>3. Old(p0)[b0] = read_byte(o)
  BY <1>2 DEF read_byte, ZeroPage
<1>4. read_byte(o)' = IF p0 \in DOMAIN pages' THEN pages'[p0][b0] ELSE 0
  BY DEF read_byte
<1>5. o - offset \in nonzero => p0 \in present
  <2>1. o - offset \in Int /\ offset + (o - offset) = o
    OBVIOUS
  <2> QED BY <2>1
<1> HIDE DEF Old, Index, p0, b0, nonzero, present
<1>6. CASE p0 \in present
  <2>1. read_byte(o)' = pages'[p0][b0]
    BY <1>1, <1>4, <1>6
  <2>2. pages'[p0][b0] = IF Index(p0, b0) \in 0..width-1
                         THEN v[Index(p0, b0)] ELSE Old(p0)[b0]
    BY <1>1, <1>2, <1>6
  <2> QED BY <2>1, <2>2, <1>2, <1>3
<1>7. CASE p0 \notin present
  <2>1. read_byte(o)' = 0
    BY <1>1, <1>4, <1>7
  <2>2. read_byte(o) = 0
    BY <1>7 DEF read_byte, p0, present
  <2>3. o - offset \in 0..width-1 => v[o - offset] = 0
    BY <1>5, <1>7 DEF nonzero
  <2> QED BY <2>1, <2>2, <2>3
<1> QED BY <1>6, <1>7

(* The pages after a write are whole and lie inside the device.            *)
LEMMA WriteTyped ==
  ASSUME TypeOK, NEW offset \in Nat, NEW width \in Nat \ {0},
         in_range(offset, width), NEW v \in Bytes(width),
         pages' = WriteBytes(offset, width, v)
  PROVE  TypeOK'
<1> DEFINE nonzero == {i \in 0..width-1 : v[i] # 0}
           present == DOMAIN pages \cup {PageNumber(offset + i) : i \in nonzero}
           Old(p) == IF p \in DOMAIN pages THEN pages[p] ELSE ZeroPage
           Index(p, b) == p * PageSize + b - offset
<1>1. pages' = [p \in present |-> [b \in 0..PageSize-1 |->
        IF Index(p, b) \in 0..width-1 THEN v[Index(p, b)] ELSE Old(p)[b]]]
  BY DEF WriteBytes
<1>2. \A i \in nonzero : PageNumber(offset + i) \in 0..PageNumber(Size - 1)
  <2> SUFFICES ASSUME NEW i \in 0..width-1
               PROVE  PageNumber(offset + i) \in 0..PageNumber(Size - 1)
    OBVIOUS
  <2>1. offset + i \in Nat /\ Size - 1 \in Nat /\ offset + i <= Size - 1
    BY PageAssumption DEF in_range
  <2>2. PageNumber(offset + i) \in Nat /\ PageNumber(Size - 1) \in Nat
    BY <2>1, Division
  <2> QED BY <2>1, <2>2, DivisionMonotonic
<1>3. present \subseteq 0..PageNumber(Size - 1)
  BY <1>2 DEF TypeOK
<1>4. \A p \in present : Old(p) \in Page
  BY PageAssumption DEF TypeOK, Page, ZeroPage
<1> HIDE DEF Old, Index, present
<1>5. \A p \in present : pages'[p] \in Page
  <2> SUFFICES ASSUME NEW p \in present PROVE pages'[p] \in Page
    OBVIOUS
  <2>1. \A b \in 0..PageSize-1 :
          (IF Index(p, b) \in 0..width-1 THEN v[Index(p, b)] ELSE Old(p)[b]) \in Byte
    BY <1>4 DEF Page, Bytes
  <2> QED BY <1>1, <2>1 DEF Page
<1> QED BY <1>1, <1>3, <1>5 DEF TypeOK

(* The page table holds whole pages of bytes, none beyond the end of the   *)
(* device (SparseRam::write_byte, clear).                                  *)
THEOREM TypeCorrect == Spec => []TypeOK
<1>1. Init => TypeOK
  BY DEF Init, TypeOK
<1>2. TypeOK /\ [Next]_vars => TypeOK'
  <2> SUFFICES ASSUME TypeOK, [Next]_vars
               PROVE  TypeOK'
    OBVIOUS
  <2>1. ASSUME NEW offset \in 0..MaxOffset, NEW width \in Width,
               read(offset, width) \/ reject(offset, width)
        PROVE  TypeOK'
    BY <2>1 DEF read, reject, TypeOK
  <2>2. ASSUME NEW offset \in 0..MaxOffset, NEW width \in Width,
               NEW v \in Bytes(width), write(offset, width, v)
        PROVE  TypeOK'
    <3>1. offset \in Nat /\ width \in Nat \ {0}
      BY PageAssumption
    <3> QED BY <2>2, <3>1, WriteTyped DEF write
  <2>3. CASE clear
    BY <2>3 DEF clear, TypeOK
  <2>4. CASE UNCHANGED vars
    BY <2>4 DEF vars, TypeOK
  <2> QED BY <2>1, <2>2, <2>3, <2>4 DEF Next
<1> QED BY <1>1, <1>2, PTL DEF Spec

-----------------------------------------------------------------------------
(* The two statements of the range check: the code's, which cannot wrap,   *)
(* and the sum it stands for.                                              *)
LEMMA RangeCheck ==
  ASSUME NEW offset \in Nat, NEW width \in Nat \ {0}
  PROVE  in_range(offset, width) <=> Flat!Fits(offset, width)
BY PageAssumption DEF in_range, Flat!Fits

(* Every step of SparseRam is the same step of flat memory, through the    *)
(* mapping of a byte to what read_byte finds for it.                       *)
LEMMA StepRefines == [Next]_vars => [Flat!Next]_<<[o \in 0..Size-1 |-> read_byte(o)], call>>
<1> DEFINE flat == [o \in 0..Size-1 |-> read_byte(o)]
<1> SUFFICES ASSUME [Next]_vars
             PROVE  Flat!Next \/ UNCHANGED <<flat, call>>
  OBVIOUS
<1>0. ASSUME UNCHANGED pages PROVE flat' = flat
  BY <1>0 DEF read_byte
<1>1. ASSUME NEW offset \in 0..MaxOffset, NEW width \in Width, read(offset, width)
      PROVE  Flat!Read(offset, width)
  <2>1. offset \in Nat /\ width \in Nat \ {0}
    BY PageAssumption
  <2>2. Flat!Fits(offset, width)
    BY <1>1, <2>1, RangeCheck DEF read
  <2>3. \A i \in 0..width-1 : flat[offset + i] = read_byte(offset + i)
    BY <2>1, <2>2, PageAssumption DEF Flat!Fits
  <2>4. flat' = flat
    BY <1>0, <1>1 DEF read
  <2> HIDE DEF flat
  <2>5. call' = Did("read", offset, [i \in 0..width-1 |-> flat[offset + i]])
    BY <1>1, <2>3 DEF read
  <2> QED BY <2>2, <2>4, <2>5 DEF Flat!Read, Flat!Did, Did, flat
<1>2. ASSUME NEW offset \in 0..MaxOffset, NEW width \in Width, reject(offset, width)
      PROVE  Flat!Reject(offset, width)
  <2>1. offset \in Nat /\ width \in Nat \ {0}
    BY PageAssumption
  <2> QED BY <1>0, <1>2, <2>1, RangeCheck
          DEF reject, Flat!Reject, Failed, Flat!Failed
<1>3. ASSUME NEW offset \in 0..MaxOffset, NEW width \in Width,
             NEW v \in Bytes(width), write(offset, width, v)
      PROVE  Flat!Write(offset, width, v)
  <2>1. offset \in Nat /\ width \in Nat \ {0}
    BY PageAssumption
  <2>2. Flat!Fits(offset, width)
    BY <1>3, <2>1, RangeCheck DEF write
  <2>3. \A o \in 0..Size-1 : o \in Nat
    BY PageAssumption
  <2>4. \A o \in 0..Size-1 : read_byte(o)'
          = IF o - offset \in 0..width-1 THEN v[o - offset] ELSE flat[o]
    BY <1>3, <2>1, <2>3, WriteThenRead DEF write
  <2>5. flat' = [o \in 0..Size-1 |->
          IF o - offset \in 0..width-1 THEN v[o - offset] ELSE flat[o]]
    BY <2>4
  <2> QED BY <1>3, <2>2, <2>5 DEF write, Flat!Write, Flat!Offset, Did, Flat!Did
<1>4. ASSUME clear PROVE Flat!Clear
  <2>1. flat' = [o \in 0..Size-1 |-> 0]
    BY <1>4 DEF clear, read_byte
  <2> QED BY <1>4, <2>1 DEF clear, Flat!Clear, Flat!Offset, Cleared, Flat!Cleared
<1>5. CASE Next
  <2>1. CASE clear
    BY <1>4, <2>1 DEF Flat!Next
  <2>2. ASSUME NEW offset \in 0..MaxOffset, NEW width \in Width,
               \/ read(offset, width)
               \/ reject(offset, width)
               \/ \E v \in Bytes(width) : write(offset, width, v)
        PROVE  Flat!Next
    BY <1>1, <1>2, <1>3, <2>2 DEF Flat!Next, Bytes, Flat!Bytes
  <2> QED BY <1>5, <2>1, <2>2 DEF Next
<1>6. CASE UNCHANGED vars
  BY <1>0, <1>6 DEF vars
<1> QED BY <1>5, <1>6

(* SparseRam, which allocates pages on demand and only for bytes other     *)
(* than zero, cannot be told from Size bytes of memory: every behaviour of *)
(* its read, write and clear is one of FlatRam.                            *)
THEOREM ImplementsFlatRam == Spec => FlatSpec
<1>1. Init => Flat!Init
  BY DEF Init, Flat!Init, Flat!Offset, read_byte, Cleared, Flat!Cleared
<1> QED BY <1>1, StepRefines, PTL DEF Spec, FlatSpec, Flat!Spec
=============================================================================
