----------------------------- MODULE SparseRam -----------------------------
(***************************************************************************)
(* SparseRam: RAM kept as a map of pages that exist only once a byte other *)
(* than zero has been written to them.  It implements FlatRam.             *)
(***************************************************************************)
EXTENDS Integers

CONSTANTS Size,        \* size()
          PageSize,    \* kPageSize
          Byte,        \* the values of a byte
          Width,       \* the widths valid_width admits
          MaxOffset    \* bound on the offsets tried, some beyond the end

ASSUME PageAssumption ==
  /\ Size \in Nat \ {0} /\ PageSize \in Nat \ {0} /\ MaxOffset \in Nat
  /\ 0 \in Byte /\ Width \subseteq Nat \ {0}

VARIABLES pages,       \* pages_, from page numbers to pages
          call         \* the last call and what it returned

vars == <<pages, call>>

(* The bytes of a value of some width, least significant first.            *)
Bytes(width) == [0..width-1 -> Byte]
Did(op, offset, value) == [op |-> op, offset |-> offset, value |-> value]
Failed(offset, width) == [op |-> "error", offset |-> offset, width |-> width]
Cleared == [op |-> "clear"]

Page == [0..PageSize-1 -> Byte]
ZeroPage == [b \in 0..PageSize-1 |-> 0]
PageNumber(offset) == offset \div PageSize
PageOffset(offset) == offset % PageSize

(* The range check of read and write.                                      *)
in_range_of_first_byte(offset, width) == offset < Size
in_range(offset, width) == offset < Size /\ width <= Size - offset

(* read_byte: a byte of a page that does not exist is zero.                *)
read_byte(offset) ==
  IF PageNumber(offset) \in DOMAIN pages
    THEN pages[PageNumber(offset)][PageOffset(offset)] ELSE 0

(* write_byte for each byte of v in turn.  A page is allocated, filled     *)
(* with zeros, by the first byte other than zero that falls on it; a zero  *)
(* byte changes existing pages only.                                       *)
WriteBytes_keeps_zeroed(offset, width, v) ==
  LET nonzero == {i \in 0..width-1 : v[i] # 0}
      present == DOMAIN pages \cup {PageNumber(offset + i) : i \in nonzero}
      Old(p) == IF p \in DOMAIN pages THEN pages[p] ELSE ZeroPage
      Index(p, b) == p * PageSize + b - offset
  IN [p \in present |-> [b \in 0..PageSize-1 |->
        IF Index(p, b) \in nonzero THEN v[Index(p, b)] ELSE Old(p)[b]]]

WriteBytes(offset, width, v) ==
  LET nonzero == {i \in 0..width-1 : v[i] # 0}
      present == DOMAIN pages \cup {PageNumber(offset + i) : i \in nonzero}
      Old(p) == IF p \in DOMAIN pages THEN pages[p] ELSE ZeroPage
      Index(p, b) == p * PageSize + b - offset
  IN [p \in present |-> [b \in 0..PageSize-1 |->
        IF Index(p, b) \in 0..width-1 THEN v[Index(p, b)] ELSE Old(p)[b]]]

-----------------------------------------------------------------------------
Init == pages = [p \in {} |-> ZeroPage] /\ call = Cleared

read(offset, width) ==
  /\ in_range(offset, width)
  /\ call' = Did("read", offset, [i \in 0..width-1 |-> read_byte(offset + i)])
  /\ UNCHANGED pages

write(offset, width, v) ==
  /\ in_range(offset, width)
  /\ pages' = WriteBytes(offset, width, v)
  /\ call' = Did("write", offset, v)

(* Either call, when the access is out of range.                           *)
reject(offset, width) ==
  ~in_range(offset, width) /\ call' = Failed(offset, width) /\ UNCHANGED pages

clear == pages' = [p \in {} |-> ZeroPage] /\ call' = Cleared

Next ==
  \/ \E offset \in 0..MaxOffset, width \in Width :
       \/ read(offset, width)
       \/ reject(offset, width)
       \/ \E v \in Bytes(width) : write(offset, width, v)
  \/ clear

Spec == Init /\ [][Next]_vars

-----------------------------------------------------------------------------
(* Pages lie inside the device, are whole, and hold bytes.                 *)
TypeOK ==
  /\ DOMAIN pages \subseteq 0..PageNumber(Size - 1)
  /\ \A p \in DOMAIN pages : pages[p] \in Page

(* Whatever is allocated, the device behaves as Size bytes of flat memory: *)
(* the refinement maps a byte to what read_byte finds for it.              *)
Flat == INSTANCE FlatRam WITH bytes <- [o \in 0..Size-1 |-> read_byte(o)]
FlatSpec == Flat!Spec
=============================================================================
