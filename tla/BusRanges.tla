----------------------------- MODULE BusRanges -----------------------------
(***************************************************************************)
(* The address arithmetic of the physical bus: which device serves an      *)
(* access, whether two devices overlap, whether an image may be loaded at  *)
(* a range.  Addresses are unsigned integers up to MaxAddress and the      *)
(* arithmetic wraps as it does in the code, so the ranges that end at the  *)
(* very top of the address space, and those that would run past it, are    *)
(* ordinary cases here.                                                    *)
(***************************************************************************)
EXTENDS Integers, Sequences

CONSTANT MaxAddress      \* std::numeric_limits<Address>::max()

ASSUME AddressAssumption == MaxAddress \in Nat \ {0}

AddressSpan == MaxAddress + 1
Address == 0..MaxAddress
Width == {1, 2, 4, 8}    \* valid_width

(* An unsigned result, and add_overflows of types.hpp.                     *)
Wrap(n) == n % AddressSpan
add_overflows(left, right) == right > MaxAddress - left

(* A device's range and its accepts_image.                                 *)
MappedDevice == [base : Address, size : Address, accepts_image : BOOLEAN]

(* The constructor's range checks; a device without a name is refused too. *)
constructible(d) == d.size # 0 /\ ~add_overflows(d.base, d.size - 1)

contains_wrapping(d, address, width) ==
  d.base <= address /\ Wrap(address + width) <= Wrap(d.base + d.size)

contains(d, address, width) ==
  LET offset == Wrap(address - d.base) IN
    d.base <= address /\ offset < d.size /\ width <= d.size - offset

ranges_overlap_by_limit(d, e) ==
  d.base < Wrap(e.base + e.size) /\ e.base < Wrap(d.base + d.size)

ranges_overlap(d, e) ==
  LET LastByte(x) == Wrap(x.base + x.size - 1) IN
    d.size # 0 /\ e.size # 0 /\ d.base <= LastByte(e) /\ e.base <= LastByte(d)

(* Bus::find: the first device, in address order, that contains the        *)
(* access, as a set of at most one.                                        *)
find(devs, address, width) ==
  {devs[i] : i \in {j \in DOMAIN devs :
     /\ contains(devs[j], address, width)
     /\ \A k \in 1..j-1 : ~contains(devs[k], address, width)}}

image_range_is_valid_unchecked(devs, address, size) ==
  size = 0 \/ \E d \in find(devs, address, 1) :
    d.accepts_image /\ contains(d, Wrap(address + size - 1), 1)

image_range_is_valid(devs, address, size) ==
  \/ size = 0
  \/ /\ ~add_overflows(address, size - 1)
     /\ \E d \in find(devs, address, 1) :
          d.accepts_image /\ contains(d, Wrap(address + size - 1), 1)

(* The end of Bus::add_device: push_back, then a sort by base.  The new    *)
(* device goes after exactly those whose base is below its own; no two     *)
(* devices share a base, so the sort leaves one place for it.              *)
InsertedAfter(devs, n, d) ==
  [i \in 1..Len(devs)+1 |->
     IF i <= n THEN devs[i] ELSE IF i = n + 1 THEN d ELSE devs[i - 1]]
insert_device(devs, d) ==
  {InsertedAfter(devs, n, d) : n \in {m \in 0..Len(devs) :
     \A i \in DOMAIN devs : i <= m <=> devs[i].base < d.base}}

-----------------------------------------------------------------------------
(* The addresses a device answers at, and those of a range, in unbounded   *)
(* arithmetic: what the comparisons above have to agree with.              *)
Owned(d) == d.base .. d.base + d.size - 1
RangeOf(address, size) == address .. address + size - 1
=============================================================================
