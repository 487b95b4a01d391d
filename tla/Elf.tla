-------------------------------- MODULE Elf --------------------------------
(***************************************************************************)
(* The ELF loader: what parse accepts, and what load_elf writes.  A file   *)
(* is a record of what parse reads of it:                                  *)
(*   header_ok  the file can be read, its header is one of a little-endian *)
(*              ELF64 ET_EXEC for RISC-V, and the program table fits;      *)
(*   entry      e_entry;                                                   *)
(*   headers    the program headers, in file order.                        *)
(* A payload is file_size times one byte, fill: which segment a byte came  *)
(* from is all that loading can get wrong.                                 *)
(***************************************************************************)
EXTENDS BusRanges, FiniteSets, SequencesExt

CONSTANT Fill            \* the payload bytes, none of them zero

ASSUME FillAssumption == 0 \notin Fill

ProgramHeader ==
  [loadable : BOOLEAN,           \* p_type is PT_LOAD
   executable : BOOLEAN,         \* PF_X
   virtual_address : Address, physical_address : Address,
   file_size : Address, memory_size : Address,
   payload_fits : BOOLEAN,       \* the payload lies inside the file
   alignment_ok : BOOLEAN,       \* p_align is zero or a power of two
   fill : Fill]

ElfFile ==
  [header_ok : BOOLEAN, entry : Address, headers : Seq(ProgramHeader)]

load_address(h) ==
  IF h.physical_address = 0 THEN h.virtual_address ELSE h.physical_address

(* The checks made on each PT_LOAD header, in the order of the table.      *)
segment_ok(h) ==
  /\ h.file_size <= h.memory_size
  /\ h.payload_fits
  /\ h.alignment_ok
  /\ load_address(h) = h.virtual_address
  /\ h.memory_size # 0 => ~add_overflows(load_address(h), h.memory_size - 1)

(* The loadable headers by load address.  std::sort leaves the order of    *)
(* equal addresses open: any one of the orders may be met.                 *)
SortedSegments(file) ==
  LET loadable == {i \in DOMAIN file.headers : file.headers[i].loadable}
      positions == 1..Cardinality(loadable)
      order == {p \in [positions -> loadable] : IsInjective(p)}
      In(p) == [i \in positions |-> file.headers[p[i]]]
  IN {s \in {In(p) : p \in order} :
        \A i, j \in DOMAIN s : i < j => load_address(s[i]) <= load_address(s[j])}

(* Neighbours overlap when the second starts before the first one's limit, *)
(* a sum that wraps to 0 for a segment ending at the top.                  *)
overlaps_by_file_size(previous, current) ==
  /\ previous.file_size # 0
  /\ load_address(current) < Wrap(load_address(previous) + previous.file_size)
overlaps(previous, current) ==
  /\ previous.memory_size # 0
  /\ load_address(current) < Wrap(load_address(previous) + previous.memory_size)

entry_is_executable(file, segments) ==
  \E i \in DOMAIN segments :
    /\ segments[i].executable
    /\ file.entry >= segments[i].virtual_address
    /\ file.entry - segments[i].virtual_address < segments[i].memory_size

(* What parse decides before it sorts, and after.                          *)
well_formed(file) ==
  /\ file.header_ok
  /\ \A i \in DOMAIN file.headers :
       file.headers[i].loadable => segment_ok(file.headers[i])
  /\ \E i \in DOMAIN file.headers : file.headers[i].loadable

placed(file, segments) ==
  /\ \A i \in 2..Len(segments) : ~overlaps(segments[i - 1], segments[i])
  /\ entry_is_executable(file, segments)

(* The validation pass of load_elf over the parsed segments.               *)
ranges_valid_first_only(devs, segments) ==
  image_range_is_valid(devs, load_address(segments[1]), segments[1].memory_size)
ranges_valid(devs, segments) ==
  \A i \in DOMAIN segments :
    image_range_is_valid(devs, load_address(segments[i]), segments[i].memory_size)

(* Whether parse and validation let a file through with this order.        *)
accepted(devs, file, segments) ==
  well_formed(file) /\ placed(file, segments) /\ ranges_valid(devs, segments)

(* The addresses a segment is written to, payload and zero fill.           *)
Extent(h) == load_address(h) .. load_address(h) + h.memory_size - 1

(* RAM after the segments have been written in order: the last one that    *)
(* covers an address decides, with its payload or a zero.                  *)
Loaded(ram, segments) ==
  [a \in DOMAIN ram |->
     LET covering == {i \in DOMAIN segments : a \in Extent(segments[i])}
         h == segments[Max(covering)]
     IN IF covering = {} THEN ram[a]
        ELSE IF a - load_address(h) < h.file_size THEN h.fill ELSE 0]
=============================================================================
