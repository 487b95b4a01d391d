------------------------------ MODULE Machine ------------------------------
(***************************************************************************)
(* The machine: a RAM and a UART on one bus, and a CPU.  Machine::load may *)
(* be called at any time, again and again, with any file; between loads    *)
(* the guest runs.  The bus is that of Devices, with the two devices the   *)
(* constructor adds.  The CPU is seen from outside: its pc, the steps it   *)
(* has taken since reset, whether it has halted.                           *)
(***************************************************************************)
EXTENDS Elf, Devices

CONSTANTS Configs,       \* MachineConfig: where RAM and UART are
          UartSpan,      \* Uart16550::kRegisterSpan
          Files,         \* the files load is called with
          GuestStores,   \* the bytes the guest may store, <<address, byte>>
          GuestPcs,      \* where a step may take the pc
          MaxSteps       \* bound on the steps the guest takes after a load

ASSUME MachineAssumption ==
  /\ Configs \subseteq [ram_base : Address, ram_size : Address, uart_base : Address]
  /\ UartSpan \in Address \ {0}
  /\ Files \subseteq ElfFile
  /\ GuestPcs \subseteq Address
  /\ MaxSteps \in Nat

VARIABLES ram,           \* the bytes of RAM by address
          transmitted,   \* the bytes sent, as a count
          pc, sequence, halted,
          loaded,        \* the file in RAM, if any, and its segments' order
          event          \* what happened last

vars == <<devices, ram, transmitted, pc, sequence, halted, loaded, event>>
cpu == <<pc, sequence, halted>>

RamDevice(c) == [base |-> c.ram_base, size |-> c.ram_size, accepts_image |-> TRUE]
UartDevice(c) == [base |-> c.uart_base, size |-> UartSpan, accepts_image |-> FALSE]
Zeros(d) == [a \in d.base .. d.base + d.size - 1 |-> 0]

(* Machine::Machine, for the configurations it does not throw at.          *)
Init ==
  \E c \in Configs :
    /\ constructible(RamDevice(c)) /\ constructible(UartDevice(c))
    /\ ~ranges_overlap(RamDevice(c), UartDevice(c))
    /\ devices \in insert_device(<<RamDevice(c)>>, UartDevice(c))
    /\ ram = Zeros(RamDevice(c))
    /\ transmitted = 0
    /\ pc = 0 /\ sequence = 0 /\ halted = FALSE
    /\ loaded = {}
    /\ event = "built"

(* SparseRam::clear *)
Cleared_skipped == ram
Cleared == [a \in DOMAIN ram |-> 0]

(* Machine::load of a file that load_elf takes: RAM and the transmit log   *)
(* are cleared, the segments written and the CPU reset to the entry.       *)
Load(file) ==
  \E segments \in SortedSegments(file) :
    /\ accepted(devices, file, segments)
    /\ ram' = Loaded(Cleared, segments)
    /\ transmitted' = 0
    /\ pc' = file.entry /\ sequence' = 0 /\ halted' = FALSE
    /\ loaded' = {[file |-> file, segments |-> segments]}
    /\ event' = "loaded"
    /\ UNCHANGED devices

(* The same call when load_elf throws, after the clearing.                 *)
LoadThrows(file) ==
  /\ ~well_formed(file)
       \/ \E segments \in SortedSegments(file) : ~accepted(devices, file, segments)
  /\ ram' = Cleared
  /\ transmitted' = 0
  /\ loaded' = {}
  /\ event' = "rejected"
  /\ UNCHANGED <<devices, cpu>>

(* A step of Machine::run.  A program in RAM stores a byte, sends one, or  *)
(* does neither; in memory that holds none each step traps.                *)
GuestStep ==
  /\ sequence < MaxSteps /\ ~halted
  /\ sequence' = sequence + 1
  /\ pc' \in GuestPcs \cup {pc}
  /\ \/ /\ loaded # {}
        /\ \E store \in GuestStores :
             /\ store[1] \in DOMAIN ram
             /\ ram' = [ram EXCEPT ![store[1]] = store[2]]
        /\ UNCHANGED <<transmitted, halted>>
     \/ /\ loaded # {}
        /\ transmitted' = transmitted + 1
        /\ UNCHANGED <<ram, halted>>
     \/ halted' \in BOOLEAN /\ UNCHANGED <<ram, transmitted>>
  /\ event' = "step"
  /\ UNCHANGED <<devices, loaded>>

Next == GuestStep \/ \E file \in Files : Load(file) \/ LoadThrows(file)

Spec == Init /\ [][Next]_vars

-----------------------------------------------------------------------------
(* The machine after a load is a function of the file alone, whatever ran  *)
(* or was loaded before: an address of one segment holds its payload or    *)
(* its zero fill, one of no segment zero; nothing has been sent, and the   *)
(* CPU is about to take its first step at an address in executable memory. *)
FreshAfterLoad ==
  event = "loaded" => \A l \in loaded :
    LET covers(a) == {i \in DOMAIN l.segments : a \in Extent(l.segments[i])}
        PayloadByte(h, a) ==
          IF a < load_address(h) + h.file_size THEN h.fill ELSE 0
    IN /\ \A a \in DOMAIN ram :
            /\ covers(a) = {} => ram[a] = 0
            /\ \A i \in covers(a) :
                 covers(a) = {i} => ram[a] = PayloadByte(l.segments[i], a)
       /\ transmitted = 0 /\ sequence = 0 /\ ~halted
       /\ pc \in DOMAIN ram
       /\ \E i \in covers(pc) : l.segments[i].executable

(* Once a file has passed validation no write of it can fault: every byte  *)
(* of every segment is found in image-accepting RAM.  The two bus faults   *)
(* load_elf calls unexpected are, and no image is left half loaded.        *)
ValidatedWritesSucceed ==
  \A file \in Files : \A segments \in SortedSegments(file) :
    accepted(devices, file, segments) =>
      \A i \in DOMAIN segments : \A a \in Extent(segments[i]) :
        \E d \in find(devices, Wrap(a), 1) : d.accepts_image

(* parse compares neighbours only and the sum it compares with may wrap.   *)
(* What it lets through is disjoint all the same, but for a segment that   *)
(* reaches the last address: there the overlap goes unnoticed.             *)
OverlapOnlyAtTop ==
  \A l \in loaded : \A i, j \in DOMAIN l.segments :
    (i < j /\ Extent(l.segments[i]) \cap Extent(l.segments[j]) # {})
      => MaxAddress \in Extent(l.segments[i])

(* docs/architecture.md, invariant 5: "Failed ELF validation does not      *)
(* modify guest memory."  Machine::load clears RAM before it validates.    *)
RejectedLoadKeepsMemory == [][event' = "rejected" => UNCHANGED ram]_vars
=============================================================================
