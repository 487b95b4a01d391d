---------------------------- MODULE PhysicalBus ----------------------------
(***************************************************************************)
(* The bus of the default machine as the CPU and the page-table walker see *)
(* it: 128 MiB of RAM at 0x80000000 and the UART at 0x10000000, and a bus  *)
(* fault everywhere else.                                                  *)
(*                                                                         *)
(* RAM is the set of its one bits, pairs <<s, b>> of an 8-byte slot s and  *)
(* a bit b of the little-endian value in it: memory never written is zero. *)
(* Every access of the CPU and of the walker is naturally aligned when it  *)
(* reaches the bus, so none crosses a slot, or the end of a device.        *)
(***************************************************************************)
EXTENDS Words

InRam(a) == a \ 0..26 = {31}
InUart(a) == a \ 0..2 = {28}

RamSlot == {a \in Word : InRam(a) /\ a \cap {0, 1, 2} = {}}
Ram == SUBSET (RamSlot \X Bits)

Slot(a) == a \ {0, 1, 2}
(* The lowest bit of the byte at a within its slot.                        *)
Lane_from_one(a) == 8 * (1 + Bit(a, 0) + 2 * Bit(a, 1) + 4 * Bit(a, 2))
Lane(a) == 8 * (Bit(a, 0) + 2 * Bit(a, 1) + 4 * Bit(a, 2))

RamRead(ram, a, width) ==
  {b \in WidthMask(width) : <<Slot(a), Lane(a) + b>> \in ram}

RamWrite(ram, a, width, v) ==
  {x \in ram : ~(x[1] = Slot(a) /\ x[2] - Lane(a) \in WidthMask(width))}
    \cup {<<Slot(a), Lane(a) + b>> : b \in v \cap WidthMask(width)}

(* Uart16550 is byte-wide.  Offset 5, the line status, reads 0x60.         *)
UartRead(a) == IF a \cap {0, 1, 2} = {0, 2} THEN {5, 6} ELSE {}

(* Bus::find and the device's own width check: anything else is a BusFault.*)
BusAccepts(a, width) == InRam(a) \/ (InUart(a) /\ width = 1)

(* Bus::read of an accepted access.                                        *)
BusRead(ram, a, width) ==
  IF InRam(a) THEN RamRead(ram, a, width) ELSE UartRead(a)

(* Bus::write of an accepted access: its effect on RAM, and what it sends  *)
(* through the UART's transmit register.                                   *)
BusWriteRam(ram, a, width, v) ==
  IF InRam(a) THEN RamWrite(ram, a, width, v) ELSE ram
BusWriteUart(a, v) ==
  IF InUart(a) /\ a \cap {0, 1, 2} = {} THEN <<v \cap 0..7>> ELSE <<>>
=============================================================================
