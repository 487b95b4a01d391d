------------------------------ MODULE Devices ------------------------------
(***************************************************************************)
(* The device registry of the physical bus: Bus::add_device, called for    *)
(* any devices in any order.                                               *)
(***************************************************************************)
EXTENDS BusRanges

CONSTANT MaxDevices      \* bound on the devices added

ASSUME MaxDevicesAssumption == MaxDevices \in Nat

VARIABLE devices         \* devices_, sorted by base

BusInit == devices = <<>>

(* add_device: a device that overlaps none joins the registry.             *)
add_device(d) ==
  /\ Len(devices) < MaxDevices
  /\ constructible(d)
  /\ \A i \in DOMAIN devices : ~ranges_overlap(devices[i], d)
  /\ devices' \in insert_device(devices, d)

(* The constructor or add_device throws: the registry stays as it was.     *)
add_device_throws(d) ==
  /\ ~constructible(d) \/ \E i \in DOMAIN devices : ranges_overlap(devices[i], d)
  /\ UNCHANGED devices

BusNext == \E d \in MappedDevice : add_device(d) \/ add_device_throws(d)

BusSpec == BusInit /\ [][BusNext]_devices

-----------------------------------------------------------------------------
(* Every address belongs to at most one device (ranges_overlap), all of it *)
(* inside the address space, and the registry is in address order: which   *)
(* device find meets first never matters.                                  *)
OneOwner ==
  \A i, j \in DOMAIN devices :
    /\ Owned(devices[i]) \subseteq Address
    /\ i < j => /\ devices[i].base < devices[j].base
                /\ Owned(devices[i]) \cap Owned(devices[j]) = {}

(* find serves an access exactly when one device owns all of its bytes: no *)
(* access straddles two adjacent devices, runs off the end of one, or      *)
(* wraps round the top of the address space.                               *)
FindExact ==
  \A address \in Address, width \in Width :
    find(devices, address, width)
      = {devices[i] : i \in {j \in DOMAIN devices :
           RangeOf(address, width) \subseteq Owned(devices[j])}}

(* image_range_is_valid looks at the first and the last byte only, yet it  *)
(* admits exactly the ranges every byte of which lies in one device that   *)
(* accepts images: no image reaches the UART or unmapped memory.           *)
ImageRangeExact ==
  \A address, size \in Address :
    image_range_is_valid(devices, address, size)
      <=> \/ size = 0
          \/ \E i \in DOMAIN devices :
               /\ devices[i].accepts_image
               /\ RangeOf(address, size) \subseteq Owned(devices[i])
=============================================================================
