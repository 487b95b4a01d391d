--------------------------- MODULE MachineProofs ---------------------------
(***************************************************************************)
(* The bus, and the loading of programs onto it, for every address space,  *)
(* every machine that can be built, every set of files, however many       *)
(* devices are added, and any length of guest execution.                   *)
(*                                                                         *)
(* First the bus alone (BusSpec): the comparisons of the code, made in     *)
(* arithmetic that wraps, agree with the sets of addresses they stand for. *)
(* The inductive invariant of the registry is Registry: a typed sequence   *)
(* of devices that could be built, in address order and disjoint.          *)
(***************************************************************************)
EXTENDS Machine, FiniteSetTheorems, TLAPS

(* Unsigned arithmetic is exact on results that fit.                       *)
LEMMA WrapExact == \A n \in Address : Wrap(n) = n
<1> SUFFICES ASSUME NEW n \in Address PROVE Wrap(n) = n
  OBVIOUS
<1>1. n \in Nat /\ AddressSpan \in Nat \ {0} /\ n < AddressSpan
  BY AddressAssumption DEF Address, AddressSpan
<1> QED BY <1>1 DEF Wrap

(* A device that could be built lies inside the address space.             *)
LEMMA OwnedInside ==
  ASSUME NEW d \in MappedDevice, constructible(d)
  PROVE  /\ d.base \in Address /\ d.size \in Address \ {0}
         /\ d.base + d.size - 1 \in Address
         /\ d.base \in Owned(d) /\ Owned(d) \subseteq Address
BY AddressAssumption
   DEF MappedDevice, constructible, add_overflows, Address, Owned

(* contains holds exactly for the accesses all of whose bytes the device   *)
(* owns.                                                                   *)
LEMMA ContainsExact ==
  ASSUME NEW d \in MappedDevice, constructible(d),
         NEW address \in Address, NEW width \in Nat \ {0}
  PROVE  contains(d, address, width)
           <=> RangeOf(address, width) \subseteq Owned(d)
<1>1. /\ d.base \in Address /\ d.size \in Address \ {0}
      /\ d.base + d.size - 1 \in Address
  BY OwnedInside
<1>2. CASE d.base <= address
  <2>1. address - d.base \in Address
    BY <1>1, <1>2, AddressAssumption DEF Address
  <2>2. Wrap(address - d.base) = address - d.base
    BY <2>1, WrapExact
  <2>3. contains(d, address, width)
          <=> address + width <= d.base + d.size
    BY <1>1, <1>2, <2>1, <2>2, AddressAssumption DEF contains, Address
  <2>4. RangeOf(address, width) \subseteq Owned(d)
          <=> address + width <= d.base + d.size
    <3>1. address + width - 1 \in RangeOf(address, width)
      BY <1>1, AddressAssumption DEF RangeOf, Address
    <3> QED BY <3>1, <1>1, <1>2, AddressAssumption DEF RangeOf, Owned, Address
  <2> QED BY <2>3, <2>4
<1>3. CASE ~(d.base <= address)
  <2>1. address \in RangeOf(address, width) /\ address \notin Owned(d)
    BY <1>1, <1>3, AddressAssumption DEF RangeOf, Owned, Address
  <2> QED BY <2>1, <1>3 DEF contains
<1> QED BY <1>2, <1>3

(* ranges_overlap, which compares last bytes, holds exactly when the two   *)
(* devices share an address, also for devices that end at the very top.    *)
LEMMA OverlapExact ==
  ASSUME NEW d \in MappedDevice, constructible(d),
         NEW e \in MappedDevice, constructible(e)
  PROVE  ranges_overlap(d, e) <=> Owned(d) \cap Owned(e) # {}
<1>1. /\ d.base \in Address /\ d.size \in Address \ {0}
      /\ d.base + d.size - 1 \in Address
      /\ e.base \in Address /\ e.size \in Address \ {0}
      /\ e.base + e.size - 1 \in Address
  BY OwnedInside
<1>2. /\ Wrap(d.base + d.size - 1) = d.base + d.size - 1
      /\ Wrap(e.base + e.size - 1) = e.base + e.size - 1
  BY <1>1, WrapExact
<1>3. ranges_overlap(d, e)
        <=> d.base <= e.base + e.size - 1 /\ e.base <= d.base + d.size - 1
  BY <1>1, <1>2, AddressAssumption DEF ranges_overlap, Address
<1>4. ASSUME d.base <= e.base + e.size - 1, e.base <= d.base + d.size - 1
      PROVE  Owned(d) \cap Owned(e) # {}
  <2>1. CASE d.base <= e.base
    <3>1. e.base \in Owned(d) \cap Owned(e)
      BY <2>1, <1>1, <1>4, AddressAssumption DEF Owned, Address
    <3> QED BY <3>1
  <2>2. CASE ~(d.base <= e.base)
    <3>1. d.base \in Owned(d) \cap Owned(e)
      BY <2>2, <1>1, <1>4, AddressAssumption DEF Owned, Address
    <3> QED BY <3>1
  <2> QED BY <2>1, <2>2
<1>5. ASSUME NEW a \in Owned(d) \cap Owned(e)
      PROVE  d.base <= e.base + e.size - 1 /\ e.base <= d.base + d.size - 1
  BY <1>1, <1>5, AddressAssumption DEF Owned, Address
<1> QED BY <1>3, <1>4, <1>5

-----------------------------------------------------------------------------
(* A registry of devices as Bus::add_device leaves it: devices that could  *)
(* be built, in address order, that share no address.                      *)
Registry(devs) ==
  /\ devs \in Seq(MappedDevice)
  /\ \A i \in DOMAIN devs : constructible(devs[i])
  /\ \A i, j \in DOMAIN devs :
       i < j => /\ devs[i].base < devs[j].base
                /\ Owned(devs[i]) \cap Owned(devs[j]) = {}

(* The push_back and the sort at the end of add_device keep it one.        *)
LEMMA InsertRegistry ==
  ASSUME NEW devs, Registry(devs), NEW d \in MappedDevice, constructible(d),
         \A i \in DOMAIN devs : ~ranges_overlap(devs[i], d),
         NEW s \in insert_device(devs, d)
  PROVE  Registry(s)
<1> DEFINE N == Len(devs)
<1>1. PICK n \in 0..N :
        /\ \A i \in DOMAIN devs : i <= n <=> devs[i].base < d.base
        /\ s = InsertedAfter(devs, n, d)
  BY DEF insert_device
<1>2. N \in Nat /\ DOMAIN devs = 1..N /\ \A i \in 1..N : devs[i] \in MappedDevice
  BY DEF Registry
<1>3. /\ DOMAIN s = 1..N+1
      /\ \A i \in 1..N+1 :
           s[i] = IF i <= n THEN devs[i] ELSE IF i = n + 1 THEN d ELSE devs[i - 1]
  BY <1>1 DEF InsertedAfter
<1>4. \A i \in 1..N+1 :
        \/ i <= n /\ i \in 1..N /\ s[i] = devs[i]
        \/ i = n + 1 /\ s[i] = d
        \/ i > n + 1 /\ i - 1 \in 1..N /\ s[i] = devs[i - 1]
  BY <1>2, <1>3
<1>5. \A i \in 1..N+1 : s[i] \in MappedDevice /\ constructible(s[i])
  BY <1>2, <1>4 DEF Registry
<1>6. s \in Seq(MappedDevice)
  BY <1>1, <1>2, <1>3, <1>5 DEF InsertedAfter
<1>7. \A i \in 1..N :
        /\ Owned(devs[i]) \cap Owned(d) = {}
        /\ devs[i].base \in Int /\ d.base \in Int
        /\ i > n => d.base < devs[i].base
  <2> SUFFICES ASSUME NEW i \in 1..N
               PROVE  /\ Owned(devs[i]) \cap Owned(d) = {}
                      /\ devs[i].base \in Int /\ d.base \in Int
                      /\ i > n => d.base < devs[i].base
    OBVIOUS
  <2>1. devs[i] \in MappedDevice /\ constructible(devs[i])
    BY <1>2 DEF Registry
  <2>2. Owned(devs[i]) \cap Owned(d) = {}
    BY <1>2, <2>1, OverlapExact
  <2>3. /\ devs[i].base \in Address /\ devs[i].base \in Owned(devs[i])
        /\ d.base \in Address /\ d.base \in Owned(d)
    BY <2>1, OwnedInside
  <2>4. devs[i].base \in Int /\ d.base \in Int /\ devs[i].base # d.base
    BY <2>2, <2>3 DEF Address
  <2> QED BY <1>1, <1>2, <2>2, <2>4
<1>8. ASSUME NEW i \in 1..N+1, NEW j \in 1..N+1, i < j
      PROVE  s[i].base < s[j].base /\ Owned(s[i]) \cap Owned(s[j]) = {}
  <2>1. CASE i <= n /\ j <= n
    BY <1>2, <1>4, <1>8, <2>1 DEF Registry
  <2>2. CASE i <= n /\ j = n + 1
    <3>1. i \in 1..N /\ s[i] = devs[i] /\ s[j] = d
      BY <1>2, <1>3, <2>2
    <3> QED BY <1>1, <1>2, <1>7, <2>2, <3>1
  <2>3. CASE i <= n /\ j > n + 1
    <3>1. i \in 1..N /\ j - 1 \in 1..N /\ i < j - 1
      BY <1>2, <1>4, <2>3
    <3> QED BY <1>2, <1>3, <2>3, <3>1 DEF Registry
  <2>4. CASE i = n + 1 /\ j > n + 1
    <3>1. j - 1 \in 1..N /\ j - 1 > n /\ s[j] = devs[j - 1] /\ s[i] = d
      BY <1>2, <1>3, <2>4
    <3> QED BY <3>1, <1>7
  <2>5. CASE i > n + 1
    <3>1. i - 1 \in 1..N /\ j - 1 \in 1..N /\ i - 1 < j - 1
          /\ s[i] = devs[i - 1] /\ s[j] = devs[j - 1]
      BY <1>2, <1>3, <1>8, <2>5
    <3> QED BY <1>2, <3>1 DEF Registry
  <2> QED BY <1>8, <1>2, <2>1, <2>2, <2>3, <2>4, <2>5
<1> QED BY <1>3, <1>5, <1>6, <1>8 DEF Registry

(* find returns exactly the devices that own every byte of the access.     *)
LEMMA FindOwners ==
  ASSUME NEW devs, Registry(devs),
         NEW address \in Address, NEW width \in Nat \ {0}
  PROVE  find(devs, address, width)
           = {devs[i] : i \in {j \in DOMAIN devs :
                RangeOf(address, width) \subseteq Owned(devs[j])}}
<1>1. \A i \in DOMAIN devs :
        /\ devs[i] \in MappedDevice /\ constructible(devs[i])
        /\ contains(devs[i], address, width)
             <=> RangeOf(address, width) \subseteq Owned(devs[i])
  BY ContainsExact DEF Registry
<1>2. address \in RangeOf(address, width)
  BY AddressAssumption DEF RangeOf, Address
<1>3. \A j \in DOMAIN devs : j \in Nat /\ \A k \in 1..j-1 : k \in DOMAIN devs /\ k < j
  BY DEF Registry
<1>4. ASSUME NEW j \in DOMAIN devs, contains(devs[j], address, width),
             NEW k \in 1..j-1
      PROVE  ~contains(devs[k], address, width)
  <2>1. k \in DOMAIN devs /\ k < j
    BY <1>3
  <2>2. Owned(devs[k]) \cap Owned(devs[j]) = {}
    BY <2>1 DEF Registry
  <2>3. address \in Owned(devs[j])
    BY <1>1, <1>2, <1>4
  <2> QED BY <1>1, <1>2, <2>1, <2>2, <2>3
<1>5. {j \in DOMAIN devs :
         /\ contains(devs[j], address, width)
         /\ \A k \in 1..j-1 : ~contains(devs[k], address, width)}
      = {j \in DOMAIN devs : RangeOf(address, width) \subseteq Owned(devs[j])}
  BY <1>1, <1>4
<1> QED BY <1>5 DEF find

(* image_range_is_valid, which asks about the first and the last byte,     *)
(* holds exactly when one image-accepting device owns the whole range.     *)
LEMMA ImageOwner ==
  ASSUME NEW devs, Registry(devs), NEW address \in Address, NEW size \in Address
  PROVE  image_range_is_valid(devs, address, size)
           <=> \/ size = 0
               \/ \E i \in DOMAIN devs :
                    /\ devs[i].accepts_image
                    /\ RangeOf(address, size) \subseteq Owned(devs[i])
<1>1. CASE size = 0
  BY <1>1 DEF image_range_is_valid
<1>2. CASE size # 0
  <2> DEFINE last == address + size - 1
             Holds(i) == RangeOf(address, size) \subseteq Owned(devs[i])
  <2>1. /\ address \in Int /\ size \in Int /\ size > 0
        /\ address >= 0 /\ last \in Int /\ address <= last
        /\ address \in RangeOf(address, size) /\ last \in RangeOf(address, size)
    BY <1>2, AddressAssumption DEF Address, RangeOf
  <2>2. ~add_overflows(address, size - 1) <=> last \in Address
    BY <2>1, AddressAssumption DEF add_overflows, Address
  <2>3. \A i \in DOMAIN devs : devs[i] \in MappedDevice /\ constructible(devs[i])
    BY DEF Registry
  <2>4. \A i \in DOMAIN devs : Owned(devs[i]) \subseteq Address
    BY <2>3, OwnedInside
  <2>5. ASSUME NEW a \in Address, NEW i \in DOMAIN devs
        PROVE  RangeOf(a, 1) = {a}
    BY AddressAssumption DEF RangeOf, Address
  <2>6. \A a \in Address : find(devs, a, 1)
          = {devs[i] : i \in {j \in DOMAIN devs : a \in Owned(devs[j])}}
    <3> SUFFICES ASSUME NEW a \in Address
                 PROVE  find(devs, a, 1)
                   = {devs[i] : i \in {j \in DOMAIN devs : a \in Owned(devs[j])}}
      OBVIOUS
    <3>1. find(devs, a, 1) = {devs[i] : i \in {j \in DOMAIN devs :
                                 RangeOf(a, 1) \subseteq Owned(devs[j])}}
      BY FindOwners
    <3> QED BY <2>5, <3>1
  <2>7. ASSUME last \in Address, NEW i \in DOMAIN devs
        PROVE  /\ contains(devs[i], Wrap(last), 1) <=> last \in Owned(devs[i])
               /\ address \in Owned(devs[i]) /\ last \in Owned(devs[i]) <=> Holds(i)
    <3>1. Wrap(last) = last
      BY <2>7, WrapExact
    <3>2. contains(devs[i], last, 1) <=> RangeOf(last, 1) \subseteq Owned(devs[i])
      BY <2>3, <2>7, ContainsExact
    <3>3. RangeOf(last, 1) = {last}
      BY <2>5, <2>7
    <3>4. address \in Owned(devs[i]) /\ last \in Owned(devs[i]) => Holds(i)
      <4>1. devs[i].base \in Int /\ devs[i].size \in Int
        BY <2>3 DEF MappedDevice, Address
      <4> QED BY <2>1, <4>1 DEF Owned, RangeOf
    <3> QED BY <2>1, <3>1, <3>2, <3>3, <3>4
  <2>8. ASSUME image_range_is_valid(devs, address, size)
        PROVE  \E i \in DOMAIN devs : devs[i].accepts_image /\ Holds(i)
    <3>1. last \in Address
      BY <1>2, <2>2, <2>8 DEF image_range_is_valid
    <3>2. PICK d \in find(devs, address, 1) :
            d.accepts_image /\ contains(d, Wrap(last), 1)
      BY <1>2, <2>8 DEF image_range_is_valid
    <3>3. PICK i \in DOMAIN devs : d = devs[i] /\ address \in Owned(devs[i])
      BY <2>6, <3>2
    <3> QED BY <2>7, <3>1, <3>2, <3>3
  <2>9. ASSUME NEW i \in DOMAIN devs, devs[i].accepts_image, Holds(i)
        PROVE  image_range_is_valid(devs, address, size)
    <3>1. last \in Address
      BY <2>1, <2>4, <2>9
    <3>2. devs[i] \in find(devs, address, 1) /\ contains(devs[i], Wrap(last), 1)
      BY <2>1, <2>6, <2>7, <2>9, <3>1
    <3> QED BY <2>2, <2>9, <3>1, <3>2 DEF image_range_is_valid
  <2> QED BY <1>2, <2>8, <2>9
<1> QED BY <1>1, <1>2

-----------------------------------------------------------------------------
(* In a registry the comparisons of the code are exact.                    *)
LEMMA RegistryExact ==
  ASSUME Registry(devices)
  PROVE  OneOwner /\ FindExact /\ ImageRangeExact
<1>1. OneOwner
  BY OwnedInside DEF Registry, OneOwner
<1>2. FindExact
  <2> SUFFICES ASSUME NEW address \in Address, NEW width \in Width
               PROVE  find(devices, address, width)
                        = {devices[i] : i \in {j \in DOMAIN devices :
                             RangeOf(address, width) \subseteq Owned(devices[j])}}
    BY DEF FindExact
  <2>1. width \in Nat \ {0}
    BY DEF Width
  <2> QED BY <2>1, FindOwners
<1>3. ImageRangeExact
  BY ImageOwner DEF ImageRangeExact
<1> QED BY <1>1, <1>2, <1>3

(* Bus::add_device keeps the registry one, whether it takes the device or  *)
(* throws.                                                                 *)
THEOREM RegistryKept == BusSpec => []Registry(devices)
<1>1. BusInit => Registry(devices)
  BY DEF BusInit, Registry
<1>2. Registry(devices) /\ [BusNext]_devices => Registry(devices)'
  <2> SUFFICES ASSUME Registry(devices), [BusNext]_devices
               PROVE  Registry(devices)'
    OBVIOUS
  <2>1. ASSUME NEW d \in MappedDevice, add_device(d)
        PROVE  Registry(devices)'
    BY <2>1, InsertRegistry DEF add_device
  <2>2. ASSUME NEW d \in MappedDevice, add_device_throws(d)
        PROVE  Registry(devices)'
    BY <2>2 DEF add_device_throws
  <2>3. CASE UNCHANGED devices
    BY <2>3
  <2> QED BY <2>1, <2>2, <2>3 DEF BusNext
<1> QED BY <1>1, <1>2, PTL DEF BusSpec

(* No two devices on the bus answer at one address, none reaches past the  *)
(* end of the address space, and find searches them in address order       *)
(* (Bus::add_device, ranges_overlap).                                      *)
THEOREM OneOwnerHolds == BusSpec => []OneOwner
BY RegistryExact, RegistryKept, PTL

(* Bus::find serves exactly the accesses that lie whole in one device, at  *)
(* every address and width, wrapping ones included.                        *)
THEOREM FindExactHolds == BusSpec => []FindExact
BY RegistryExact, RegistryKept, PTL

(* Bus::image_range_is_valid admits exactly the ranges that lie whole in   *)
(* one device that takes images, for every address and size.               *)
THEOREM ImageRangeExactHolds == BusSpec => []ImageRangeExact
BY RegistryExact, RegistryKept, PTL

-----------------------------------------------------------------------------
(* Loading, on the bus the machine builds.                          *)
(* What parse returns: a sequence of loadable headers of the file, typed   *)
(* and sorted by load address.                                             *)
LEMMA SortedFacts ==
  ASSUME NEW file \in ElfFile, NEW s \in SortedSegments(file)
  PROVE  /\ s \in Seq(ProgramHeader)
         /\ \A i \in DOMAIN s : \E k \in DOMAIN file.headers :
              s[i] = file.headers[k] /\ file.headers[k].loadable
         /\ \A i, j \in DOMAIN s : i < j => load_address(s[i]) <= load_address(s[j])
<1> DEFINE loadable == {i \in DOMAIN file.headers : file.headers[i].loadable}
           positions == 1..Cardinality(loadable)
<1>1. PICK p \in [positions -> loadable] :
        s = [i \in positions |-> file.headers[p[i]]]
  BY DEF SortedSegments
<1>2. file.headers \in Seq(ProgramHeader)
  BY DEF ElfFile
<1>3. Cardinality(loadable) \in Nat
  <2>1. loadable \subseteq 1..Len(file.headers) /\ Len(file.headers) \in Nat
    BY <1>2
  <2>2. IsFiniteSet(1..Len(file.headers))
    BY <2>1, FS_Interval
  <2>3. IsFiniteSet(loadable)
    BY <2>1, <2>2, FS_Subset
  <2> QED BY <2>3, FS_CardinalityType
<1>4. \A i \in positions : /\ p[i] \in DOMAIN file.headers
                           /\ file.headers[p[i]].loadable
                           /\ file.headers[p[i]] \in ProgramHeader
  <2>1. \A k \in loadable : /\ k \in DOMAIN file.headers
                            /\ file.headers[k].loadable
                            /\ file.headers[k] \in ProgramHeader
    BY <1>2
  <2>2. \A i \in positions : p[i] \in loadable
    BY <1>1
  <2> HIDE DEF loadable, positions
  <2> QED BY <2>1, <2>2
<1> HIDE DEF loadable
<1>5. s \in Seq(ProgramHeader)
  BY <1>1, <1>3, <1>4
<1>6. \A i, j \in DOMAIN s : i < j => load_address(s[i]) <= load_address(s[j])
  BY DEF SortedSegments
<1> QED BY <1>1, <1>4, <1>5, <1>6

(* The arithmetic of a segment that passed the checks on its header.       *)
LEMMA SegmentFacts ==
  ASSUME NEW file \in ElfFile, NEW s \in SortedSegments(file), well_formed(file),
         NEW i \in DOMAIN s
  PROVE  /\ segment_ok(s[i])
         /\ load_address(s[i]) \in Address /\ s[i].memory_size \in Address
         /\ s[i].file_size \in Address /\ s[i].virtual_address \in Address
         /\ load_address(s[i]) = s[i].virtual_address
         /\ Extent(s[i]) = RangeOf(load_address(s[i]), s[i].memory_size)
         /\ Extent(s[i]) \subseteq Address
<1>1. s[i] \in ProgramHeader
  BY SortedFacts
<1>2. segment_ok(s[i])
  BY SortedFacts DEF well_formed
<1>3. /\ load_address(s[i]) \in Address /\ s[i].memory_size \in Address
      /\ s[i].file_size \in Address /\ s[i].virtual_address \in Address
  BY <1>1 DEF ProgramHeader, load_address
<1>4. Extent(s[i]) \subseteq Address
  BY <1>2, <1>3, AddressAssumption DEF Extent, Address, segment_ok, add_overflows
<1> QED BY <1>2, <1>3, <1>4 DEF Extent, RangeOf, segment_ok

(* Once validated, a segment lies whole in one device that takes images.   *)
LEMMA SegmentOwner ==
  ASSUME NEW devs, Registry(devs), NEW file \in ElfFile,
         NEW s \in SortedSegments(file), accepted(devs, file, s),
         NEW i \in DOMAIN s, NEW a \in Extent(s[i])
  PROVE  \E k \in DOMAIN devs :
           devs[k].accepts_image /\ Extent(s[i]) \subseteq Owned(devs[k])
<1>1. /\ load_address(s[i]) \in Address /\ s[i].memory_size \in Address
      /\ Extent(s[i]) = RangeOf(load_address(s[i]), s[i].memory_size)
  BY SegmentFacts DEF accepted
<1>2. s[i].memory_size # 0
  BY <1>1, AddressAssumption DEF RangeOf, Address
<1>3. image_range_is_valid(devs, load_address(s[i]), s[i].memory_size)
  BY DEF accepted, ranges_valid
<1> QED BY <1>1, <1>2, <1>3, ImageOwner

-----------------------------------------------------------------------------
(* The only device that takes images is RAM.                               *)
ImagesInRam ==
  \A k \in DOMAIN devices :
    devices[k].accepts_image => Owned(devices[k]) = DOMAIN ram

(* The file in RAM, if any, was parsed and validated.                      *)
LoadedAccepted ==
  \A l \in loaded :
    /\ l.file \in ElfFile
    /\ l.segments \in SortedSegments(l.file)
    /\ accepted(devices, l.file, l.segments)

MachineInv ==
  Registry(devices) /\ ImagesInRam /\ LoadedAccepted /\ FreshAfterLoad

LEMMA InitMachineInv == Init => MachineInv
<1> SUFFICES ASSUME NEW c \in Configs,
                    constructible(RamDevice(c)), constructible(UartDevice(c)),
                    ~ranges_overlap(RamDevice(c), UartDevice(c)),
                    devices \in insert_device(<<RamDevice(c)>>, UartDevice(c)),
                    ram = Zeros(RamDevice(c)), loaded = {}, event = "built"
             PROVE  MachineInv
  BY DEF Init
<1> DEFINE d == RamDevice(c)
           e == UartDevice(c)
           one == <<d>>
<1>1. d \in MappedDevice /\ e \in MappedDevice
  BY MachineAssumption DEF RamDevice, UartDevice, MappedDevice
<1>2. d.accepts_image /\ ~e.accepts_image
  BY DEF RamDevice, UartDevice
<1>3. Owned(d) = DOMAIN ram
  BY DEF Owned, Zeros
<1> HIDE DEF d, e
<1>4. one \in Seq(MappedDevice) /\ DOMAIN one = {1} /\ Len(one) = 1 /\ one[1] = d
  BY <1>1
<1>5. Registry(one)
  BY <1>4 DEF Registry, d
<1> HIDE DEF one
<1>6. Registry(devices)
  BY <1>1, <1>4, <1>5, InsertRegistry DEF d, e, one
<1>7. \A k \in DOMAIN devices : devices[k] \in {d, e}
  <2>1. PICK n \in 0..1 : devices = InsertedAfter(one, n, e)
    BY <1>4 DEF insert_device, d, e, one
  <2> QED BY <1>4, <2>1 DEF InsertedAfter
<1>8. ImagesInRam
  BY <1>2, <1>3, <1>7 DEF ImagesInRam
<1> QED BY <1>6, <1>8 DEF MachineInv, LoadedAccepted, FreshAfterLoad

(* What RAM holds after Loaded, in a memory that was cleared before.       *)
LEMMA LoadedBytes ==
  ASSUME NEW r, \A a \in DOMAIN r : r[a] = 0,
         NEW s, DOMAIN s \subseteq Int, NEW a \in DOMAIN r
  PROVE  LET covers == {i \in DOMAIN s : a \in Extent(s[i])}
         IN /\ covers = {} => Loaded(r, s)[a] = 0
            /\ \A i \in covers : covers = {i} => Loaded(r, s)[a]
                 = IF a - load_address(s[i]) < s[i].file_size THEN s[i].fill ELSE 0
<1> DEFINE covers == {i \in DOMAIN s : a \in Extent(s[i])}
<1>1. Loaded(r, s)[a] = IF covers = {} THEN r[a]
        ELSE IF a - load_address(s[Max(covers)]) < s[Max(covers)].file_size
               THEN s[Max(covers)].fill ELSE 0
  BY DEF Loaded
<1>2. ASSUME NEW i \in covers, covers = {i}
      PROVE  Max(covers) = i
  <2>1. i \in Int /\ i >= i
    BY <1>2
  <2>2. \E x \in covers : \A y \in covers : x >= y
    BY <1>2, <2>1
  <2>3. Max(covers) \in covers
    BY <2>2 DEF Max
  <2> QED BY <1>2, <2>3
<1> QED BY <1>1, <1>2

(* Machine::load leaves the machine as FreshAfterLoad says, whatever RAM   *)
(* held and wherever the CPU was before.                                   *)
LEMMA LoadFresh ==
  ASSUME MachineInv, NEW file \in ElfFile, Load(file)
  PROVE  MachineInv'
<1>1. PICK s \in SortedSegments(file) :
        /\ accepted(devices, file, s)
        /\ ram' = Loaded(Cleared, s)
        /\ transmitted' = 0
        /\ pc' = file.entry /\ sequence' = 0 /\ halted' = FALSE
        /\ loaded' = {[file |-> file, segments |-> s]}
        /\ UNCHANGED devices
  BY DEF Load
<1>2. /\ DOMAIN Cleared = DOMAIN ram
      /\ \A a \in DOMAIN ram : Cleared[a] = 0
      /\ DOMAIN ram' = DOMAIN ram
  BY <1>1 DEF Cleared, Loaded
<1>3. s \in Seq(ProgramHeader)
  BY SortedFacts
<1>4. (Registry(devices) /\ ImagesInRam)'
  BY <1>1, <1>2 DEF MachineInv, ImagesInRam
<1>5. LoadedAccepted'
  BY <1>1 DEF LoadedAccepted
<1> DEFINE covers(a) == {i \in DOMAIN s : a \in Extent(s[i])}
           PayloadByte(h, a) ==
             IF a < load_address(h) + h.file_size THEN h.fill ELSE 0
<1>6. ASSUME NEW i \in DOMAIN s, NEW a \in Extent(s[i])
      PROVE  /\ a \in DOMAIN ram
             /\ a - load_address(s[i]) < s[i].file_size
                  <=> a < load_address(s[i]) + s[i].file_size
  <2>1. PICK k \in DOMAIN devices :
          devices[k].accepts_image /\ Extent(s[i]) \subseteq Owned(devices[k])
    BY <1>1, <1>6, SegmentOwner DEF MachineInv
  <2>2. /\ load_address(s[i]) \in Int /\ s[i].file_size \in Int /\ a \in Int
    <3>1. /\ load_address(s[i]) \in Address /\ s[i].file_size \in Address
          /\ Extent(s[i]) \subseteq Address
      BY <1>1, <1>6, SegmentFacts DEF accepted
    <3> QED BY <3>1, <1>6 DEF Address
  <2> QED BY <1>6, <2>1, <2>2 DEF MachineInv, ImagesInRam
<1>7. ASSUME NEW a \in DOMAIN ram
      PROVE  /\ covers(a) = {} => ram'[a] = 0
             /\ \A i \in covers(a) :
                  covers(a) = {i} => ram'[a] = PayloadByte(s[i], a)
  <2>1. DOMAIN s \subseteq Int
    BY <1>3
  <2>2. /\ covers(a) = {} => Loaded(Cleared, s)[a] = 0
        /\ \A i \in covers(a) : covers(a) = {i} => Loaded(Cleared, s)[a]
             = IF a - load_address(s[i]) < s[i].file_size THEN s[i].fill ELSE 0
    BY <1>2, <1>7, <2>1, LoadedBytes
  <2> QED BY <1>1, <1>6, <2>2
<1>8. PICK i \in covers(file.entry) : s[i].executable
  <2>1. PICK i \in DOMAIN s :
          /\ s[i].executable
          /\ file.entry >= s[i].virtual_address
          /\ file.entry - s[i].virtual_address < s[i].memory_size
    BY <1>1 DEF accepted, placed, entry_is_executable
  <2>2. /\ load_address(s[i]) = s[i].virtual_address
        /\ load_address(s[i]) \in Address /\ s[i].memory_size \in Address
    BY <1>1, SegmentFacts DEF accepted
  <2>3. file.entry \in Extent(s[i])
    BY <2>1, <2>2 DEF Extent, Address, ElfFile
  <2> QED BY <2>1, <2>3
<1>9. file.entry \in DOMAIN ram
  BY <1>6, <1>8
<1>10. FreshAfterLoad'
  BY <1>1, <1>2, <1>7, <1>8, <1>9 DEF FreshAfterLoad
<1> QED BY <1>4, <1>5, <1>10 DEF MachineInv

(* The inductive step, one case per action.                                *)
LEMMA NextMachineInv == MachineInv /\ [Next]_vars => MachineInv'
<1> SUFFICES ASSUME MachineInv, [Next]_vars
             PROVE  MachineInv'
  OBVIOUS
<1>1. CASE GuestStep
  <2>1. UNCHANGED <<devices, loaded>> /\ event' = "step"
    BY <1>1 DEF GuestStep
  <2>2. DOMAIN ram' = DOMAIN ram
    BY <1>1 DEF GuestStep
  <2> QED BY <2>1, <2>2 DEF MachineInv, ImagesInRam, LoadedAccepted, FreshAfterLoad
<1>2. ASSUME NEW file \in Files, Load(file)
      PROVE  MachineInv'
  BY <1>2, LoadFresh, MachineAssumption
<1>3. ASSUME NEW file \in Files, LoadThrows(file)
      PROVE  MachineInv'
  <2>1. /\ DOMAIN ram' = DOMAIN ram /\ devices' = devices
        /\ loaded' = {} /\ event' = "rejected"
    BY <1>3 DEF LoadThrows, Cleared
  <2> QED BY <2>1 DEF MachineInv, ImagesInRam, LoadedAccepted, FreshAfterLoad
<1>4. CASE UNCHANGED vars
  BY <1>4 DEF vars, MachineInv, ImagesInRam, LoadedAccepted, FreshAfterLoad
<1> QED BY <1>1, <1>2, <1>3, <1>4 DEF Next

(* What a machine and its loads keep up: the bus is a registry whose only  *)
(* image-accepting device is RAM, and what is loaded was validated.        *)
THEOREM MachineInvHolds == Spec => []MachineInv
BY InitMachineInv, NextMachineInv, PTL DEF Spec

(* Machine::load makes the machine a function of the file alone: RAM holds *)
(* the segments and zeros, nothing has been sent, and the CPU starts in    *)
(* executable memory that exists.                                          *)
THEOREM FreshAfterLoadHolds == Spec => []FreshAfterLoad
<1>1. MachineInv => FreshAfterLoad
  BY DEF MachineInv
<1> QED BY <1>1, MachineInvHolds, PTL

(* The writes of load_elf cannot fault once its validation pass is over:   *)
(* each byte of each segment is at an address image memory answers at.     *)
THEOREM ValidatedWritesSucceedHolds == Spec => []ValidatedWritesSucceed
<1>1. MachineInv => ValidatedWritesSucceed
  <2> SUFFICES ASSUME Registry(devices), NEW file \in Files,
                      NEW s \in SortedSegments(file), accepted(devices, file, s),
                      NEW i \in DOMAIN s, NEW a \in Extent(s[i])
               PROVE  \E d \in find(devices, Wrap(a), 1) : d.accepts_image
    BY DEF MachineInv, ValidatedWritesSucceed
  <2>1. file \in ElfFile
    BY MachineAssumption
  <2>2. PICK k \in DOMAIN devices :
          devices[k].accepts_image /\ Extent(s[i]) \subseteq Owned(devices[k])
    BY <2>1, SegmentOwner
  <2>3. a \in Address
    BY <2>1, SegmentFacts DEF accepted
  <2>4. Wrap(a) = a /\ RangeOf(a, 1) = {a}
    BY <2>3, WrapExact DEF Address, RangeOf
  <2>5. find(devices, a, 1) = {devices[j] : j \in {m \in DOMAIN devices :
                                 RangeOf(a, 1) \subseteq Owned(devices[m])}}
    BY <2>3, FindOwners
  <2> QED BY <2>2, <2>4, <2>5
<1> QED BY <1>1, MachineInvHolds, PTL

(* parse compares each segment with the next one only, in arithmetic that  *)
(* wraps: still, two loaded segments share an address only when the first  *)
(* of them reaches the last address there is.                              *)
THEOREM OverlapOnlyAtTopHolds == Spec => []OverlapOnlyAtTop
<1>1. MachineInv => OverlapOnlyAtTop
  <2> SUFFICES ASSUME MachineInv, NEW l \in loaded,
                      NEW i \in DOMAIN l.segments, NEW j \in DOMAIN l.segments, i < j,
                      NEW a \in Extent(l.segments[i]) \cap Extent(l.segments[j]),
                      MaxAddress \notin Extent(l.segments[i])
               PROVE  FALSE
    BY DEF OverlapOnlyAtTop
  <2> DEFINE s == l.segments
             limit == load_address(s[i]) + s[i].memory_size
  <2>1. /\ l.file \in ElfFile /\ s \in SortedSegments(l.file)
        /\ accepted(devices, l.file, s)
    BY DEF MachineInv, LoadedAccepted
  <2>2. /\ s \in Seq(ProgramHeader) /\ i \in 1..Len(s) /\ j \in 1..Len(s)
        /\ \A m, n \in DOMAIN s : m < n => load_address(s[m]) <= load_address(s[n])
    BY <2>1, SortedFacts
  <2>3. \A m \in DOMAIN s :
          /\ load_address(s[m]) \in Address /\ s[m].memory_size \in Address
          /\ Extent(s[m]) \subseteq Address
    BY <2>1, SegmentFacts DEF accepted
  <2>4. a \in Address /\ load_address(s[j]) <= a /\ a < limit
    BY <2>3 DEF Extent, Address
  <2>5. limit \in Address
    BY <2>3, <2>4, AddressAssumption DEF Extent, Address
  <2>6. i + 1 \in 2..Len(s) /\ i + 1 \in DOMAIN s /\ (i + 1) - 1 = i
    BY <2>2
  <2>7. ~overlaps(s[i], s[i + 1])
    BY <2>1, <2>6 DEF accepted, placed
  <2>8. s[i].memory_size # 0
    BY <2>3 DEF Extent, Address
  <2>9. load_address(s[i + 1]) >= limit
    <3>1. Wrap(limit) = limit
      BY <2>5, WrapExact
    <3> QED BY <2>3, <2>5, <2>6, <2>7, <2>8, <3>1 DEF overlaps, Address
  <2>10. load_address(s[i + 1]) <= load_address(s[j])
    <3>1. i + 1 = j \/ i + 1 < j
      BY <2>2
    <3> QED BY <2>2, <2>3, <2>6, <3>1 DEF Address
  <2> QED BY <2>3, <2>4, <2>5, <2>6, <2>9, <2>10 DEF Address
<1> QED BY <1>1, MachineInvHolds, PTL

(* The bus the machine's constructor builds, whose RAM and UART a config   *)
(* places anywhere, is a correct registry: one owner per address, and find *)
(* and image_range_is_valid exact, for as long as the machine exists.      *)
THEOREM MachineBusCorrect == Spec => [](OneOwner /\ FindExact /\ ImageRangeExact)
<1>1. MachineInv => OneOwner /\ FindExact /\ ImageRangeExact
  BY RegistryExact DEF MachineInv
<1> QED BY <1>1, MachineInvHolds, PTL
=============================================================================
