---------------------------- MODULE AddressSpace ----------------------------
(***************************************************************************)
(* What a page table in RAM lets each privilege do, while software edits   *)
(* its entries one 8-byte store at a time.  There is no TLB: every walk    *)
(* reads the entries as they are.                                          *)
(***************************************************************************)
EXTENDS Sv39

CONSTANTS RootPpn,           \* satp.PPN
          PteSlots,          \* the table slots that software edits
          PteValues,         \* the entries it stores
          VirtualAddresses   \* the addresses whose translation is examined

ASSUME AddressSpaceAssumption ==
  /\ RootPpn \subseteq kPpnMask
  /\ PteSlots \subseteq RamSlot
  /\ PteValues \subseteq Word
  /\ VirtualAddresses \subseteq Word

VARIABLE ram

Init == ram = {}

(* Bus::write of an entry.                                                 *)
StorePte(slot, pte) == ram' = BusWriteRam(ram, slot, 8, pte)

(* SparseRam::clear, from Machine::load.                                   *)
Clear == ram' = {}

Next ==
  \/ \E slot \in PteSlots, pte \in PteValues : StorePte(slot, pte)
  \/ Clear

Spec == Init /\ [][Next]_ram

-----------------------------------------------------------------------------
Context(privilege, access, sum, mxr) ==
  [root_ppn |-> RootPpn, privilege |-> privilege, access |-> access,
   sum |-> sum, mxr |-> mxr]

Walk(va, privilege, access, sum, mxr) ==
  walk_sv39(ram, va, Context(privilege, access, sum, mxr))

Allowed(va, privilege, access, sum, mxr) ==
  Walk(va, privilege, access, sum, mxr).kind = "Translation"

TypeOK == ram \in Ram

(* User and supervisor pages never mix: with SUM clear nothing that user   *)
(* mode can load or store is accessible to supervisor mode, and whatever   *)
(* SUM is, nothing that user mode can execute is executable in supervisor  *)
(* mode (sv39.cpp:114-125).                                                *)
UserSupervisorDisjoint ==
  \A va \in VirtualAddresses, mxr \in BOOLEAN :
    /\ \A u, s \in VirtualAccess :
         Allowed(va, User, u, FALSE, mxr) => ~Allowed(va, Supervisor, s, FALSE, mxr)
    /\ \A sum \in BOOLEAN :
         Allowed(va, User, "InstructionFetch", sum, mxr)
           => ~Allowed(va, Supervisor, "InstructionFetch", sum, mxr)

(* With SUM set, supervisor mode can do to a user page exactly the loads   *)
(* and stores user mode can do, at the same physical address: no fewer,    *)
(* and on an entry marked U no more (sv39.cpp:114-125).                    *)
SumGivesUserRights ==
  \A va \in VirtualAddresses, mxr \in BOOLEAN, access \in {"Load", "Store"} :
    LET user == Walk(va, User, access, TRUE, mxr)
        supervisor == Walk(va, Supervisor, access, TRUE, mxr)
    IN  /\ user.kind = "Translation" => user = supervisor
        /\ supervisor.kind = "Translation" /\ kPteU \in supervisor.pte
             => user = supervisor

(* Rights are ordered: what can be stored to can be loaded from, and with  *)
(* MXR what can be executed can be loaded, at the same physical address,   *)
(* for user mode (sv39.cpp:30-40 with the reserved W-without-R encoding).  *)
RightsOrdered ==
  \A va \in VirtualAddresses :
    LET store == Walk(va, User, "Store", FALSE, FALSE)
        fetch == Walk(va, User, "InstructionFetch", FALSE, TRUE)
    IN  /\ store.kind = "Translation" => store = Walk(va, User, "Load", FALSE, FALSE)
        /\ fetch.kind = "Translation" => fetch = Walk(va, User, "Load", FALSE, TRUE)

(* A translation maps whole pages: changing a bit of the virtual address   *)
(* below the leaf's page size changes just that bit of the physical one    *)
(* (sv39.cpp:139-142).                                                     *)
Flip(w, b) == IF b \in w THEN w \ {b} ELSE w \cup {b}

WholePages ==
  \A va \in VirtualAddresses, p \in {User, Supervisor}, access \in VirtualAccess :
    LET walk == Walk(va, p, access, TRUE, FALSE)
    IN  walk.kind = "Translation" =>
          \A b \in {3, 11, 12, 20, 21, 29} \cap OffsetMask(walk.level) :
            Walk(Flip(va, b), p, access, TRUE, FALSE)
              = [walk EXCEPT !.physical = Flip(@, b)]

(* A store in user mode reaches only a frame that some reachable entry     *)
(* marks valid, user, writable, accessed and dirty (ADR 0007, sv39.cpp).   *)
UserStoresStayInUserFrames ==
  \A va \in VirtualAddresses :
    LET walk == Walk(va, User, "Store", FALSE, FALSE)
    IN  walk.kind = "Translation" => UserMay(StoreRights, ram, RootPpn, walk.physical)
=============================================================================
