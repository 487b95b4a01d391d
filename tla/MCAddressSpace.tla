--------------------------- MODULE MCAddressSpace ---------------------------
(***************************************************************************)
(* A root and two further tables with one editable slot in each: every     *)
(* chain of up to three entries, self-referencing tables included.         *)
(***************************************************************************)
EXTENDS AddressSpace

Root == {31}              \* 0x8000_0000
Middle == {31, 12}        \* 0x8000_1000
Last == {31, 13}          \* 0x8000_2000

MCRootPpn == Shr(Root, 12)
MCPteSlots == {Root, Middle, Last \cup {3}}

(* Entries: a pointer to each table, leaves with all or some rights for    *)
(* user and supervisor, and the reserved encodings.                        *)
Entry(address, flags) == Shl(Shr(address, 12), 10) \cup flags
All == {kPteV, kPteR, kPteW, kPteX, kPteA, kPteD}
MCPteValues ==
  {{}, {63, kPteV}}
  \cup {Entry(t, {kPteV}) : t \in {Root, Middle, Last}}
  \cup {Entry({31, 30}, All), Entry({31, 30}, All \cup {kPteU}),
        Entry({31, 21}, (All \cup {kPteU}) \ {kPteX}),
        Entry({31, 14}, {kPteV, kPteX, kPteU, kPteA}),
        Entry({31, 14}, {kPteV, kPteW, kPteX, kPteU, kPteA, kPteD}),
        Entry({31, 14}, (All \cup {kPteU}) \ {kPteD}),
        Entry(Middle, {kPteV, kPteU})}

MCVirtualAddresses == {{}, {3, 12}, {12, 21}, {38}}
=============================================================================
