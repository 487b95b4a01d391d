-------------------------------- MODULE Sv39 --------------------------------
(***************************************************************************)
(* walk_sv39: the three-level page-table walk, as a function of RAM, the   *)
(* virtual address and the translation context                             *)
(*   [root_ppn, privilege, access, sum, mxr].                              *)
(* Its result is [kind |-> "Translation", ...] or [kind |-> "Fault", ...]. *)
(***************************************************************************)
EXTENDS PhysicalBus, Csr

VirtualAccess == {"InstructionFetch", "Load", "Store"}

kPteV == 0
kPteR == 1
kPteW == 2
kPteX == 3
kPteU == 4
kPteA == 6
kPteD == 7
kPpnMask == 0..43
kPteReservedHighMask == 54..63

is_sv39_canonical(va) == va \cap 38..63 \in {{}, 38..63}

(* The address of the entry for va in a level's table.  A table lies below *)
(* 2^56 and an index below 2^9, so the sum is a union and cannot overflow. *)
vpn(va, level) == Field(va, 12 + 9 * level, 9)
PteAddress(table, va, level) == table \cup Shl(vpn(va, level), 3)

Ppn(pte) == Shr(pte, 10) \cap kPpnMask
TableAt(ppn) == Shl(ppn \cap kPpnMask, 12)

access_is_permitted(pte, access, mxr) ==
  CASE access = "InstructionFetch" -> kPteX \in pte
    [] access = "Load" -> kPteR \in pte \/ (mxr /\ kPteX \in pte)
    [] access = "Store" -> kPteW \in pte

IsLeaf(pte) == pte \cap {kPteR, kPteX} # {}

(* What the walk makes of an entry that the bus delivered, in the order of *)
(* the checks: "Pointer" to the next level, "Leaf", or a fault reason.     *)
PointerVerdict(pte, level) ==
  IF pte \cap {kPteU, kPteA, kPteD} # {} THEN "ReservedNonLeafPte"
  ELSE IF level = 0 THEN "WalkExhausted"
  ELSE "Pointer"

(* The rights of a leaf that passed the privilege checks.                  *)
RightsVerdict(pte, ctx) ==
  IF ~access_is_permitted(pte, ctx.access, ctx.mxr) THEN "PermissionViolation"
  ELSE IF kPteA \notin pte THEN "AccessedBitClear"
  ELSE IF ctx.access = "Store" /\ kPteD \notin pte THEN "DirtyBitClear"
  ELSE "Leaf"

PrivilegeRejects_ignores_sum(pte, ctx) ==
  \/ ctx.privilege = User /\ kPteU \notin pte
  \/ ctx.privilege = Supervisor /\ kPteU \in pte /\ ctx.access = "InstructionFetch"
PrivilegeRejects_without_sum(pte, ctx) ==
  \/ ctx.privilege = User /\ kPteU \notin pte
  \/ ctx.privilege = Supervisor /\ kPteU \in pte
PrivilegeRejects_trusts_user(pte, ctx) ==
  /\ ctx.privilege = Supervisor /\ kPteU \in pte
  /\ ctx.access = "InstructionFetch" \/ ~ctx.sum
PrivilegeRejects(pte, ctx) ==
  \/ ctx.privilege = User /\ kPteU \notin pte
  \/ /\ ctx.privilege = Supervisor /\ kPteU \in pte
     /\ ctx.access = "InstructionFetch" \/ ~ctx.sum

LeafVerdict(pte, level, ctx) ==
  IF Ppn(pte) \cap 0..9*level-1 # {} THEN "MisalignedSuperpage"
  ELSE IF PrivilegeRejects(pte, ctx) THEN "PrivilegeViolation"
  ELSE RightsVerdict(pte, ctx)

PteVerdict_write_only(pte, level, ctx) ==
  IF pte \cap kPteReservedHighMask # {} THEN "ReservedPteBits"
  ELSE IF kPteV \notin pte THEN "InvalidPte"
  ELSE IF IsLeaf(pte) THEN LeafVerdict(pte, level, ctx)
  ELSE PointerVerdict(pte, level)

PteVerdict(pte, level, ctx) ==
  IF pte \cap kPteReservedHighMask # {} THEN "ReservedPteBits"
  ELSE IF kPteV \notin pte THEN "InvalidPte"
  ELSE IF kPteR \notin pte /\ kPteW \in pte THEN "ReservedWriteOnlyPte"
  ELSE IF IsLeaf(pte) THEN LeafVerdict(pte, level, ctx)
  ELSE PointerVerdict(pte, level)

(* The page offset of a leaf at this level, and the address it yields.     *)
OffsetMask(level) == 0..11+9*level
LeafAddress_small_offset(pte, va, level) ==
  Shl(Ppn(pte), 12) \cup (va \cap 0..11)
LeafAddress(pte, va, level) ==
  (Shl(Ppn(pte), 12) \ OffsetMask(level)) \cup (va \cap OffsetMask(level))

Fault(reason, level) == [kind |-> "Fault", reason |-> reason, level |-> level]

(* One iteration of the loop: "Pointer" carries the next table.            *)
Visit(ram, va, ctx, table, level) ==
  LET address == PteAddress(table, va, level)
      pte == BusRead(ram, address, 8)
      verdict == PteVerdict(pte, level, ctx)
  IN  IF ~BusAccepts(address, 8) THEN Fault("PageTableAccess", level)
      ELSE CASE verdict = "Pointer" ->
                  [kind |-> "Pointer", table |-> TableAt(Ppn(pte))]
             [] verdict = "Leaf" ->
                  [kind |-> "Translation", level |-> level, pte |-> pte,
                   physical |-> LeafAddress(pte, va, level)]
             [] OTHER -> Fault(verdict, level)

walk_sv39(ram, va, ctx) ==
  IF ~is_sv39_canonical(va) THEN Fault("NonCanonicalAddress", -1)
  ELSE IF ctx.privilege \notin {Supervisor, User} THEN Fault("PrivilegeViolation", -1)
  ELSE LET v2 == Visit(ram, va, ctx, TableAt(ctx.root_ppn), 2) IN
       IF v2.kind # "Pointer" THEN v2
       ELSE LET v1 == Visit(ram, va, ctx, v2.table, 1) IN
            IF v1.kind # "Pointer" THEN v1
            ELSE Visit(ram, va, ctx, v1.table, 0)

(***************************************************************************)
(* The frames user mode may use, stated without a walk: collect the tables *)
(* reachable from the root at each level, over all indices, and the leaves *)
(* in them that grant the rights.  This is the reference for confinement.  *)
(***************************************************************************)
EntriesOf(ram, table) ==
  {RamRead(ram, x[1], 8) : x \in {y \in ram : y[1] \ 0..11 = table}}

IsPointer(pte) == pte \cap 0..7 \in {{kPteV}, {kPteV, 5}}

NextTables(ram, tables) ==
  {TableAt(Ppn(pte)) :
     pte \in {p \in UNION {EntriesOf(ram, t) : t \in tables} : IsPointer(p)}}

TablesAt(ram, root_ppn, level) ==
  LET root == {TableAt(root_ppn)}
      middle == NextTables(ram, root)
  IN  CASE level = 2 -> root [] level = 1 -> middle
        [] level = 0 -> NextTables(ram, middle)

UserMay(rights, ram, root_ppn, pa) ==
  \E level \in 0..2 : \E table \in TablesAt(ram, root_ppn, level) :
    \E pte \in EntriesOf(ram, table) :
      /\ {kPteV, kPteU, kPteA} \cup rights \subseteq pte
      /\ pa \ OffsetMask(level) = Shl(Ppn(pte), 12)

StoreRights == {kPteR, kPteW, kPteD}
=============================================================================
