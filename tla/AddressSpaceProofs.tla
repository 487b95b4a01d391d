------------------------- MODULE AddressSpaceProofs -------------------------
(***************************************************************************)
(* What the page tables let each privilege do, for every content of RAM    *)
(* that stores of entries can produce, every root and every virtual        *)
(* address.                                                                *)
(***************************************************************************)
EXTENDS AddressSpace, HartLemmas

(* RAM stays a set of bits in RAM slots, whatever entries are stored       *)
(* (memory.cpp Bus::write, SparseRam::clear).                              *)
THEOREM AddressSpaceTyping == Spec => []TypeOK
<1>1. Init => TypeOK
  BY DEF Init, TypeOK, Ram
<1>2. TypeOK /\ [Next]_ram => TypeOK'
  <2> SUFFICES ASSUME TypeOK, [Next]_ram
               PROVE  TypeOK'
    OBVIOUS
  <2>1. ASSUME NEW slot \in PteSlots, NEW pte \in PteValues, StorePte(slot, pte)
        PROVE  TypeOK'
    <3>1. slot \in Word /\ InRam(slot) /\ NaturallyAligned(slot, 8) /\ pte \in Word
      BY AddressSpaceAssumption DEF RamSlot, NaturallyAligned
    <3>2. RamWrite(ram, slot, 8, pte) \in Ram
      BY <3>1, RamWriteFacts DEF TypeOK, AccessWidth
    <3> QED BY <2>1, <3>1, <3>2 DEF StorePte, BusWriteRam, TypeOK
  <2>2. CASE Clear
    BY <2>2 DEF Clear, TypeOK, Ram
  <2>3. CASE UNCHANGED ram
    BY <2>3 DEF TypeOK
  <2> QED BY <2>1, <2>2, <2>3 DEF Next
<1> QED BY <1>1, <1>2, PTL DEF Spec

(* Two walks of one address by different accesses: the second finds the    *)
(* leaf of the first or faults at it.                                      *)
LEMMA SecondWalk ==
  ASSUME NEW va \in VirtualAddresses,
         NEW p, NEW a, NEW s, NEW m, Allowed(va, p, a, s, m),
         NEW q \in {User, Supervisor}, NEW b, NEW t, NEW n
  PROVE  LET w == Walk(va, p, a, s, m)
             u == Walk(va, q, b, t, n)
         IN  /\ w.kind = "Translation"
             /\ PteVerdict(w.pte, w.level, Context(p, a, s, m)) = "Leaf"
             /\ PteVerdict(w.pte, w.level, Context(q, b, t, n)) = "Leaf" => u = w
             /\ PteVerdict(w.pte, w.level, Context(q, b, t, n)) # "Leaf" => u.kind = "Fault"
<1>1. va \in Word
  BY AddressSpaceAssumption
<1>2. /\ Context(p, a, s, m).root_ppn = Context(q, b, t, n).root_ppn
      /\ Context(q, b, t, n).privilege = q
  BY DEF Context
<1>3. Walk(va, p, a, s, m).kind = "Translation"
  BY DEF Allowed
<1>4. \A reason, level : Fault(reason, level).kind = "Fault"
  BY DEF Fault
<1> QED BY <1>1, <1>2, <1>3, <1>4, WalkSame DEF Walk

(* No page is both the user's and the supervisor's: with SUM clear user    *)
(* and supervisor mode share no access to an address, and never execute    *)
(* from the same one (sv39.cpp, the privilege checks of a leaf).           *)
THEOREM UserSupervisorDisjointHolds == Spec => []UserSupervisorDisjoint
<1>1. UserSupervisorDisjoint
  <2>1. ASSUME NEW va \in VirtualAddresses, NEW mxr \in BOOLEAN, NEW sum \in BOOLEAN,
               NEW u \in VirtualAccess, NEW s \in VirtualAccess,
               sum = FALSE \/ s = "InstructionFetch",
               Allowed(va, User, u, sum, mxr), Allowed(va, Supervisor, s, sum, mxr)
        PROVE  FALSE
    <3> DEFINE w == Walk(va, User, u, sum, mxr)
    <3>1. /\ PteVerdict(w.pte, w.level, Context(User, u, sum, mxr)) = "Leaf"
          /\ PteVerdict(w.pte, w.level, Context(Supervisor, s, sum, mxr)) = "Leaf"
      BY <2>1, SecondWalk DEF Allowed
    <3> HIDE DEF w
    <3>2. kPteU \in w.pte
      BY <3>1, LeafPte DEF PrivilegeRejects, Context
    <3>3. ~PrivilegeRejects(w.pte, Context(Supervisor, s, sum, mxr))
      BY <3>1, LeafPte
    <3> QED BY <2>1, <3>2, <3>3 DEF PrivilegeRejects, Context
  <2> QED BY <2>1 DEF UserSupervisorDisjoint, VirtualAccess
<1> QED BY <1>1, PTL

(* With SUM set, supervisor mode loads and stores on user pages exactly as *)
(* user mode does, no less and no more, and at the same physical addresses *)
(* (sv39.cpp, the privilege checks of a leaf).                             *)
THEOREM SumGivesUserRightsHolds == Spec => []SumGivesUserRights
<1>1. ASSUME NEW va \in VirtualAddresses, NEW mxr \in BOOLEAN, NEW sum \in BOOLEAN, sum,
             NEW access \in {"Load", "Store"},
             NEW p \in {User, Supervisor}, NEW q \in {User, Supervisor},
             Allowed(va, p, access, sum, mxr),
             p = User \/ kPteU \in Walk(va, p, access, sum, mxr).pte
      PROVE  Walk(va, q, access, sum, mxr) = Walk(va, p, access, sum, mxr)
  <2> DEFINE w == Walk(va, p, access, sum, mxr)
             c == Context(p, access, sum, mxr)
             d == Context(q, access, sum, mxr)
  <2>1. /\ PteVerdict(w.pte, w.level, c) = "Leaf"
        /\ PteVerdict(w.pte, w.level, d) = "Leaf"
             => Walk(va, q, access, sum, mxr) = w
    <3>1. Allowed(va, p, access, sum, mxr)
      BY <1>1
    <3> QED BY <3>1, SecondWalk
  <2>2. /\ c.access = d.access /\ c.mxr = d.mxr /\ c.privilege = p
        /\ d.privilege = q /\ d.sum = sum /\ d.access # "InstructionFetch"
    BY DEF Context
  <2>3. p = User \/ kPteU \in w.pte
    BY <1>1
  <2>4. PteVerdict(w.pte, w.level, d) = "Leaf"
    <3> HIDE DEF w, c, d
    <3>1. kPteU \in w.pte
      BY <2>1, <2>2, <2>3, LeafPte DEF PrivilegeRejects
    <3>2. ~PrivilegeRejects(w.pte, d)
      BY <1>1, <2>2, <3>1 DEF PrivilegeRejects, User, Supervisor
    <3> QED BY <2>1, <2>2, <3>2, LeafPte
  <2> QED BY <2>1, <2>4
<1>2. SumGivesUserRights
  BY <1>1 DEF SumGivesUserRights, Allowed
<1> QED BY <1>2, PTL

(* For user mode a page that can be stored to can be loaded from, and with *)
(* MXR one that can be executed, both at the same physical address         *)
(* (sv39.cpp access_is_permitted and the reserved encoding W without R).   *)
THEOREM RightsOrderedHolds == Spec => []RightsOrdered
<1>1. ASSUME NEW va \in VirtualAddresses, NEW access \in {"Store", "InstructionFetch"},
             NEW sum \in BOOLEAN, NEW mxr \in BOOLEAN, mxr \/ access = "Store",
             Allowed(va, User, access, sum, mxr)
      PROVE  Walk(va, User, access, sum, mxr) = Walk(va, User, "Load", sum, mxr)
  <2> DEFINE w == Walk(va, User, access, sum, mxr)
             c == Context(User, access, sum, mxr)
             d == Context(User, "Load", sum, mxr)
  <2>1. /\ PteVerdict(w.pte, w.level, c) = "Leaf"
        /\ PteVerdict(w.pte, w.level, d) = "Leaf"
             => Walk(va, User, "Load", sum, mxr) = w
    BY <1>1, SecondWalk
  <2>2. /\ c.privilege = User /\ d.privilege = User
        /\ c.access = access /\ d.access = "Load" /\ c.mxr = mxr /\ d.mxr = mxr
    BY DEF Context
  <2>3. PteVerdict(w.pte, w.level, d) = "Leaf"
    <3> HIDE DEF w, c, d
    <3>1. ~PrivilegeRejects(w.pte, d)
      BY <2>1, <2>2, LeafPte DEF PrivilegeRejects, User, Supervisor
    <3>2. /\ access_is_permitted(w.pte, access, mxr)
          /\ kPteR \in w.pte \/ (kPteX \in w.pte /\ kPteW \notin w.pte)
      BY <2>1, <2>2, LeafPte
    <3>3. access_is_permitted(w.pte, "Load", mxr)
      BY <1>1, <3>2 DEF access_is_permitted, kPteR, kPteW, kPteX
    <3> QED BY <2>1, <2>2, <3>1, <3>3, LeafPte
  <2> QED BY <2>1, <2>3
<1>2. RightsOrdered
  BY <1>1 DEF RightsOrdered, Allowed
<1> QED BY <1>2, PTL

-----------------------------------------------------------------------------
(* A store in user mode reaches a frame only through an entry, in a table  *)
(* reachable from the root, that is valid, user, readable, writable,       *)
(* accessed and dirty (walk_sv39 against the reference UserMay).           *)
THEOREM UserStoresConfined == Spec => []UserStoresStayInUserFrames
<1>1. UserStoresStayInUserFrames
  <2> SUFFICES ASSUME NEW va \in VirtualAddresses,
                      Allowed(va, User, "Store", FALSE, FALSE)
               PROVE  UserMay(StoreRights, ram, RootPpn,
                              Walk(va, User, "Store", FALSE, FALSE).physical)
    BY DEF UserStoresStayInUserFrames, Allowed
  <2> DEFINE c == Context(User, "Store", FALSE, FALSE)
             w == Walk(va, User, "Store", FALSE, FALSE)
  <2>1. /\ w.level \in 0..2
        /\ \E table \in TablesAt(ram, c.root_ppn, w.level) :
             w.pte \in EntriesOf(ram, table)
        /\ PteVerdict(w.pte, w.level, c) = "Leaf"
        /\ w.physical \ OffsetMask(w.level) = Shl(Ppn(w.pte), 12)
    BY AddressSpaceAssumption, WalkGrants DEF Allowed, Walk
  <2>2. c.root_ppn = RootPpn /\ c.access = "Store" /\ c.privilege = User /\ ~c.mxr
    BY DEF Context
  <2>3. {kPteV, kPteU, kPteA} \cup StoreRights \subseteq w.pte
    <3> HIDE DEF w, c
    <3>1. /\ access_is_permitted(w.pte, "Store", c.mxr) /\ ~PrivilegeRejects(w.pte, c)
          /\ kPteV \in w.pte /\ kPteA \in w.pte /\ kPteD \in w.pte
          /\ kPteR \in w.pte \/ kPteW \notin w.pte
      BY <2>1, <2>2, LeafPte
    <3>2. kPteW \in w.pte
      BY <3>1 DEF access_is_permitted
    <3>3. kPteU \in w.pte
      BY <2>2, <3>1 DEF PrivilegeRejects
    <3> QED BY <3>1, <3>2, <3>3 DEF StoreRights
  <2> HIDE DEF w, c
  <2>4. UserMay(StoreRights, ram, RootPpn, w.physical)
    BY <2>1, <2>2, <2>3 DEF UserMay
  <2> QED BY <2>4 DEF w
<1> QED BY <1>1, PTL

-----------------------------------------------------------------------------
(* Flipping a bit below a level's page size.                               *)
LEMMA FlipFacts ==
  ASSUME NEW va \in Word, NEW level \in 0..2, NEW b \in OffsetMask(level)
  PROVE  /\ Flip(va, b) \in Word
         /\ is_sv39_canonical(Flip(va, b)) <=> is_sv39_canonical(va)
         /\ \A table : PteAddress(table, Flip(va, b), level) = PteAddress(table, va, level)
         /\ \A pte : LeafAddress(pte, Flip(va, b), level)
                       = Flip(LeafAddress(pte, va, level), b)
<1>1. b \in 0..29 /\ b < 12 + 9 * level
  BY DEF OffsetMask
<1>2. Flip(va, b) \in Word
  BY <1>1 DEF Flip, Word, Bits
<1>3. Flip(va, b) \cap 38..63 = va \cap 38..63
  BY <1>1 DEF Flip
<1>4. vpn(Flip(va, b), level) = vpn(va, level)
  <2>1. \A k \in 0..8 : k + (12 + 9 * level) \in Flip(va, b) <=> k + (12 + 9 * level) \in va
    BY <1>1 DEF Flip
  <2> QED BY <2>1 DEF vpn, Field
<1>5. \A pte : LeafAddress(pte, Flip(va, b), level) = Flip(LeafAddress(pte, va, level), b)
  BY DEF LeafAddress, Flip
<1> QED BY <1>2, <1>3, <1>4, <1>5 DEF is_sv39_canonical, PteAddress

(* A level visited for the flipped address.                                *)
LEMMA VisitFlip ==
  ASSUME NEW va \in Word, NEW ctx, NEW table, NEW level \in 0..2,
         NEW b \in OffsetMask(level)
  PROVE  LET v == Visit(ram, va, ctx, table, level)
             u == Visit(ram, Flip(va, b), ctx, table, level)
         IN  /\ v.kind = "Pointer" => u = v
             /\ v.kind = "Translation" => u = [v EXCEPT !.physical = Flip(@, b)]
<1> DEFINE v == Visit(ram, va, ctx, table, level)
           u == Visit(ram, Flip(va, b), ctx, table, level)
           address == PteAddress(table, va, level)
           pte == BusRead(ram, address, 8)
<1>1. /\ PteAddress(table, Flip(va, b), level) = address
      /\ LeafAddress(pte, Flip(va, b), level) = Flip(LeafAddress(pte, va, level), b)
  BY FlipFacts
<1>2. ASSUME v.kind = "Pointer" PROVE u = v
  <2>1. /\ BusAccepts(address, 8) /\ PteVerdict(pte, level, ctx) = "Pointer"
        /\ v = [kind |-> "Pointer", table |-> TableAt(Ppn(pte))]
    BY <1>2, VisitFacts
  <2> QED BY <1>1, <2>1 DEF Visit
<1>3. ASSUME v.kind = "Translation" PROVE u = [v EXCEPT !.physical = Flip(@, b)]
  <2>1. /\ BusAccepts(address, 8) /\ PteVerdict(pte, level, ctx) = "Leaf"
        /\ v = [kind |-> "Translation", level |-> level, pte |-> pte,
                physical |-> LeafAddress(pte, va, level)]
    BY <1>3, VisitFacts
  <2>2. u = [kind |-> "Translation", level |-> level, pte |-> pte,
             physical |-> Flip(LeafAddress(pte, va, level), b)]
    BY <1>1, <2>1 DEF Visit
  <2> QED BY <2>1, <2>2
<1> QED BY <1>2, <1>3

(* A translation maps a whole page, of 4 KiB, 2 MiB or 1 GiB: below the    *)
(* page size of its leaf, a bit of the virtual address is a bit of the     *)
(* physical one and nothing else depends on it (walk_sv39's offset mask).  *)
THEOREM WholePagesHolds == Spec => []WholePages
<1>1. ASSUME NEW va \in Word, NEW ctx, walk_sv39(ram, va, ctx).kind = "Translation",
             NEW b \in OffsetMask(walk_sv39(ram, va, ctx).level)
      PROVE  walk_sv39(ram, Flip(va, b), ctx)
               = [walk_sv39(ram, va, ctx) EXCEPT !.physical = Flip(@, b)]
  <2> DEFINE w == walk_sv39(ram, va, ctx)
             f == Flip(va, b)
             root == TableAt(ctx.root_ppn)
             v2 == Visit(ram, va, ctx, root, 2)
             v1 == Visit(ram, va, ctx, v2.table, 1)
             v0 == Visit(ram, va, ctx, v1.table, 0)
             u2 == Visit(ram, f, ctx, root, 2)
             u1 == Visit(ram, f, ctx, u2.table, 1)
             u0 == Visit(ram, f, ctx, u1.table, 0)
  <2>1. /\ w.level \in 0..2 /\ ctx.privilege \in {User, Supervisor}
        /\ is_sv39_canonical(va) /\ is_sv39_canonical(f)
    BY <1>1, WalkFacts, FlipFacts
  <2>2. w = IF v2.kind # "Pointer" THEN v2 ELSE IF v1.kind # "Pointer" THEN v1 ELSE v0
    BY <2>1 DEF walk_sv39
  <2>3. walk_sv39(ram, f, ctx)
          = IF u2.kind # "Pointer" THEN u2 ELSE IF u1.kind # "Pointer" THEN u1 ELSE u0
    BY <2>1 DEF walk_sv39
  <2>4. \A t, l : l \in 0..2 /\ w.level <= l =>
          LET v == Visit(ram, va, ctx, t, l)
              u == Visit(ram, f, ctx, t, l)
          IN  /\ v.kind = "Pointer" => u = v
              /\ v.kind = "Translation" =>
                   u = [v EXCEPT !.physical = Flip(@, b)] /\ u.kind = "Translation"
    <3> SUFFICES ASSUME NEW t, NEW l \in 0..2, w.level <= l
                 PROVE  LET v == Visit(ram, va, ctx, t, l)
                            u == Visit(ram, f, ctx, t, l)
                        IN  /\ v.kind = "Pointer" => u = v
                            /\ v.kind = "Translation" =>
                                 /\ u = [v EXCEPT !.physical = Flip(@, b)]
                                 /\ u.kind = "Translation"
      OBVIOUS
    <3>1. b \in OffsetMask(l)
      BY <1>1, <2>1 DEF OffsetMask
    <3> DEFINE v == Visit(ram, va, ctx, t, l)
               u == Visit(ram, Flip(va, b), ctx, t, l)
    <3>2. /\ v.kind = "Pointer" => u = v
          /\ v.kind = "Translation" => u = [v EXCEPT !.physical = Flip(@, b)]
      BY <3>1, VisitFlip
    <3>3. v.kind = "Translation" =>
            v = [kind |-> "Translation", level |-> l,
                 pte |-> BusRead(ram, PteAddress(t, va, l), 8),
                 physical |-> LeafAddress(BusRead(ram, PteAddress(t, va, l), 8), va, l)]
      BY VisitFacts
    <3> HIDE DEF v, u
    <3>4. v.kind = "Translation" => u.kind = "Translation"
      BY <3>2, <3>3
    <3> QED BY <3>2, <3>4 DEF v, u
  <2>5. \A t, l : LET v == Visit(ram, va, ctx, t, l)
                  IN v.kind = "Translation" => v.level = l
    BY VisitFacts
  <2> HIDE DEF w, f, root
  <2>6. CASE v2.kind # "Pointer"
    <3>1. w = v2 /\ w.level = 2 /\ v2.kind = "Translation"
      BY <1>1, <2>2, <2>5, <2>6 DEF w
    <3> QED BY <2>3, <2>4, <3>1 DEF w, f
  <2>7. CASE v2.kind = "Pointer" /\ v1.kind # "Pointer"
    <3>1. w = v1 /\ w.level = 1 /\ v1.kind = "Translation"
      BY <1>1, <2>2, <2>5, <2>7 DEF w
    <3>2. u2 = v2
      BY <2>4, <2>7, <3>1
    <3> QED BY <2>3, <2>4, <2>7, <3>1, <3>2 DEF w, f
  <2>8. CASE v2.kind = "Pointer" /\ v1.kind = "Pointer"
    <3>1. w = v0 /\ v0.kind = "Translation"
      BY <1>1, <2>2, <2>8 DEF w
    <3>2. w.level = 0
      BY <2>5, <3>1
    <3>3. u2 = v2
      BY <2>4, <2>8, <3>2
    <3>4. u1 = v1
      BY <2>4, <2>8, <3>2, <3>3
    <3> QED BY <2>3, <2>4, <2>8, <3>1, <3>2, <3>3, <3>4 DEF w, f
  <2> QED BY <2>6, <2>7, <2>8
<1>2. ASSUME NEW va \in VirtualAddresses, NEW ctx,
             walk_sv39(ram, va, ctx).kind = "Translation"
      PROVE  \A b \in {3, 11, 12, 20, 21, 29} \cap OffsetMask(walk_sv39(ram, va, ctx).level) :
               walk_sv39(ram, Flip(va, b), ctx)
                 = [walk_sv39(ram, va, ctx) EXCEPT !.physical = Flip(@, b)]
  BY <1>1, <1>2, AddressSpaceAssumption
<1>3. WholePages
  BY <1>2, Zenon DEF WholePages, Walk
<1> QED BY <1>3, PTL
=============================================================================
