------------------------------- MODULE Words -------------------------------
(***************************************************************************)
(* 64-bit words (std::uint64_t, Address, RegisterValue) as sets of bit     *)
(* positions.  `x & m` is intersection, `x | y` union and `x & ~m` set     *)
(* difference, so the masks of the C++ sources carry over literally, at    *)
(* their real width: 0x80000000 is {31}, and 0 is {}.                      *)
(***************************************************************************)
EXTENDS Integers

Bits == 0..63
Word == SUBSET Bits

(* `w << n` and `w >> n`: bits leaving the word are lost, zeros enter.     *)
Shl(w, n) == {b \in Bits : b - n \in w}
Shr(w, n) == {b \in Bits : b + n \in w}

(* ~w *)
Complement(w) == Bits \ w

(* (w >> b) & 1 *)
Bit(w, b) == IF b \in w THEN 1 ELSE 0

(* `(w >> low) & ((1 << n) - 1)`: the n-bit field that starts at bit low.  *)
Field(w, low, n) == {b \in 0..n-1 : b + low \in w}

(* w + 2^k, modulo 2^64: a bit flips when every bit from k up to it is set.*)
Increment(w, k) ==
  {b \in Bits : (b \in w) # (b >= k /\ \A c \in k..b-1 : c \in w)}

(* v + w, modulo 2^64, by carry look-ahead: a carry reaches bit b when a   *)
(* lower position generates it and all those between propagate it.         *)
CarryInto(v, w, b) ==
  \E g \in v \cap w : g < b /\ \A p \in g+1..b-1 : p \in v \cup w
Add(v, w) == {b \in Bits : ((b \in v) # (b \in w)) # CarryInto(v, w, b)}

(* Unsigned v < w: the topmost bit in which they differ belongs to w.      *)
Below(v, w) ==
  \E b \in w \ v : \A c \in b+1..63 : (c \in v) <=> (c \in w)

(* mask_for_width and sign_extend of types.hpp, width in bytes.            *)
WidthMask(width) == 0..8*width-1
SignExtend(w, bits) ==
  (w \cap 0..bits-1) \cup (IF bits - 1 \in w THEN bits..63 ELSE {})

(* A number below 256 as a word, e.g. a trap cause or a privilege level,   *)
(* and the number a field of at most seven bits holds.                     *)
Weight == <<1, 2, 4, 8, 16, 32, 64, 128>>
NatWord(n) == {b \in 0..7 : (n \div Weight[b + 1]) % 2 = 1}
Value(w) ==
  Bit(w, 0) + 2 * Bit(w, 1) + 4 * Bit(w, 2) + 8 * Bit(w, 3) + 16 * Bit(w, 4)
    + 32 * Bit(w, 5) + 64 * Bit(w, 6)

(* kInstructionBytes is 4: `address % 4 == 0`, and `address & ~3`.         *)
IsAligned4(w) == w \cap {0, 1} = {}
AlignDown4(w) == w \ {0, 1}

(* `address % width == 0` for the access widths 1, 2, 4 and 8.             *)
NaturallyAligned(w, width) ==
  w \cap (CASE width = 1 -> {} [] width = 2 -> {0}
            [] width = 4 -> {0, 1} [] width = 8 -> {0, 1, 2}) = {}
=============================================================================
