-------------------------- MODULE InstructionWords --------------------------
(***************************************************************************)
(* decode() against the encoding table, for a word and those near it.  A   *)
(* word starts as the encoding of an operation, with its operand bits all  *)
(* clear or all set, and changes one bit at a time: what memory holds is   *)
(* up to the guest.                                                        *)
(***************************************************************************)
EXTENDS Decode, Encoding

CONSTANT MaxFlips        \* bound on the bits changed

ASSUME MaxFlipsAssumption == MaxFlips \in Nat

VARIABLES raw, flips

Init ==
  /\ \E op \in DOMAIN Table :
       raw \in {Fixed(Table[op]),
                Fixed(Table[op]) \cup OperandBits(Table[op].format)}
  /\ flips = 0

Flip(b) ==
  /\ flips < MaxFlips
  /\ raw' = (raw \ {b}) \cup ({b} \ raw)
  /\ flips' = flips + 1

Next == \E b \in 0..31 : Flip(b)

Spec == Init /\ [][Next]_<<raw, flips>>

-----------------------------------------------------------------------------
(* decode accepts exactly the words the table has an operation for, and    *)
(* says that one: no reserved or unsupported encoding executes as its      *)
(* neighbour, and none of the advertised instructions is refused.          *)
OperationExact == {d.op : d \in decode(raw)} = Encodings(raw)

(* Nothing of an accepted word is lost or moved: the decoded operands put  *)
(* back by the table give the word again, and an immediate is the sign     *)
(* extension of its encoded bits.                                          *)
OperandsExact ==
  \A d \in decode(raw) :
    LET format == Table[d.op].format
        encoded == DOMAIN ImmediatePlace(format)
    IN /\ Encode(d) = raw \ Ignored(format)
       /\ d.imm \ encoded = UNION {(s + 1)..63 : s \in SignBit(format) \cap d.imm}
=============================================================================
