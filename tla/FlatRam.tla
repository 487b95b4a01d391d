------------------------------ MODULE FlatRam ------------------------------
(***************************************************************************)
(* What a RAM device promises: Size bytes, zero until written, that hold   *)
(* what was last written to them.  An access that does not fit is an error *)
(* and changes nothing.                                                    *)
(***************************************************************************)
EXTENDS Integers

CONSTANTS Size,    \* the bytes of the device
          Byte,    \* the values of a byte
          Width,   \* the access widths, in bytes
          MaxOffset  \* bound on the offsets tried

VARIABLES bytes,   \* the contents
          call     \* the last call and what it returned

Offset == 0..Size-1
Fits(offset, width) == offset + width <= Size

(* The bytes of a value of some width, least significant first.            *)
Bytes(width) == [0..width-1 -> Byte]
Did(op, offset, value) == [op |-> op, offset |-> offset, value |-> value]
Failed(offset, width) == [op |-> "error", offset |-> offset, width |-> width]
Cleared == [op |-> "clear"]

Init == bytes = [o \in Offset |-> 0] /\ call = Cleared

Read(offset, width) ==
  /\ Fits(offset, width)
  /\ call' = Did("read", offset, [i \in 0..width-1 |-> bytes[offset + i]])
  /\ UNCHANGED bytes

Write(offset, width, v) ==
  /\ Fits(offset, width)
  /\ bytes' = [o \in Offset |->
       IF o - offset \in 0..width-1 THEN v[o - offset] ELSE bytes[o]]
  /\ call' = Did("write", offset, v)

Reject(offset, width) ==
  ~Fits(offset, width) /\ call' = Failed(offset, width) /\ UNCHANGED bytes

Clear == bytes' = [o \in Offset |-> 0] /\ call' = Cleared

Next ==
  \/ \E offset \in 0..MaxOffset, width \in Width :
       \/ Read(offset, width)
       \/ Reject(offset, width)
       \/ \E v \in Bytes(width) : Write(offset, width, v)
  \/ Clear

Spec == Init /\ [][Next]_<<bytes, call>>
=============================================================================
