----------------------------- MODULE MCFraming -----------------------------
(* Instances of Framing for TLC.                                           *)
EXTENDS FramingInvariant

Plain(n) == [size |-> n, dollars |-> {}]

(* An OperationMessage for a tuple of 36 elements, a TupleElemMessage with *)
(* the integer 36 and the like: one byte is 0x24, the code of '$'.         *)
AllMessages == {Plain(1), Plain(2), Plain(4), [size |-> 3, dollars |-> {3}]}
=============================================================================
