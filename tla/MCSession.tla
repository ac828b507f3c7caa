----------------------------- MODULE MCSession -----------------------------
(* Instances of Session for TLC.                                           *)
EXTENDS SessionInvariant, TLC

CONSTANTS c1, c2

Clients2 == {c1, c2}

Symmetry == Permutations(Clients)

Elem(n)         == [type |-> ELEM_INT, value |-> n]
IntPat(op, n)   == [type |-> ELEM_INT, value |-> n, op |-> op]

Small == <<Elem(1)>>
Pair  == <<Elem(1), Elem(2)>>

AnySmall == <<IntPat("All", 0)>>
AnyPair  == <<IntPat("All", 0), IntPat("Equal", 2)>>

Odd   == <<Elem(3), Elem(1)>>
Sound == <<Elem(1), Elem(4)>>

AnySound == <<IntPat("All", 0), IntPat("All", 0)>>

BothTuples   == {Small, Pair}
BothPatterns == {AnySmall, AnyPair}
AllTuples    == {Small, Sound, Pair, Odd}
AllPatterns  == {AnySmall, AnySound, AnyPair}
AllCommands == {"read", "input", "output", "exit"}

(* Every element arrives.                                                  *)
Whole(e) == <<ElemMessage(e)>>

(* The element 2 and the pattern "==2" contain the terminator, and neither *)
(* half deserializes, as for the integer 36 (bytes 24 00 00 00).  Of the   *)
(* element 3 the second half is itself a message, as for the integer 32804 *)
(* (bytes 24 80 00 00): 0x80 is TYPE_CONNECTION_MSG and 0x00 its "false".  *)
(* It takes another element behind it to make the thread read that half.   *)
Damaged(e) ==
  IF e.value = 2 THEN <<Garbage, Garbage>>
  ELSE IF e.value = 3 THEN <<Garbage, ConnectionMessage(FALSE)>>
  ELSE Whole(e)

(* The proofs about Session need this of the elements that are cut.        *)
ASSUME PiecesAssumption == PiecesAreNoElements
=============================================================================
