----------------------------- MODULE TupleMatch -----------------------------
(***************************************************************************)
(* Tuples, patterns and the comparisons between them: include/message.hpp, *)
(* include/tuple.hpp, src/tuple.cpp and the two comparison helpers of      *)
(* src/server_db.cpp.                                                      *)
(*                                                                         *)
(* TupleElem is std::variant<int, double, std::string>.  Here an element   *)
(* carries the index of its alternative and a value from a total order:    *)
(* the operators below compare values of one alternative only, so the rank *)
(* of a string or of a double among those in play is all they can see.     *)
(***************************************************************************)
EXTENDS Integers, Sequences

ELEM_INT    == 0
ELEM_FLOAT  == 1
ELEM_STRING == 2

ElemType == {ELEM_INT, ELEM_FLOAT, ELEM_STRING}

Operator == {"All", "Equal", "NotEqual", "GreaterThan", "LessThan",
             "NotGreaterThan", "NotLessThan"}

TupleElem == [type : ElemType, value : Int]

Pattern == [type : ElemType, value : Int, op : Operator]

(* The comparison a pattern's operator stands for, on two values of the    *)
(* same alternative.                                                       *)
Compare(op, elem, value) ==
  \/ op = "Equal"          /\ elem = value
  \/ op = "NotEqual"       /\ elem # value
  \/ op = "GreaterThan"    /\ elem > value
  \/ op = "LessThan"       /\ elem < value
  \/ op = "NotGreaterThan" /\ elem <= value
  \/ op = "NotLessThan"    /\ elem >= value

matches(pattern, elem) ==
  /\ pattern.type = elem.type
  /\ \/ pattern.op = "All"
     \/ Compare(pattern.op, elem.value, pattern.value)

isPatternEqualToTuple(pattern, tuple) ==
  /\ Len(pattern) = Len(tuple)
  /\ \A i \in DOMAIN pattern : matches(pattern[i], tuple[i])

(* compareTupleElems<T> for each T in turn: some alternative of the left   *)
(* element meets the other alternative, or another value of the same one.  *)
isTupleAlreadyInDatabase(left, right) ==
  \A i \in DOMAIN left : /\ left[i].type = right[i].type
                         /\ left[i].value = right[i].value
=============================================================================
