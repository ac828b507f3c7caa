----------------------------- MODULE MCServerDB -----------------------------
(* Instances of ServerDB for TLC.                                          *)
EXTENDS ServerDBRefinement, ServerDBInvariant

CONSTANTS t1, t2, t3

Threads2 == {t1, t2}
Threads3 == {t1, t2, t3}

Symmetry == Permutations(ServiceThreads)

IntElem(n) == [type |-> ELEM_INT, value |-> n]
IntPattern(op, n) == [type |-> ELEM_INT, value |-> n, op |-> op]

One == <<IntElem(1)>>
Two == <<IntElem(2)>>

AnyInt    == <<IntPattern("All", 0)>>
EqualsOne == <<IntPattern("Equal", 1)>>

OneTuple  == {One}
TwoTuples == {One, Two}
WithEmpty == {One, EmptyTuple}

OnlyOne         == {EqualsOne}
AnyPattern      == {AnyInt}
TwoPatterns     == {AnyInt, EqualsOne}
PatternsOrEmpty == {AnyInt, << >>}

AllCommands  == {"read", "input", "output", "exit"}
Mixed        == {"read", "input", "output"}
InputOutput  == {"input", "output"}
ReadOutput   == {"read", "output"}

=============================================================================
