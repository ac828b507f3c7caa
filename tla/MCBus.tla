-------------------------------- MODULE MCBus --------------------------------
(* Instances of Bus for TLC.                                               *)
EXTENDS Bus, TLC

CONSTANTS c1, c2, c3

Clients2 == {c1, c2}
Clients3 == {c1, c2, c3}

Symmetry == Permutations(Clients)

NoFaults      == {}
=============================================================================
