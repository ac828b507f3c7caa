------------------------------ MODULE Channel ------------------------------
(***************************************************************************)
(* What one direction of a connection promises: the messages that the      *)
(* sender sends are delivered to the receiver whole, in order and once,    *)
(* except that fragile ones may be lost.                                   *)
(***************************************************************************)
EXTENDS Sequences, Naturals

CONSTANTS Messages, Fragile

VARIABLES
  transit,  \* sent and not delivered
  delivered \* the messages that the receiver has been given

Init == transit = << >> /\ delivered = << >>

Send ==
  /\ \E m \in Messages : transit' = Append(transit, m)
  /\ UNCHANGED delivered

Deliver ==
  \E k \in DOMAIN transit :
    /\ \A i \in 1..k - 1 : transit[i] \in Fragile
    /\ delivered' = Append(delivered, transit[k])
    /\ transit' = SubSeq(transit, k + 1, Len(transit))

Next == Send \/ Deliver

Spec == Init /\ [][Next]_<<transit, delivered>>

=============================================================================
