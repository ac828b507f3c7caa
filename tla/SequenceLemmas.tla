--------------------------- MODULE SequenceLemmas ---------------------------
(***************************************************************************)
(* What the proofs need of the operators on sequences that the models use: *)
(* RemoveAt (std::vector::erase), Contains, SelectInSeq (std::find_if).    *)
(***************************************************************************)
EXTENDS SequencesExt, Integers, SequenceTheorems, WellFoundedInduction, TLAPS

(* std::vector::erase of one element: what is left, and in which order.    *)
LEMMA RemoveAtProperties ==
  ASSUME NEW S, NEW s \in Seq(S), NEW i \in 1..Len(s)
  PROVE  /\ RemoveAt(s, i) \in Seq(S)
         /\ Len(RemoveAt(s, i)) = Len(s) - 1
         /\ \A j \in 1..(Len(s) - 1) :
              RemoveAt(s, i)[j] = IF j < i THEN s[j] ELSE s[j + 1]
<1> DEFINE left  == SubSeq(s, 1, i - 1)
           right == SubSeq(s, i + 1, Len(s))
<1>1. /\ left \in Seq(S) /\ Len(left) = i - 1
      /\ \A j \in 1..(i - 1) : left[j] = s[j]
  BY SubSeqProperties, LenProperties
<1>2. /\ right \in Seq(S) /\ Len(right) = Len(s) - i
      /\ \A j \in 1..(Len(s) - i) : right[j] = s[j + i]
  BY SubSeqProperties, LenProperties
<1>3. RemoveAt(s, i) = left \o right
  BY DEF RemoveAt
<1> HIDE DEF left, right
<1>4. /\ left \o right \in Seq(S)
      /\ Len(left \o right) = Len(left) + Len(right)
      /\ \A j \in 1..(Len(left) + Len(right)) : (left \o right)[j] =
                     IF j <= Len(left) THEN left[j] ELSE right[j - Len(left)]
  BY <1>1, <1>2, ConcatProperties
<1>5. /\ Len(s) \in Nat /\ i \in Nat /\ 1 <= i /\ i <= Len(s)
      /\ Len(left) + Len(right) = Len(s) - 1
  BY <1>1, <1>2, LenProperties
<1>6. /\ left \o right \in Seq(S)
      /\ Len(left \o right) = Len(s) - 1
      /\ \A j \in 1..(Len(s) - 1) : (left \o right)[j] =
                     IF j <= i - 1 THEN left[j] ELSE right[j - (i - 1)]
  BY <1>1, <1>4, <1>5
<1>7. ASSUME NEW j \in 1..(Len(s) - 1)
      PROVE  (left \o right)[j] = IF j < i THEN s[j] ELSE s[j + 1]
  <2>1. CASE j < i
    BY <1>1, <1>5, <1>6, <2>1
  <2>2. CASE ~(j < i)
    <3>1. j - (i - 1) \in 1..(Len(s) - i) /\ (j - (i - 1)) + i = j + 1
      BY <1>5, <2>2
    <3>2. ~(j <= i - 1)
      BY <1>5, <2>2
    <3>3. (left \o right)[j] = right[j - (i - 1)]
      BY <1>6, <3>2
    <3> QED
      BY <1>2, <2>2, <3>1, <3>3
  <2> QED
    BY <2>1, <2>2
<1> QED
  BY <1>3, <1>6, <1>7

(* Where the elements that are left come from: distinct positions of the   *)
(* sequence, and for distinct positions other ones.                        *)
LEMMA RemoveAtOrigin ==
  ASSUME NEW S, NEW s \in Seq(S), NEW i \in 1..Len(s),
         NEW j \in 1..(Len(s) - 1)
  PROVE  \E k \in 1..Len(s) : /\ k # i
                              /\ k = IF j < i THEN j ELSE j + 1
                              /\ RemoveAt(s, i)[j] = s[k]
<1>1. Len(s) \in Nat
  BY LenProperties
<1>2. RemoveAt(s, i)[j] = IF j < i THEN s[j] ELSE s[j + 1]
  BY RemoveAtProperties
<1>3. CASE j < i
  BY <1>1, <1>2, <1>3
<1>4. CASE ~(j < i)
  <2>1. j + 1 \in 1..Len(s) /\ j + 1 # i
    BY <1>1, <1>4
  <2> QED
    BY <1>2, <1>4, <2>1
<1> QED
  BY <1>3, <1>4

(* Removing an element from a sequence without repetitions leaves one.     *)
LEMMA RemoveAtDistinct ==
  ASSUME NEW S, NEW s \in Seq(S), NEW i \in 1..Len(s),
         \A j, k \in 1..Len(s) : s[j] = s[k] => j = k
  PROVE  \A j, k \in 1..(Len(s) - 1) :
           RemoveAt(s, i)[j] = RemoveAt(s, i)[k] => j = k
<1> DEFINE origin(j) == IF j < i THEN j ELSE j + 1
<1>1. Len(s) \in Nat
  BY LenProperties
<1>2. \A j \in 1..(Len(s) - 1) :
        origin(j) \in 1..Len(s) /\ RemoveAt(s, i)[j] = s[origin(j)]
  BY <1>1, RemoveAtProperties
<1>3. ASSUME NEW j \in 1..(Len(s) - 1), NEW k \in 1..(Len(s) - 1),
             RemoveAt(s, i)[j] = RemoveAt(s, i)[k]
      PROVE  j = k
  <2>1. origin(j) = origin(k)
    BY <1>2, <1>3
  <2> QED
    BY <1>1, <2>1
<1> QED
  BY <1>3

(* An element of a sequence without repetitions is gone once removed, and  *)
(* the others stay.                                                        *)
LEMMA RemoveAtElements ==
  ASSUME NEW S, NEW s \in Seq(S), NEW i \in 1..Len(s),
         \A j, k \in 1..Len(s) : s[j] = s[k] => j = k
  PROVE  \A v : (\E j \in DOMAIN RemoveAt(s, i) : RemoveAt(s, i)[j] = v)
                  <=> v # s[i] /\ \E k \in DOMAIN s : s[k] = v
<1> DEFINE r == RemoveAt(s, i)
<1>1. /\ Len(s) \in Nat /\ DOMAIN s = 1..Len(s)
      /\ DOMAIN r = 1..(Len(s) - 1)
      /\ \A j \in 1..(Len(s) - 1) : r[j] = IF j < i THEN s[j] ELSE s[j + 1]
  BY RemoveAtProperties
<1> HIDE DEF r
<1>2. ASSUME NEW j \in 1..(Len(s) - 1)
      PROVE  r[j] # s[i] /\ \E k \in 1..Len(s) : s[k] = r[j]
  <2>1. CASE j < i
    BY <1>1, <2>1
  <2>2. CASE ~(j < i)
    <3>1. j + 1 \in 1..Len(s) /\ j + 1 # i /\ r[j] = s[j + 1]
      BY <1>1, <2>2
    <3> QED
      BY <3>1
  <2> QED
    BY <2>1, <2>2
<1>3. ASSUME NEW k \in 1..Len(s), s[k] # s[i]
      PROVE  \E j \in 1..(Len(s) - 1) : r[j] = s[k]
  <2>1. CASE k < i
    BY <1>1, <2>1
  <2>2. CASE ~(k < i)
    <3>1. k # i
      BY <1>3
    <3>2. k - 1 \in 1..(Len(s) - 1) /\ ~(k - 1 < i) /\ (k - 1) + 1 = k
      BY <1>1, <2>2, <3>1
    <3>3. r[k - 1] = s[k]
      BY <1>1, <3>2
    <3> QED
      BY <3>2, <3>3
  <2> QED
    BY <2>1, <2>2
<1>4. ASSUME NEW v
      PROVE  (\E j \in DOMAIN r : r[j] = v) <=> v # s[i] /\ \E k \in DOMAIN s : s[k] = v
  <2>1. ASSUME NEW j \in DOMAIN r, r[j] = v
        PROVE  v # s[i] /\ \E k \in DOMAIN s : s[k] = v
    BY <1>1, <1>2, <2>1
  <2>2. ASSUME v # s[i], NEW k \in DOMAIN s, s[k] = v
        PROVE  \E j \in DOMAIN r : r[j] = v
    BY <1>1, <1>3, <2>2
  <2> QED
    BY <2>1, <2>2
<1> QED
  BY <1>4 DEF r

-----------------------------------------------------------------------------
(* A set of numbers that is not empty has a least one, which Min chooses.  *)
LEMMA LeastElement ==
  ASSUME NEW I \in SUBSET Nat, I # {}
  PROVE  \E x \in I : \A y \in I : x <= y
<1> DEFINE R == OpToRel(<, Nat)
<1>1. IsWellFoundedOn(R, Nat)
  BY NatLessThanWellFounded
<1>2. \A x, y \in Nat : <<x, y>> \in R <=> x < y
  BY DEF OpToRel
<1> HIDE DEF R
<1>3. \E x \in I : \A y \in I : ~(<<y, x>> \in R)
  BY <1>1, WFMin
<1>4. PICK x \in I : \A y \in I : ~(<<y, x>> \in R)
  BY <1>3
<1>5. ASSUME NEW y \in I PROVE x <= y
  <2>1. ~(y < x) /\ x \in Nat /\ y \in Nat
    BY <1>2, <1>4
  <2> QED  BY <2>1
<1> QED  BY <1>5

LEMMA MinInSet ==
  ASSUME NEW I \in SUBSET Nat, I # {}
  PROVE  Min(I) \in I /\ \A y \in I : Min(I) <= y
  BY LeastElement DEF Min

(* A set of natural numbers that is bounded has a greatest element.        *)
LEMMA MaxInSet ==
  ASSUME NEW n \in Nat, NEW I \in SUBSET (0..n), I # {}
  PROVE  Max(I) \in I /\ \A y \in I : y <= Max(I)
<1> DEFINE J == {n - i : i \in I}
<1>1. J \in SUBSET Nat /\ J # {}
  <2>1. \A i \in I : i \in Nat /\ i <= n
    OBVIOUS
  <2>2. \A i \in I : n - i \in Nat
    BY <2>1
  <2> QED
    BY <2>2
<1>2. PICK j \in J : \A y \in J : j <= y
  BY <1>1, LeastElement
<1>3. PICK i \in I : j = n - i
  BY <1>2
<1>4. ASSUME NEW y \in I
      PROVE  i >= y
  BY <1>2, <1>3
<1> QED
  BY <1>4 DEF Max

=============================================================================
