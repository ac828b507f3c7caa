----------------------------- MODULE CodecProofs -----------------------------
(***************************************************************************)
(* What Codec makes of a message: the conversions between numbers and      *)
(* texts, the patterns as text, and that a message is deserialized as it   *)
(* was serialized, for every value and every text.                         *)
(***************************************************************************)
EXTENDS Codec, SequenceLemmas, FiniteSetTheorems, TLAPS

-----------------------------------------------------------------------------
(* Searches                                                                *)

(* FirstOf is the least position of a set, or npos if there is none.       *)
LEMMA FirstOfProperties ==
  ASSUME NEW S \in SUBSET (Nat \ {0})
  PROVE  /\ FirstOf(S) \in S \cup {npos}
         /\ FirstOf(S) = npos <=> S = {}
         /\ \A y \in S : FirstOf(S) <= y
<1>1. CASE S = {}
  BY <1>1 DEF FirstOf, npos
<1>2. CASE S # {}
  <2>1. Min(S) \in S /\ \A y \in S : Min(S) <= y
    BY <1>2, MinInSet
  <2> QED
    BY <1>2, <2>1 DEF FirstOf, npos
<1> QED
  BY <1>1, <1>2

(* find stops at the first character that is searched for.                 *)
LEMMA findProperties ==
  ASSUME NEW text, Len(text) \in Nat, NEW chars, NEW from \in Nat \ {0}
  PROVE  LET i == find(text, chars, from)
         IN  /\ i \in (from..Len(text)) \cup {npos}
             /\ i # npos => text[i] \in chars
             /\ \A j \in from..Len(text) :
                  text[j] \in chars => i # npos /\ i <= j
<1> DEFINE S == {i \in from..Len(text) : text[i] \in chars}
<1>1. S \in SUBSET (Nat \ {0})
  OBVIOUS
<1>2. find(text, chars, from) = FirstOf(S)
  BY DEF find
<1>3. /\ FirstOf(S) \in S \cup {npos}
      /\ FirstOf(S) = npos <=> S = {}
      /\ \A y \in S : FirstOf(S) <= y
  BY <1>1, FirstOfProperties
<1>4. npos \notin from..Len(text)
  BY DEF npos
<1> QED
  BY <1>2, <1>3, <1>4

(* find_first_not_of stops at the first one that is not.                   *)
LEMMA findNotProperties ==
  ASSUME NEW text, Len(text) \in Nat, NEW chars, NEW from \in Nat \ {0}
  PROVE  LET i == find_first_not_of(text, chars, from)
         IN  /\ i \in (from..Len(text)) \cup {npos}
             /\ i # npos => text[i] \notin chars
             /\ i = npos => \A j \in from..Len(text) : text[j] \in chars
             /\ \A j \in from..Len(text) :
                  text[j] \notin chars => i # npos /\ i <= j
<1> DEFINE S == {i \in from..Len(text) : text[i] \notin chars}
<1>1. S \in SUBSET (Nat \ {0})
  OBVIOUS
<1>2. find_first_not_of(text, chars, from) = FirstOf(S)
  BY DEF find_first_not_of
<1>3. /\ FirstOf(S) \in S \cup {npos}
      /\ FirstOf(S) = npos <=> S = {}
      /\ \A y \in S : FirstOf(S) <= y
  BY <1>1, FirstOfProperties
<1>4. npos \notin from..Len(text)
  BY DEF npos
<1> QED
  BY <1>2, <1>3, <1>4

(* A text that begins with no blank is not trimmed, and what is left of    *)
(* any other text begins with none.                                        *)
LEMMA TrimmedProperties ==
  ASSUME NEW S, NEW text \in Seq(S)
  PROVE  /\ Trimmed(text) \in Seq(S)
         /\ Trimmed(text) # << >> => Trimmed(text)[1] # Blank
         /\ text # << >> /\ text[1] # Blank => Trimmed(text) = text
<1> DEFINE i == find_first_not_of(text, {Blank}, 1)
<1>1. /\ Len(text) \in Nat /\ \A j \in 1..Len(text) : text[j] \in S
      /\ text # << >> => Len(text) \in Nat \ {0}
  BY LenProperties, ElementOfSeq, EmptySeq
<1>2. /\ i \in (1..Len(text)) \cup {npos}
      /\ i # npos => text[i] \notin {Blank}
      /\ \A j \in 1..Len(text) : text[j] \notin {Blank} => i # npos /\ i <= j
  BY <1>1, findNotProperties
<1>3. Trimmed(text) = IF i = npos THEN << >> ELSE SubSeq(text, i, Len(text))
  BY DEF Trimmed, substr
<1> HIDE DEF i
<1>4. CASE i = npos
  <2>1. Trimmed(text) = << >>
    BY <1>3, <1>4
  <2>2. ~(text # << >> /\ text[1] # Blank)
    BY <1>1, <1>2, <1>4
  <2> QED
    BY <2>1, <2>2, EmptySeq
<1>5. CASE i # npos
  <2>1. i \in 1..Len(text)
    BY <1>2, <1>5
  <2>2. /\ SubSeq(text, i, Len(text)) \in Seq(S)
        /\ \A k \in 1..(Len(text) - i + 1) : SubSeq(text, i, Len(text))[k] = text[i + k - 1]
    BY <1>1, <2>1, SubSeqProperties
  <2>3. SubSeq(text, i, Len(text))[1] = text[i]
    BY <1>1, <2>1, <2>2
  <2>4. ASSUME text # << >>, text[1] # Blank
        PROVE  SubSeq(text, i, Len(text)) = text
    <3>1. i = 1
      BY <1>1, <1>2, <2>1, <2>4
    <3> QED
      BY <3>1, SubSeqFull
  <2> QED
    BY <1>2, <1>3, <1>5, <2>2, <2>3, <2>4
<1> QED
  BY <1>4, <1>5

(* The leading digits are all digits up to the first other character.      *)
LEMMA LeadingDigitsProperties ==
  ASSUME NEW S, NEW text \in Seq(S)
  PROVE  LET n == Len(LeadingDigits(text))
         IN  /\ LeadingDigits(text) \in Seq(Digits)
             /\ n \in 0..Len(text)
             /\ \A i \in 1..n : LeadingDigits(text)[i] = text[i]
             /\ n < Len(text) => text[n + 1] \notin Digits
<1> DEFINE i == find_first_not_of(text, Digits, 1)
<1>1. Len(text) \in Nat
  BY LenProperties
<1>2. /\ i \in (1..Len(text)) \cup {npos}
      /\ i # npos => text[i] \notin Digits
      /\ i = npos => \A j \in 1..Len(text) : text[j] \in Digits
      /\ \A j \in 1..Len(text) : text[j] \notin Digits => i # npos /\ i <= j
  BY <1>1, findNotProperties
<1>3. LeadingDigits(text) = IF i = npos THEN text ELSE SubSeq(text, 1, i - 1)
  BY DEF LeadingDigits
<1> HIDE DEF i
<1>4. CASE i = npos
  <2>1. text = SubSeq(text, 1, Len(text))
    BY SubSeqFull
  <2>2. text \in Seq(Digits)
    <3>1. \A j \in 1..Len(text) : text[j] \in Digits
      BY <1>2, <1>4
    <3> QED
      BY <1>1, <2>1, <3>1, SubSeqProperties
  <2> QED
    BY <1>1, <1>3, <1>4, <2>2
<1>5. CASE i # npos
  <2>1. i \in 1..Len(text) /\ text[i] \notin Digits
    BY <1>2, <1>5
  <2>2. \A j \in 1..(i - 1) : text[j] \in Digits
    BY <1>1, <1>2, <2>1
  <2>3. /\ SubSeq(text, 1, i - 1) \in Seq(Digits)
        /\ Len(SubSeq(text, 1, i - 1)) = i - 1
        /\ \A k \in 1..(i - 1) : SubSeq(text, 1, i - 1)[k] = text[k]
    <3>1. /\ SubSeq(text, 1, i - 1) \in Seq(Digits)
          /\ Len(SubSeq(text, 1, i - 1)) = IF 1 <= i - 1 THEN i - 1 - 1 + 1 ELSE 0
          /\ \A k \in 1..(i - 1 - 1 + 1) : SubSeq(text, 1, i - 1)[k] = text[1 + k - 1]
      BY <1>1, <2>1, <2>2, SubSeqProperties
    <3> QED
      BY <1>1, <2>1, <3>1
  <2> QED
    BY <1>1, <1>3, <1>5, <2>1, <2>3
<1> QED
  BY <1>4, <1>5

-----------------------------------------------------------------------------
(* Numbers                                                                 *)

(* The recursion of NumberOf has a solution.                               *)
LEMMA NumberExists ==
  ASSUME NEW digits, NEW n \in Nat
  PROVE  \E number : number = [k \in 0..n |-> IF k = 0 THEN 0
                                 ELSE 10 * number[k - 1] + (digits[k] - 48)]
<1> DEFINE Solves(m, g) == g = [k \in 0..m |-> IF k = 0 THEN 0
                                  ELSE 10 * g[k - 1] + (digits[k] - 48)]
           Missing == {m \in Nat : ~\E g : Solves(m, g)}
<1>1. SUFFICES ASSUME Missing # {}
               PROVE  FALSE
  OBVIOUS
<1>2. PICK m \in Missing : \A x \in Missing : m <= x
  BY <1>1, LeastElement
<1>3. m # 0
  <2>1. Solves(0, [k \in 0..0 |-> 0])
    OBVIOUS
  <2> QED
    BY <2>1
<1>4. m - 1 \in Nat /\ m - 1 \notin Missing
  <2>1. m \in Nat
    OBVIOUS
  <2>2. m - 1 \in Nat /\ ~(m <= m - 1)
    BY <1>3, <2>1
  <2> HIDE DEF Missing
  <2> QED
    BY <1>2, <2>2
<1>5. PICK g : Solves(m - 1, g)
  BY <1>4
<1> DEFINE h == [k \in 0..m |-> IF k = m THEN 10 * g[m - 1] + (digits[m] - 48) ELSE g[k]]
<1>6. Solves(m, h)
  <2>1. ASSUME NEW k \in 0..m
        PROVE  h[k] = IF k = 0 THEN 0 ELSE 10 * h[k - 1] + (digits[k] - 48)
    <3>1. CASE k = m
      <4>1. k # 0 /\ k - 1 \in 0..m /\ k - 1 # m
        BY <1>3, <3>1
      <4> QED
        BY <3>1, <4>1
    <3>2. CASE k # m
      <4>1. k \in 0..(m - 1) /\ h[k] = g[k]
        BY <3>2
      <4>2. k # 0 => k - 1 \in 0..m /\ k - 1 # m
        BY <4>1
      <4>3. g[k] = IF k = 0 THEN 0 ELSE 10 * g[k - 1] + (digits[k] - 48)
        BY <1>5, <4>1
      <4> QED
        BY <4>1, <4>2, <4>3
    <3> QED
      BY <3>1, <3>2
  <2>2. h = [k \in 0..m |-> h[k]]
    OBVIOUS
  <2> HIDE DEF h
  <2> QED
    BY <2>1, <2>2
<1> QED
  BY <1>2, <1>6

(* A number is read digit by digit.                                        *)
LEMMA NumberOfProperties ==
  ASSUME NEW digits \in Seq(Digits)
  PROVE  \E number \in [0..Len(digits) -> Nat] :
           /\ number[0] = 0
           /\ \A k \in 1..Len(digits) :
                number[k] = 10 * number[k - 1] + (digits[k] - 48)
           /\ NumberOf(digits) = number[Len(digits)]
<1>1. Len(digits) \in Nat /\ \A k \in 1..Len(digits) : digits[k] \in 48..57
  BY LenProperties, ElementOfSeq DEF Digits
<1> DEFINE number == CHOOSE f : f = [k \in 0..Len(digits) |-> IF k = 0 THEN 0
                                       ELSE 10 * f[k - 1] + (digits[k] - 48)]
<1>2. NumberOf(digits) = number[Len(digits)]
  BY DEF NumberOf
<1>3. number = [k \in 0..Len(digits) |-> IF k = 0 THEN 0
                  ELSE 10 * number[k - 1] + (digits[k] - 48)]
  BY <1>1, NumberExists
<1> HIDE DEF number
<1>4. \A k \in 0..Len(digits) :
        number[k] = IF k = 0 THEN 0 ELSE 10 * number[k - 1] + (digits[k] - 48)
  BY <1>3
<1>5. \A k \in 0..Len(digits) : number[k] \in Nat
  <2> DEFINE Wrong == {k \in 0..Len(digits) : number[k] \notin Nat}
  <2>1. SUFFICES ASSUME Wrong # {}
                 PROVE  FALSE
    OBVIOUS
  <2>2. PICK k \in Wrong : \A x \in Wrong : k <= x
    <3>1. Wrong \in SUBSET Nat
      BY <1>1
    <3> HIDE DEF Wrong
    <3> QED
      BY <2>1, <3>1, LeastElement
  <2>3. k # 0
    BY <1>1, <1>4
  <2>4. k - 1 \in 0..Len(digits) /\ number[k - 1] \in Nat
    BY <1>1, <2>2, <2>3
  <2>5. digits[k] - 48 \in Nat
    BY <1>1, <2>3
  <2> QED
    BY <1>4, <2>3, <2>4, <2>5
<1>6. number \in [0..Len(digits) -> Nat]
  BY <1>3, <1>5
<1>7. \A k \in 1..Len(digits) : number[k] = 10 * number[k - 1] + (digits[k] - 48)
  BY <1>1, <1>4
<1>8. number[0] = 0
  BY <1>1, <1>4
<1> QED
  BY <1>2, <1>6, <1>7, <1>8

(* What digits stand for has no sign.                                      *)
LEMMA NumberIsNatural ==
  ASSUME NEW digits \in Seq(Digits)
  PROVE  NumberOf(digits) \in Nat
<1>1. Len(digits) \in 0..Len(digits)
  BY LenProperties
<1> QED
  BY <1>1, NumberOfProperties

(* The powers that the number formats use, as literals.                    *)
LEMMA PowersOfTen ==
  /\ 10^0 = 1 /\ 10^1 = 10 /\ 10^2 = 100 /\ 10^3 = 1000 /\ 10^4 = 10000
  /\ 10^5 = 100000 /\ 10^6 = 1000000 /\ 10^7 = 10000000 /\ 10^8 = 100000000
  /\ 10^9 = 1000000000 /\ 10^10 = 10000000000
  BY SMT

(* A digit more of a number.                                               *)
LEMMA OneMoreDigit ==
  ASSUME NEW n \in Nat, NEW j \in 0..9
  PROVE  /\ n \div 10^j = 10 * (n \div 10^(j + 1)) + ((n \div 10^j) % 10)
         /\ (n \div 10^j) % 10 \in 0..9
<1>0. j \in {0, 1, 2, 3, 4, 5, 6, 7, 8, 9}
  OBVIOUS
<1>1. CASE j = 0
  BY <1>1, PowersOfTen, SMT
<1>2. CASE j = 1
  BY <1>2, PowersOfTen, SMT
<1>3. CASE j = 2
  BY <1>3, PowersOfTen, SMT
<1>4. CASE j = 3
  BY <1>4, PowersOfTen, SMT
<1>5. CASE j = 4
  BY <1>5, PowersOfTen, SMT
<1>6. CASE j = 5
  BY <1>6, PowersOfTen, SMT
<1>7. CASE j = 6
  BY <1>7, PowersOfTen, SMT
<1>8. CASE j = 7
  BY <1>8, PowersOfTen, SMT
<1>9. CASE j = 8
  BY <1>9, PowersOfTen, SMT
<1>10. CASE j = 9
  BY <1>10, PowersOfTen, SMT
<1> QED
  BY <1>0, <1>1, <1>2, <1>3, <1>4, <1>5, <1>6, <1>7, <1>8, <1>9, <1>10

(* A number is written with as many digits as it has, and read again.      *)
LEMMA DecimalProperties ==
  ASSUME NEW n \in Nat, n < 10^10
  PROVE  /\ Decimal(n) \in Seq(Digits)
         /\ 1 <= Len(Decimal(n)) /\ Len(Decimal(n)) <= 10
         /\ NumberOf(Decimal(n)) = n
         /\ n < 10^Len(Decimal(n))
         /\ \A k \in 1..9 : n < 10^k => Len(Decimal(n)) <= k
<1> DEFINE S == {k \in 1..9 : n < 10^k} \cup {10}
           length == Min(S)
           text == [i \in 1..length |-> 48 + ((n \div 10^(length - i)) % 10)]
<1>1. Decimal(n) = text
  BY DEF Decimal
<1>2. S \in SUBSET Nat /\ S # {}
  OBVIOUS
<1>3. length \in S /\ \A y \in S : length <= y
  BY <1>2, MinInSet
<1>4. length \in 1..10 /\ n < 10^length
  <2>1. ASSUME NEW k \in S
        PROVE  k \in 1..10 /\ n < 10^k
    <3>1. CASE k = 10
      BY <3>1
    <3>2. CASE k # 10
      <4>1. k \in 1..9 /\ n < 10^k
        BY <3>2
      <4> QED
        BY <4>1
    <3> QED
      BY <3>1, <3>2
  <2> HIDE DEF S, length
  <2> QED
    BY <1>3, <2>1
<1>5. \A k \in 1..9 : n < 10^k => length <= k
  BY <1>3
<1> HIDE DEF S, length
<1>6. \A i \in 1..length : length - i \in 0..9
  BY <1>4
<1>7. \A i \in 1..length : text[i] = 48 + ((n \div 10^(length - i)) % 10)
  OBVIOUS
<1>8. text \in Seq(Digits) /\ Len(text) = length
  <2>1. \A i \in 1..length : text[i] \in Digits
    <3> SUFFICES ASSUME NEW i \in 1..length
                 PROVE  text[i] \in Digits
      OBVIOUS
    <3>1. (n \div 10^(length - i)) % 10 \in 0..9
      BY <1>6, OneMoreDigit
    <3> QED
      BY <1>7, <3>1 DEF Digits
  <2>2. text \in [1..length -> Digits] /\ length \in Nat
    BY <1>4, <2>1
  <2> HIDE DEF text
  <2> QED
    BY <2>2
<1> HIDE DEF text
<1>9. PICK number \in [0..length -> Nat] :
        /\ number[0] = 0
        /\ \A k \in 1..length : number[k] = 10 * number[k - 1] + (text[k] - 48)
        /\ NumberOf(text) = number[length]
  BY <1>8, NumberOfProperties
<1>10. \A k \in 0..length : number[k] = n \div 10^(length - k)
  <2> DEFINE Wrong == {k \in 0..length : number[k] # n \div 10^(length - k)}
  <2>1. SUFFICES ASSUME Wrong # {}
                 PROVE  FALSE
    OBVIOUS
  <2>2. PICK k \in Wrong : \A x \in Wrong : k <= x
    <3>1. Wrong \in SUBSET Nat
      BY <1>4
    <3> HIDE DEF Wrong
    <3> QED
      BY <2>1, <3>1, LeastElement
  <2>3. n \div 10^length = 0
    <3>1. length \in {1, 2, 3, 4, 5, 6, 7, 8, 9, 10}
      BY <1>4
    <3> QED
      BY <1>4, <3>1, PowersOfTen, SMT
  <2>4. k # 0
    <3>1. length - 0 = length
      BY <1>4
    <3> QED
      BY <1>9, <2>2, <2>3, <3>1
  <2>5. k - 1 \in 0..length /\ number[k - 1] = n \div 10^(length - (k - 1))
    BY <1>4, <2>2, <2>4
  <2>6. k \in 1..length /\ length - k \in 0..9 /\ length - (k - 1) = (length - k) + 1
    BY <1>4, <2>4
  <2>7. n \div 10^(length - k)
           = 10 * (n \div 10^(length - (k - 1))) + ((n \div 10^(length - k)) % 10)
    BY <2>6, OneMoreDigit
  <2>8. (n \div 10^(length - k)) % 10 \in 0..9
    BY <2>6, OneMoreDigit
  <2>9. number[k] = 10 * number[k - 1] + ((n \div 10^(length - k)) % 10)
    <3> DEFINE d == (n \div 10^(length - k)) % 10
    <3>1. text[k] = 48 + d /\ d \in 0..9
      BY <1>7, <2>6, <2>8
    <3>2. number[k] = 10 * number[k - 1] + (text[k] - 48)
      BY <1>9, <2>6
    <3>3. number[k - 1] \in Nat
      BY <1>9, <2>5
    <3> HIDE DEF d
    <3>4. number[k] = 10 * number[k - 1] + d
      BY <3>1, <3>2, <3>3
    <3> QED
      BY <3>4 DEF d
  <2> QED
    BY <2>2, <2>5, <2>7, <2>9
<1>11. number[length] = n
  <2>1. length \in 0..length /\ length - length = 0 /\ n \div 1 = n
    BY <1>4
  <2>2. number[length] = n \div 10^0
    BY <1>10, <2>1
  <2> QED
    BY <2>1, <2>2, PowersOfTen, SMT
<1> QED
  BY <1>1, <1>4, <1>5, <1>8, <1>9, <1>11

(* Whatever solves the recursion is the number.                            *)
LEMMA NumberIs ==
  ASSUME NEW digits \in Seq(Digits), NEW g,
         g[0] = 0,
         \A k \in 1..Len(digits) : g[k] = 10 * g[k - 1] + (digits[k] - 48)
  PROVE  NumberOf(digits) = g[Len(digits)]
<1>1. Len(digits) \in Nat
  BY LenProperties
<1>2. PICK number \in [0..Len(digits) -> Nat] :
        /\ number[0] = 0
        /\ \A k \in 1..Len(digits) : number[k] = 10 * number[k - 1] + (digits[k] - 48)
        /\ NumberOf(digits) = number[Len(digits)]
  BY NumberOfProperties
<1> DEFINE Wrong == {k \in 0..Len(digits) : number[k] # g[k]}
<1>3. Wrong = {}
  <2>1. SUFFICES ASSUME Wrong # {}
                 PROVE  FALSE
    OBVIOUS
  <2>2. PICK k \in Wrong : \A x \in Wrong : k <= x
    <3>1. Wrong \in SUBSET Nat
      BY <1>1
    <3> HIDE DEF Wrong
    <3> QED
      BY <2>1, <3>1, LeastElement
  <2>3. k # 0
    BY <1>2
  <2>4. k \in 1..Len(digits) /\ k - 1 \in 0..Len(digits) /\ ~(k <= k - 1)
    BY <1>1, <2>3
  <2>5. k - 1 \notin Wrong
    <3> HIDE DEF Wrong
    <3> QED
      BY <2>2, <2>4
  <2>6. number[k - 1] = g[k - 1]
    BY <2>4, <2>5
  <2> QED
    BY <1>2, <2>4, <2>6
<1> QED
  BY <1>1, <1>2, <1>3

(* Zeros in front of a number change nothing.                              *)
LEMMA LeadingZeros ==
  ASSUME NEW digits \in Seq(Digits), NEW n \in Nat
  PROVE  /\ Padding(n) \in Seq(Digits) /\ Len(Padding(n)) = n
         /\ Padding(n) \o digits \in Seq(Digits)
         /\ Len(Padding(n) \o digits) = n + Len(digits)
         /\ NumberOf(Padding(n) \o digits) = NumberOf(digits)
<1>1. Len(digits) \in Nat /\ \A i \in 1..Len(digits) : digits[i] \in 48..57
  BY LenProperties, ElementOfSeq DEF Digits
<1>2. Padding(n) \in Seq(Digits) /\ Len(Padding(n)) = n /\ \A i \in 1..n : Padding(n)[i] = 48
  BY DEF Padding, Digits
<1>3. /\ Padding(n) \o digits \in Seq(Digits)
      /\ Len(Padding(n) \o digits) = n + Len(digits)
      /\ \A i \in 1..(n + Len(digits)) : (Padding(n) \o digits)[i] =
           IF i <= n THEN Padding(n)[i] ELSE digits[i - n]
  <2> DEFINE zeros == Padding(n)
  <2>1. zeros \in Seq(Digits) /\ Len(zeros) = n
    BY <1>2
  <2> HIDE DEF zeros
  <2>2. /\ zeros \o digits \in Seq(Digits)
        /\ Len(zeros \o digits) = Len(zeros) + Len(digits)
        /\ \A i \in 1..(Len(zeros) + Len(digits)) : (zeros \o digits)[i] =
             IF i <= Len(zeros) THEN zeros[i] ELSE digits[i - Len(zeros)]
    BY <2>1, ConcatProperties
  <2>3. /\ zeros \o digits \in Seq(Digits)
        /\ Len(zeros \o digits) = n + Len(digits)
        /\ \A i \in 1..(n + Len(digits)) : (zeros \o digits)[i] =
             IF i <= n THEN zeros[i] ELSE digits[i - n]
    BY ONLY <2>1, <2>2
  <2> QED
    BY <2>3 DEF zeros
<1>4. PICK number \in [0..Len(digits) -> Nat] :
        /\ number[0] = 0
        /\ \A k \in 1..Len(digits) : number[k] = 10 * number[k - 1] + (digits[k] - 48)
        /\ NumberOf(digits) = number[Len(digits)]
  BY NumberOfProperties
<1> DEFINE g == [i \in 0..(n + Len(digits)) |-> IF i <= n THEN 0 ELSE number[i - n]]
<1>5. g[0] = 0
  BY <1>1
<1>6. ASSUME NEW k \in 1..(n + Len(digits))
      PROVE  g[k] = 10 * g[k - 1] + ((Padding(n) \o digits)[k] - 48)
  <2>1. CASE k <= n
    <3>1. (Padding(n) \o digits)[k] = 48 /\ g[k] = 0 /\ g[k - 1] = 0
      BY <1>1, <1>2, <1>3, <2>1
    <3> QED
      BY <3>1
  <2>2. CASE k > n
    <3>1. /\ k - n \in 1..Len(digits) /\ (k - n) - 1 = (k - 1) - n
          /\ k - 1 \in 0..(n + Len(digits)) /\ ~(k <= n)
      BY <1>1, <2>2
    <3>2. (Padding(n) \o digits)[k] = digits[k - n] /\ g[k] = number[k - n]
      BY <1>3, <3>1
    <3>3. g[k - 1] = number[(k - n) - 1]
      BY <1>4, <3>1
    <3> QED
      BY <1>4, <3>1, <3>2, <3>3
  <2>3. k <= n \/ k > n
    BY <1>1
  <2> QED
    BY ONLY <2>1, <2>2, <2>3
<1>7. g[n + Len(digits)] = number[Len(digits)]
  <2>1. CASE Len(digits) = 0
    BY <1>1, <1>4, <2>1
  <2>2. CASE Len(digits) # 0
    <3>1. ~(n + Len(digits) <= n) /\ (n + Len(digits)) - n = Len(digits)
          /\ n + Len(digits) \in 0..(n + Len(digits))
      BY <1>1, <2>2
    <3> QED
      BY <3>1
  <2> QED
    BY <2>1, <2>2
<1> HIDE DEF g
<1>8. NumberOf(Padding(n) \o digits) = g[n + Len(digits)]
  BY <1>3, <1>5, <1>6, NumberIs
<1> QED
  BY <1>2, <1>3, <1>4, <1>7, <1>8

(* A digit behind a number.                                                *)
LEMMA DigitBehind ==
  ASSUME NEW digits \in Seq(Digits), NEW d \in Digits
  PROVE  /\ Append(digits, d) \in Seq(Digits)
         /\ NumberOf(Append(digits, d)) = 10 * NumberOf(digits) + (d - 48)
<1>1. Len(digits) \in Nat
  BY LenProperties
<1>2. /\ Append(digits, d) \in Seq(Digits)
      /\ Len(Append(digits, d)) = Len(digits) + 1
      /\ \A i \in 1..Len(digits) : Append(digits, d)[i] = digits[i]
      /\ Append(digits, d)[Len(digits) + 1] = d
  OBVIOUS
<1>3. PICK number \in [0..Len(digits) -> Nat] :
        /\ number[0] = 0
        /\ \A k \in 1..Len(digits) : number[k] = 10 * number[k - 1] + (digits[k] - 48)
        /\ NumberOf(digits) = number[Len(digits)]
  BY NumberOfProperties
<1> DEFINE g == [i \in 0..(Len(digits) + 1) |->
                   IF i <= Len(digits) THEN number[i]
                   ELSE 10 * number[Len(digits)] + (d - 48)]
<1>4. g[0] = 0
  BY <1>1, <1>3
<1>5. ASSUME NEW k \in 1..(Len(digits) + 1)
      PROVE  g[k] = 10 * g[k - 1] + (Append(digits, d)[k] - 48)
  <2>1. CASE k = Len(digits) + 1
    <3>1. /\ k - 1 = Len(digits) /\ k - 1 \in 0..(Len(digits) + 1) /\ k - 1 <= Len(digits)
          /\ k \in 0..(Len(digits) + 1) /\ ~(k <= Len(digits))
      BY <1>1, <2>1
    <3>2. g[k - 1] = number[Len(digits)] /\ g[k] = 10 * number[Len(digits)] + (d - 48)
      BY <3>1
    <3> QED
      BY <1>2, <2>1, <3>2
  <2>2. CASE k # Len(digits) + 1
    <3>1. k \in 1..Len(digits) /\ k - 1 \in 0..Len(digits)
      BY <1>1, <2>2
    <3>2. g[k] = number[k] /\ g[k - 1] = number[k - 1]
      BY <1>1, <3>1
    <3> QED
      BY <1>2, <1>3, <3>1, <3>2
  <2> QED
    BY <2>1, <2>2
<1>6. g[Len(digits) + 1] = 10 * number[Len(digits)] + (d - 48)
  BY <1>1
<1> HIDE DEF g
<1>7. NumberOf(Append(digits, d)) = g[Len(digits) + 1]
  <2>1. \A k \in 1..Len(Append(digits, d)) :
          g[k] = 10 * g[k - 1] + (Append(digits, d)[k] - 48)
    BY <1>2, <1>5
  <2> QED
    BY <1>2, <1>4, <2>1, NumberIs
<1> QED
  BY <1>2, <1>3, <1>6, <1>7

-----------------------------------------------------------------------------
(* Parts of sequences                                                      *)

(* A concatenation is taken apart into what it was made of.                *)
LEMMA PartsOfConcat ==
  ASSUME NEW S, NEW s \in Seq(S), NEW t \in Seq(S)
  PROVE  /\ SubSeq(s \o t, 1, Len(s)) = s
         /\ SubSeq(s \o t, Len(s) + 1, Len(s) + Len(t)) = t
         /\ substr(s \o t, Len(s) + 1) = t
<1>1. /\ s \o t \in Seq(S) /\ Len(s \o t) = Len(s) + Len(t)
      /\ Len(s) \in Nat /\ Len(t) \in Nat
      /\ \A i \in 1..(Len(s) + Len(t)) :
           (s \o t)[i] = IF i <= Len(s) THEN s[i] ELSE t[i - Len(s)]
  BY ConcatProperties, LenProperties
<1>2. SubSeq(s \o t, 1, Len(s)) = s
  <2>1. CASE Len(s) = 0
    <3>1. s = << >> /\ SubSeq(s \o t, 1, 0) = << >>
      BY <2>1, EmptySeq, SubSeqEmpty
    <3> QED
      BY <2>1, <3>1
  <2>2. CASE Len(s) # 0
    <3>1. 1 \in 1..Len(s) /\ Len(s) \in 1..Len(s)
      BY <1>1, <2>2
    <3> QED
      BY <3>1, SubSeqOfConcat1, SubSeqFull
  <2> QED
    BY <2>1, <2>2
<1>3. SubSeq(s \o t, Len(s) + 1, Len(s) + Len(t)) = t
  <2>1. CASE Len(t) = 0
    <3>1. t = << >> /\ Len(s) + Len(t) < Len(s) + 1
      BY <1>1, <2>1, EmptySeq
    <3>2. Len(s) + 1 \in Int /\ Len(s) + Len(t) \in Int
      BY <1>1
    <3> QED
      BY <3>1, <3>2, SubSeqEmpty
  <2>2. CASE Len(t) # 0
    <3>1. /\ Len(s) + 1 \in (Len(s) + 1)..(Len(s) + Len(t))
          /\ Len(s) + Len(t) \in (Len(s) + 1)..(Len(s) + Len(t))
          /\ (Len(s) + 1) - Len(s) = 1 /\ (Len(s) + Len(t)) - Len(s) = Len(t)
      BY <1>1, <2>2
    <3>2. SubSeq(s \o t, Len(s) + 1, Len(s) + Len(t))
            = SubSeq(t, (Len(s) + 1) - Len(s), (Len(s) + Len(t)) - Len(s))
      BY <3>1, SubSeqOfConcat2
    <3> QED
      BY <3>1, <3>2, SubSeqFull
  <2> QED
    BY <2>1, <2>2
<1> QED
  BY <1>1, <1>2, <1>3 DEF substr

(* The characters of a number are bytes, and none is a blank.              *)
LEMMA DigitsAreBytes ==
  /\ \A s \in Seq(Digits) : s \in Seq(Byte)
  /\ Digits \subseteq Byte /\ Minus \in Byte /\ Dot \in Byte
  /\ Minus \notin Digits /\ Dot \notin Digits /\ Blank \notin Digits /\ Minus # Blank
<1>1. Digits \subseteq Byte
  BY DEF Digits, Byte
<1>2. \A s \in Seq(Digits) : s \in Seq(Byte)
  BY <1>1, SeqMonotonic
<1> QED
  BY <1>1, <1>2 DEF Digits, Byte, Minus, Dot, Blank

(* The digits in front of something else are its leading digits.           *)
LEMMA LeadingDigitsOf ==
  ASSUME NEW digits \in Seq(Digits), NEW rest \in Seq(Byte),
         rest = << >> \/ rest[1] \notin Digits
  PROVE  LeadingDigits(digits \o rest) = digits
<1> DEFINE text == digits \o rest
           leading == LeadingDigits(text)
<1>1. digits \in Seq(Byte)
  BY DigitsAreBytes
<1>2. /\ text \in Seq(Byte) /\ Len(text) = Len(digits) + Len(rest)
      /\ Len(digits) \in Nat /\ Len(rest) \in Nat
      /\ \A i \in 1..(Len(digits) + Len(rest)) :
           text[i] = IF i <= Len(digits) THEN digits[i] ELSE rest[i - Len(digits)]
  BY <1>1, ConcatProperties, LenProperties
<1> HIDE DEF text
<1>3. /\ leading \in Seq(Digits) /\ Len(leading) \in 0..Len(text)
      /\ \A i \in 1..Len(leading) : leading[i] = text[i]
      /\ Len(leading) < Len(text) => text[Len(leading) + 1] \notin Digits
  BY <1>2, LeadingDigitsProperties
<1> HIDE DEF leading
<1>4. ASSUME NEW i \in 1..Len(digits)
      PROVE  digits[i] \in Digits /\ text[i] = digits[i]
  <2>1. i \in 1..(Len(digits) + Len(rest)) /\ i <= Len(digits)
    BY <1>2
  <2>2. digits[i] \in Digits
    BY ElementOfSeq
  <2> QED
    BY <1>2, <2>1, <2>2
<1>5. ~(Len(leading) < Len(digits))
  <2> SUFFICES ASSUME Len(leading) < Len(digits)
               PROVE  FALSE
    OBVIOUS
  <2>1. Len(leading) + 1 \in 1..Len(digits) /\ Len(leading) < Len(text)
    BY <1>2, <1>3
  <2> QED
    BY <1>3, <1>4, <2>1
<1>6. ~(Len(leading) > Len(digits))
  <2> SUFFICES ASSUME Len(leading) > Len(digits)
               PROVE  FALSE
    OBVIOUS
  <2>1. /\ Len(digits) + 1 \in 1..Len(leading) /\ Len(rest) # 0
        /\ Len(digits) + 1 \in 1..(Len(digits) + Len(rest))
        /\ (Len(digits) + 1) - Len(digits) = 1 /\ ~(Len(digits) + 1 <= Len(digits))
    BY <1>2, <1>3
  <2>2. leading[Len(digits) + 1] \in Digits
    BY <1>3, <2>1, ElementOfSeq
  <2>3. rest # << >> /\ text[Len(digits) + 1] = rest[1]
    BY <1>2, <2>1, EmptySeq
  <2> QED
    BY <1>3, <2>1, <2>2, <2>3
<1>7. Len(leading) = Len(digits)
  BY <1>2, <1>3, <1>5, <1>6
<1>8. leading = digits
  BY <1>3, <1>4, <1>7, SeqEqual
<1> QED
  BY <1>8 DEF leading, text

(* A number in front of which a minus may stand.                           *)
LEMMA SignedText ==
  ASSUME NEW n \in Int, NEW text \in Seq(Byte), text # << >>, text[1] \in Digits
  PROVE  LET t == Sign(n) \o text
         IN  /\ t \in Seq(Byte) /\ t # << >> /\ t[1] \in Digits \cup {Minus}
             /\ Len(t) <= 1 + Len(text)
             /\ Trimmed(t) = t /\ Unsigned(t) = text
             /\ \A k \in Int : Signed(t, k) = IF n < 0 THEN -k ELSE k
<1> DEFINE t == Sign(n) \o text
<1>1. Len(text) \in Nat \ {0}
  BY EmptySeq
<1>2. CASE n < 0
  <2>1. Sign(n) = <<Minus>> /\ <<Minus>> \in Seq(Byte) /\ Len(<<Minus>>) = 1
    BY <1>2, DigitsAreBytes DEF Sign
  <2>2. /\ t \in Seq(Byte) /\ Len(t) = 1 + Len(text)
        /\ \A i \in 1..(1 + Len(text)) :
             t[i] = IF i <= 1 THEN <<Minus>>[i] ELSE text[i - 1]
    BY <2>1, ConcatProperties
  <2> HIDE DEF t
  <2>3. t[1] = Minus /\ t # << >>
    BY <1>1, <2>2, EmptySeq
  <2>4. Trimmed(t) = t
    BY <2>2, <2>3, DigitsAreBytes, TrimmedProperties
  <2>5. Tail(t) = text
    <3>1. /\ Tail(t) \in Seq(Byte) /\ Len(Tail(t)) = Len(text)
          /\ \A i \in 1..Len(text) : Tail(t)[i] = t[i + 1]
      BY <1>1, <2>2, <2>3, HeadTailProperties
    <3>2. \A i \in 1..Len(text) : t[i + 1] = text[i]
      BY <1>1, <2>2
    <3> QED
      BY <3>1, <3>2, SeqEqual
  <2> QED
    BY <1>1, <1>2, <2>2, <2>3, <2>4, <2>5 DEF t, Unsigned, Signed
<1>3. CASE ~(n < 0)
  <2>1. t = text
    BY <1>3, ConcatEmptySeq DEF Sign
  <2> HIDE DEF t
  <2>2. Trimmed(t) = t
    BY <2>1, DigitsAreBytes, TrimmedProperties
  <2>3. t[1] # Minus
    BY <2>1, DigitsAreBytes
  <2> QED
    BY <1>1, <1>3, <2>1, <2>2, <2>3 DEF t, Unsigned, Signed
<1> QED
  BY <1>2, <1>3

-----------------------------------------------------------------------------
(* std::to_string and std::stoi, std::stod                                 *)

(* A written number is not empty and begins with a digit.                  *)
LEMMA DecimalBegins ==
  ASSUME NEW n \in Nat, n < 10^10
  PROVE  /\ Decimal(n) \in Seq(Byte) /\ Decimal(n) # << >>
         /\ Decimal(n)[1] \in Digits
<1>1. Decimal(n) \in Seq(Digits) /\ 1 <= Len(Decimal(n)) /\ Len(Decimal(n)) <= 10
  BY DecimalProperties
<1>2. 1 \in 1..Len(Decimal(n)) /\ Decimal(n) # << >>
  <2> DEFINE d == Decimal(n)
  <2>1. d \in Seq(Digits) /\ 1 <= Len(d) /\ Len(d) <= 10
    BY <1>1
  <2> HIDE DEF d
  <2>2. d # << >> /\ 1 \in 1..Len(d)
    BY <2>1
  <2> QED
    BY <2>2 DEF d
<1> QED
  BY <1>1, <1>2, ElementOfSeq, DigitsAreBytes

(* Every int is read as it was written.                                    *)
LEMMA IntRoundTrip ==
  ASSUME NEW n \in CInt
  PROVE  /\ IntText(n) \in Seq(Byte) /\ IntText(n) # << >> /\ Len(IntText(n)) <= 11
         /\ IntText(n)[1] \in Digits \cup {Minus}
         /\ stoi(IntText(n)) = {n}
<1>1. Abs(n) \in Nat /\ Abs(n) < 10^10 /\ n \in Int
      /\ ~(n > INT_MAX) /\ ~(n < -(INT_MAX + 1))
  <2>1. INT_MAX \in Int /\ INT_MAX <= 2147483647
    BY IntAssumption, SMT
  <2>2. /\ n \in Int /\ n <= INT_MAX /\ -(INT_MAX + 1) <= n
        /\ n <= 2147483647 /\ -2147483648 <= n
    BY <2>1, SMT DEF CInt
  <2>3. Abs(n) \in Nat /\ Abs(n) <= 2147483648
    BY <2>2, SMT DEF Abs
  <2> QED
    BY <2>1, <2>2, <2>3, PowersOfTen, SMT
<1> DEFINE digits == Decimal(Abs(n))
           text == Sign(n) \o digits
<1>2. /\ digits \in Seq(Digits) /\ NumberOf(digits) = Abs(n)
      /\ 1 <= Len(digits) /\ Len(digits) <= 10
  BY <1>1, DecimalProperties
<1>3. digits \in Seq(Byte) /\ digits # << >> /\ digits[1] \in Digits
  BY <1>1, DecimalBegins
<1> HIDE DEF digits
<1>4. /\ text \in Seq(Byte) /\ text # << >> /\ text[1] \in Digits \cup {Minus}
      /\ Len(text) <= 1 + Len(digits)
      /\ Trimmed(text) = text /\ Unsigned(text) = digits
      /\ \A k \in Int : Signed(text, k) = IF n < 0 THEN -k ELSE k
  BY <1>1, <1>3, SignedText
<1> HIDE DEF text
<1>5. LeadingDigits(digits) = digits
  <2>1. digits \o << >> = digits /\ << >> \in Seq(Byte)
    BY <1>3, ConcatEmptySeq, EmptySeq
  <2>2. LeadingDigits(digits \o << >>) = digits
    BY <1>2, <2>1, LeadingDigitsOf
  <2> QED
    BY <2>1, <2>2
<1>6. Signed(text, Abs(n)) = n
  BY <1>1, <1>4 DEF Abs
<1>7. stoi(text) = {n}
  BY <1>1, <1>2, <1>3, <1>4, <1>5, <1>6 DEF stoi
<1>8. Len(text) <= 11
  <2>1. Len(text) \in Nat
    BY <1>4, LenProperties
  <2> QED
    BY <1>2, <1>4, <2>1
<1> QED
  BY <1>4, <1>7, <1>8 DEF IntText, text, digits

(* Six decimals, filled up with zeros.                                     *)
LEMMA SixDecimals ==
  ASSUME NEW n \in Nat, n < 10^6
  PROVE  LET f == Decimal(n)
             s == Padding(6 - Len(f)) \o f
         IN  /\ 6 - Len(f) \in Nat /\ f \in Seq(Digits)
             /\ s \in Seq(Digits) /\ Len(s) = 6 /\ NumberOf(s) = n
<1>1. n < 10^10
  BY PowersOfTen, SMT
<1> DEFINE f == Decimal(n)
<1>2. /\ f \in Seq(Digits) /\ 1 <= Len(f) /\ NumberOf(f) = n
      /\ Len(f) <= 6
  <2>1. 6 \in 1..9
    OBVIOUS
  <2> QED
    BY <1>1, <2>1, DecimalProperties
<1> HIDE DEF f
<1>3. 6 - Len(f) \in Nat /\ (6 - Len(f)) + Len(f) = 6
  BY <1>2
<1>4. /\ Padding(6 - Len(f)) \o f \in Seq(Digits)
      /\ Len(Padding(6 - Len(f)) \o f) = (6 - Len(f)) + Len(f)
      /\ NumberOf(Padding(6 - Len(f)) \o f) = NumberOf(f)
  BY <1>2, <1>3, LeadingZeros
<1> QED
  BY <1>2, <1>3, <1>4 DEF f

(* The parts of a double's text.                                           *)
LEMMA DoubleTextParts ==
  ASSUME NEW x \in Double
  PROVE  \E m, hi, lo \in Nat, F \in Seq(Digits) :
           LET body == Decimal(hi) \o (<<Dot>> \o F)
           IN  /\ x \in Int /\ m = (Abs(x) + 5) \div 10
               /\ hi < 10^10 /\ lo < 10^6 /\ m = 10^6 * hi + lo
               /\ Len(F) = 6 /\ NumberOf(F) = lo
               /\ body \in Seq(Byte) /\ Len(body) = Len(Decimal(hi)) + 7
               /\ DoubleText(x) = Sign(x) \o body
<1> DEFINE m  == (Abs(x) + 5) \div 10
           hi == m \div 10^6
           lo == m % 10^6
           f  == Decimal(lo)
           P  == Padding(6 - Len(f))
           A  == Decimal(hi)
<1>1. /\ x \in Int /\ m \in Nat /\ hi \in Nat /\ lo \in Nat
      /\ hi < 10^10 /\ lo < 10^6 /\ m = 10^6 * hi + lo
  <2>1. x \in Int /\ Abs(x) \in Nat /\ Abs(x) \div 10^7 < 10^9
    BY DEF Double, Abs
  <2>2. m \in Nat /\ m <= 2000000000000000
    BY <2>1, PowersOfTen, SMT
  <2> HIDE DEF m
  <2>3. hi \in Nat /\ lo \in Nat /\ hi < 10000000000 /\ lo < 1000000
        /\ m = 1000000 * hi + lo
    BY <2>2, PowersOfTen, SMT
  <2> HIDE DEF hi, lo
  <2> QED
    BY <2>1, <2>2, <2>3, PowersOfTen, SMT
<1> HIDE DEF m, hi, lo
<1>2. /\ 6 - Len(f) \in Nat /\ f \in Seq(Digits) /\ P \o f \in Seq(Digits)
      /\ Len(P \o f) = 6 /\ NumberOf(P \o f) = lo
  BY <1>1, SixDecimals
<1>3. P \in Seq(Byte) /\ f \in Seq(Byte) /\ P \o f \in Seq(Byte)
  <2>1. P \in Seq(Digits)
    BY <1>2, LeadingZeros
  <2> QED
    BY <1>2, <2>1, DigitsAreBytes
<1>4. A \in Seq(Byte) /\ Sign(x) \in Seq(Byte) /\ <<Dot>> \in Seq(Byte) /\ Len(<<Dot>>) = 1
  <2>1. Sign(x) \in Seq(Byte)
    BY DigitsAreBytes, EmptySeq DEF Sign
  <2> QED
    BY <1>1, <2>1, DecimalBegins, DigitsAreBytes
<1>5. DoubleText(x) = Sign(x) \o A \o <<Dot>> \o P \o f
  BY DEF DoubleText, m, hi, lo
<1> HIDE DEF A, P, f
<1>6. /\ <<Dot>> \o (P \o f) \in Seq(Byte) /\ Len(<<Dot>> \o (P \o f)) = 7
      /\ A \o (<<Dot>> \o (P \o f)) \in Seq(Byte)
      /\ Len(A \o (<<Dot>> \o (P \o f))) = Len(A) + 7
  <2>1. <<Dot>> \o (P \o f) \in Seq(Byte) /\ Len(<<Dot>> \o (P \o f)) = 7
    BY <1>2, <1>3, <1>4, ConcatProperties
  <2> QED
    BY <1>4, <2>1, ConcatProperties
<1>7. Sign(x) \o A \o <<Dot>> \o P \o f = Sign(x) \o (A \o (<<Dot>> \o (P \o f)))
  <2> DEFINE sign == Sign(x)
             dot  == <<Dot>>
             X    == sign \o A
             Y    == X \o dot
             pf   == P \o f
             Z    == dot \o pf
  <2>1. sign \in Seq(Byte) /\ A \in Seq(Byte) /\ dot \in Seq(Byte)
    BY <1>4
  <2>2. pf \in Seq(Byte) /\ Z \in Seq(Byte)
    BY <1>3, <1>6
  <2> HIDE DEF sign, dot
  <2>3. X \in Seq(Byte)
    BY ONLY <2>1, ConcatProperties
  <2> HIDE DEF X
  <2>4. Y \in Seq(Byte)
    BY ONLY <2>1, <2>3, ConcatProperties
  <2> HIDE DEF Y
  <2>5. (Y \o P) \o f = Y \o pf
    <3>1. P \in Seq(Byte) /\ f \in Seq(Byte)
      BY <1>3
    <3> QED
      BY ONLY <2>4, <3>1, ConcatAssociative DEF pf
  <2> HIDE DEF pf
  <2>6. Y \o pf = X \o Z
    <3>1. dot \in Seq(Byte) /\ pf \in Seq(Byte)
      BY <2>1, <2>2
    <3> QED
      BY ONLY <2>3, <3>1, ConcatAssociative DEF Y, Z
  <2> HIDE DEF Z
  <2>7. X \o Z = sign \o (A \o Z)
    <3>1. sign \in Seq(Byte) /\ A \in Seq(Byte) /\ Z \in Seq(Byte)
      BY <2>1, <2>2
    <3> QED
      BY ONLY <3>1, ConcatAssociative DEF X
  <2> QED
    BY <2>5, <2>6, <2>7, Zenon DEF sign, dot, X, Y, pf, Z
<1>8. m = (Abs(x) + 5) \div 10
  BY DEF m
<1> DEFINE F == P \o f
<1>9. DoubleText(x) = Sign(x) \o (A \o (<<Dot>> \o F))
  BY <1>5, <1>7
<1>10. /\ F \in Seq(Digits) /\ Len(F) = 6 /\ NumberOf(F) = lo
       /\ A \o (<<Dot>> \o F) \in Seq(Byte)
       /\ Len(A \o (<<Dot>> \o F)) = Len(A) + 7
  BY <1>2, <1>6
<1> HIDE DEF F
<1> QED
  BY <1>1, <1>8, <1>9, <1>10 DEF A

(* A double is read as it was written, rounded to six decimals.            *)
LEMMA DoubleRoundTrip ==
  ASSUME NEW x \in Double
  PROVE  /\ DoubleText(x) \in Seq(Byte) /\ DoubleText(x) # << >>
         /\ Len(DoubleText(x)) <= 18
         /\ DoubleText(x)[1] \in Digits \cup {Minus}
         /\ \E v \in Int : /\ stod(DoubleText(x)) = {v}
                           /\ Abs(v - x) <= 5
                           /\ x % 10 = 0 => v = x
<1>0. PICK m, hi, lo \in Nat, F \in Seq(Digits) :
        LET d == Decimal(hi) \o (<<Dot>> \o F)
        IN  /\ x \in Int /\ m = (Abs(x) + 5) \div 10
            /\ hi < 10^10 /\ lo < 10^6 /\ m = 10^6 * hi + lo
            /\ Len(F) = 6 /\ NumberOf(F) = lo
            /\ d \in Seq(Byte) /\ Len(d) = Len(Decimal(hi)) + 7
            /\ DoubleText(x) = Sign(x) \o d
  BY DoubleTextParts
<1> DEFINE A    == Decimal(hi)
           rest == <<Dot>> \o F
           body == A \o rest
           text == Sign(x) \o body
<1>1. /\ x \in Int /\ m \in Nat /\ hi \in Nat /\ lo \in Nat
      /\ hi < 10^10 /\ lo < 10^6 /\ m = 10^6 * hi + lo
      /\ F \in Seq(Digits) /\ Len(F) = 6 /\ NumberOf(F) = lo
      /\ body \in Seq(Byte) /\ Len(body) = Len(A) + 7
      /\ DoubleText(x) = text
  BY <1>0
<1>2. /\ A \in Seq(Digits) /\ Len(A) <= 10 /\ NumberOf(A) = hi
      /\ A \in Seq(Byte) /\ A # << >> /\ A[1] \in Digits
  BY <1>1, DecimalProperties, DecimalBegins
<1> HIDE DEF A
<1>3. F \in Seq(Byte) /\ <<Dot>> \in Seq(Byte) /\ Len(<<Dot>>) = 1
  BY <1>1, DigitsAreBytes
<1>4. rest \in Seq(Byte) /\ rest # << >> /\ rest[1] = Dot /\ Tail(rest) = F
  <2>1. /\ rest \in Seq(Byte) /\ Len(rest) = 7
        /\ \A i \in 1..7 : rest[i] = IF i <= 1 THEN <<Dot>>[i] ELSE F[i - 1]
    BY <1>1, <1>3, ConcatProperties
  <2>2. substr(rest, 2) = F
    <3>1. PICK dot \in Seq(Byte) : dot = <<Dot>> /\ Len(dot) = 1
      BY <1>3
    <3>2. substr(dot \o F, Len(dot) + 1) = F
      BY <1>3, PartsOfConcat
    <3> QED
      BY <3>1, <3>2
  <2>3. rest[1] = Dot
    <3>1. 1 \in 1..7 /\ <<Dot>>[1] = Dot
      OBVIOUS
    <3> HIDE DEF rest
    <3> QED
      BY <2>1, <3>1
  <2> HIDE DEF rest
  <2>4. rest # << >>
    <3>1. Len(rest) >= 1 /\ rest \in Seq(Byte)
      BY <2>1
    <3> QED
      BY ONLY <3>1
  <2> QED
    BY <2>1, <2>2, <2>3, <2>4, TailIsSubSeq DEF substr
<1> HIDE DEF rest
<1>5. body # << >> /\ body[1] \in Digits
  <2>1. /\ Len(A) \in Nat \ {0} /\ Len(rest) \in Nat
        /\ \A i \in 1..(Len(A) + Len(rest)) :
             body[i] = IF i <= Len(A) THEN A[i] ELSE rest[i - Len(A)]
    BY <1>2, <1>4, ConcatProperties, EmptySeq, LenProperties
  <2>2. 1 \in 1..(Len(A) + Len(rest)) /\ 1 <= Len(A)
    BY <2>1
  <2>3. body[1] = A[1]
    BY <2>1, <2>2
  <2> HIDE DEF body
  <2>4. Len(body) # 0
    BY <1>1, <2>1
  <2> QED
    BY <1>2, <2>3, <2>4
<1>6. LeadingDigits(body) = A /\ substr(body, Len(A) + 1) = rest
  <2>1. rest[1] \notin Digits
    BY <1>4, DigitsAreBytes
  <2> QED
    BY <1>2, <1>4, <2>1, LeadingDigitsOf, PartsOfConcat
<1> HIDE DEF body
<1>7. /\ text \in Seq(Byte) /\ text # << >> /\ text[1] \in Digits \cup {Minus}
      /\ Len(text) <= 1 + Len(body)
      /\ Trimmed(text) = text /\ Unsigned(text) = body
      /\ \A k \in Int : Signed(text, k) = IF x < 0 THEN -k ELSE k
  BY <1>1, <1>5, SignedText
<1> HIDE DEF text
<1>8. LeadingDigits(F) = F
  <2>1. F \o << >> = F /\ << >> \in Seq(Byte)
    BY <1>3, ConcatEmptySeq, EmptySeq
  <2>2. LeadingDigits(F \o << >>) = F
    BY <1>1, <2>1, LeadingDigitsOf
  <2> QED
    BY <2>1, <2>2
<1>9. NumberOf(SubSeq(F \o Padding(7), 1, 7)) = 10 * lo
  <2>1. 48 \in Digits /\ 48 - 48 = 0
    BY DEF Digits
  <2>2. PICK pad \in Seq(Digits) : pad = Padding(7) /\ Len(pad) = 7 /\ pad[1] = 48
    <3>1. Padding(7) \in Seq(Digits) /\ Len(Padding(7)) = 7
      BY LeadingZeros, EmptySeq
    <3>2. Padding(7)[1] = 48
      BY DEF Padding
    <3> QED
      BY <3>1, <3>2, Zenon
  <2>3. PICK t \in Seq(Digits) :
          /\ t = F \o pad /\ Len(t) = 13
          /\ \A i \in 1..13 : t[i] = IF i <= 6 THEN F[i] ELSE pad[i - 6]
    <3>1. /\ F \o pad \in Seq(Digits) /\ Len(F \o pad) = Len(F) + Len(pad)
          /\ \A i \in 1..(Len(F) + Len(pad)) :
               (F \o pad)[i] = IF i <= Len(F) THEN F[i] ELSE pad[i - Len(F)]
      BY <1>1, ConcatProperties
    <3>2. Len(F) = 6 /\ 6 + 7 = 13
      BY <1>1
    <3>3. Len(F) + Len(pad) = 13
      BY <2>2, <3>2, Zenon
    <3> QED
      BY <3>1, <3>2, <3>3, Zenon
  <2>4. PICK s \in Seq(Digits) :
          s = SubSeq(t, 1, 7) /\ Len(s) = 7 /\ \A i \in 1..7 : s[i] = t[i]
    <3>1. \A i \in 1..7 : t[i] \in Digits
      <4> SUFFICES ASSUME NEW i \in 1..7
                   PROVE  t[i] \in Digits
        OBVIOUS
      <4>1. i \in 1..Len(t)
        BY <2>3
      <4> QED
        BY <4>1, ElementOfSeq
    <3>2. /\ SubSeq(t, 1, 7) \in Seq(Digits)
          /\ Len(SubSeq(t, 1, 7)) = IF 1 <= 7 THEN 7 - 1 + 1 ELSE 0
          /\ \A i \in 1..(7 - 1 + 1) : SubSeq(t, 1, 7)[i] = t[1 + i - 1]
      BY <3>1, SubSeqProperties
    <3>3. 7 - 1 + 1 = 7 /\ 1 <= 7 /\ \A i \in 1..7 : 1 + i - 1 = i
      OBVIOUS
    <3>4. Len(SubSeq(t, 1, 7)) = 7
      BY ONLY <3>2
    <3>5. \A i \in 1..7 : SubSeq(t, 1, 7)[i] = t[i]
      BY ONLY <3>2, <3>3, Zenon
    <3> QED
      BY ONLY <3>2, <3>4, <3>5, Zenon
  <2>5. PICK u \in Seq(Digits) :
          /\ u = Append(F, 48) /\ Len(u) = 7
          /\ \A i \in 1..6 : u[i] = F[i]
          /\ u[7] = 48
    <3>1. /\ Append(F, 48) \in Seq(Digits) /\ Len(Append(F, 48)) = Len(F) + 1
          /\ \A i \in 1..Len(F) : Append(F, 48)[i] = F[i]
          /\ Append(F, 48)[Len(F) + 1] = 48
      BY AppendProperties, <2>1
    <3>2. Len(F) = 6
      BY <1>1
    <3>3. Len(F) + 1 = 7
      BY ONLY <3>2
    <3> DEFINE r == Append(F, 48)
    <3>4. /\ r \in Seq(Digits) /\ Len(r) = Len(F) + 1
          /\ \A i \in 1..Len(F) : r[i] = F[i]
          /\ r[Len(F) + 1] = 48
      BY ONLY <3>1, Zenon
    <3> HIDE DEF r
    <3>5. /\ Len(r) = 7 /\ r[7] = 48
          /\ \A i \in 1..6 : r[i] = F[i]
      BY ONLY <3>2, <3>4
    <3> QED
      BY ONLY <3>4, <3>5, Zenon DEF r
  <2>6. \A i \in 1..7 : s[i] = u[i]
    <3> SUFFICES ASSUME NEW i \in 1..7
                 PROVE  s[i] = u[i]
      OBVIOUS
    <3>1. CASE i <= 6
      <4>1. i \in 1..6 /\ i \in 1..13
        BY <3>1
      <4> QED
        BY <2>3, <2>4, <2>5, <4>1
    <3>2. CASE ~(i <= 6)
      <4>1. i = 7 /\ 7 \in 1..7 /\ 7 \in 1..13 /\ 7 - 6 = 1 /\ ~(7 <= 6) /\ 1 \in 1..7
        BY <3>2
      <4>2. s[7] = t[7]
        BY ONLY <2>4, <4>1
      <4>3. t[7] = pad[7 - 6]
        BY ONLY <2>3, <4>1
      <4> QED
        BY ONLY <2>2, <2>5, <4>1, <4>2, <4>3
    <3> QED
      BY <3>1, <3>2
  <2>7. s = u
    <3>1. Len(s) = Len(u) /\ \A i \in 1..Len(s) : s[i] = u[i]
      BY <2>4, <2>5, <2>6, Zenon
    <3> QED
      BY ONLY <3>1, SeqEqual
  <2>8. NumberOf(Append(F, 48)) = 10 * NumberOf(F) + (48 - 48)
    BY <1>1, <2>1, DigitBehind
  <2>9. NumberOf(Append(F, 48)) = 10 * lo
    BY <1>1, <2>8
  <2>10. SubSeq(F \o Padding(7), 1, 7) = Append(F, 48)
    BY <2>2, <2>3, <2>4, <2>5, <2>7, Zenon
  <2> QED
    BY ONLY <2>9, <2>10, Zenon
<1>10. A \o F # << >>
  BY <1>2, <1>3, ConcatEqualIffEmpty
<1> DEFINE n == 10^7 * hi + 10 * lo
           v == IF x < 0 THEN -n ELSE n
<1>11. stod(text) = {Signed(text, n)}
  <2>1. stod(text) = {Signed(text, 10^7 * NumberOf(A)
                              + NumberOf(SubSeq(F \o Padding(7), 1, 7)))}
    BY <1>4, <1>6, <1>7, <1>8, <1>10 DEF stod
  <2> QED
    BY <1>2, <1>9, <2>1
<1>12. n \in Nat /\ n = 10 * m
  BY <1>1, PowersOfTen, SMT
<1> HIDE DEF n
<1>13. Signed(text, n) = v
  BY <1>7, <1>12
<1>14. v \in Int /\ Abs(v - x) <= 5 /\ (x % 10 = 0 => v = x)
  <2>1. m = (Abs(x) + 5) \div 10
    BY <1>0
  <2> QED
    BY <1>1, <1>12, <2>1 DEF Abs
<1>15. Len(text) <= 18
  <2>1. Len(text) \in Nat /\ Len(A) \in Nat
    BY <1>2, <1>7, LenProperties
  <2> QED
    BY <1>1, <1>2, <1>7, <2>1
<1> QED
  BY <1>1, <1>7, <1>11, <1>13, <1>14, <1>15

(* The operators of a pattern as text: one character or two, and no text   *)
(* stands for two of them.                                                 *)
OneChar == {"All", "GreaterThan", "LessThan"}

FirstChar ==
  [All |-> 42, Equal |-> 61, NotEqual |-> 33, GreaterThan |-> 62, LessThan |-> 60,
   NotGreaterThan |-> 60, NotLessThan |-> 62]

(* An operator is one or two bytes, told apart by the first one and a "=". *)
LEMMA OperatorTexts ==
  ASSUME NEW op \in Operator
  PROVE  LET s == operatorToString[op]
         IN  /\ s \in Seq(Byte)
             /\ Len(s) = IF op \in OneChar THEN 1 ELSE 2
             /\ s[1] = FirstChar[op]
             /\ op \notin OneChar => s[2] = 61
<1>1. ASSUME NEW c \in Byte, NEW s, s = <<c>>
      PROVE  s \in Seq(Byte) /\ Len(s) = 1 /\ s[1] = c
  <2>1. s \in Seq(Byte) /\ Len(s) = 1
    BY <1>1
  <2> QED
    BY <1>1, <2>1
<1>2. ASSUME NEW c \in Byte, NEW s, s = <<c, 61>>
      PROVE  s \in Seq(Byte) /\ Len(s) = 2 /\ s[1] = c /\ s[2] = 61
  <2>1. 61 \in Byte
    BY DEF Byte
  <2>2. s \in Seq(Byte) /\ Len(s) = 2
    BY <1>2, <2>1
  <2> QED
    BY <1>2, <2>2
<1>3. FirstChar[op] \in Byte
  BY DEF FirstChar, Operator, Byte
<1>4. operatorToString[op] = IF op \in OneChar THEN <<FirstChar[op]>>
                             ELSE <<FirstChar[op], 61>>
  BY DEF FirstChar, Operator, operatorToString, OneChar, Star
<1> DEFINE s == operatorToString[op]
<1>5. CASE op \in OneChar
  <2>1. s = <<FirstChar[op]>>
    BY <1>4, <1>5
  <2> HIDE DEF s
  <2>2. s \in Seq(Byte) /\ Len(s) = 1 /\ s[1] = FirstChar[op]
    BY <1>1, <1>3, <2>1, Zenon
  <2> QED
    BY <1>5, <2>2 DEF s
<1>6. CASE op \notin OneChar
  <2>1. s = <<FirstChar[op], 61>>
    BY <1>4, <1>6
  <2> HIDE DEF s
  <2>2. s \in Seq(Byte) /\ Len(s) = 2 /\ s[1] = FirstChar[op] /\ s[2] = 61
    BY <1>2, <1>3, <2>1, Zenon
  <2> QED
    BY <1>6, <2>2 DEF s
<1> QED
  BY <1>5, <1>6

(* A text begins with another one if it has its characters in front.       *)
LEMMA PrefixOf ==
  ASSUME NEW S, NEW s \in Seq(S), NEW t \in Seq(S)
  PROVE  IsPrefix(s, t) <=> Len(s) <= Len(t) /\ \A i \in 1..Len(s) : s[i] = t[i]
<1>1. Len(s) \in Nat /\ Len(t) \in Nat
  BY LenProperties
<1>2. SUFFICES ASSUME Len(s) <= Len(t)
               PROVE  SubSeq(s, 1, Len(s)) = SubSeq(t, 1, Len(s))
                        <=> \A i \in 1..Len(s) : s[i] = t[i]
  BY DEF IsPrefix
<1>3. SubSeq(s, 1, Len(s)) = s
  BY SubSeqFull
<1>4. /\ SubSeq(t, 1, Len(s)) \in Seq(S) /\ Len(SubSeq(t, 1, Len(s))) = Len(s)
      /\ \A i \in 1..Len(s) : SubSeq(t, 1, Len(s))[i] = t[i]
  <2>1. \A i \in 1..Len(s) : t[i] \in S
    BY <1>1, <1>2, ElementOfSeq
  <2>2. /\ SubSeq(t, 1, Len(s)) \in Seq(S)
        /\ Len(SubSeq(t, 1, Len(s))) = IF 1 <= Len(s) THEN Len(s) - 1 + 1 ELSE 0
        /\ \A i \in 1..(Len(s) - 1 + 1) : SubSeq(t, 1, Len(s))[i] = t[1 + i - 1]
    BY <1>1, <2>1, SubSeqProperties
  <2> QED
    BY <1>1, <2>2
<1> DEFINE u == SubSeq(t, 1, Len(s))
<1> HIDE DEF u
<1>5. /\ u \in Seq(S) /\ Len(u) = Len(s)
      /\ \A i \in 1..Len(s) : u[i] = t[i]
  BY <1>4 DEF u
<1>6. s = u <=> \A i \in 1..Len(s) : s[i] = u[i]
  BY <1>5, SeqEqual
<1>7. s = u <=> \A i \in 1..Len(s) : s[i] = t[i]
  BY <1>5, <1>6
<1> QED
  BY <1>3, <1>7 DEF u

(* Which operators a text may begin with.                                  *)
LEMMA BeginningIs ==
  ASSUME NEW t \in Seq(Nat), NEW op \in Operator
  PROVE  op \in Beginning(t) <=>
           /\ op # "All" /\ Len(t) >= 1 /\ t[1] = FirstChar[op]
           /\ op \notin OneChar => Len(t) >= 2 /\ t[2] = 61
<1> DEFINE s == operatorToString[op]
<1>1. s \in Seq(Nat)
  <2>1. Byte \subseteq Nat
    BY DEF Byte
  <2> QED
    BY <2>1, OperatorTexts, SeqMonotonic
<1>2. op \in Beginning(t) <=> op # "All" /\ IsPrefix(s, t)
  BY DEF Beginning
<1>3. /\ Len(s) = IF op \in OneChar THEN 1 ELSE 2
      /\ s[1] = FirstChar[op]
      /\ op \notin OneChar => s[2] = 61
  BY OperatorTexts
<1> HIDE DEF s
<1>4. IsPrefix(s, t) <=> Len(s) <= Len(t) /\ \A i \in 1..Len(s) : s[i] = t[i]
  <2>1. t \in Seq(Nat)
    OBVIOUS
  <2> QED
    BY ONLY <1>1, <2>1, PrefixOf
<1>5. Len(t) \in Nat
  BY LenProperties
<1>6. CASE op \in OneChar
  <2>1. Len(s) = 1
    BY <1>3, <1>6
  <2>2. IsPrefix(s, t) <=> 1 <= Len(t) /\ s[1] = t[1]
    BY <1>4, <2>1
  <2> QED
    BY <1>2, <1>3, <1>5, <1>6, <2>2
<1>7. CASE op \notin OneChar
  <2>1. Len(s) = 2
    BY <1>3, <1>7
  <2>2. IsPrefix(s, t) <=> 2 <= Len(t) /\ s[1] = t[1] /\ s[2] = t[2]
    <3>1. \A i \in 1..Len(s) : i = 1 \/ i = 2
      BY <2>1
    <3>2. 1 \in 1..Len(s) /\ 2 \in 1..Len(s)
      BY <2>1
    <3> QED
      BY <1>4, <2>1, <3>1, <3>2
  <2> QED
    BY <1>2, <1>3, <1>5, <1>7, <2>2
<1> QED
  BY <1>6, <1>7

(* The constructors take the longer one, of which there is only one.       *)
LEMMA LongestIs ==
  ASSUME NEW t \in Seq(Nat), NEW op \in Beginning(t),
         op \in OneChar => ~(Len(t) >= 2 /\ t[2] = 61)
  PROVE  Longest(Beginning(t)) = op
<1> DEFINE L(o) == Len(operatorToString[o])
<1>1. op \in Operator /\ \A o \in Beginning(t) : o \in Operator
  BY DEF Beginning
<1>2. \A o \in Beginning(t) : L(o) = IF o \in OneChar THEN 1 ELSE 2
  BY <1>1, OperatorTexts
<1>3. \A o \in Beginning(t) : L(o) <= L(op)
  <2>1. CASE op \in OneChar
    <3>1. \A o \in Beginning(t) : o \in OneChar
      BY <1>1, <2>1, BeginningIs
    <3> QED
      BY <1>2, <3>1
  <2>2. CASE op \notin OneChar
    <3>1. \A o \in Beginning(t) : L(o) = 1 \/ L(o) = 2
      BY <1>2
    <3> QED
      BY <1>2, <2>2, <3>1
  <2> QED
    BY <2>1, <2>2
<1>4. ASSUME NEW o \in Beginning(t), L(op) <= L(o)
      PROVE  o = op
  <2>1. L(o) = L(op)
    BY <1>2, <1>3, <1>4
  <2>2. o \in OneChar <=> op \in OneChar
    BY <1>2, <2>1
  <2>3. /\ FirstChar[o] = FirstChar[op]
        /\ o # "All" /\ op # "All"
    BY <1>1, BeginningIs
  <2> QED
    BY <1>1, <2>2, <2>3 DEF Operator, OneChar, FirstChar
<1>5. \A o \in Beginning(t) : (\A p \in Beginning(t) : L(p) <= L(o)) => o = op
  BY <1>4
<1> QED
  BY <1>3, <1>5 DEF Longest

(* The text of an operator and a value: it is read as that operator and    *)
(* that value, unless the value begins with what makes another operator.   *)
LEMMA OperatorRead ==
  ASSUME NEW op \in Operator \ {"All"}, NEW v \in Seq(Nat), v # << >>,
         op \in OneChar => v[1] # 61
  PROVE  LET s == operatorToString[op]
             t == s \o v
         IN  /\ t \in Seq(Nat) /\ t # <<Star>> /\ op \in Beginning(t)
             /\ Longest(Beginning(t)) = op
             /\ substr(t, Len(s) + 1) = v
<1> DEFINE s == operatorToString[op]
           t == s \o v
<1>1. /\ s \in Seq(Nat)
      /\ Len(s) = IF op \in OneChar THEN 1 ELSE 2
      /\ s[1] = FirstChar[op]
      /\ op \notin OneChar => s[2] = 61
  <2>1. Byte \subseteq Nat
    BY DEF Byte
  <2> QED
    BY <2>1, OperatorTexts, SeqMonotonic
<1> HIDE DEF s
<1>2. /\ t \in Seq(Nat) /\ Len(t) = Len(s) + Len(v)
      /\ \A i \in 1..(Len(s) + Len(v)) :
           t[i] = IF i <= Len(s) THEN s[i] ELSE v[i - Len(s)]
  <2>1. s \in Seq(Nat)
    BY <1>1
  <2>2. v \in Seq(Nat)
    OBVIOUS
  <2> QED
    BY ONLY <2>1, <2>2, ConcatProperties
<1>3. substr(t, Len(s) + 1) = v
  <2>1. s \in Seq(Nat)
    BY <1>1
  <2>2. v \in Seq(Nat)
    OBVIOUS
  <2> QED
    BY ONLY <2>1, <2>2, PartsOfConcat
<1>4. Len(v) \in Nat /\ Len(v) >= 1
  <2>1. Len(v) \in Nat \ {0}
    BY EmptySeq
  <2> QED
    BY <2>1
<1> HIDE DEF t
<1>5. Len(t) >= 2 /\ t[1] = FirstChar[op]
  <2>1. Len(s) \in Nat /\ Len(s) >= 1
    BY ONLY <1>1
  <2>2. 1 \in 1..(Len(s) + Len(v)) /\ 1 <= Len(s) /\ Len(s) + Len(v) >= 2
    BY ONLY <1>4, <2>1
  <2> QED
    BY ONLY <1>1, <1>2, <2>2
<1>6. IF op \in OneChar THEN t[2] # 61 ELSE t[2] = 61
  <2>1. CASE op \in OneChar
    <3>1. t[2] = v[2 - 1]
      BY <1>1, <1>2, <1>4, <2>1
    <3>2. t[2] = v[1]
      BY <3>1
    <3> QED
      BY <2>1, <3>2
  <2>2. CASE op \notin OneChar
    BY <1>1, <1>2, <1>4, <2>2
  <2> QED
    BY <2>1, <2>2
<1>7. t # <<Star>>
  <2>1. \A c \in Seq(Nat) : c = <<Star>> => Len(c) = 1
    OBVIOUS
  <2>2. t \in Seq(Nat) /\ Len(t) # 1
    BY <1>5, <1>2
  <2> QED
    BY ONLY <2>1, <2>2
<1>8. op \in Beginning(t)
  <2>1. /\ op \in Operator /\ op # "All" /\ Len(t) >= 1
        /\ op \notin OneChar => Len(t) >= 2 /\ t[2] = 61
    BY <1>2, <1>4, <1>5, <1>6
  <2>2. t \in Seq(Nat)
    BY <1>2
  <2> QED
    BY ONLY <1>5, <2>1, <2>2, BeginningIs
<1>9. Longest(Beginning(t)) = op
  BY <1>2, <1>6, <1>8, LongestIs
<1> QED
  BY <1>2, <1>3, <1>7, <1>8, <1>9 DEF t, s

Misread(op) == IF op = "GreaterThan" THEN "NotLessThan" ELSE "NotGreaterThan"

(* What String() makes of an operator with a "=" behind it that belongs to *)
(* the value.                                                              *)
LEMMA OperatorMisread ==
  ASSUME NEW op \in {"GreaterThan", "LessThan"}, NEW v \in Seq(Nat), v # << >>,
         v[1] = 61
  PROVE  LET t == operatorToString[op] \o v
         IN  /\ t \in Seq(Nat) /\ t # <<Star>> /\ Misread(op) \in Beginning(t)
             /\ Longest(Beginning(t)) = Misread(op)
             /\ substr(t, Len(operatorToString[Misread(op)]) + 1) = Tail(v)
<1> DEFINE s == operatorToString[op]
           t == s \o v
           q == Misread(op)
<1>1. op \in Operator /\ op \in OneChar /\ q \in Operator /\ q \notin OneChar
  BY DEF Operator, OneChar, Misread
<1>2. FirstChar[q] = FirstChar[op] /\ q # "All"
  BY DEF Misread, FirstChar
<1>3. /\ s \in Seq(Nat) /\ Len(s) = 1 /\ s[1] = FirstChar[op]
      /\ Len(operatorToString[q]) = 2
  <2>1. Byte \subseteq Nat
    BY DEF Byte
  <2>2. s \in Seq(Byte) /\ Len(s) = 1 /\ s[1] = FirstChar[op]
    BY <1>1, OperatorTexts
  <2>3. Len(operatorToString[q]) = 2
    BY <1>1, OperatorTexts
  <2> QED
    BY <2>1, <2>2, <2>3, SeqMonotonic
<1> HIDE DEF s, q
<1>4. /\ t \in Seq(Nat) /\ Len(t) = Len(s) + Len(v)
      /\ \A i \in 1..(Len(s) + Len(v)) :
           t[i] = IF i <= Len(s) THEN s[i] ELSE v[i - Len(s)]
  <2>1. s \in Seq(Nat)
    BY <1>3
  <2>2. v \in Seq(Nat)
    OBVIOUS
  <2> QED
    BY ONLY <2>1, <2>2, ConcatProperties
<1>5. Len(v) \in Nat /\ Len(v) >= 1
  <2>1. Len(v) \in Nat \ {0}
    BY EmptySeq
  <2> QED
    BY <2>1
<1> HIDE DEF t
<1>6. Len(t) >= 2 /\ t[1] = FirstChar[op] /\ Len(t) = 1 + Len(v)
  BY <1>3, <1>4, <1>5
<1>7. \A i \in 1..Len(v) : t[1 + i] = v[i]
  <2> SUFFICES ASSUME NEW i \in 1..Len(v)
               PROVE  t[1 + i] = v[i]
    OBVIOUS
  <2>1. 1 + i \in 1..(Len(s) + Len(v)) /\ ~(1 + i <= Len(s)) /\ (1 + i) - Len(s) = i
    BY <1>3, <1>5
  <2> QED
    BY <1>4, <2>1
<1>8. t[2] = 61
  <2>1. t[1 + 1] = v[1]
    BY <1>5, <1>7
  <2> QED
    BY <2>1
<1>9. t # <<Star>>
  <2>1. \A c \in Seq(Nat) : c = <<Star>> => Len(c) = 1
    OBVIOUS
  <2>2. t \in Seq(Nat) /\ Len(t) # 1
    BY <1>6, <1>4
  <2> QED
    BY ONLY <2>1, <2>2
<1>10. q \in Beginning(t)
  <2>1. t \in Seq(Nat) /\ Len(t) >= 1
    BY <1>4, <1>5, <1>6
  <2> QED
    BY ONLY <1>1, <1>2, <1>6, <1>8, <2>1, BeginningIs
<1>11. Longest(Beginning(t)) = q
  BY <1>1, <1>4, <1>10, LongestIs
<1>12. substr(t, 3) = Tail(v)
  <2>1. /\ Tail(v) \in Seq(Nat) /\ Len(Tail(v)) = Len(v) - 1
        /\ \A i \in 1..Len(Tail(v)) : Tail(v)[i] = v[i + 1]
    BY HeadTailProperties
  <2>2. \A i \in 3..Len(t) : t[i] \in Nat
    <3>1. \A i \in 3..Len(t) : i \in 1..Len(t)
      OBVIOUS
    <3> QED
      BY <1>4, <3>1, ElementOfSeq
  <2>3. Len(t) \in Int
    BY <1>5, <1>6
  <2>4. /\ SubSeq(t, 3, Len(t)) \in Seq(Nat)
        /\ Len(SubSeq(t, 3, Len(t))) = IF 3 <= Len(t) THEN Len(t) - 3 + 1 ELSE 0
        /\ \A i \in 1..(Len(t) - 3 + 1) : SubSeq(t, 3, Len(t))[i] = t[3 + i - 1]
    BY <2>2, <2>3, SubSeqProperties
  <2> DEFINE u == SubSeq(t, 3, Len(t))
  <2> HIDE DEF u
  <2>5. Len(u) = Len(Tail(v))
    BY <1>5, <1>6, <2>1, <2>4 DEF u
  <2>6. ASSUME NEW i \in 1..Len(u)
        PROVE  u[i] = Tail(v)[i]
    <3>1. i \in 1..(Len(t) - 3 + 1) /\ 3 + i - 1 = 1 + (i + 1) /\ i + 1 \in 1..Len(v)
      BY <1>5, <1>6, <2>1, <2>5
    <3>2. u[i] = t[1 + (i + 1)]
      BY <2>4, <3>1 DEF u
    <3> QED
      BY <1>7, <2>1, <2>5, <3>1, <3>2
  <2>7. u \in Seq(Nat)
    BY <2>4 DEF u
  <2>8. u = Tail(v)
    BY <2>1, <2>5, <2>6, <2>7, SeqEqual
  <2> QED
    BY <2>8 DEF u, substr
<1>13. substr(t, Len(operatorToString[q]) + 1) = Tail(v)
  BY <1>3, <1>12
<1> QED
  BY <1>4, <1>9, <1>10, <1>11, <1>13 DEF t, s, q

(* The values that a message can carry in a pattern.                       *)
Carried(p) ==
  /\ p \in PatternElem
  /\ p.elem_type = ELEM_STRING => p.value \in String
  /\ p.elem_type = ELEM_FLOAT => p.value \in Double

(* The fields of a pattern element and their types.                        *)
LEMMA PatternElemParts ==
  ASSUME NEW p \in PatternElem
  PROVE  /\ p = [elem_type |-> p.elem_type, op |-> p.op, value |-> p.value]
         /\ p.elem_type \in ElemType /\ p.op \in Operator
         /\ p.op = "All" => p.value = Anything(p.elem_type)
         /\ p.elem_type = ELEM_INT => p.value \in CInt
         /\ p.elem_type = ELEM_FLOAT => p.value \in Int
         /\ p.elem_type = ELEM_STRING =>
              /\ p.value \in Seq(Nat)
              /\ p.op # "All" => p.value # << >> /\ p.value[1] # Blank
<1>1. CASE p \in {q \in [elem_type : {ELEM_STRING}, op : Operator, value : Seq(Nat)] :
                    IF q.op = "All" THEN q.value = << >>
                    ELSE q.value # << >> /\ q.value[1] # Blank}
  BY <1>1 DEF ELEM_INT, ELEM_FLOAT, ELEM_STRING, ElemType, Anything
<1>2. CASE p \in {q \in [elem_type : {ELEM_INT}, op : Operator, value : CInt] :
                    q.op = "All" => q.value = 0}
  BY <1>2 DEF ELEM_INT, ELEM_FLOAT, ELEM_STRING, ElemType, Anything
<1>3. CASE p \in {q \in [elem_type : {ELEM_FLOAT}, op : Operator, value : Int] :
                    q.op = "All" => q.value = 0}
  BY <1>3 DEF ELEM_INT, ELEM_FLOAT, ELEM_STRING, ElemType, Anything
<1> QED
  BY <1>1, <1>2, <1>3 DEF PatternElem

(* The value of a pattern as text, and what is read from it.               *)
LEMMA ValueRoundTrip ==
  ASSUME NEW p, Carried(p), p.op # "All"
  PROVE  LET text == ValueText(p.elem_type, p.value)
         IN  /\ text \in Seq(Byte) /\ text # << >> /\ Len(text) < TextLimit
             /\ p.elem_type # ELEM_STRING => text[1] # 61
             /\ p.elem_type = ELEM_STRING => text = p.value
             /\ \E w : /\ ValueOf(p.elem_type, text) = {w}
                       /\ p.elem_type # ELEM_FLOAT \/ p.value % 10 = 0 => w = p.value
                       /\ p.elem_type = ELEM_FLOAT => w \in Int /\ Abs(w - p.value) <= 5
<1>1. /\ p.elem_type \in ElemType
      /\ p.elem_type = ELEM_INT => p.value \in CInt
      /\ p.elem_type = ELEM_FLOAT => p.value \in Double
      /\ p.elem_type = ELEM_STRING =>
           p.value \in String /\ p.value # << >> /\ p.value[1] # Blank
  BY PatternElemParts DEF Carried
<1>2. \A c \in Digits \cup {Minus} : c # 61
  BY DEF Digits, Minus
<1> DEFINE text == ValueText(p.elem_type, p.value)
<1>3. CASE p.elem_type = ELEM_INT
  <2>1. text = IntText(p.value) /\ ValueOf(p.elem_type, text) = stoi(text)
    BY <1>3 DEF ValueText, ValueOf, ELEM_INT, ELEM_FLOAT, ELEM_STRING
  <2>2. /\ IntText(p.value) \in Seq(Byte) /\ IntText(p.value) # << >>
        /\ Len(IntText(p.value)) <= 11
        /\ IntText(p.value)[1] \in Digits \cup {Minus}
        /\ stoi(IntText(p.value)) = {p.value}
    BY <1>1, <1>3, IntRoundTrip
  <2>3. Len(text) < TextLimit
    <3>1. Len(text) \in Nat /\ Len(text) <= 11
      BY <2>1, <2>2, LenProperties
    <3> QED
      BY ONLY <3>1 DEF TextLimit
  <2>4. p.elem_type # ELEM_FLOAT /\ p.elem_type # ELEM_STRING
    BY <1>3 DEF ELEM_INT, ELEM_FLOAT, ELEM_STRING
  <2> QED
    BY <1>2, <2>1, <2>2, <2>3, <2>4, Zenon
<1>4. CASE p.elem_type = ELEM_FLOAT
  <2>1. text = DoubleText(p.value) /\ ValueOf(p.elem_type, text) = stod(text)
    BY <1>4 DEF ValueText, ValueOf, ELEM_INT, ELEM_FLOAT, ELEM_STRING
  <2>2. /\ DoubleText(p.value) \in Seq(Byte) /\ DoubleText(p.value) # << >>
        /\ Len(DoubleText(p.value)) <= 18
        /\ DoubleText(p.value)[1] \in Digits \cup {Minus}
        /\ \E v \in Int : /\ stod(DoubleText(p.value)) = {v}
                          /\ Abs(v - p.value) <= 5
                          /\ p.value % 10 = 0 => v = p.value
    BY <1>1, <1>4, DoubleRoundTrip
  <2>3. Len(text) < TextLimit
    <3>1. Len(text) \in Nat /\ Len(text) <= 18
      BY <2>1, <2>2, LenProperties
    <3> QED
      BY ONLY <3>1 DEF TextLimit
  <2>4. p.elem_type # ELEM_STRING
    BY <1>4 DEF ELEM_INT, ELEM_FLOAT, ELEM_STRING
  <2> QED
    BY <1>2, <1>4, <2>1, <2>2, <2>3, <2>4, Zenon
<1>5. CASE p.elem_type = ELEM_STRING
  <2>1. text = p.value /\ ValueOf(p.elem_type, text) = {Trimmed(text)} \ {<< >>}
    BY <1>5 DEF ValueText, ValueOf, ELEM_INT, ELEM_FLOAT, ELEM_STRING
  <2>2. p.value \in Seq(Byte) /\ Len(p.value) < TextLimit
    BY <1>1, <1>5 DEF String
  <2>3. Trimmed(p.value) = p.value
    BY <1>1, <1>5, <2>2, TrimmedProperties
  <2>4. p.elem_type # ELEM_FLOAT
    BY <1>5 DEF ELEM_INT, ELEM_FLOAT, ELEM_STRING
  <2>5. ValueOf(p.elem_type, text) = {p.value}
    BY <1>1, <1>5, <2>1, <2>3
  <2> QED
    BY <1>1, <1>5, <2>1, <2>2, <2>4, <2>5, Zenon
<1> QED
  BY <1>1, <1>3, <1>4, <1>5 DEF ElemType

(* The value of a text pattern begins with what makes a longer operator of *)
(* the one in front of it.                                                 *)
Misreadable(p) ==
  /\ p.elem_type = ELEM_STRING
  /\ p.op \in {"GreaterThan", "LessThan"}
  /\ p.value[1] = 61

(* A pattern that is written and read: it is the same, except for a double *)
(* with more than six decimals and for a value that makes another operator.*)
LEMMA PatternRoundTrip ==
  ASSUME NEW p, Carried(p)
  PROVE  LET text == PatternString(p)
         IN  /\ text \in Seq(Byte) /\ Len(text) < TextLimit + 2
             /\ ~Misreadable(p) =>
                  \E w : /\ Construct(p.elem_type, text)
                              = {[elem_type |-> p.elem_type, op |-> p.op, value |-> w]}
                         /\ p.elem_type # ELEM_FLOAT \/ p.value % 10 = 0 => w = p.value
                         /\ p.elem_type = ELEM_FLOAT => Abs(w - p.value) <= 5
             /\ Misreadable(p) =>
                  \A q \in Construct(p.elem_type, text) :
                    /\ q.op \in {"NotLessThan", "NotGreaterThan"}
                    /\ q.value = Trimmed(Tail(p.value))
<1> DEFINE text == PatternString(p)
           s == operatorToString[p.op]
<1>1. p \in PatternElem /\ p.op \in Operator /\ p.elem_type \in ElemType
  BY PatternElemParts DEF Carried
<1>2. s \in Seq(Byte) /\ Len(s) \in Nat /\ Len(s) <= 2
  <2>1. s \in Seq(Byte) /\ Len(s) = IF p.op \in OneChar THEN 1 ELSE 2
    BY <1>1, OperatorTexts
  <2> QED
    BY <2>1
<1>3. CASE p.op = "All"
  <2>1. text = s
    <3>1. text = s \o << >>
      BY <1>3 DEF PatternString
    <3> QED
      BY <1>2, <3>1, ConcatEmptySeq
  <2>2. s = <<Star>>
    BY <1>3 DEF operatorToString
  <2>3. p.value = Anything(p.elem_type)
    BY <1>1, <1>3, PatternElemParts
  <2>4. Construct(p.elem_type, text)
          = {[elem_type |-> p.elem_type, op |-> p.op, value |-> p.value]}
    BY <1>3, <2>1, <2>2, <2>3 DEF Construct
  <2>5. ~Misreadable(p)
    BY <1>3 DEF Misreadable
  <2>6. p.elem_type = ELEM_FLOAT => Abs(p.value - p.value) <= 5
    <3>1. p.elem_type = ELEM_FLOAT => p.value \in Int
      BY <1>1, PatternElemParts
    <3> QED
      BY ONLY <3>1 DEF Abs
  <2>7. Len(text) < TextLimit + 2
    BY ONLY <1>2, <2>1 DEF TextLimit
  <2> QED
    BY <1>2, <2>1, <2>4, <2>5, <2>6, <2>7, Zenon
<1>4. CASE p.op # "All"
  <2> DEFINE v == ValueText(p.elem_type, p.value)
  <2>1. /\ v \in Seq(Byte) /\ v # << >> /\ Len(v) < TextLimit
        /\ p.elem_type # ELEM_STRING => v[1] # 61
        /\ p.elem_type = ELEM_STRING => v = p.value
    BY <1>4, ValueRoundTrip
  <2>2. PICK w : /\ ValueOf(p.elem_type, v) = {w}
                 /\ p.elem_type # ELEM_FLOAT \/ p.value % 10 = 0 => w = p.value
                 /\ p.elem_type = ELEM_FLOAT => w \in Int /\ Abs(w - p.value) <= 5
    BY <1>4, ValueRoundTrip
  <2>3. text = s \o v
    BY <1>4 DEF PatternString
  <2> HIDE DEF v
  <2>4. text \in Seq(Byte) /\ Len(text) < TextLimit + 2
    <3>1. s \o v \in Seq(Byte) /\ Len(s \o v) = Len(s) + Len(v)
      BY ONLY <1>2, <2>1, ConcatProperties
    <3>2. Len(v) \in Nat
      BY <2>1, LenProperties
    <3>3. Len(s) + Len(v) < TextLimit + 2
      BY ONLY <1>2, <2>1, <3>2 DEF TextLimit
    <3> QED
      BY <2>3, <3>1, <3>3
  <2>5. v \in Seq(Nat)
    <3>1. Byte \subseteq Nat
      BY DEF Byte
    <3> QED
      BY <2>1, <3>1, SeqMonotonic
  <2>6. CASE ~Misreadable(p)
    <3>1. p.op \in OneChar => v[1] # 61
      BY <1>4, <2>1, <2>6 DEF Misreadable, OneChar
    <3>2. /\ text # <<Star>> /\ p.op \in Beginning(text)
          /\ Longest(Beginning(text)) = p.op
          /\ substr(text, Len(s) + 1) = v
      BY <1>1, <1>4, <2>1, <2>3, <2>5, <3>1, OperatorRead
    <3> HIDE DEF text
    <3>3. Construct(p.elem_type, text)
            = {[elem_type |-> p.elem_type, op |-> p.op, value |-> x] :
                 x \in ValueOf(p.elem_type, v)}
      BY <3>2, Zenon DEF Construct
    <3>4. Construct(p.elem_type, text)
            = {[elem_type |-> p.elem_type, op |-> p.op, value |-> w]}
      BY <2>2, <3>3
    <3> QED
      BY <2>2, <2>4, <2>6, <3>4, Zenon DEF text
  <2>7. CASE Misreadable(p)
    <3> DEFINE q == Misread(p.op)
    <3>1. /\ p.elem_type = ELEM_STRING /\ v = p.value /\ v[1] = 61
          /\ p.op \in {"GreaterThan", "LessThan"}
      BY <2>1, <2>7 DEF Misreadable
    <3>2. /\ text # <<Star>> /\ q \in Beginning(text)
          /\ Longest(Beginning(text)) = q
          /\ substr(text, Len(operatorToString[q]) + 1) = Tail(v)
      <4>1. v # << >> /\ v[1] = 61
        BY <2>1, <3>1
      <4>2. p.op \in {"GreaterThan", "LessThan"}
        BY <3>1
      <4> QED
        BY ONLY <2>3, <2>5, <4>1, <4>2, OperatorMisread
    <3>3. q \in {"NotLessThan", "NotGreaterThan"}
      BY DEF Misread
    <3> HIDE DEF text, q
    <3>4. Construct(p.elem_type, text)
            = {[elem_type |-> p.elem_type, op |-> q, value |-> x] :
                 x \in ValueOf(p.elem_type, Tail(v))}
      BY <3>2, Zenon DEF Construct
    <3>5. ValueOf(p.elem_type, Tail(v)) = {Trimmed(Tail(v))} \ {<< >>}
      BY <3>1 DEF ValueOf, ELEM_INT, ELEM_FLOAT, ELEM_STRING
    <3>6. \A r \in Construct(p.elem_type, text) :
            r.op = q /\ r.value = Trimmed(Tail(v))
      BY <3>4, <3>5
    <3> QED
      BY <2>4, <2>7, <3>1, <3>3, <3>6, Zenon DEF text
  <2> QED
    BY <2>6, <2>7
<1> QED
  BY <1>3, <1>4

-----------------------------------------------------------------------------
(* Sizes and texts among the bytes of a message                            *)

(* A function on 1..n is a sequence.                                       *)
LEMMA FunctionIsSeq ==
  ASSUME NEW S, NEW n \in Nat, NEW f \in [1..n -> S]
  PROVE  f \in Seq(S) /\ Len(f) = n
<1>1. f = [i \in 1..n |-> f[i]]
  OBVIOUS
<1>2. f \in Seq(S)
  BY SeqDef
<1>3. DOMAIN f = 1..n /\ DOMAIN f = 1..Len(f) /\ Len(f) \in Nat
  BY <1>2, LenProperties
<1> QED
  BY <1>2, <1>3

(* The powers that sizes use, as literals.                                 *)
LEMMA PowersOf256 ==
  /\ 256^0 = 1 /\ 256^1 = 256 /\ 256^2 = 65536
  /\ TextLimit \in Nat /\ 256^3 \in Nat /\ TextLimit + 2 < 256^3
  BY SMT DEF TextLimit

(* Bytes are concatenated to bytes, in whatever order.                     *)
LEMMA BytesConcat ==
  /\ \A s, t \in Seq(Byte) :
       /\ s \o t \in Seq(Byte) /\ Len(s \o t) = Len(s) + Len(t)
       /\ Len(s) \in Nat /\ Len(t) \in Nat
  /\ \A s, t, u \in Seq(Byte) : (s \o t) \o u = s \o (t \o u)
<1>1. ASSUME NEW s \in Seq(Byte), NEW t \in Seq(Byte)
      PROVE  /\ s \o t \in Seq(Byte) /\ Len(s \o t) = Len(s) + Len(t)
             /\ Len(s) \in Nat /\ Len(t) \in Nat
  BY ConcatProperties, LenProperties
<1>2. ASSUME NEW s \in Seq(Byte), NEW t \in Seq(Byte), NEW u \in Seq(Byte)
      PROVE  (s \o t) \o u = s \o (t \o u)
  BY ConcatAssociative
<1> QED
  BY <1>1, <1>2

(* A size is read as it was written.                                       *)
LEMMA SizeRoundTrip ==
  ASSUME NEW n \in Nat, n < TextLimit + 2
  PROVE  /\ SizeBytes(n) \in Seq(Byte) /\ Len(SizeBytes(n)) = 8
         /\ SizeOf(SizeBytes(n)) = n
<1> DEFINE s == SizeBytes(n)
<1>1. /\ s[1] = n % 256 /\ s[2] = (n \div 256) % 256 /\ s[3] = (n \div 65536) % 256
      /\ \A i \in 4..8 : s[i] = 0
  <2>1. s[1] = (n \div 256^0) % 256
    BY DEF SizeBytes
  <2>2. s[2] = (n \div 256^1) % 256
    BY DEF SizeBytes
  <2>3. s[3] = (n \div 256^2) % 256
    BY DEF SizeBytes
  <2>4. \A i \in 4..8 : s[i] = 0
    BY DEF SizeBytes
  <2>5. n \div 1 = n
    OBVIOUS
  <2> HIDE DEF s
  <2>6. s[1] = n % 256
    BY ONLY <2>1, <2>5, PowersOf256
  <2>7. s[2] = (n \div 256) % 256
    BY ONLY <2>2, PowersOf256
  <2>8. s[3] = (n \div 65536) % 256
    BY ONLY <2>3, PowersOf256
  <2> QED
    BY ONLY <2>4, <2>6, <2>7, <2>8
<1>2. s \in [1..8 -> Byte]
  <2>1. \A i \in 1..8 : s[i] \in Byte
    <3>1. \A i \in 1..8 : i = 1 \/ i = 2 \/ i = 3 \/ i \in 4..8
      OBVIOUS
    <3>2. /\ n % 256 \in Byte /\ (n \div 256) % 256 \in Byte
          /\ (n \div 65536) % 256 \in Byte /\ 0 \in Byte
      BY DEF Byte
    <3> HIDE DEF s
    <3> QED
      BY ONLY <1>1, <3>1, <3>2
  <2> QED
    BY <2>1 DEF SizeBytes
<1>3. s \in Seq(Byte) /\ Len(s) = 8
  BY <1>2, FunctionIsSeq
<1>4. SizeOf(s) = n
  <2> HIDE DEF s
  <2>1. SizeOf(s) = s[1] + 256 * s[2] + 65536 * s[3]
    BY <1>1, SMT DEF SizeOf
  <2>2. n < 16777216
    BY SMT DEF TextLimit
  <2>3. n \div 65536 < 256
    BY <2>2, SMT
  <2>4. n = (n % 256) + 256 * ((n \div 256) % 256) + 65536 * ((n \div 65536) % 256)
    BY ONLY n \in Nat, <2>3, SMT
  <2> QED
    BY <1>1, <2>1, <2>4
<1> QED
  BY <1>3, <1>4

(* A text in the middle of a message is found and read as it was written.  *)
LEMMA TextRead ==
  ASSUME NEW pre \in Seq(Byte), NEW text \in Seq(Byte), NEW post \in Seq(Byte),
         Len(text) < TextLimit + 2
  PROVE  LET b  == pre \o (TextBytes(text) \o post)
             at == Len(pre) + 1
         IN  /\ b \in Seq(Byte) /\ TextBytes(text) \in Seq(Byte)
             /\ Len(TextBytes(text)) = 8 + Len(text)
             /\ HasText(b, at) /\ TextAt(b, at) = text
<1> DEFINE size == SizeBytes(Len(text))
<1>1. Len(pre) \in Nat /\ Len(text) \in Nat /\ Len(post) \in Nat
  BY LenProperties
<1>2. size \in Seq(Byte) /\ Len(size) = 8 /\ SizeOf(size) = Len(text)
  BY <1>1, SizeRoundTrip
<1>3. TextBytes(text) = size \o text
  BY DEF TextBytes
<1> HIDE DEF size
<1>4. PICK rest : rest = text \o post
  OBVIOUS
<1>5. rest \in Seq(Byte) /\ Len(rest) = Len(text) + Len(post)
  <2>1. text \in Seq(Byte) /\ post \in Seq(Byte)
    OBVIOUS
  <2> QED
    BY ONLY <2>1, <1>4, ConcatProperties
<1>6. TextBytes(text) \o post = size \o rest
  <2>1. text \in Seq(Byte)
    OBVIOUS
  <2>2. post \in Seq(Byte)
    OBVIOUS
  <2>3. size \in Seq(Byte)
    BY <1>2
  <2>4. (size \o text) \o post = size \o (text \o post)
    BY ONLY <2>1, <2>2, <2>3, BytesConcat
  <2> QED
    BY <1>3, <1>4, <2>4
<1>7. PICK b : b = pre \o (size \o rest)
  OBVIOUS
<1>8. PICK front : front = pre \o size
  OBVIOUS
<1>9. front \in Seq(Byte) /\ Len(front) = Len(pre) + 8
  <2>1. pre \in Seq(Byte)
    OBVIOUS
  <2>2. front \in Seq(Byte) /\ Len(front) = Len(pre) + Len(size)
    BY ONLY <1>2, <1>8, <2>1, ConcatProperties
  <2> QED
    BY ONLY <1>2, <2>2
<1>10. b = front \o rest
  <2>1. pre \in Seq(Byte)
    OBVIOUS
  <2>2. size \in Seq(Byte)
    BY <1>2
  <2>3. rest \in Seq(Byte)
    BY <1>5
  <2>4. (pre \o size) \o rest = pre \o (size \o rest)
    BY ONLY <2>1, <2>2, <2>3, BytesConcat
  <2> QED
    BY ONLY <1>7, <1>8, <2>4
<1>11. b \in Seq(Byte) /\ Len(b) = Len(front) + Len(rest)
  BY ONLY <1>5, <1>9, <1>10, ConcatProperties
<1>12. Len(b) = Len(pre) + 8 + Len(text) + Len(post)
  BY ONLY <1>1, <1>5, <1>9, <1>11
<1> DEFINE at == Len(pre) + 1
<1>13. SubSeq(b, at, at + 7) = size
  <2>1. pre \in Seq(Byte) /\ size \o rest \in Seq(Byte)
    BY <1>2, <1>5, ConcatProperties
  <2>2. PICK end : end = size \o rest
    OBVIOUS
  <2>3. /\ end \in Seq(Byte) /\ Len(end) = 8 + Len(rest)
    <3>1. size \in Seq(Byte) /\ rest \in Seq(Byte) /\ Len(size) = 8
      BY <1>2, <1>5
    <3>2. end \in Seq(Byte) /\ Len(end) = Len(size) + Len(rest)
      BY ONLY <2>2, <3>1, ConcatProperties
    <3> QED
      BY ONLY <3>1, <3>2
  <2>4. /\ at \in Len(pre) + 1..Len(pre) + Len(end)
        /\ at + 7 \in Len(pre) + 1..Len(pre) + Len(end)
        /\ at - Len(pre) = 1 /\ (at + 7) - Len(pre) = 8
    <3>1. Len(rest) \in Nat
      BY <1>1, <1>5
    <3> QED
      BY ONLY <1>1, <2>3, <3>1
  <2>5. SubSeq(pre \o end, at, at + 7) = SubSeq(end, at - Len(pre), (at + 7) - Len(pre))
    <3>1. pre \in Seq(Byte)
      OBVIOUS
    <3>2. end \in Seq(Byte)
      BY <2>3
    <3>3. /\ at \in Len(pre) + 1..Len(pre) + Len(end)
          /\ at + 7 \in Len(pre) + 1..Len(pre) + Len(end)
      BY ONLY <2>4
    <3>4. \A m, n \in Len(pre) + 1..Len(pre) + Len(end) :
            SubSeq(pre \o end, m, n) = SubSeq(end, m - Len(pre), n - Len(pre))
      BY ONLY <3>1, <3>2, SubSeqOfConcat2
    <3> QED
      BY ONLY <3>3, <3>4, Zenon
  <2>6. SubSeq(b, at, at + 7) = SubSeq(end, 1, 8)
    BY ONLY <1>7, <2>2, <2>4, <2>5
  <2>7. SubSeq(size \o rest, 1, Len(size)) = size
    BY <1>2, <1>5, PartsOfConcat
  <2> QED
    BY ONLY <1>2, <2>2, <2>6, <2>7
<1>14. SubSeq(b, at + 8, at + 7 + Len(text)) = text
  <2>1. at + 8 = Len(front) + 1 /\ at + 7 + Len(text) = Len(front) + Len(text)
    BY ONLY <1>1, <1>9
  <2>2. SubSeq(b, Len(front) + 1, Len(front) + Len(text)) = text
    <3>1. CASE Len(text) = 0
      <4>1. /\ text = << >> /\ Len(front) + Len(text) < Len(front) + 1
            /\ Len(front) + 1 \in Int /\ Len(front) + Len(text) \in Int
        BY <1>1, <1>9, <3>1, EmptySeq
      <4> QED
        BY ONLY <4>1, SubSeqEmpty
    <3>2. CASE Len(text) # 0
      <4>1. /\ Len(front) + 1 \in Len(front) + 1..Len(front) + Len(rest)
            /\ Len(front) + Len(text) \in Len(front) + 1..Len(front) + Len(rest)
            /\ Len(front) + 1 - Len(front) = 1
            /\ Len(front) + Len(text) - Len(front) = Len(text)
        BY <1>1, <1>5, <1>9, <3>2
      <4>2. SubSeq(front \o rest, Len(front) + 1, Len(front) + Len(text))
              = SubSeq(rest, Len(front) + 1 - Len(front), Len(front) + Len(text) - Len(front))
        <5>1. front \in Seq(Byte)
          BY <1>9
        <5>2. rest \in Seq(Byte)
          BY <1>5
        <5>3. /\ Len(front) + 1 \in Len(front) + 1..Len(front) + Len(rest)
              /\ Len(front) + Len(text) \in Len(front) + 1..Len(front) + Len(rest)
          BY ONLY <4>1
        <5> QED
          BY ONLY <5>1, <5>2, <5>3, SubSeqOfConcat2
      <4>3. SubSeq(text \o post, 1, Len(text)) = text
        BY PartsOfConcat
      <4> QED
        BY ONLY <1>4, <1>10, <4>1, <4>2, <4>3
    <3> QED
      BY <3>1, <3>2
  <2> QED
    BY ONLY <2>1, <2>2
<1>15. HasText(b, at) /\ TextAt(b, at) = text
  <2>1. SizeOf(SubSeq(b, at, at + 7)) = Len(text)
    BY ONLY <1>2, <1>13
  <2>2. Len(b) >= at + 7 /\ Len(b) >= at + 7 + Len(text)
    BY ONLY <1>1, <1>12
  <2> HIDE DEF at
  <2> QED
    BY ONLY <1>14, <2>1, <2>2 DEF HasText, TextAt
<1>16. TextBytes(text) \in Seq(Byte) /\ Len(TextBytes(text)) = 8 + Len(text)
  <2>1. text \in Seq(Byte)
    OBVIOUS
  <2>2. size \in Seq(Byte)
    BY <1>2
  <2>3. size \o text \in Seq(Byte) /\ Len(size \o text) = Len(size) + Len(text)
    BY ONLY <2>1, <2>2, BytesConcat
  <2> QED
    BY ONLY <1>2, <1>3, <2>3
<1>17. b = pre \o (TextBytes(text) \o post)
  BY ONLY <1>6, <1>7
<1> QED
  BY ONLY <1>11, <1>15, <1>16, <1>17

(* A message begins with its type, and so do its bytes: nothing in front   *)
(* is skipped.                                                             *)
LEMMA BeginsWithType ==
  ASSUME NEW b \in Seq(Byte), b # << >>, b[1] \in MsgType
  PROVE  findFirstMsgType(b) = 1 /\ substr(b, 1) = b
<1>1. Len(b) \in Nat \ {0}
  BY EmptySeq
<1>2. /\ findFirstMsgType(b) \in (1..Len(b)) \cup {npos}
      /\ \A j \in 1..Len(b) : b[j] \in MsgType =>
           findFirstMsgType(b) # npos /\ findFirstMsgType(b) <= j
  BY <1>1, findProperties DEF findFirstMsgType
<1>3. findFirstMsgType(b) # npos /\ findFirstMsgType(b) <= 1
  BY <1>1, <1>2
<1>4. findFirstMsgType(b) = 1
  BY <1>1, <1>2, <1>3 DEF npos
<1>5. substr(b, 1) = b
  BY SubSeqFull DEF substr
<1> QED
  BY <1>4, <1>5

(* The first two bytes of a message, and what is behind them.              *)
TwoBefore(b, x, y, t) ==
  /\ b \in Seq(Byte) /\ Len(b) = 2 + Len(t) /\ Len(t) \in Nat
  /\ b # << >> /\ b[1] = x /\ b[2] = y
  /\ \A n \in 1..Len(t) : n = Len(t) => SubSeq(b, 3, 2 + n) = t
  /\ \E pre \in Seq(Byte) : Len(pre) = 2 /\ b = pre \o t

(* The first two bytes of a message, and what is behind them.              *)
LEMMA TwoAndRest ==
  ASSUME NEW x \in Byte, NEW y \in Byte, NEW t \in Seq(Byte),
         NEW b, b = <<x>> \o (<<y>> \o t)
  PROVE  TwoBefore(b, x, y, t)
<1>1. PICK pre \in Seq(Byte) : pre = <<x, y>> /\ Len(pre) = 2 /\ pre[1] = x /\ pre[2] = y
  <2>1. <<x, y>> \in Seq(Byte)
    OBVIOUS
  <2> QED
    BY <2>1
<1>2. PICK one \in Seq(Byte), two \in Seq(Byte) :
        /\ one = <<x>> /\ two = <<y>> /\ Len(one) = 1 /\ Len(two) = 1
        /\ one[1] = x /\ two[1] = y
  <2>1. <<x>> \in Seq(Byte) /\ <<y>> \in Seq(Byte)
    OBVIOUS
  <2> QED
    BY <2>1
<1>3. pre = one \o two
  <2>1. pre \in Seq(Byte) /\ one \in Seq(Byte) /\ two \in Seq(Byte)
    BY <1>1, <1>2
  <2>2. /\ one \o two \in Seq(Byte) /\ Len(one \o two) = Len(one) + Len(two)
        /\ \A i \in 1..Len(one) + Len(two) :
             (one \o two)[i] = IF i <= Len(one) THEN one[i] ELSE two[i - Len(one)]
    BY ONLY <2>1, ConcatProperties
  <2> DEFINE c == one \o two
  <2> HIDE DEF c
  <2>3. c \in Seq(Byte) /\ Len(c) = 2
    BY <1>2, <2>2 DEF c
  <2>4. c[1] = x /\ c[2] = y
    BY <1>2, <2>2 DEF c
  <2>5. \A i \in 1..Len(pre) : pre[i] = c[i]
    BY <1>1, <2>4
  <2>6. Len(pre) = Len(c)
    BY <1>1, <2>3
  <2>7. pre = c
    BY ONLY <2>1, <2>3, <2>5, <2>6, SeqEqual
  <2> QED
    BY <2>7 DEF c
<1>4. b = <<x>> \o (<<y>> \o t)
  OBVIOUS
<1>5. b = pre \o t
  <2>1. one \in Seq(Byte) /\ two \in Seq(Byte) /\ t \in Seq(Byte)
    BY <1>2
  <2>2. (one \o two) \o t = one \o (two \o t)
    BY ONLY <2>1, BytesConcat
  <2> QED
    BY ONLY <1>2, <1>3, <1>4, <2>2, Zenon
<1>6. /\ b \in Seq(Byte) /\ Len(b) = Len(pre) + Len(t)
      /\ \A i \in 1..Len(pre) + Len(t) :
           b[i] = IF i <= Len(pre) THEN pre[i] ELSE t[i - Len(pre)]
      /\ Len(t) \in Nat
  <2>1. pre \in Seq(Byte) /\ t \in Seq(Byte)
    BY <1>1
  <2> QED
    BY ONLY <1>5, <2>1, ConcatProperties, LenProperties
<1>7. Len(b) = 2 + Len(t) /\ b[1] = x /\ b[2] = y
  <2>1. /\ 1 \in 1..Len(pre) + Len(t) /\ 2 \in 1..Len(pre) + Len(t)
        /\ 1 <= Len(pre) /\ 2 <= Len(pre)
    BY <1>1, <1>6
  <2> QED
    BY ONLY <1>1, <1>6, <2>1
<1>8. \A n \in 1..Len(t) : n = Len(t) => SubSeq(b, 3, 2 + n) = t
  <2>1. SubSeq(pre \o t, Len(pre) + 1, Len(pre) + Len(t)) = t
    BY PartsOfConcat
  <2>2. Len(pre) + 1 = 3 /\ Len(pre) + Len(t) = 2 + Len(t)
    BY ONLY <1>1
  <2> QED
    BY ONLY <1>5, <2>1, <2>2
<1>9. b # << >>
  <2>1. Len(b) # 0
    BY ONLY <1>6, <1>7
  <2> QED
    BY <2>1
<1> QED
  BY ONLY <1>1, <1>5, <1>6, <1>7, <1>8, <1>9 DEF TwoBefore

-----------------------------------------------------------------------------
(* A message of each kind, written and read.                               *)

(* The type of a message and of an element, and a flag, are bytes, and a   *)
(* flag is read as it was written.                                         *)
LEMMA TypesDiffer ==
  /\ MsgType \subseteq Byte /\ {ELEM_INT, ELEM_FLOAT, ELEM_STRING} \subseteq Byte
  /\ \A b \in BOOLEAN : \E y \in Byte : Flag(b) = <<y>> /\ BoolOf(y) = {b}
<1>1. ASSUME NEW b \in BOOLEAN
      PROVE  \E y \in Byte : Flag(b) = <<y>> /\ BoolOf(y) = {b}
  <2>1. CASE b = TRUE
    <3>1. 1 \in Byte /\ Flag(b) = <<1>>
      BY <2>1 DEF Byte, Flag
    <3>2. BoolOf(1) = {1 = 1}
      BY DEF BoolOf
    <3>3. BoolOf(1) = {b}
      BY <2>1, <3>2, Zenon
    <3> QED
      BY <3>1, <3>3
  <2>2. CASE b = FALSE
    <3>1. 0 \in Byte /\ Flag(b) = <<0>> /\ BoolOf(0) = {b}
      BY <2>2 DEF Byte, Flag, BoolOf
    <3> QED
      BY <3>1
  <2> QED
    BY <2>1, <2>2
<1>2. /\ MsgType \subseteq Byte /\ {ELEM_INT, ELEM_FLOAT, ELEM_STRING} \subseteq Byte
  BY DEF MsgType, Byte, ELEM_INT, ELEM_FLOAT, ELEM_STRING, TYPE_CONNECTION_MSG,
         TYPE_OPERATION_MSG, TYPE_TUPLE_ELEM, TYPE_SERVER_CONN_RESPONSE,
         TYPE_TUPLE_PATTERN_ELEM
<1> QED
  BY <1>1, <1>2

(* What serialize writes for a message of each type.                       *)
LEMMA SerializeIs ==
  ASSUME NEW m
  PROVE  /\ m.type = TYPE_CONNECTION_MSG => serialize(m) = <<m.type>> \o Flag(m.connect)
         /\ m.type = TYPE_SERVER_CONN_RESPONSE =>
              serialize(m) = <<m.type>> \o (Flag(m.connected) \o TextBytes(m.fifo_write)
                                             \o TextBytes(m.fifo_read))
         /\ m.type = TYPE_OPERATION_MSG =>
              serialize(m) = <<m.type>> \o (<<m.op_type>> \o m.tuple_size)
         /\ m.type = TYPE_TUPLE_ELEM =>
              serialize(m) = <<m.type>> \o (<<m.elem_type>> \o
                IF m.elem_type = ELEM_STRING THEN TextBytes(m.elem) ELSE m.elem)
         /\ m.type = TYPE_TUPLE_PATTERN_ELEM =>
              serialize(m) = <<m.type>> \o (<<m.pattern.elem_type>> \o
                                             TextBytes(PatternString(m.pattern)))
<1> USE DEF TYPE_CONNECTION_MSG, TYPE_OPERATION_MSG, TYPE_SERVER_CONN_RESPONSE,
            TYPE_TUPLE_ELEM, TYPE_TUPLE_PATTERN_ELEM
<1>1. CASE m.type = TYPE_CONNECTION_MSG
  BY <1>1 DEF serialize
<1>2. CASE m.type = TYPE_SERVER_CONN_RESPONSE
  BY <1>2 DEF serialize
<1>3. CASE m.type = TYPE_OPERATION_MSG
  BY <1>3 DEF serialize
<1>4. CASE m.type = TYPE_TUPLE_ELEM
  BY <1>4 DEF serialize
<1>5. CASE m.type = TYPE_TUPLE_PATTERN_ELEM
  BY <1>5 DEF serialize
<1> QED
  BY <1>1, <1>2, <1>3, <1>4, <1>5

(* The bytes of a type, another byte and the rest: what deserialize does.  *)
LEMMA DeserializeIs ==
  ASSUME NEW x \in MsgType, NEW y \in Byte, NEW t \in Seq(Byte),
         NEW b, b = <<x>> \o (<<y>> \o t)
  PROVE  /\ x = TYPE_CONNECTION_MSG => deserialize(b) = deserializeConnection(b)
         /\ x = TYPE_SERVER_CONN_RESPONSE => deserialize(b) = deserializeResponse(b)
         /\ x = TYPE_OPERATION_MSG => deserialize(b) = deserializeOperation(b)
         /\ x = TYPE_TUPLE_ELEM => deserialize(b) = deserializeElem(b)
         /\ x = TYPE_TUPLE_PATTERN_ELEM => deserialize(b) = deserializePattern(b)
<1>1. x \in Byte
  BY TypesDiffer
<1>2. b \in Seq(Byte) /\ b # << >> /\ b[1] = x
  <2>1. TwoBefore(b, x, y, t)
    BY <1>1, TwoAndRest
  <2> QED
    BY <2>1 DEF TwoBefore
<1>3. findFirstMsgType(b) = 1 /\ substr(b, 1) = b
  BY <1>2, BeginsWithType
<1>4. substr(b, findFirstMsgType(b)) = b /\ findFirstMsgType(b) # npos
  <2>1. findFirstMsgType(b) # npos
    BY ONLY <1>3 DEF npos
  <2> QED
    BY ONLY <1>3, <2>1, Zenon
<1>5. deserialize(b) =
               CASE x = TYPE_CONNECTION_MSG       -> deserializeConnection(b)
                 [] x = TYPE_SERVER_CONN_RESPONSE -> deserializeResponse(b)
                 [] x = TYPE_OPERATION_MSG        -> deserializeOperation(b)
                 [] x = TYPE_TUPLE_ELEM           -> deserializeElem(b)
                 [] x = TYPE_TUPLE_PATTERN_ELEM   -> deserializePattern(b)
  BY ONLY <1>2, <1>4 DEF deserialize
<1> QED
  BY ONLY <1>5 DEF TYPE_CONNECTION_MSG, TYPE_OPERATION_MSG, TYPE_SERVER_CONN_RESPONSE,
                   TYPE_TUPLE_ELEM, TYPE_TUPLE_PATTERN_ELEM

(* A ConnectionMessage is read as it was written, and nothing else is      *)
(* read.                                                                   *)
LEMMA ConnectionRead ==
  ASSUME NEW c \in BOOLEAN
  PROVE  LET m == ConnectionMessage(c)
         IN  /\ serialize(m) \in Seq(Byte)
             /\ deserialize(serialize(m)) = {m}
<1> DEFINE m == ConnectionMessage(c)
           x == TYPE_CONNECTION_MSG
<1>1. PICK y \in Byte : Flag(c) = <<y>> /\ BoolOf(y) = {c}
  BY TypesDiffer
<1>2. PICK t \in Seq(Byte) : t = << >> /\ Len(t) = 0
  <2>1. << >> \in Seq(Byte) /\ Len(<< >>) = 0
    BY EmptySeq
  <2> QED
    BY <2>1
<1>3. x \in MsgType /\ x \in Byte
  BY TypesDiffer DEF MsgType
<1>4. PICK b : b = <<x>> \o (<<y>> \o t)
  OBVIOUS
<1>5. b = serialize(m)
  <2>1. serialize(m) = <<x>> \o <<y>>
    <3>1. m.type = x /\ m.connect = c
      BY DEF ConnectionMessage
    <3> HIDE DEF m
    <3> QED
      BY <1>1, <3>1, SerializeIs
  <2>2. <<y>> \in Seq(Byte)
    OBVIOUS
  <2>3. <<y>> \o t = <<y>>
    BY <1>2, <2>2, ConcatEmptySeq
  <2> QED
    BY <1>4, <2>1, <2>3
<1>6. b \in Seq(Byte) /\ Len(b) = 2 + Len(t) /\ b[2] = y
  <2>1. TwoBefore(b, x, y, t)
    BY <1>3, <1>4, TwoAndRest
  <2> QED
    BY <2>1 DEF TwoBefore
<1>7. deserialize(b) = deserializeConnection(b)
  BY <1>3, <1>4, DeserializeIs
<1>8. deserializeConnection(b) = {ConnectionMessage(d) : d \in BoolOf(y)}
  <2>1. ~(Len(b) < 2)
    BY <1>2, <1>6
  <2> QED
    BY <1>6, <2>1 DEF deserializeConnection
<1>9. deserialize(b) = {m}
  BY <1>1, <1>7, <1>8
<1> QED
  BY <1>5, <1>6, <1>9

(* The same for an OperationMessage.                                       *)
LEMMA OperationRead ==
  ASSUME NEW op \in Byte, NEW size \in [1..4 -> Byte]
  PROVE  LET m == OperationMessage(op, size)
         IN  /\ serialize(m) \in Seq(Byte)
             /\ deserialize(serialize(m)) = {m}
<1> DEFINE m == OperationMessage(op, size)
           x == TYPE_OPERATION_MSG
<1>1. size \in Seq(Byte) /\ Len(size) = 4
  BY FunctionIsSeq
<1>2. x \in MsgType /\ x \in Byte
  BY TypesDiffer DEF MsgType
<1>3. PICK b : b = <<x>> \o (<<op>> \o size)
  OBVIOUS
<1>4. b = serialize(m)
  <2>1. m.type = x /\ m.op_type = op /\ m.tuple_size = size
    BY DEF OperationMessage
  <2> HIDE DEF m
  <2> QED
    BY <1>3, <2>1, SerializeIs
<1>5. /\ b \in Seq(Byte) /\ Len(b) = 2 + Len(size) /\ b[2] = op
      /\ \A n \in 1..Len(size) : n = Len(size) => SubSeq(b, 3, 2 + n) = size
  <2>1. op \in Byte
    OBVIOUS
  <2>2. TwoBefore(b, x, op, size)
    BY ONLY <1>1, <1>2, <1>3, <2>1, TwoAndRest
  <2> QED
    BY ONLY <2>2 DEF TwoBefore
<1>6. ~(Len(b) < 6) /\ SubSeq(b, 3, 6) = size
  BY <1>1, <1>5
<1>7. deserialize(b) = deserializeOperation(b)
  BY <1>1, <1>2, <1>3, DeserializeIs
<1>8. deserializeOperation(b) = {m}
  BY <1>5, <1>6 DEF deserializeOperation
<1> QED
  BY <1>4, <1>5, <1>7, <1>8

(* A number and a double: four and eight bytes that are copied.            *)
LEMMA NumberRead ==
  ASSUME NEW type \in {ELEM_INT, ELEM_FLOAT}, NEW elem \in [1..ElemSize(type) -> Byte]
  PROVE  LET m == TupleElemMessage(type, elem)
         IN  /\ serialize(m) \in Seq(Byte)
             /\ deserialize(serialize(m)) = {m}
<1> DEFINE m == TupleElemMessage(type, elem)
           x == TYPE_TUPLE_ELEM
           n == ElemSize(type)
<1>1. n \in Nat /\ 1 <= n
  BY DEF ElemSize
<1> HIDE DEF n
<1>2. elem \in Seq(Byte) /\ Len(elem) = n
  BY <1>1, FunctionIsSeq DEF n
<1>3. x \in MsgType /\ x \in Byte /\ type \in Byte /\ type # ELEM_STRING /\ type \in ElemType
  BY TypesDiffer DEF MsgType, ELEM_INT, ELEM_FLOAT, ELEM_STRING, ElemType
<1>4. PICK b : b = <<x>> \o (<<type>> \o elem)
  OBVIOUS
<1>5. b = serialize(m)
  <2>1. m.type = x /\ m.elem_type = type /\ m.elem = elem
    BY DEF TupleElemMessage
  <2> HIDE DEF m
  <2> QED
    BY <1>3, <1>4, <2>1, SerializeIs
<1>6. /\ b \in Seq(Byte) /\ Len(b) = 2 + Len(elem) /\ b[2] = type
      /\ \A k \in 1..Len(elem) : k = Len(elem) => SubSeq(b, 3, 2 + k) = elem
  <2>1. TwoBefore(b, x, type, elem)
    BY <1>2, <1>3, <1>4, TwoAndRest
  <2> QED
    BY ONLY <2>1 DEF TwoBefore
<1>7. ~(Len(b) < 2 + n) /\ ~(Len(b) < 2) /\ SubSeq(b, 3, 2 + n) = elem
  BY <1>1, <1>2, <1>6
<1>8. deserialize(b) = deserializeElem(b)
  BY <1>2, <1>3, <1>4, DeserializeIs
<1>9. deserializeElem(b) = {m}
  BY <1>3, <1>6, <1>7 DEF deserializeElem, n
<1> QED
  BY <1>5, <1>6, <1>8, <1>9

(* Two bytes and a text.                                                   *)
TextIn(b, y, text, post) ==
  /\ b \in Seq(Byte) /\ Len(b) >= 2 /\ b[2] = y
  /\ HasText(b, 3) /\ TextAt(b, 3) = text
  /\ TextBytes(text) \in Seq(Byte) /\ TextBytes(text) \o post \in Seq(Byte)

(* A text behind the first two bytes is found in its bounds.               *)
LEMMA TextBehindTwo ==
  ASSUME NEW x \in Byte, NEW y \in Byte, NEW text \in Seq(Byte), NEW post \in Seq(Byte),
         Len(text) < TextLimit + 2,
         NEW b, b = <<x>> \o (<<y>> \o (TextBytes(text) \o post))
  PROVE  TextIn(b, y, text, post)
<1>1. TextBytes(text) \in Seq(Byte)
  BY TextRead
<1>2. PICK t \in Seq(Byte) : t = TextBytes(text) \o post
  BY <1>1, BytesConcat
<1>3. b = <<x>> \o (<<y>> \o t)
  BY <1>2
<1>4. /\ b \in Seq(Byte) /\ Len(b) = 2 + Len(t) /\ Len(t) \in Nat
      /\ b # << >> /\ b[1] = x /\ b[2] = y
      /\ \E pre \in Seq(Byte) : Len(pre) = 2 /\ b = pre \o t
  <2>1. x \in Byte /\ y \in Byte /\ t \in Seq(Byte)
    OBVIOUS
  <2> QED
    <3>1. TwoBefore(b, x, y, t)
      BY ONLY <1>3, <2>1, TwoAndRest
    <3> QED
      BY ONLY <3>1 DEF TwoBefore
<1>5. PICK pre \in Seq(Byte) : Len(pre) = 2 /\ b = pre \o t
  BY <1>4
<1>6. HasText(b, Len(pre) + 1) /\ TextAt(b, Len(pre) + 1) = text
  <2>1. b = pre \o (TextBytes(text) \o post)
    BY ONLY <1>2, <1>5
  <2> QED
    <3>1. pre \in Seq(Byte) /\ text \in Seq(Byte) /\ post \in Seq(Byte)
      BY <1>5
    <3>2. Len(text) < TextLimit + 2
      OBVIOUS
    <3> QED
      BY ONLY <2>1, <3>1, <3>2, TextRead
<1>7. Len(pre) + 1 = 3
  BY <1>5
<1>8. HasText(b, 3) /\ TextAt(b, 3) = text
  BY ONLY <1>6, <1>7
<1> QED
  BY ONLY <1>1, <1>2, <1>4, <1>8 DEF TextIn

(* A TupleElemMessage with a string is read as it was written.             *)
LEMMA StringRead ==
  ASSUME NEW text \in String
  PROVE  LET m == TupleElemMessage(ELEM_STRING, text)
         IN  /\ serialize(m) \in Seq(Byte)
             /\ deserialize(serialize(m)) = {m}
<1> DEFINE m == TupleElemMessage(ELEM_STRING, text)
           x == TYPE_TUPLE_ELEM
<1>1. text \in Seq(Byte) /\ Len(text) < TextLimit + 2
  <2>1. text \in Seq(Byte) /\ Len(text) \in Nat /\ Len(text) < TextLimit
    BY LenProperties DEF String
  <2> QED
    BY ONLY <2>1 DEF TextLimit
<1>2. x \in MsgType /\ x \in Byte /\ ELEM_STRING \in Byte /\ ELEM_STRING \in ElemType
  BY TypesDiffer DEF MsgType, ElemType
<1>3. PICK none \in Seq(Byte) : none = << >>
  BY EmptySeq
<1>4. PICK b : b = <<x>> \o (<<ELEM_STRING>> \o (TextBytes(text) \o none))
  OBVIOUS
<1>5. /\ b \in Seq(Byte) /\ Len(b) >= 2 /\ b[2] = ELEM_STRING
      /\ HasText(b, 3) /\ TextAt(b, 3) = text
      /\ TextBytes(text) \in Seq(Byte) /\ TextBytes(text) \o none \in Seq(Byte)
  <2>1. none \in Seq(Byte)
    BY <1>3
  <2> QED
    <3>1. TextIn(b, ELEM_STRING, text, none)
      BY ONLY <1>1, <1>2, <1>4, <2>1, TextBehindTwo
    <3> QED
      BY ONLY <3>1 DEF TextIn
<1>6. TextBytes(text) \o none = TextBytes(text)
  BY <1>3, <1>5, ConcatEmptySeq
<1>7. b = serialize(m)
  <2>1. m.type = x /\ m.elem_type = ELEM_STRING /\ m.elem = text
    BY DEF TupleElemMessage
  <2> HIDE DEF m
  <2> QED
    BY <1>4, <1>6, <2>1, SerializeIs
<1>8. deserialize(b) = deserializeElem(b)
  <2> DEFINE t == TextBytes(text) \o none
  <2>1. t \in Seq(Byte) /\ b = <<x>> \o (<<ELEM_STRING>> \o t)
    BY <1>4, <1>5
  <2> HIDE DEF t
  <2> QED
    BY ONLY <1>2, <2>1, DeserializeIs
<1>9. Len(b) \in Nat
  BY <1>5, LenProperties
<1>10. deserializeElem(b) = {m}
  BY <1>2, <1>5, <1>9 DEF deserializeElem
<1> QED
  BY <1>5, <1>7, <1>8, <1>10

(* A pattern is what its constructor makes of its text.                    *)
LEMMA PatternRead ==
  ASSUME NEW p, p.elem_type \in ElemType, PatternString(p) \in Seq(Byte),
         Len(PatternString(p)) < TextLimit + 2
  PROVE  LET m == PatternMessage(p)
         IN  /\ serialize(m) \in Seq(Byte)
             /\ deserialize(serialize(m))
                  = {PatternMessage(q) : q \in Construct(p.elem_type, PatternString(p))}
<1> DEFINE m == PatternMessage(p)
           x == TYPE_TUPLE_PATTERN_ELEM
           text == PatternString(p)
           y == p.elem_type
<1>1. x \in MsgType /\ x \in Byte /\ y \in Byte
  BY TypesDiffer DEF MsgType, ElemType
<1>2. PICK none \in Seq(Byte) : none = << >>
  BY EmptySeq
<1>3. PICK b : b = <<x>> \o (<<y>> \o (TextBytes(text) \o none))
  OBVIOUS
<1>4. /\ b \in Seq(Byte) /\ Len(b) >= 2 /\ b[2] = y
      /\ HasText(b, 3) /\ TextAt(b, 3) = text
      /\ TextBytes(text) \in Seq(Byte) /\ TextBytes(text) \o none \in Seq(Byte)
  <2>1. text \in Seq(Byte) /\ none \in Seq(Byte) /\ Len(text) < TextLimit + 2
    BY <1>2
  <2> QED
    <3>1. TextIn(b, y, text, none)
      BY ONLY <1>1, <1>3, <2>1, TextBehindTwo
    <3> QED
      BY ONLY <3>1 DEF TextIn
<1>5. TextBytes(text) \o none = TextBytes(text)
  BY <1>2, <1>4, ConcatEmptySeq
<1>6. b = serialize(m)
  <2>1. m.type = x /\ m.pattern = p
    BY DEF PatternMessage
  <2> HIDE DEF m
  <2> QED
    BY <1>3, <1>5, <2>1, SerializeIs
<1>7. deserialize(b) = deserializePattern(b)
  <2> DEFINE t == TextBytes(text) \o none
  <2>1. t \in Seq(Byte) /\ b = <<x>> \o (<<y>> \o t)
    BY <1>3, <1>4
  <2> HIDE DEF t
  <2> QED
    BY ONLY <1>1, <2>1, DeserializeIs
<1>8. Len(b) \in Nat
  BY <1>4, LenProperties
<1>9. deserializePattern(b) = {PatternMessage(q) : q \in Construct(y, text)}
  BY <1>4, <1>8 DEF deserializePattern
<1> QED
  BY <1>4, <1>6, <1>7, <1>9

(* The size of a text fits in the three bytes of SizeBytes.                *)
LEMMA StringLength ==
  ASSUME NEW text \in String
  PROVE  text \in Seq(Byte) /\ Len(text) \in Nat /\ Len(text) < TextLimit + 2
<1>1. text \in Seq(Byte) /\ Len(text) \in Nat /\ Len(text) < TextLimit
  BY LenProperties DEF String
<1> QED
  BY ONLY <1>1 DEF TextLimit

(* The two names of FIFOs that a connection is answered with.              *)
LEMMA ResponseRead ==
  ASSUME NEW c \in BOOLEAN, NEW write \in String, NEW read \in String
  PROVE  LET m == ServerConnectionResponse(c, write, read)
         IN  /\ serialize(m) \in Seq(Byte)
             /\ deserialize(serialize(m)) = {m}
<1> DEFINE m == ServerConnectionResponse(c, write, read)
           x == TYPE_SERVER_CONN_RESPONSE
<1>1. /\ write \in Seq(Byte) /\ Len(write) \in Nat /\ Len(write) < TextLimit + 2
      /\ read \in Seq(Byte) /\ Len(read) \in Nat /\ Len(read) < TextLimit + 2
  BY StringLength
<1>2. PICK y \in Byte : Flag(c) = <<y>> /\ BoolOf(y) = {c}
  BY TypesDiffer
<1>3. x \in MsgType /\ x \in Byte
  BY TypesDiffer DEF MsgType
<1>4. PICK none \in Seq(Byte) : none = << >>
  BY EmptySeq
<1>5. /\ TextBytes(write) \in Seq(Byte) /\ Len(TextBytes(write)) = 8 + Len(write)
      /\ TextBytes(read) \in Seq(Byte)
  <2>1. none \in Seq(Byte)
    BY <1>4
  <2>2. /\ TextBytes(write) \in Seq(Byte) /\ Len(TextBytes(write)) = 8 + Len(write)
    BY ONLY <1>1, <2>1, TextRead
  <2>3. TextBytes(read) \in Seq(Byte)
    BY ONLY <1>1, <2>1, TextRead
  <2> QED
    BY <2>2, <2>3
<1> DEFINE t == TextBytes(write) \o TextBytes(read)
<1>6. t \in Seq(Byte)
  BY <1>5, BytesConcat
<1>7. PICK b : b = <<x>> \o (<<y>> \o t)
  OBVIOUS
<1>8. b = serialize(m)
  <2>1. m.type = x /\ m.connected = c /\ m.fifo_write = write /\ m.fifo_read = read
    BY DEF ServerConnectionResponse
  <2>2. <<y>> \in Seq(Byte)
    BY <1>2
  <2>3. (<<y>> \o TextBytes(write)) \o TextBytes(read) = <<y>> \o t
    BY ONLY <1>5, <2>2, BytesConcat
  <2> HIDE DEF m, t
  <2> QED
    BY <1>2, <1>7, <2>1, <2>3, SerializeIs
<1>9. TextIn(b, y, write, TextBytes(read))
  <2>1. y \in Byte
    BY <1>2
  <2> QED
    BY ONLY <1>1, <1>3, <1>5, <1>7, <2>1, TextBehindTwo
<1>10. PICK pre \in Seq(Byte) : Len(pre) = 2 /\ b = pre \o t
  <2>1. y \in Byte
    BY <1>2
  <2> HIDE DEF t
  <2>2. TwoBefore(b, x, y, t)
    BY ONLY <1>3, <1>6, <1>7, <2>1, TwoAndRest
  <2> QED
    BY ONLY <2>2 DEF TwoBefore
<1>11. PICK front : front = pre \o TextBytes(write)
  OBVIOUS
<1>12. front \in Seq(Byte) /\ Len(front) = 10 + Len(write)
  <2>1. pre \in Seq(Byte)
    BY <1>10
  <2>2. front \in Seq(Byte) /\ Len(front) = Len(pre) + Len(TextBytes(write))
    BY ONLY <1>5, <1>11, <2>1, BytesConcat
  <2> QED
    BY ONLY <1>1, <1>5, <1>10, <2>2
<1>13. b = front \o (TextBytes(read) \o none)
  <2>1. pre \in Seq(Byte)
    BY <1>10
  <2>2. (pre \o TextBytes(write)) \o TextBytes(read) = pre \o t
    BY ONLY <1>5, <2>1, BytesConcat
  <2>3. TextBytes(read) \o none = TextBytes(read)
    BY <1>4, <1>5, ConcatEmptySeq
  <2> QED
    BY ONLY <1>10, <1>11, <2>2, <2>3, Zenon
<1>14. HasText(b, 11 + Len(write)) /\ TextAt(b, 11 + Len(write)) = read
  <2>1. none \in Seq(Byte)
    BY <1>4
  <2>2. HasText(b, Len(front) + 1) /\ TextAt(b, Len(front) + 1) = read
    BY ONLY <1>1, <1>12, <1>13, <2>1, TextRead
  <2>3. Len(front) + 1 = 11 + Len(write)
    BY ONLY <1>1, <1>12
  <2> QED
    BY ONLY <2>2, <2>3
<1>15. deserialize(b) = deserializeResponse(b)
  <2>1. y \in Byte
    BY <1>2
  <2> HIDE DEF t
  <2> QED
    BY ONLY <1>3, <1>6, <1>7, <2>1, DeserializeIs
<1>16. deserializeResponse(b) = {m}
  <2>1. b \in Seq(Byte) /\ Len(b) >= 2 /\ b[2] = y /\ HasText(b, 3) /\ TextAt(b, 3) = write
    BY <1>9 DEF TextIn
  <2>2. ~(Len(b) < 2)
    <3>1. Len(b) \in Nat
      BY <2>1, LenProperties
    <3> QED
      BY <2>1, <3>1
  <2>3. deserializeResponse(b) = {ServerConnectionResponse(d, write, read) : d \in BoolOf(y)}
    BY ONLY <1>14, <2>1, <2>2 DEF deserializeResponse
  <2> QED
    BY <1>2, <2>3
<1>17. b \in Seq(Byte)
  BY <1>9 DEF TextIn
<1> QED
  BY <1>8, <1>15, <1>16, <1>17

-----------------------------------------------------------------------------
(* The kinds of messages.                                                  *)
LEMMA MessageKinds ==
  ASSUME NEW m \in Message
  PROVE  \/ \E c \in BOOLEAN : m = ConnectionMessage(c)
         \/ \E c \in BOOLEAN, w, r \in String : m = ServerConnectionResponse(c, w, r)
         \/ \E op \in Byte, size \in [1..4 -> Byte] : m = OperationMessage(op, size)
         \/ \E type \in {ELEM_INT, ELEM_FLOAT} : \E e \in [1..ElemSize(type) -> Byte] :
              m = TupleElemMessage(type, e)
         \/ \E t \in String : m = TupleElemMessage(ELEM_STRING, t)
         \/ \E p : Carried(p) /\ m = PatternMessage(p)
<1>1. CASE m \in [type : {TYPE_CONNECTION_MSG}, connect : BOOLEAN]
  <2>1. m.connect \in BOOLEAN /\ m = [type |-> TYPE_CONNECTION_MSG, connect |-> m.connect]
    BY <1>1
  <2> QED
    BY <2>1 DEF ConnectionMessage
<1>2. CASE m \in [type : {TYPE_SERVER_CONN_RESPONSE}, connected : BOOLEAN,
                  fifo_write : String, fifo_read : String]
  <2>1. /\ m.connected \in BOOLEAN /\ m.fifo_write \in String /\ m.fifo_read \in String
        /\ m = [type |-> TYPE_SERVER_CONN_RESPONSE, connected |-> m.connected,
                fifo_write |-> m.fifo_write, fifo_read |-> m.fifo_read]
    BY <1>2
  <2> QED
    BY <2>1 DEF ServerConnectionResponse
<1>3. CASE m \in [type : {TYPE_OPERATION_MSG}, op_type : Byte, tuple_size : [1..4 -> Byte]]
  <2>1. /\ m.op_type \in Byte /\ m.tuple_size \in [1..4 -> Byte]
        /\ m = [type |-> TYPE_OPERATION_MSG, op_type |-> m.op_type,
                tuple_size |-> m.tuple_size]
    BY <1>3
  <2> QED
    BY <2>1, Zenon DEF OperationMessage
<1>4. CASE m \in [type : {TYPE_TUPLE_ELEM}, elem_type : {ELEM_INT}, elem : [1..4 -> Byte]]
  <2>1. /\ m.elem \in [1..4 -> Byte]
        /\ m = [type |-> TYPE_TUPLE_ELEM, elem_type |-> ELEM_INT, elem |-> m.elem]
    BY <1>4
  <2>2. ElemSize(ELEM_INT) = 4
    BY DEF ElemSize
  <2> QED
    BY <2>1, <2>2, Zenon DEF TupleElemMessage
<1>5. CASE m \in [type : {TYPE_TUPLE_ELEM}, elem_type : {ELEM_FLOAT}, elem : [1..8 -> Byte]]
  <2>1. /\ m.elem \in [1..8 -> Byte]
        /\ m = [type |-> TYPE_TUPLE_ELEM, elem_type |-> ELEM_FLOAT, elem |-> m.elem]
    BY <1>5
  <2>2. ElemSize(ELEM_FLOAT) = 8
    BY DEF ElemSize, ELEM_INT, ELEM_FLOAT
  <2> QED
    BY <2>1, <2>2, Zenon DEF TupleElemMessage
<1>6. CASE m \in [type : {TYPE_TUPLE_ELEM}, elem_type : {ELEM_STRING}, elem : String]
  <2>1. /\ m.elem \in String
        /\ m = [type |-> TYPE_TUPLE_ELEM, elem_type |-> ELEM_STRING, elem |-> m.elem]
    BY <1>6
  <2> QED
    BY <2>1, Zenon DEF TupleElemMessage
<1>7. CASE m \in {n \in [type : {TYPE_TUPLE_PATTERN_ELEM}, pattern : PatternElem] :
                    /\ n.pattern.elem_type = ELEM_STRING => n.pattern.value \in String
                    /\ n.pattern.elem_type = ELEM_FLOAT => n.pattern.value \in Double}
  <2>1. /\ m \in [type : {TYPE_TUPLE_PATTERN_ELEM}, pattern : PatternElem]
        /\ m.pattern.elem_type = ELEM_STRING => m.pattern.value \in String
        /\ m.pattern.elem_type = ELEM_FLOAT => m.pattern.value \in Double
    BY <1>7
  <2>2. m = [type |-> TYPE_TUPLE_PATTERN_ELEM, pattern |-> m.pattern]
    BY <2>1
  <2>3. m.pattern \in PatternElem
    BY <2>1
  <2> QED
    BY <2>1, <2>2, <2>3, Zenon DEF PatternMessage, Carried
<1> QED
  BY <1>1, <1>2, <1>3, <1>4, <1>5, <1>6, <1>7 DEF Message

(* A message of any kind with any value is deserialized as it was          *)
(* serialized, but for two kinds of patterns: the double of one is off by  *)
(* half of 10^-6 at most, the other is read with a longer operator.        *)
Survives(m) ==
  /\ serialize(m) \in Seq(Byte)
  /\ \A r \in deserialize(serialize(m)) : r.type \in MsgType
  /\ ~Ambiguous(m) /\ ~Imprecise(m) => deserialize(serialize(m)) = {m}
  /\ Imprecise(m) =>
       \E r : /\ deserialize(serialize(m)) = {r}
              /\ r.pattern.op = m.pattern.op
              /\ Abs(r.pattern.value - m.pattern.value) <= 5
  /\ Ambiguous(m) =>
       \A r \in deserialize(serialize(m)) :
         /\ r.pattern.op \in {"NotLessThan", "NotGreaterThan"}
         /\ r.pattern.value = Trimmed(Tail(m.pattern.value))

(* A pattern is read as it was written or with the effect of its defect.   *)
LEMMA PatternSurvives ==
  ASSUME NEW p, Carried(p)
  PROVE  Survives(PatternMessage(p))
<1> DEFINE m == PatternMessage(p)
           text == PatternString(p)
<1>1. m.type = TYPE_TUPLE_PATTERN_ELEM /\ m.pattern = p
  BY DEF PatternMessage
<1>2. /\ p.elem_type \in ElemType
      /\ p = [elem_type |-> p.elem_type, op |-> p.op, value |-> p.value]
  BY PatternElemParts DEF Carried
<1>3. /\ text \in Seq(Byte) /\ Len(text) < TextLimit + 2
      /\ ~Misreadable(p) =>
           \E w : /\ Construct(p.elem_type, text)
                       = {[elem_type |-> p.elem_type, op |-> p.op, value |-> w]}
                  /\ p.elem_type # ELEM_FLOAT \/ p.value % 10 = 0 => w = p.value
                  /\ p.elem_type = ELEM_FLOAT => Abs(w - p.value) <= 5
      /\ Misreadable(p) =>
           \A q \in Construct(p.elem_type, text) :
             /\ q.op \in {"NotLessThan", "NotGreaterThan"}
             /\ q.value = Trimmed(Tail(p.value))
  BY PatternRoundTrip, Zenon
<1>4. /\ serialize(m) \in Seq(Byte)
      /\ deserialize(serialize(m))
           = {PatternMessage(q) : q \in Construct(p.elem_type, text)}
  BY <1>2, <1>3, PatternRead, Zenon
<1>5. Ambiguous(m) <=> Misreadable(p)
  <2> HIDE DEF m
  <2> QED
    BY ONLY <1>1 DEF Ambiguous, IsPattern, Misreadable
<1>6. Imprecise(m) <=> p.elem_type = ELEM_FLOAT /\ p.value % 10 # 0
  <2> HIDE DEF m
  <2> QED
    BY ONLY <1>1 DEF Imprecise, IsPattern
<1> HIDE DEF m, text
<1>7. \A r \in deserialize(serialize(m)) :
        /\ r.type \in MsgType
        /\ \E q \in Construct(p.elem_type, text) : r = PatternMessage(q) /\ r.pattern = q
  <2>1. \A q : PatternMessage(q).type \in MsgType /\ PatternMessage(q).pattern = q
    BY DEF PatternMessage, MsgType
  <2> QED
    BY <1>4, <2>1
<1>8. CASE Misreadable(p)
  <2>1. ~Imprecise(m)
    BY <1>6, <1>8 DEF Misreadable, ELEM_STRING, ELEM_FLOAT
  <2>2. \A r \in deserialize(serialize(m)) :
          /\ r.pattern.op \in {"NotLessThan", "NotGreaterThan"}
          /\ r.pattern.value = Trimmed(Tail(p.value))
    BY <1>3, <1>7, <1>8
  <2> QED
    BY <1>1, <1>4, <1>5, <1>7, <1>8, <2>1, <2>2, Zenon DEF Survives, m
<1>9. CASE ~Misreadable(p)
  <2>1. PICK w : /\ Construct(p.elem_type, text)
                       = {[elem_type |-> p.elem_type, op |-> p.op, value |-> w]}
                 /\ p.elem_type # ELEM_FLOAT \/ p.value % 10 = 0 => w = p.value
                 /\ p.elem_type = ELEM_FLOAT => Abs(w - p.value) <= 5
    BY <1>3, <1>9, Zenon
  <2> DEFINE q == [elem_type |-> p.elem_type, op |-> p.op, value |-> w]
             r == PatternMessage(q)
  <2>2. deserialize(serialize(m)) = {r}
    BY <1>4, <2>1
  <2>3. r.pattern.op = p.op /\ r.pattern.value = w
    BY DEF PatternMessage
  <2>4. ~Imprecise(m) => r = m
    BY <1>2, <1>6, <2>1 DEF m
  <2>5. Imprecise(m) => Abs(r.pattern.value - p.value) <= 5
    BY <1>6, <2>1, <2>3
  <2> HIDE DEF r
  <2> QED
    BY <1>1, <1>4, <1>5, <1>7, <1>9, <2>2, <2>3, <2>4, <2>5, Zenon DEF Survives, m
<1> QED
  BY <1>8, <1>9

(* What serialize() writes of a message, deserialize() reads as that       *)
(* message and as nothing else, unless it is Ambiguous or Imprecise; what  *)
(* these two defects do is what DefectsAreThese says, for any value.       *)
THEOREM MessagesSurvive ==
  ASSUME NEW m \in Message
  PROVE  Survives(m)
<1>1. ASSUME serialize(m) \in Seq(Byte), deserialize(serialize(m)) = {m},
             m.type \in MsgType, m.type # TYPE_TUPLE_PATTERN_ELEM
      PROVE  Survives(m)
  <2>1. ~IsPattern(m)
    BY <1>1 DEF IsPattern
  <2>2. ~Ambiguous(m) /\ ~Imprecise(m)
    BY <2>1 DEF Ambiguous, Imprecise
  <2> QED
    BY <1>1, <2>2, Zenon DEF Survives
<1>2. ASSUME NEW n
      PROVE  n \in {TYPE_CONNECTION_MSG, TYPE_SERVER_CONN_RESPONSE, TYPE_OPERATION_MSG,
                    TYPE_TUPLE_ELEM} => n \in MsgType /\ n # TYPE_TUPLE_PATTERN_ELEM
  BY DEF MsgType, TYPE_CONNECTION_MSG, TYPE_OPERATION_MSG, TYPE_TUPLE_ELEM,
         TYPE_SERVER_CONN_RESPONSE, TYPE_TUPLE_PATTERN_ELEM
<1>3. CASE \E c \in BOOLEAN : m = ConnectionMessage(c)
  <2>1. m.type = TYPE_CONNECTION_MSG
    BY <1>3 DEF ConnectionMessage
  <2>2. serialize(m) \in Seq(Byte) /\ deserialize(serialize(m)) = {m}
    BY <1>3, ConnectionRead
  <2> QED
    BY <1>1, <1>2, <2>1, <2>2
<1>4. CASE \E c \in BOOLEAN, w, r \in String : m = ServerConnectionResponse(c, w, r)
  <2>1. m.type = TYPE_SERVER_CONN_RESPONSE
    BY <1>4 DEF ServerConnectionResponse
  <2>2. serialize(m) \in Seq(Byte) /\ deserialize(serialize(m)) = {m}
    BY <1>4, ResponseRead
  <2> QED
    BY <1>1, <1>2, <2>1, <2>2
<1>5. CASE \E op \in Byte, size \in [1..4 -> Byte] : m = OperationMessage(op, size)
  <2>1. PICK op \in Byte, size \in [1..4 -> Byte] : m = OperationMessage(op, size)
    BY <1>5, Zenon
  <2>2. m.type = TYPE_OPERATION_MSG
    BY ONLY <2>1 DEF OperationMessage
  <2>3. serialize(m) \in Seq(Byte) /\ deserialize(serialize(m)) = {m}
    BY <2>1, OperationRead, Zenon
  <2> QED
    BY <1>1, <1>2, <2>2, <2>3, Zenon
<1>6. CASE \E type \in {ELEM_INT, ELEM_FLOAT} : \E e \in [1..ElemSize(type) -> Byte] :
             m = TupleElemMessage(type, e)
  <2>1. m.type = TYPE_TUPLE_ELEM
    BY <1>6 DEF TupleElemMessage
  <2>2. serialize(m) \in Seq(Byte) /\ deserialize(serialize(m)) = {m}
    BY <1>6, NumberRead
  <2> QED
    BY <1>1, <1>2, <2>1, <2>2
<1>7. CASE \E t \in String : m = TupleElemMessage(ELEM_STRING, t)
  <2>1. m.type = TYPE_TUPLE_ELEM
    BY <1>7 DEF TupleElemMessage
  <2>2. serialize(m) \in Seq(Byte) /\ deserialize(serialize(m)) = {m}
    BY <1>7, StringRead
  <2> QED
    BY <1>1, <1>2, <2>1, <2>2
<1>8. CASE \E p : Carried(p) /\ m = PatternMessage(p)
  BY <1>8, PatternSurvives
<1> QED
  BY <1>3, <1>4, <1>5, <1>6, <1>7, <1>8, MessageKinds, Zenon

-----------------------------------------------------------------------------
(* The positions of the terminators, in their order                        *)

Rank(S, x) == Cardinality({y \in S : y <= x})

(* In a set of numbers each rank belongs to one of them.                   *)
LEMMA RankProperties ==
  ASSUME NEW n \in Nat, NEW S \in SUBSET (0..n)
  PROVE  /\ IsFiniteSet(S) /\ Cardinality(S) \in Nat
         /\ \A x \in S : Rank(S, x) \in 1..Cardinality(S)
         /\ \A i \in 1..Cardinality(S) : \E x \in S : Rank(S, x) = i
<1> DEFINE below(x) == {y \in S : y <= x}
           T == 1..Cardinality(S)
           rank == [x \in S |-> Cardinality(below(x))]
<1>1. S \subseteq Nat /\ \A x \in S : x <= n
  OBVIOUS
<1>2. IsFiniteSet(S)
  BY <1>1, FS_BoundedSetOfNaturals
<1>3. Cardinality(S) \in Nat
  BY <1>2, FS_CardinalityType
<1>4. ASSUME NEW x \in S
      PROVE  /\ IsFiniteSet(below(x)) /\ Cardinality(below(x)) \in Nat
             /\ Cardinality(below(x)) <= Cardinality(S)
             /\ Cardinality(below(x)) # 0
  <2>1. below(x) \in SUBSET S /\ x \in below(x)
    BY <1>1
  <2>2. IsFiniteSet(below(x)) /\ Cardinality(below(x)) <= Cardinality(S)
    BY <1>2, <2>1, FS_Subset
  <2>3. Cardinality(below(x)) \in Nat
    BY <2>2, FS_CardinalityType
  <2>4. Cardinality(below(x)) # 0
    BY <2>1, <2>2, FS_EmptySet
  <2> QED
    BY <2>2, <2>3, <2>4
<1>5. ASSUME NEW x \in S, NEW y \in S, x < y
      PROVE  Cardinality(below(x)) # Cardinality(below(y))
  <2>1. below(x) \in SUBSET below(y) /\ y \in below(y) /\ y \notin below(x)
    <3>1. x \in Nat /\ y \in Nat /\ \A z \in S : z \in Nat
      BY <1>1
    <3>2. y <= y /\ ~(y <= x) /\ \A z \in S : z <= x => z <= y
      BY ONLY <3>1, <1>5
    <3> QED
      BY <3>2
  <2>2. IsFiniteSet(below(y))
    BY <1>4
  <2> HIDE DEF below
  <2> QED
    BY ONLY <2>1, <2>2, FS_Subset
<1>6. \A x \in S : Cardinality(below(x)) \in T
  BY <1>3, <1>4
<1> HIDE DEF below
<1>7. rank \in Injection(S, T)
  <2>1. rank \in [S -> T]
    BY <1>6
  <2>2. ASSUME NEW x \in S, NEW y \in S, rank[x] = rank[y]
        PROVE  x = y
    <3>1. Cardinality(below(x)) = Cardinality(below(y))
      BY <2>2
    <3>2. ~(x < y) /\ ~(y < x)
      BY <1>5, <3>1
    <3> QED
      BY <1>1, <3>2
  <2> HIDE DEF rank, T
  <2>3. IsInjective(rank)
    BY <2>1, <2>2 DEF IsInjective
  <2> QED
    BY <2>1, <2>3 DEF Injection
<1>8. IsFiniteSet(T) /\ Cardinality(T) = Cardinality(S)
  <2>1. /\ IsFiniteSet(1..Cardinality(S))
        /\ Cardinality(1..Cardinality(S))
             = IF 1 > Cardinality(S) THEN 0 ELSE Cardinality(S) - 1 + 1
    BY <1>3, FS_Interval
  <2> QED
    BY <1>3, <2>1
<1>9. rank \in Surjection(S, T)
  <2> HIDE DEF rank, T
  <2> QED
    BY <1>7, <1>8, FS_Injection
<1>10. \A i \in T : \E x \in S : rank[x] = i
  <2> HIDE DEF rank, T
  <2> QED
    BY <1>9 DEF Surjection
<1> QED
  BY <1>2, <1>3, <1>6, <1>10 DEF Rank, below

(* Ascending has each element once, at its rank.                           *)
LEMMA AscendingProperties ==
  ASSUME NEW n \in Nat, NEW S \in SUBSET (0..n)
  PROVE  /\ Ascending(S) \in Seq(S) /\ Len(Ascending(S)) = Cardinality(S)
         /\ \A i \in 1..Cardinality(S) : /\ Ascending(S)[i] \in S
                                         /\ Rank(S, Ascending(S)[i]) = i
<1>1. /\ Cardinality(S) \in Nat
      /\ \A i \in 1..Cardinality(S) : \E x \in S : Rank(S, x) = i
  BY RankProperties
<1>2. Ascending(S) = [i \in 1..Cardinality(S) |-> CHOOSE x \in S : Rank(S, x) = i]
  BY DEF Ascending, Rank
<1>3. \A i \in 1..Cardinality(S) : /\ Ascending(S)[i] \in S
                                   /\ Rank(S, Ascending(S)[i]) = i
  <2> SUFFICES ASSUME NEW i \in 1..Cardinality(S)
               PROVE  Ascending(S)[i] \in S /\ Rank(S, Ascending(S)[i]) = i
    OBVIOUS
  <2>1. Ascending(S)[i] = CHOOSE x \in S : Rank(S, x) = i
    BY <1>2
  <2> QED
    BY <1>1, <2>1
<1>4. Ascending(S) \in [1..Cardinality(S) -> S]
  BY <1>2, <1>3
<1> QED
  BY <1>1, <1>3, <1>4, FunctionIsSeq

(* The pieces that MessageBuffer::push cuts out of a stream.               *)
Cut(bytes) ==
  LET ends == Ascending({0} \cup {i \in DOMAIN bytes : bytes[i] = MESSAGE_TERM_CHAR})
  IN  [i \in 1..Len(ends) - 1 |-> SubSeq(bytes, ends[i] + 1, ends[i + 1] - 1)]

(* The pieces between terminators are bytes.                               *)
LEMMA CutType ==
  ASSUME NEW bytes \in Seq(Byte)
  PROVE  Cut(bytes) \in Seq(Seq(Byte))
<1> DEFINE S == {0} \cup {i \in DOMAIN bytes : bytes[i] = MESSAGE_TERM_CHAR}
           ends == Ascending(S)
<1>1. Len(bytes) \in Nat /\ DOMAIN bytes = 1..Len(bytes)
  BY LenProperties
<1>2. S \in SUBSET (0..Len(bytes)) /\ S # {}
  BY <1>1
<1> HIDE DEF S
<1>3. ends \in Seq(S) /\ Len(ends) = Cardinality(S)
  BY <1>1, <1>2, AscendingProperties
<1>4. Cardinality(S) \in Nat /\ Cardinality(S) # 0
  <2>1. IsFiniteSet(S) /\ Cardinality(S) \in Nat
    BY <1>1, <1>2, RankProperties
  <2> QED
    BY <1>2, <2>1, FS_EmptySet
<1> HIDE DEF ends
<1>5. Len(ends) - 1 \in Nat
  BY <1>3, <1>4
<1>6. ASSUME NEW i \in 1..Len(ends) - 1
      PROVE  SubSeq(bytes, ends[i] + 1, ends[i + 1] - 1) \in Seq(Byte)
  <2>1. i \in 1..Len(ends) /\ i + 1 \in 1..Len(ends)
    BY <1>5
  <2>2. ends[i] \in S /\ ends[i + 1] \in S
    BY <1>3, <2>1, ElementOfSeq
  <2>3. ends[i] \in 0..Len(bytes) /\ ends[i + 1] \in 0..Len(bytes)
    BY <1>2, <2>2
  <2>4. \A k \in ends[i] + 1..ends[i + 1] - 1 : k \in 1..Len(bytes)
    BY <1>1, <2>3
  <2>5. \A k \in ends[i] + 1..ends[i + 1] - 1 : bytes[k] \in Byte
    BY <2>4, ElementOfSeq
  <2>6. ends[i] + 1 \in Int /\ ends[i + 1] - 1 \in Int
    BY <2>3
  <2> QED
    BY ONLY <2>5, <2>6, SubSeqProperties
<1>7. Cut(bytes) = [i \in 1..Len(ends) - 1 |-> SubSeq(bytes, ends[i] + 1, ends[i + 1] - 1)]
  BY DEF Cut, ends, S
<1>8. Cut(bytes) \in [1..Len(ends) - 1 -> Seq(Byte)]
  BY <1>6, <1>7
<1> QED
  BY <1>5, <1>8, FunctionIsSeq

(* Bytes without a terminator, and one behind them: they are one piece.    *)
LEMMA CutOnce ==
  ASSUME NEW bytes \in Seq(Byte), MESSAGE_TERM_CHAR \notin ToSet(bytes)
  PROVE  Cut(Append(bytes, MESSAGE_TERM_CHAR)) = <<bytes>>
<1> DEFINE L == Len(bytes)
           w == Append(bytes, MESSAGE_TERM_CHAR)
           S == {0} \cup {i \in DOMAIN w : w[i] = MESSAGE_TERM_CHAR}
           ends == Ascending(S)
<1>1. MESSAGE_TERM_CHAR \in Byte
  BY DEF MESSAGE_TERM_CHAR, Byte
<1>2. /\ w \in Seq(Byte) /\ Len(w) = L + 1 /\ L \in Nat
      /\ \A i \in 1..L : w[i] = bytes[i]
      /\ w[L + 1] = MESSAGE_TERM_CHAR
      /\ DOMAIN w = 1..L + 1
  <2>1. /\ w \in Seq(Byte) /\ Len(w) = L + 1 /\ L \in Nat
        /\ \A i \in 1..L : w[i] = bytes[i]
        /\ w[L + 1] = MESSAGE_TERM_CHAR
    BY <1>1, AppendProperties, LenProperties
  <2>2. DOMAIN w = 1..Len(w)
    BY <2>1, LenProperties
  <2> QED
    BY <2>1, <2>2
<1>3. \A i \in 1..L : bytes[i] # MESSAGE_TERM_CHAR
  <2>1. DOMAIN bytes = 1..L
    BY LenProperties
  <2> QED
    BY <2>1 DEF ToSet
<1> HIDE DEF w
<1>4. S = {0, L + 1}
  BY <1>2, <1>3
<1> HIDE DEF S
<1>5. S \in SUBSET (0..L + 1) /\ L + 1 \in Nat
  BY <1>2, <1>4
<1>6. Cardinality(S) = 2 /\ Rank(S, 0) = 1 /\ Rank(S, L + 1) = 2
  <2>1. IsFiniteSet({0}) /\ Cardinality({0}) = 1
    BY FS_Singleton
  <2>2. {0} \cup {L + 1} = S /\ L + 1 \notin {0}
    BY <1>2, <1>4
  <2>3. Cardinality(S) = 1 + 1
    BY <2>1, <2>2, FS_AddElement
  <2>4. {y \in S : y <= 0} = {0} /\ {y \in S : y <= L + 1} = S
    BY <1>2, <1>4
  <2>5. Rank(S, 0) = Cardinality({0}) /\ Rank(S, L + 1) = Cardinality(S)
    BY <2>4 DEF Rank
  <2> QED
    BY ONLY <2>1, <2>3, <2>5
<1>7. Len(ends) = 2 /\ ends[1] = 0 /\ ends[2] = L + 1
  <2>1. /\ Len(ends) = Cardinality(S)
        /\ \A i \in 1..Cardinality(S) : ends[i] \in S /\ Rank(S, ends[i]) = i
    BY <1>5, AscendingProperties
  <2> HIDE DEF ends
  <2>2. /\ ends[1] \in S /\ Rank(S, ends[1]) = 1
        /\ ends[2] \in S /\ Rank(S, ends[2]) = 2
    BY <1>6, <2>1
  <2>3. ends[1] = 0
    BY <1>4, <1>6, <2>2
  <2>4. ends[2] = L + 1
    BY <1>4, <1>6, <2>2
  <2> QED
    BY <1>6, <2>1, <2>3, <2>4
<1>8. Cut(w) = [i \in 1..Len(ends) - 1 |-> SubSeq(w, ends[i] + 1, ends[i + 1] - 1)]
  BY DEF Cut, ends, S
<1>9. SubSeq(w, 1, L) = bytes
  <2>1. w = bytes \o <<MESSAGE_TERM_CHAR>>
    BY <1>1, AppendIsConcat DEF w
  <2>2. <<MESSAGE_TERM_CHAR>> \in Seq(Byte)
    BY <1>1
  <2> QED
    BY <2>1, <2>2, PartsOfConcat
<1> HIDE DEF ends
<1>10. Cut(w) = [i \in 1..1 |-> SubSeq(w, ends[i] + 1, ends[i + 1] - 1)]
  BY <1>7, <1>8
<1>11. Cut(w) = [i \in 1..1 |-> bytes]
  <2>1. \A i \in 1..1 : SubSeq(w, ends[i] + 1, ends[i + 1] - 1) = bytes
    <3>1. 0 + 1 = 1 /\ L + 1 - 1 = L
      BY <1>2
    <3>2. SubSeq(w, ends[1] + 1, ends[2] - 1) = SubSeq(w, 1, L)
      BY <1>7, <3>1
    <3>3. \A i \in 1..1 : i = 1 /\ i + 1 = 2
      OBVIOUS
    <3> QED
      BY <1>9, <3>2, <3>3
  <2> QED
    BY <1>10, <2>1
<1>12. Cut(w) = <<bytes>>
  BY <1>11
<1> QED
  BY <1>12 DEF w

-----------------------------------------------------------------------------
(* Whatever bytes are deserialized, the result is a message.               *)
LEMMA ReadTypes ==
  ASSUME NEW bytes \in Seq(Byte), NEW r \in deserialize(bytes)
  PROVE  r.type \in MsgType
<1> DEFINE first == findFirstMsgType(bytes)
           b == substr(bytes, first)
<1>1. first # npos
  BY DEF deserialize
<1>2. Len(bytes) \in Nat
  BY LenProperties
<1>3. /\ first \in (1..Len(bytes)) \cup {npos}
      /\ first # npos => bytes[first] \in MsgType
  BY <1>2, findProperties DEF findFirstMsgType
<1> HIDE DEF first
<1>4. b[1] \in MsgType
  <2>1. first \in 1..Len(bytes) /\ bytes[first] \in MsgType
    BY <1>1, <1>3
  <2>2. \A i \in first..Len(bytes) : bytes[i] \in Byte
    <3>1. \A i \in first..Len(bytes) : i \in 1..Len(bytes)
      BY <1>2, <2>1
    <3> QED
      BY <3>1, ElementOfSeq
  <2>3. first \in Int /\ Len(bytes) \in Int
    BY <1>2, <2>1
  <2>4. \A i \in 1..Len(bytes) - first + 1 :
          SubSeq(bytes, first, Len(bytes))[i] = bytes[first + i - 1]
    BY ONLY <2>2, <2>3, SubSeqProperties
  <2>5. 1 \in 1..Len(bytes) - first + 1 /\ first + 1 - 1 = first
    BY <1>2, <2>1
  <2> QED
    BY ONLY <2>1, <2>4, <2>5 DEF substr
<1>5. deserialize(bytes) =
        CASE b[1] = TYPE_CONNECTION_MSG       -> deserializeConnection(b)
          [] b[1] = TYPE_SERVER_CONN_RESPONSE -> deserializeResponse(b)
          [] b[1] = TYPE_OPERATION_MSG        -> deserializeOperation(b)
          [] b[1] = TYPE_TUPLE_ELEM           -> deserializeElem(b)
          [] b[1] = TYPE_TUPLE_PATTERN_ELEM   -> deserializePattern(b)
  BY <1>1, Zenon DEF deserialize, first
<1>6. /\ b[1] = TYPE_CONNECTION_MSG => deserialize(bytes) = deserializeConnection(b)
      /\ b[1] = TYPE_SERVER_CONN_RESPONSE => deserialize(bytes) = deserializeResponse(b)
      /\ b[1] = TYPE_OPERATION_MSG => deserialize(bytes) = deserializeOperation(b)
      /\ b[1] = TYPE_TUPLE_ELEM => deserialize(bytes) = deserializeElem(b)
      /\ b[1] = TYPE_TUPLE_PATTERN_ELEM => deserialize(bytes) = deserializePattern(b)
  <2> HIDE DEF b
  <2> QED
    BY ONLY <1>5 DEF TYPE_CONNECTION_MSG, TYPE_OPERATION_MSG, TYPE_SERVER_CONN_RESPONSE,
                     TYPE_TUPLE_ELEM, TYPE_TUPLE_PATTERN_ELEM
<1> HIDE DEF b
<1>7. CASE b[1] = TYPE_CONNECTION_MSG
  BY <1>6, <1>7 DEF deserializeConnection, ConnectionMessage, MsgType
<1>8. CASE b[1] = TYPE_SERVER_CONN_RESPONSE
  BY <1>6, <1>8 DEF deserializeResponse, ServerConnectionResponse, MsgType
<1>9. CASE b[1] = TYPE_OPERATION_MSG
  BY <1>6, <1>9 DEF deserializeOperation, OperationMessage, MsgType
<1>10. CASE b[1] = TYPE_TUPLE_ELEM
  <2>1. \E t, e : r = TupleElemMessage(t, e)
    BY <1>6, <1>10 DEF deserializeElem
  <2> QED
    BY <2>1 DEF TupleElemMessage, MsgType
<1>11. CASE b[1] = TYPE_TUPLE_PATTERN_ELEM
  <2>1. \E p : r = PatternMessage(p)
    BY <1>6, <1>11 DEF deserializePattern
  <2> QED
    BY <2>1 DEF PatternMessage, MsgType
<1> QED
  BY <1>4, <1>7, <1>8, <1>9, <1>10, <1>11 DEF MsgType

-----------------------------------------------------------------------------
(* What is read from any text                                              *)

(* Where a subsequence inside its bounds ends and begins.                  *)
LEMMA LengthOfSubSeq ==
  ASSUME NEW S, NEW s \in Seq(S), NEW m \in Int, NEW n \in Int, 1 <= m, n <= Len(s)
  PROVE  /\ SubSeq(s, m, n) \in Seq(S)
         /\ Len(SubSeq(s, m, n)) = IF m <= n THEN n - m + 1 ELSE 0
         /\ m <= n => SubSeq(s, m, n) # << >> /\ SubSeq(s, m, n)[1] = s[m]
<1>1. Len(s) \in Nat
  BY LenProperties
<1>2. \A i \in m..n : s[i] \in S
  <2>1. \A i \in m..n : i \in 1..Len(s)
    BY <1>1
  <2> QED
    BY <2>1, ElementOfSeq
<1>3. /\ SubSeq(s, m, n) \in Seq(S)
      /\ Len(SubSeq(s, m, n)) = IF m <= n THEN n - m + 1 ELSE 0
      /\ \A i \in 1..n - m + 1 : SubSeq(s, m, n)[i] = s[m + i - 1]
  BY <1>2, SubSeqProperties
<1>4. ASSUME m <= n
      PROVE  SubSeq(s, m, n) # << >> /\ SubSeq(s, m, n)[1] = s[m]
  <2> DEFINE u == SubSeq(s, m, n)
  <2>1. 1 \in 1..n - m + 1 /\ m + 1 - 1 = m /\ n - m + 1 # 0
    BY <1>4
  <2>2. u \in Seq(S) /\ Len(u) # 0
    BY <1>3, <1>4, <2>1
  <2>3. u[1] = s[m]
    BY <1>3, <2>1
  <2> HIDE DEF u
  <2>4. u # << >>
    BY <2>2, EmptySeq
  <2> QED
    BY <2>3, <2>4 DEF u
<1> QED
  BY <1>3, <1>4

(* Unsigned and substr of a text are texts.                                *)
LEMMA TextParts ==
  ASSUME NEW S, NEW text \in Seq(S)
  PROVE  /\ Unsigned(text) \in Seq(S)
         /\ \A n \in Nat \ {0} : substr(text, n) \in Seq(S)
         /\ text # << >> => Tail(text) \in Seq(S)
<1>1. text # << >> => Tail(text) \in Seq(S)
  BY HeadTailProperties
<1>2. Unsigned(text) \in Seq(S)
  BY <1>1 DEF Unsigned
<1>3. ASSUME NEW n \in Nat \ {0}
      PROVE  substr(text, n) \in Seq(S)
  <2>1. Len(text) \in Nat
    BY LenProperties
  <2> QED
    BY <2>1, LengthOfSubSeq DEF substr
<1> QED
  BY <1>1, <1>2, <1>3

(* A number that begins with a digit has no sign.                          *)
LEMMA SignedIs ==
  ASSUME NEW text, NEW n \in Nat
  PROVE  /\ Signed(text, n) \in Int
         /\ text # << >> /\ text[1] \in Digits => Signed(text, n) = n
  BY DEF Signed, Minus, Digits

(* std::stoi gives an int, and none below 0 if the text begins with a      *)
(* digit.                                                                  *)
LEMMA stoiResults ==
  ASSUME NEW text \in Seq(Nat)
  PROVE  /\ stoi(text) \subseteq CInt
         /\ text # << >> /\ text[1] \in Digits => stoi(text) \subseteq 0..INT_MAX
<1> DEFINE t == Trimmed(text)
           digits == LeadingDigits(Unsigned(t))
           n == NumberOf(digits)
           v == Signed(t, n)
<1>1. t \in Seq(Nat) /\ (text # << >> /\ text[1] # Blank => t = text)
  BY TrimmedProperties
<1> HIDE DEF t
<1>2. digits \in Seq(Digits)
  BY <1>1, TextParts, LeadingDigitsProperties
<1> HIDE DEF digits
<1>3. n \in Nat
  BY <1>2, NumberIsNatural
<1> HIDE DEF n
<1>4. v \in Int /\ (t # << >> /\ t[1] \in Digits => v = n)
  BY <1>3, SignedIs
<1>5. stoi(text) = IF digits = << >> \/ v > INT_MAX \/ v < -(INT_MAX + 1) THEN {} ELSE {v}
  BY DEF stoi, t, digits, n
<1> HIDE DEF v
<1>6. INT_MAX \in Nat
  BY IntAssumption
<1>7. text # << >> /\ text[1] \in Digits => v = n
  <2>1. Blank \notin Digits
    BY DEF Blank, Digits
  <2> QED
    BY ONLY <1>1, <1>4, <2>1, Zenon
<1> QED
  BY <1>3, <1>4, <1>5, <1>6, <1>7 DEF CInt

(* std::stod gives a number, and none below 0 if the text begins with a    *)
(* digit.                                                                  *)
LEMMA stodResults ==
  ASSUME NEW text \in Seq(Nat)
  PROVE  /\ stod(text) \subseteq Int
         /\ text # << >> /\ text[1] \in Digits => stod(text) \subseteq Nat
<1> DEFINE t == Trimmed(text)
           digits == LeadingDigits(Unsigned(t))
           rest == substr(Unsigned(t), Len(digits) + 1)
           fraction == IF rest # << >> /\ rest[1] = Dot
                       THEN LeadingDigits(Tail(rest)) ELSE << >>
           places == SubSeq(fraction \o Padding(7), 1, 7)
           n == 10^7 * NumberOf(digits) + NumberOf(places)
           v == Signed(t, n)
<1>1. t \in Seq(Nat) /\ (text # << >> /\ text[1] # Blank => t = text)
  BY TrimmedProperties
<1> HIDE DEF t
<1>2. Unsigned(t) \in Seq(Nat)
  BY <1>1, TextParts
<1>3. digits \in Seq(Digits)
  BY <1>2, LeadingDigitsProperties
<1> HIDE DEF digits
<1>4. rest \in Seq(Nat)
  <2>1. Len(digits) + 1 \in Nat \ {0}
    BY <1>3, LenProperties
  <2> QED
    BY <1>2, <2>1, TextParts
<1> HIDE DEF rest
<1>5. fraction \in Seq(Digits)
  <2>1. CASE rest # << >> /\ rest[1] = Dot
    <3>1. Tail(rest) \in Seq(Nat)
      BY <1>4, <2>1, HeadTailProperties
    <3> QED
      BY <2>1, <3>1, LeadingDigitsProperties
  <2>2. CASE ~(rest # << >> /\ rest[1] = Dot)
    BY <2>2, EmptySeq
  <2> QED
    BY <2>1, <2>2
<1> HIDE DEF fraction
<1>6. places \in Seq(Digits)
  <2>1. << >> \in Seq(Digits)
    BY EmptySeq
  <2>2. Padding(7) \in Seq(Digits) /\ Len(Padding(7)) = 7
    BY <2>1, LeadingZeros
  <2> DEFINE pad == Padding(7)
             w == fraction \o pad
  <2> HIDE DEF pad
  <2>3. /\ w \in Seq(Digits) /\ Len(w) = Len(fraction) + Len(pad)
    BY ONLY <1>5, <2>2, ConcatProperties DEF pad
  <2>4. Len(fraction) \in Nat
    BY <1>5, LenProperties
  <2> HIDE DEF w
  <2>5. 7 <= Len(w)
    <3>1. Len(pad) = 7
      BY <2>2 DEF pad
    <3> QED
      BY ONLY <2>3, <2>4, <3>1
  <2>6. SubSeq(w, 1, 7) \in Seq(Digits)
    BY <2>3, <2>5, LengthOfSubSeq
  <2> QED
    BY <2>6 DEF w, pad
<1> HIDE DEF places
<1>7. n \in Nat
  <2>1. NumberOf(digits) \in Nat /\ NumberOf(places) \in Nat
    BY <1>3, <1>6, NumberIsNatural
  <2>2. 10^7 \in Nat
    BY SMT
  <2> QED
    BY <2>1, <2>2
<1> HIDE DEF n
<1>8. v \in Int /\ (t # << >> /\ t[1] \in Digits => v = n)
  BY <1>7, SignedIs
<1>9. stod(text) = IF digits \o fraction = << >> THEN {} ELSE {v}
  BY DEF stod, t, digits, rest, fraction, places, n
<1> HIDE DEF v
<1>10. text # << >> /\ text[1] \in Digits => v = n
  <2>1. Blank \notin Digits
    BY DEF Blank, Digits
  <2> QED
    BY ONLY <1>1, <1>8, <2>1, Zenon
<1> QED
  BY <1>7, <1>8, <1>9, <1>10

(* Whatever the constructors of a pattern accept, they make a pattern.     *)
LEMMA ConstructResults ==
  ASSUME NEW type \in ElemType, NEW text \in Seq(Nat)
  PROVE  Construct(type, text) \subseteq PatternElem
<1>1. ASSUME NEW op \in Operator, NEW v,
             type = ELEM_INT => v \in CInt,
             type = ELEM_FLOAT => v \in Int,
             type = ELEM_STRING => v \in Seq(Nat),
             IF op = "All" THEN v = Anything(type)
             ELSE type = ELEM_STRING => v # << >> /\ v[1] # Blank
      PROVE  [elem_type |-> type, op |-> op, value |-> v] \in PatternElem
  <2> DEFINE p == [elem_type |-> type, op |-> op, value |-> v]
  <2>1. CASE type = ELEM_STRING
    <3>1. p \in [elem_type : {ELEM_STRING}, op : Operator, value : Seq(Nat)]
      BY <1>1, <2>1
    <3>2. IF p.op = "All" THEN p.value = << >> ELSE p.value # << >> /\ p.value[1] # Blank
      BY <1>1, <2>1 DEF Anything
    <3> HIDE DEF p
    <3> QED
      BY <3>1, <3>2 DEF PatternElem, p
  <2>2. CASE type = ELEM_INT
    <3>1. p \in [elem_type : {ELEM_INT}, op : Operator, value : CInt]
      BY <1>1, <2>2
    <3>2. p.op = "All" => p.value = 0
      BY <1>1, <2>2 DEF Anything, ELEM_INT, ELEM_STRING
    <3> HIDE DEF p
    <3> QED
      BY <3>1, <3>2 DEF PatternElem, p
  <2>3. CASE type = ELEM_FLOAT
    <3>1. p \in [elem_type : {ELEM_FLOAT}, op : Operator, value : Int]
      BY <1>1, <2>3
    <3>2. p.op = "All" => p.value = 0
      BY <1>1, <2>3 DEF Anything, ELEM_FLOAT, ELEM_STRING
    <3> HIDE DEF p
    <3> QED
      BY <3>1, <3>2 DEF PatternElem, p
  <2> QED
    BY <2>1, <2>2, <2>3 DEF ElemType
<1>2. CASE text = <<Star>>
  <2>1. Construct(type, text)
          = {[elem_type |-> type, op |-> "All", value |-> Anything(type)]}
    BY <1>2 DEF Construct
  <2>2. /\ type = ELEM_INT => Anything(type) \in CInt
        /\ type = ELEM_FLOAT => Anything(type) \in Int
        /\ type = ELEM_STRING => Anything(type) \in Seq(Nat)
    BY IntAssumption DEF Anything, ELEM_INT, ELEM_FLOAT, ELEM_STRING, CInt
  <2>3. "All" \in Operator
    BY DEF Operator
  <2>4. [elem_type |-> type, op |-> "All", value |-> Anything(type)] \in PatternElem
    BY <1>1, <2>2, <2>3
  <2> QED
    BY <2>1, <2>4
<1>3. CASE text # <<Star>> /\ Beginning(text) = {}
  <2>1. Construct(type, text) = {}
    BY <1>3 DEF Construct
  <2> QED
    BY <2>1
<1>4. CASE text # <<Star>> /\ Beginning(text) # {}
  <2> DEFINE op == Longest(Beginning(text))
             rest == substr(text, Len(operatorToString[op]) + 1)
  <2>1. op \in Operator /\ op # "All"
    <3>1. op \in Beginning(text)
      <4>1. PICK o \in Beginning(text) :
              o \notin OneChar \/ \A q \in Beginning(text) : q \in OneChar
        BY <1>4
      <4>2. o \in OneChar => ~(Len(text) >= 2 /\ text[2] = 61)
        <5> SUFFICES ASSUME o \in OneChar, Len(text) >= 2, text[2] = 61
                     PROVE  FALSE
          OBVIOUS
        <5>1. o \in {"GreaterThan", "LessThan"} /\ text[1] = FirstChar[o]
          BY <4>1, BeginningIs DEF OneChar, Beginning
        <5>2. /\ Misread(o) \in Operator /\ Misread(o) # "All"
              /\ FirstChar[Misread(o)] = FirstChar[o] /\ Misread(o) \notin OneChar
          BY <5>1 DEF Misread, Operator, FirstChar, OneChar
        <5>3. Len(text) \in Nat
          BY LenProperties
        <5>4. Misread(o) \in Beginning(text)
          BY <5>1, <5>2, <5>3, BeginningIs
        <5> QED
          BY <4>1, <5>2, <5>4
      <4>3. op = o
        BY <4>1, <4>2, LongestIs
      <4> QED
        BY <4>1, <4>3
    <3> QED
      BY <3>1 DEF Beginning
  <2> HIDE DEF op
  <2>2. rest \in Seq(Nat)
    <3>1. Len(operatorToString[op]) + 1 \in Nat \ {0}
      <4>1. operatorToString[op] \in Seq(Byte)
        BY <2>1, OperatorTexts
      <4> QED
        BY <4>1, LenProperties
    <3> QED
      BY <3>1, TextParts
  <2>3. Construct(type, text) = {[elem_type |-> type, op |-> op, value |-> v] :
                                   v \in ValueOf(type, rest)}
    BY <1>4 DEF Construct, op
  <2> HIDE DEF rest
  <2>4. ASSUME NEW v \in ValueOf(type, rest)
        PROVE  /\ type = ELEM_INT => v \in CInt
               /\ type = ELEM_FLOAT => v \in Int
               /\ type = ELEM_STRING => v \in Seq(Nat) /\ v # << >> /\ v[1] # Blank
    <3>1. CASE type = ELEM_INT
      <4>1. v \in stoi(rest)
        <5>1. ValueOf(type, rest) = stoi(rest)
          BY <3>1 DEF ValueOf, ELEM_INT, ELEM_FLOAT, ELEM_STRING
        <5> QED
          BY <2>4, <5>1
      <4>2. v \in CInt
        BY <2>2, <4>1, stoiResults
      <4> QED
        BY <3>1, <4>2 DEF ELEM_INT, ELEM_FLOAT, ELEM_STRING
    <3>2. CASE type = ELEM_FLOAT
      <4>1. v \in stod(rest)
        <5>1. ValueOf(type, rest) = stod(rest)
          BY <3>2 DEF ValueOf, ELEM_INT, ELEM_FLOAT, ELEM_STRING
        <5> QED
          BY <2>4, <5>1
      <4>2. v \in Int
        BY <2>2, <4>1, stodResults
      <4> QED
        BY <3>2, <4>2 DEF ELEM_INT, ELEM_FLOAT, ELEM_STRING
    <3>3. CASE type = ELEM_STRING
      <4>1. v = Trimmed(rest) /\ v # << >>
        BY <2>4, <3>3 DEF ValueOf, ELEM_INT, ELEM_FLOAT, ELEM_STRING
      <4>2. v \in Seq(Nat) /\ v[1] # Blank
        BY <2>2, <4>1, TrimmedProperties
      <4> QED
        BY <3>3, <4>1, <4>2 DEF ELEM_INT, ELEM_FLOAT, ELEM_STRING
    <3> QED
      BY <3>1, <3>2, <3>3 DEF ElemType
  <2>5. \A v \in ValueOf(type, rest) :
          [elem_type |-> type, op |-> op, value |-> v] \in PatternElem
    BY <1>1, <2>1, <2>4
  <2> QED
    BY <2>3, <2>5
<1> QED
  BY <1>2, <1>3, <1>4

=============================================================================
