---------------------------- MODULE PatternText ----------------------------
(***************************************************************************)
(* Pattern elements as text: the constructors String, Int and Float and    *)
(* operatorToString of src/tuple.cpp, and the conversions of the standard  *)
(* library that they and their callers use.                                *)
(*                                                                         *)
(* A text is a sequence of character codes.  A double is the number of     *)
(* steps of 10^-7 in it, one digit more than std::to_string writes; of the *)
(* notations of std::stod, decimal fractions are modelled.                 *)
(***************************************************************************)
EXTENDS TupleMatch, SequencesExt, FiniteSets

CONSTANT INT_MAX \* the largest int

ASSUME IntAssumption == INT_MAX \in Nat /\ INT_MAX <= 2147483647

CInt == -(INT_MAX + 1)..INT_MAX

Blank  == 32
Minus  == 45
Dot    == 46
Digits == 48..57
Star   == 42

(* Searches in a std::string; they return npos if there is nothing.        *)
npos == 0

FirstOf(S) == IF S = {} THEN npos ELSE Min(S)

(* The positions of a set, the first one first.                            *)
Ascending(S) ==
  [i \in 1..Cardinality(S) |->
     CHOOSE x \in S : Cardinality({y \in S : y <= x}) = i]

find(text, chars, from) == FirstOf({i \in from..Len(text) : text[i] \in chars})

find_first_not_of(text, chars, from) ==
  FirstOf({i \in from..Len(text) : text[i] \notin chars})

substr(text, from) == SubSeq(text, from, Len(text))

(* The text without its leading blanks.                                    *)
Trimmed(text) ==
  LET i == find_first_not_of(text, {Blank}, 1) IN
  IF i = npos THEN << >> ELSE substr(text, i)

-----------------------------------------------------------------------------
(* Numbers.  What may throw is a set: of its result, or empty if it throws.*)

NumberOf(digits) ==
  LET number[k \in 0..Len(digits)] ==
        IF k = 0 THEN 0 ELSE 10 * number[k - 1] + (digits[k] - 48)
  IN  number[Len(digits)]

LeadingDigits(text) ==
  LET i == find_first_not_of(text, Digits, 1) IN
  IF i = npos THEN text ELSE SubSeq(text, 1, i - 1)

Signed(text, n) == IF text # << >> /\ text[1] = Minus THEN -n ELSE n
Unsigned(text)  == IF text # << >> /\ text[1] = Minus THEN Tail(text) ELSE text

stoi(text) ==
  LET t      == Trimmed(text)
      digits == LeadingDigits(Unsigned(t))
      n      == Signed(t, NumberOf(digits))
  IN  IF digits = << >> \/ n > INT_MAX \/ n < -(INT_MAX + 1) THEN {} ELSE {n}

Padding(n) == [i \in 1..n |-> 48]

stod(text) ==
  LET t        == Trimmed(text)
      digits   == LeadingDigits(Unsigned(t))
      rest     == substr(Unsigned(t), Len(digits) + 1)
      fraction == IF rest # << >> /\ rest[1] = Dot
                  THEN LeadingDigits(Tail(rest)) ELSE << >>
  IN  IF digits \o fraction = << >> THEN {}
      ELSE {Signed(t, 10^7 * NumberOf(digits)
                      + NumberOf(SubSeq(fraction \o Padding(7), 1, 7)))}

Decimal(n) ==
  LET length == Min({k \in 1..9 : n < 10^k} \cup {10})
  IN  [i \in 1..length |-> 48 + ((n \div 10^(length - i)) % 10)]

Abs(n)  == IF n < 0 THEN -n ELSE n
Sign(n) == IF n < 0 THEN <<Minus>> ELSE << >>

(* std::to_string of an int and of a double, which rounds to six decimals. *)
IntText(n) == Sign(n) \o Decimal(Abs(n))

DoubleText(x) ==
  LET millionths == (Abs(x) + 5) \div 10
      fraction   == Decimal(millionths % 10^6)
  IN  Sign(x) \o Decimal(millionths \div 10^6) \o <<Dot>>
        \o Padding(6 - Len(fraction)) \o fraction

-----------------------------------------------------------------------------
(* Patterns                                                                *)

operatorToString ==
  [All |-> <<Star>>, Equal |-> <<61, 61>>, NotEqual |-> <<33, 61>>,
   GreaterThan |-> <<62>>, LessThan |-> <<60>>,
   NotGreaterThan |-> <<60, 61>>, NotLessThan |-> <<62, 61>>]

(* What the constructors make.  The value of "any" is not set.             *)
PatternElem ==
  {p \in [elem_type : {ELEM_STRING}, op : Operator, value : Seq(Nat)] :
     IF p.op = "All" THEN p.value = << >> ELSE p.value # << >> /\ p.value[1] # Blank}
    \cup {p \in [elem_type : {ELEM_INT}, op : Operator, value : CInt] :
            p.op = "All" => p.value = 0}
    \cup {p \in [elem_type : {ELEM_FLOAT}, op : Operator, value : Int] :
            p.op = "All" => p.value = 0}

(* The operators that a text may begin with; the constructors look for the *)
(* longer one.                                                             *)
Beginning(text) ==
  {op \in Operator \ {"All"} : IsPrefix(operatorToString[op], text)}

Longest(ops) ==
  CHOOSE op \in ops :
    \A o \in ops : Len(operatorToString[o]) <= Len(operatorToString[op])

ValueOf(type, text) ==
  CASE type = ELEM_INT    -> stoi(text)
    [] type = ELEM_FLOAT  -> stod(text)
    [] type = ELEM_STRING -> {Trimmed(text)} \ {<< >>}

Anything(type) == IF type = ELEM_STRING THEN << >> ELSE 0

(* The constructors Int, Float and String.                                 *)
Construct(type, text) ==
  IF text = <<Star>>
  THEN {[elem_type |-> type, op |-> "All", value |-> Anything(type)]}
  ELSE IF Beginning(text) = {} THEN {}
  ELSE LET op == Longest(Beginning(text)) IN
       {[elem_type |-> type, op |-> op, value |-> v] :
          v \in ValueOf(type, substr(text, Len(operatorToString[op]) + 1))}

(* The value of a pattern as serialize(Pattern) writes it.                 *)
ValueText(type, value) ==
  CASE type = ELEM_INT    -> IntText(value)
    [] type = ELEM_FLOAT  -> DoubleText(value)
    [] type = ELEM_STRING -> value

PatternString(p) ==
  operatorToString[p.op]
    \o IF p.op = "All" THEN << >> ELSE ValueText(p.elem_type, p.value)

=============================================================================
