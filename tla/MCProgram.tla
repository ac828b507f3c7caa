------------------------------ MODULE MCProgram ------------------------------
(* Instances of Program for TLC.                                           *)
EXTENDS ProgramInvariant

(* "-v", "-v3", "-v=OFF", "-v=junk", "3", "ERROR" and "a.log".             *)
Args == [flag : {TRUE}, text : {"", "3", "OFF", "junk"}]
          \cup [flag : {FALSE}, text : {"3", "ERROR", "a.log"}]

UpTo(S, n) == UNION {[1..k -> S] : k \in 0..n}

UpToThree == UpTo(Args, 3)

-----------------------------------------------------------------------------
(* Lines.  Every line of five symbols that is about a tuple ...            *)
After(start, tails) == {start \o t : t \in tails}

TupleSymbols == {Open, Close, Comma, Quote, Blank, 55, Dot}

TupleLines == After(<<OutputWord>>, UpTo(TupleSymbols, 5))

(* ... and a pattern: any arrangement of these parts.                      *)
PatternParts ==
  {<<Open>>, <<Close>>, <<Comma>>, <<Blank>>,
   <<TypeWord[ELEM_STRING], Open>>, <<TypeWord[ELEM_INT], Blank, Open>>,
   <<Quote, 42, Quote>>, <<Quote, 62, 55, Quote>>, <<Quote>>}

PatternLines ==
  {<<InputWord>> \o FlattenSeq(parts) : parts \in UpTo(PatternParts, 4)}

(* Longer ones that are well formed up to one symbol.                      *)
Good ==
  {<<OutputWord, Open, 55, Dot, 55, Comma, Quote, Comma, Close, Quote, Close>>,
   <<OutputWord, Blank, Open, 55, 55, Comma, Blank, 55, Blank, Comma, Close>>,
   <<ReadWord, Open, 1010, Open, Quote, 61, 61, 55, Quote, Close, Comma,
     Blank, 1011, Blank, Open, Quote, 60, 55, Dot, 53, Quote, Blank, Close, Close>>}

OneOff(l) ==
  {l} \cup {RemoveAt(l, i) : i \in DOMAIN l}
      \cup {InsertAt(l, i, c) : i \in DOMAIN l, c \in TupleSymbols \cup {97}}
      \cup {SubSeq(l, 1, i) : i \in DOMAIN l}

(* Patterns of every kind: an operator or a part of one, blanks, a value.  *)
Starts  == {<< >>, <<42>>, <<61>>, <<61, 61>>, <<33, 61>>, <<62>>, <<62, 61>>,
            <<60>>, <<60, 61>>}
Blanks  == {<< >>, <<32>>}
Strings == {<< >>, <<97>>, <<61>>, <<61, 97>>, <<61, 32, 97>>, <<42>>, <<8, 128>>, <<36>>}
Numbers == {<< >>, <<55>>, <<45, 49, 50>>, <<57, 57>>, <<49, 48, 48>>, <<97>>}
Doubles == {<< >>, <<46>>, <<50, 46, 53>>, <<45, 49, 46>>,
            <<48, 46, 48, 48, 48, 48, 48, 48, 49>>,
            <<49, 46, 57, 57, 57, 57, 57, 57, 55>>}

OnePattern(type, values) ==
  {<<ReadWord, Open, TypeWord[type], Open, Quote>> \o s \o b \o v
     \o <<Quote, Close, Close>> : s \in Starts, b \in Blanks, v \in values}

(* Values with bytes that are terminators and message types.               *)
Values ==
  {<<OutputWord, Open>> \o v \o <<Close>> :
     v \in {<<51, 54>>, <<51, 50, Comma, 56>>, <<Quote, 128, 32, Quote>>,
            <<Quote, 36, Quote, Comma, 55>>, <<55, Dot, Comma, 57, 57>>}}

AllLines ==
  TupleLines \cup PatternLines \cup Values \cup UNION {OneOff(l) : l \in Good}
    \cup OnePattern(ELEM_STRING, Strings) \cup OnePattern(ELEM_INT, Numbers)
    \cup OnePattern(ELEM_FLOAT, Doubles)

-----------------------------------------------------------------------------
(* Messages of bytes that are message types, flags, digits or terminators. *)
Bytes == {0, 1, 8, 32, 36, 128, 255}

Paths   == {<< >>, <<47, 116, 109, 112>>, <<47, 64, 8>>}
Sizes   == {<<0, 0, 0, 0>>, <<2, 0, 0, 0>>, <<32, 0, 0, 0>>}
OpCodes == {128, 64, 32, 16}

SampleDouble(x) ==
  <<0, 0, 0, Abs(x) % 256, (Abs(x) \div 256) % 256, (Abs(x) \div 65536) % 256,
    Abs(x) \div 16777216, IF x < 0 THEN 192 ELSE 64>>

AllMessages ==
  {ConnectionMessage(b) : b \in BOOLEAN}
    \cup {ServerConnectionResponse(b, w, r) : b \in BOOLEAN, w, r \in Paths}
    \cup {OperationMessage(op, n) : op \in OpCodes, n \in Sizes}
    \cup {TupleElemMessage(ELEM_INT, <<a, b, c, 0>>) : a, b, c \in Bytes}
    \cup {TupleElemMessage(ELEM_FLOAT, <<a, 0, 0, 0, 0, b, c, 64>>) :
             a, b, c \in Bytes}
    \cup {TupleElemMessage(ELEM_STRING, t) : t \in UpTo(Bytes, 3)}

-----------------------------------------------------------------------------
(* What is typed and sent does not depend on how the log was set up: it is *)
(* explored for one set-up, without arguments and with a file.             *)
Interacts == pc' # "prompt" \/ phase' # "none"

OneSetup == args = << >> /\ left = 0 /\ callbacks # << >>

MCSpec == ProgramInit /\ [][main /\ (Interacts => OneSetup)]_programVars
=============================================================================
