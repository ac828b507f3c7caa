------------------------------- MODULE Parser -------------------------------
(***************************************************************************)
(* The command line of a client: parse, parseTupleElem, parsePattern and   *)
(* show of src/parser.cpp.  A line is a sequence of character codes in     *)
(* which a keyword is one symbol.  Each loop of the parser is an action.   *)
(*                                                                         *)
(* A line that is accepted as a tuple is parsed twice: as it was typed and *)
(* as show() prints the tuple.                                             *)
(***************************************************************************)
EXTENDS PatternText

CONSTANT Lines \* the lines that may be typed

ASSUME LinesAssumption == Lines \subseteq Seq(Nat)

Open  == 40
Close == 41
Comma == 44
Quote == 34

(* Keywords; no character has these codes.                                 *)
ReadWord   == 1001
OutputWord == 1002
InputWord  == 1003
TypeWord   == [t \in ElemType |-> 1010 + t]

VARIABLES
  line,   \* what is parsed
  pc,     \* "prompt", "parse", "loop", "done" or "failed"
  found,  \* the position in the line
  result, \* the elements so far
  astray, \* whether the line was indexed with npos
  typed   \* << >>, or the tuple that was parsed before it was shown

vars == <<line, pc, found, result, astray, typed>>

Init ==
  /\ line = << >>
  /\ pc = "prompt"
  /\ found = npos
  /\ result = << >>
  /\ astray = FALSE
  /\ typed = << >>

(* The user types a line.                                                  *)
getline ==
  /\ pc = "prompt"
  /\ line' \in Lines
  /\ pc' = "parse"
  /\ UNCHANGED <<found, result, astray, typed>>

IsTuple == line[1] = OutputWord

(* An exception leaves the parser.                                         *)
Fail ==
  /\ pc' = "failed"
  /\ UNCHANGED <<line, found, result, astray, typed>>

SkipTo(from) == find_first_not_of(line, {Blank}, from)

(* The character there, '\0' behind the end.  data[npos] is the byte in    *)
(* front of the characters, which is part of a length and 0.               *)
CharAt(i) == IF i = npos \/ i > Len(line) THEN 0 ELSE line[i]

(* parse, and the beginning of the two parsers.                            *)
parse ==
  /\ pc = "parse"
  /\ LET open  == SkipTo(2)
         first == SkipTo(open + 1)
     IN  IF \/ CharAt(1) \notin {ReadWord, OutputWord, InputWord}
            \/ CharAt(open) # Open
            \/ first = npos
         THEN Fail
         ELSE /\ pc' = "loop"
              /\ found' = first
              /\ UNCHANGED <<line, result, astray, typed>>

-----------------------------------------------------------------------------
(* One element of a tuple or of a pattern begins at a position: the set of *)
(* its value and of the position behind it, empty if it is refused.        *)

Text(first, last) == SubSeq(line, first, last)

Elem(type, v, next) == [elem |-> [elem_type |-> type, value |-> v], next |-> next]

StringElem(at) ==
  LET end == find(line, {Quote}, at + 1) IN
  IF end = npos THEN {}
  ELSE {Elem(ELEM_STRING, Text(at + 1, end - 1), end + 1)}

NumberElem(at) ==
  LET end  == find_first_not_of(line, Digits, at + 1)
      end2 == find_first_not_of(line, Digits, end + 1)
  IN  IF end = npos THEN {}
      ELSE IF line[end] # Dot
      THEN {Elem(ELEM_INT, v, end) : v \in stoi(Text(at, end - 1))}
      ELSE IF end2 = npos THEN {}
      ELSE {Elem(ELEM_FLOAT, v, end2) : v \in stod(Text(at, end2 - 1))}

TupleElemAt(at) ==
  IF CharAt(at) = Quote THEN StringElem(at)
  ELSE IF CharAt(at) \in Digits THEN NumberElem(at)
  ELSE {}

PatternAt(at) ==
  LET open  == SkipTo(at + 1)
      quote == SkipTo(open + 1)
      end   == find(line, {Quote}, quote + 1)
      close == SkipTo(end + 1)
  IN  {[elem |-> p, next |-> close + 1] :
         p \in UNION {Construct(t, Text(quote + 1, end - 1)) :
                        t \in {u \in ElemType : /\ CharAt(at) = TypeWord[u]
                                                /\ CharAt(open) = Open
                                                /\ CharAt(quote) = Quote
                                                /\ end # npos
                                                /\ CharAt(close) = Close}}}

ElemsAt(at) == IF IsTuple THEN TupleElemAt(at) ELSE PatternAt(at)

(* Seeded bug: whatever follows an element is taken for a comma.           *)
SkipSeparator ==
  /\ pc = "loop" /\ CharAt(found) # Close
  /\ IF ElemsAt(found) = {} THEN Fail
     ELSE \E e \in ElemsAt(found) :
            LET sep == SkipTo(e.next) IN
            /\ result' = Append(result, e.elem)
            /\ found' = IF CharAt(sep) = Close THEN sep ELSE SkipTo(sep + 1)
            /\ astray' = (astray \/ found' = npos)
            /\ UNCHANGED <<line, pc, typed>>

(* A turn of the loop: an element, and the comma if there is one, behind   *)
(* which the position may become npos.                                     *)
element ==
  /\ pc = "loop" /\ CharAt(found) # Close
  /\ IF ElemsAt(found) = {} THEN Fail
     ELSE \E e \in ElemsAt(found) :
            LET sep == SkipTo(e.next) IN
            IF CharAt(sep) \notin {Comma, Close} THEN Fail
            ELSE /\ result' = Append(result, e.elem)
                 /\ found' = IF CharAt(sep) = Comma THEN SkipTo(sep + 1) ELSE sep
                 /\ astray' = (astray \/ found' = npos)
                 /\ UNCHANGED <<line, pc, typed>>

(* Behind a pattern nothing may follow.                                    *)
finish ==
  /\ pc = "loop" /\ CharAt(found) = Close
  /\ IF ~IsTuple /\ SkipTo(found + 1) # npos THEN Fail
     ELSE pc' = "done" /\ UNCHANGED <<line, found, result, astray, typed>>

-----------------------------------------------------------------------------
ElemText(e) ==
  IF e.elem_type = ELEM_STRING THEN <<Quote>> \o e.value \o <<Quote>>
  ELSE ValueText(e.elem_type, e.value)

(* Seeded bug: a text is shown without its quotes.                         *)
ShowUnquoted(tuple) ==
  LET shown == <<Open, Blank>>
                 \o FlattenSeq([i \in DOMAIN tuple |->
                      ValueText(tuple[i].elem_type, tuple[i].value)
                        \o <<Blank, Comma, Blank>>])
  IN  SubSeq(shown, 1, Len(shown) - 2) \o <<Close>>

(* The last two characters are replaced: all there is of an empty tuple.   *)
show(tuple) ==
  LET shown == <<Open, Blank>>
                 \o FlattenSeq([i \in DOMAIN tuple |->
                      ElemText(tuple[i]) \o <<Blank, Comma, Blank>>])
  IN  SubSeq(shown, 1, Len(shown) - 2) \o <<Close>>

(* The client prints a tuple, and what it printed is typed.                *)
retype ==
  /\ pc = "done" /\ IsTuple /\ typed = << >> /\ result # << >>
  /\ typed' = result
  /\ line' = <<OutputWord>> \o show(result)
  /\ pc' = "parse"
  /\ found' = npos
  /\ result' = << >>
  /\ UNCHANGED astray

Parses == parse \/ element \/ finish

Next == getline \/ Parses \/ retype

Spec == Init /\ [][Next]_vars

-----------------------------------------------------------------------------
(* What the parser accepts, told of the whole line l.                      *)

Quoted(l, i) == Cardinality({j \in 1..i - 1 : l[j] = Quote}) % 2 = 1

(* The places of a character that is not in quotes.                        *)
Free(l, c) == {i \in DOMAIN l : l[i] = c /\ ~Quoted(l, i)}

Stripped(text) == Reverse(Trimmed(Reverse(Trimmed(text))))

(* The text that stands for a value of a tuple.                            *)
Literal(text) ==
  LET dots == {i \in DOMAIN text : text[i] = Dot}
  IN  IF text = << >> THEN {}
      ELSE IF Len(text) > 1 /\ text[1] = Quote /\ text[Len(text)] = Quote
              /\ \A i \in 2..Len(text) - 1 : text[i] # Quote
      THEN {[elem_type |-> ELEM_STRING, value |-> SubSeq(text, 2, Len(text) - 1)]}
      ELSE IF ToSet(text) \subseteq Digits
      THEN {[elem_type |-> ELEM_INT, value |-> v] : v \in stoi(text)}
      ELSE IF ToSet(text) \subseteq Digits \cup {Dot} /\ Cardinality(dots) = 1
              /\ text[1] # Dot
      THEN {[elem_type |-> ELEM_FLOAT, value |-> v] : v \in stod(text)}
      ELSE {}

(* The text that stands for a pattern: a type and, in parentheses, what    *)
(* its constructor takes.                                                  *)
PatternLiteral(text) ==
  LET body == Stripped(Tail(text))
      arg  == Stripped(SubSeq(body, 2, Len(body) - 1))
  IN  IF Len(text) < 4 \/ Len(body) < 3 THEN {}
      ELSE IF \/ body[1] # Open \/ body[Len(body)] # Close
              \/ Len(arg) < 2 \/ arg[1] # Quote \/ arg[Len(arg)] # Quote
              \/ Quote \in ToSet(SubSeq(arg, 2, Len(arg) - 1))
      THEN {}
      ELSE UNION {Construct(t, SubSeq(arg, 2, Len(arg) - 1)) :
                    t \in {u \in ElemType : text[1] = TypeWord[u]}}

Meaning(l, text) == IF l[1] = OutputWord THEN Literal(text) ELSE PatternLiteral(text)

(* A tuple ends at the first parenthesis, a pattern at the last one.       *)
BodyBegin(l) == FirstOf(Free(l, Open))

BodyEnd(l) ==
  IF Free(l, Close) = {} THEN npos
  ELSE IF l[1] = OutputWord THEN Min(Free(l, Close)) ELSE Max(Free(l, Close))

(* Where the pieces of the body begin and end: at its commas.              *)
Cuts(l) ==
  {BodyBegin(l), BodyEnd(l)}
    \cup {i \in Free(l, Comma) : BodyBegin(l) < i /\ i < BodyEnd(l)}

(* The last piece is left out if it is blank.                              *)
Pieces(l) ==
  LET cuts == Ascending(Cuts(l))
      all  == [i \in 1..Len(cuts) - 1 |->
                 Stripped(SubSeq(l, cuts[i] + 1, cuts[i + 1] - 1))]
  IN  IF Last(all) = << >> THEN Front(all) ELSE all

WellFormed(l) ==
  LET open == find_first_not_of(l, {Blank}, 2)
  IN  /\ l # << >> /\ l[1] \in {ReadWord, OutputWord, InputWord}
      /\ open # npos /\ l[open] = Open
      /\ BodyEnd(l) # npos
      /\ l[1] = OutputWord \/ Trimmed(substr(l, BodyEnd(l) + 1)) = << >>
      /\ \A i \in DOMAIN Pieces(l) : Meaning(l, Pieces(l)[i]) # {}

(* The parser accepts exactly the lines with a well-formed list of values  *)
(* or patterns, and yields what they mean, in order: for a comma or a      *)
(* parenthesis in a text, blanks anywhere, a comma before the end.  It     *)
(* reads data[npos] only if the line ends behind a comma, and refuses it.  *)
AcceptsTheGrammar ==
  /\ pc = "failed" => ~WellFormed(line)
  /\ pc = "done" =>
       /\ WellFormed(line)
       /\ Len(result) = Len(Pieces(line))
       /\ \A i \in DOMAIN result : result[i] \in Meaning(line, Pieces(line)[i])
  /\ astray =>
       /\ \E i \in DOMAIN line : /\ line[i] = Comma
                                /\ \A j \in i + 1..Len(line) : line[j] = Blank
       /\ pc # "done"

(* A tuple that a client prints can be typed: it is the same tuple, if it  *)
(* is not empty and its doubles have no more than six decimals.            *)
ShownIsTypeable ==
  typed # << >> => pc # "failed" /\ (pc = "done" => result = typed)

(* Everything stays in its type; the position is in the line or is npos.   *)
TypeOK ==
  /\ pc \in {"prompt", "parse", "loop", "done", "failed"}
  /\ found \in 0..Len(line)
  /\ \A i \in DOMAIN result : result[i].elem_type \in ElemType
  /\ astray \in BOOLEAN

=============================================================================
