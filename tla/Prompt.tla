------------------------------- MODULE Prompt -------------------------------
(***************************************************************************)
(* A command from the keyboard to the service thread: the line is parsed   *)
(* (Parser), sendTuple or sendPattern (src/linda_common.cpp) make a header *)
(* and a message for each element, and these are serialized, cut and       *)
(* deserialized again (Codec).                                             *)
(*                                                                         *)
(* What else travels between the processes, replies and the messages of    *)
(* the bus, is sent without being typed.                                   *)
(***************************************************************************)
EXTENDS Parser, Codec

CONSTANTS
  Messages,      \* what is sent without being typed
  DoubleBytes(_) \* the eight bytes of a double

ASSUME PromptAssumption == Messages \subseteq Message

VARIABLES
  next,   \* messages of the command that have been made
  arrived \* the messages that the receiver got before this one

promptVars == <<vars, wireVars, next, arrived>>

PromptInit == Init /\ WireInit /\ next = 0 /\ arrived = << >>

-----------------------------------------------------------------------------
OpOf ==
  [w \in {ReadWord, InputWord, OutputWord} |->
     IF w = ReadWord THEN 128 ELSE IF w = InputWord THEN 64 ELSE 32]

(* The four bytes of an int that is not negative: the parser takes no sign.*)
IntBytes(n) == [i \in 1..4 |-> (n \div 256^(i - 1)) % 256]

(* The message of a value, or of a pattern.                                *)
ElemMessage(e) ==
  IF "op" \in DOMAIN e THEN PatternMessage(e)
  ELSE TupleElemMessage(e.elem_type,
         CASE e.elem_type = ELEM_INT    -> IntBytes(e.value)
           [] e.elem_type = ELEM_FLOAT  -> DoubleBytes(e.value)
           [] e.elem_type = ELEM_STRING -> e.value)

Header(op, elems) == OperationMessage(op, IntBytes(Len(elems)))

(* Seeded bug: the header is sent behind the elements.                     *)
SentHeaderLast(op, elems) ==
  [i \in DOMAIN elems |-> ElemMessage(elems[i])] \o <<Header(op, elems)>>

(* sendTuple and sendPattern: the messages they make, one by one.          *)
Sent(op, elems) ==
  <<Header(op, elems)>> \o [i \in DOMAIN elems |-> ElemMessage(elems[i])]

-----------------------------------------------------------------------------
(* The user types a line or the tuple that was shown, and it is parsed.    *)
Typing ==
  /\ phase = "none"
  /\ Next
  /\ UNCHANGED <<wireVars, next, arrived>>

ToSend == Sent(OpOf[line[1]], result)

(* A message of the command is made when the one before has arrived: what  *)
(* becomes of a message does not depend on the others.                     *)
handleCommand ==
  /\ pc = "done"
  /\ next < Len(ToSend)
  /\ next' = next + 1
  /\ make(ToSend[next'])
  /\ arrived' = arrived \o received
  /\ UNCHANGED vars

(* Another message is sent while nobody types.                             *)
sendOther ==
  /\ pc = "prompt" /\ phase = "none"
  /\ \E m \in Messages : make(m)
  /\ UNCHANGED <<vars, next, arrived>>

PromptNext ==
  \/ Typing
  \/ handleCommand
  \/ sendOther
  \/ Transmit /\ UNCHANGED <<vars, next, arrived>>

-----------------------------------------------------------------------------
(* The messages that the line stands for, told from its meaning.           *)
Meant ==
  [i \in 1..Len(Pieces(line)) + 1 |->
     IF i = 1 THEN Header(OpOf[line[1]], Pieces(line))
     ELSE ElemMessage(CHOOSE e \in Meaning(line, Pieces(line)[i - 1]) : TRUE)]

(* When a command has been sent, the receiver has the header and the       *)
(* elements that the line means, all of them, once, in order and with      *)
(* their values, unless one of them has one of the known defects.          *)
CommandArrives ==
  pc = "done" /\ next = Len(ToSend) /\ Arrived =>
    \/ arrived \o received = Meant
    \/ \E i \in DOMAIN Meant : Defective(Meant[i])

(* OthersArrive and DefectsAreThese of Codec, also of what a line yields:  *)
(* every message that has no defect arrives once and as it was sent, a     *)
(* double is off by half of 10^-6 at most, and an operator takes no more   *)
(* than a "=" of the value.                                                *)
MessagesArrive == OthersArrive /\ DefectsAreThese

=============================================================================
