------------------------------- MODULE Codec -------------------------------
(***************************************************************************)
(* What becomes of one message between the processes, byte by byte: the    *)
(* structures of include/message.hpp, src/serializer.cpp, the cutting of   *)
(* the stream in MessageBuffer::push and src/deserializer.cpp.  An int, a  *)
(* double and a size are their bytes, least significant first.             *)
(***************************************************************************)
EXTENDS PatternText

MESSAGE_TERM_CHAR == 36

TYPE_CONNECTION_MSG       == 128
TYPE_OPERATION_MSG        == 64
TYPE_TUPLE_ELEM           == 32
TYPE_SERVER_CONN_RESPONSE == 16
TYPE_TUPLE_PATTERN_ELEM   == 8

Byte == 0..255

(* The texts that messages carry are shorter than this.                    *)
TextLimit == 16000000

String == {t \in Seq(Byte) : Len(t) < TextLimit}

(* The doubles below 10^9: larger ones are not exact to 10^-7.             *)
Double == {x \in Int : Abs(x) \div 10^7 < 10^9}

MsgType == {TYPE_CONNECTION_MSG, TYPE_OPERATION_MSG, TYPE_TUPLE_ELEM,
            TYPE_SERVER_CONN_RESPONSE, TYPE_TUPLE_PATTERN_ELEM}

ConnectionMessage(b) == [type |-> TYPE_CONNECTION_MSG, connect |-> b]

ServerConnectionResponse(b, write, read) ==
  [type |-> TYPE_SERVER_CONN_RESPONSE, connected |-> b, fifo_write |-> write,
   fifo_read |-> read]

OperationMessage(op, size) ==
  [type |-> TYPE_OPERATION_MSG, op_type |-> op, tuple_size |-> size]

TupleElemMessage(t, e) == [type |-> TYPE_TUPLE_ELEM, elem_type |-> t, elem |-> e]

PatternMessage(p) == [type |-> TYPE_TUPLE_PATTERN_ELEM, pattern |-> p]

(* The messages that the programs construct.                               *)
Message ==
  [type : {TYPE_CONNECTION_MSG}, connect : BOOLEAN]
    \cup [type : {TYPE_SERVER_CONN_RESPONSE}, connected : BOOLEAN,
          fifo_write : String, fifo_read : String]
    \cup [type : {TYPE_OPERATION_MSG}, op_type : Byte, tuple_size : [1..4 -> Byte]]
    \cup [type : {TYPE_TUPLE_ELEM}, elem_type : {ELEM_INT}, elem : [1..4 -> Byte]]
    \cup [type : {TYPE_TUPLE_ELEM}, elem_type : {ELEM_FLOAT}, elem : [1..8 -> Byte]]
    \cup [type : {TYPE_TUPLE_ELEM}, elem_type : {ELEM_STRING}, elem : String]
    \cup {m \in [type : {TYPE_TUPLE_PATTERN_ELEM}, pattern : PatternElem] :
            /\ m.pattern.elem_type = ELEM_STRING => m.pattern.value \in String
            /\ m.pattern.elem_type = ELEM_FLOAT => m.pattern.value \in Double}

NoMessage == [type |-> 0]

VARIABLES
  phase,    \* "none", "made", "sent" or "cut"
  msg,      \* the message
  wire,     \* its bytes
  queue_,   \* the pieces that MessageBuffer has queued
  received  \* the messages that are fetched

wireVars == <<phase, msg, wire, queue_, received>>

-----------------------------------------------------------------------------
(* Serialization                                                           *)

Flag(b) == <<IF b THEN 1 ELSE 0>>

(* The eight bytes of a std::size_t, for texts shorter than 256^3.         *)
SizeBytes(n) == [i \in 1..8 |-> IF i > 3 THEN 0 ELSE (n \div 256^(i - 1)) % 256]

SizeOf(bytes) ==
  IF \E i \in 4..8 : bytes[i] # 0 THEN 256^3
  ELSE bytes[1] + 256 * bytes[2] + 65536 * bytes[3]

TextBytes(text) == SizeBytes(Len(text)) \o text

serialize(m) ==
  <<m.type>> \o
    CASE m.type = TYPE_CONNECTION_MSG -> Flag(m.connect)
      [] m.type = TYPE_SERVER_CONN_RESPONSE ->
           Flag(m.connected) \o TextBytes(m.fifo_write) \o TextBytes(m.fifo_read)
      [] m.type = TYPE_OPERATION_MSG -> <<m.op_type>> \o m.tuple_size
      [] m.type = TYPE_TUPLE_ELEM ->
           <<m.elem_type>>
             \o IF m.elem_type = ELEM_STRING THEN TextBytes(m.elem) ELSE m.elem
      [] m.type = TYPE_TUPLE_PATTERN_ELEM ->
           <<m.pattern.elem_type>> \o TextBytes(PatternString(m.pattern))

-----------------------------------------------------------------------------
(* Deserialization.  The operators return the set of the messages that may *)
(* result: none when the code throws, and two when it copies a byte other  *)
(* than 0 and 1 into a bool, whose value is then undefined.                *)

BoolOf(byte) == IF byte \in {0, 1} THEN {byte = 1} ELSE BOOLEAN

HasText(b, at) == Len(b) >= at + 7 /\ Len(b) >= at + 7 + SizeOf(SubSeq(b, at, at + 7))

TextAt(b, at) == SubSeq(b, at + 8, at + 7 + SizeOf(SubSeq(b, at, at + 7)))

deserializeConnection(b) ==
  IF Len(b) < 2 THEN {} ELSE {ConnectionMessage(c) : c \in BoolOf(b[2])}

deserializeResponse(b) ==
  IF Len(b) < 2 \/ ~HasText(b, 3) \/ ~HasText(b, 11 + Len(TextAt(b, 3))) THEN {}
  ELSE {ServerConnectionResponse(c, TextAt(b, 3), TextAt(b, 11 + Len(TextAt(b, 3)))) :
          c \in BoolOf(b[2])}

deserializeOperation(b) ==
  IF Len(b) < 6 THEN {} ELSE {OperationMessage(b[2], SubSeq(b, 3, 6))}

ElemSize(type) == IF type = ELEM_INT THEN 4 ELSE 8

deserializeElem(b) ==
  IF Len(b) < 2 \/ b[2] \notin ElemType THEN {}
  ELSE IF b[2] = ELEM_STRING
  THEN IF HasText(b, 3) THEN {TupleElemMessage(b[2], TextAt(b, 3))} ELSE {}
  ELSE IF Len(b) < 2 + ElemSize(b[2]) THEN {}
  ELSE {TupleElemMessage(b[2], SubSeq(b, 3, 2 + ElemSize(b[2])))}

deserializePattern(b) ==
  IF Len(b) < 2 \/ ~HasText(b, 3) \/ b[2] \notin ElemType THEN {}
  ELSE {PatternMessage(p) : p \in Construct(b[2], TextAt(b, 3))}

(* Seeded bug: the types are looked for one after the other, and the first *)
(* that occurs is taken for the type of the message.                       *)
AnyMsgType(bytes) ==
  LET t == CHOOSE u \in MsgType \cap ToSet(bytes) :
             \A w \in MsgType \cap ToSet(bytes) : u <= w
  IN  find(bytes, {t}, 1)

(* The position of the first byte that is a message type.                  *)
findFirstMsgType(bytes) == find(bytes, MsgType, 1)

deserialize(bytes) ==
  LET first == findFirstMsgType(bytes)
      b     == substr(bytes, first)
  IN  IF first = npos THEN {}
      ELSE CASE b[1] = TYPE_CONNECTION_MSG       -> deserializeConnection(b)
             [] b[1] = TYPE_SERVER_CONN_RESPONSE -> deserializeResponse(b)
             [] b[1] = TYPE_OPERATION_MSG        -> deserializeOperation(b)
             [] b[1] = TYPE_TUPLE_ELEM           -> deserializeElem(b)
             [] b[1] = TYPE_TUPLE_PATTERN_ELEM   -> deserializePattern(b)

-----------------------------------------------------------------------------
WireInit ==
  /\ phase = "none"
  /\ msg = NoMessage
  /\ wire = << >>
  /\ queue_ = << >>
  /\ received = << >>

(* Everything that was sent is cut and fetched.                            *)
Arrived == phase = "cut" /\ queue_ = << >>

(* A message is constructed when the one before has arrived.               *)
make(m) ==
  /\ phase = "none" \/ Arrived
  /\ phase' = "made"
  /\ msg' = m
  /\ wire' = << >>
  /\ received' = << >>
  /\ UNCHANGED queue_

sendMessage ==
  /\ phase = "made"
  /\ phase' = "sent"
  /\ wire' = Append(serialize(msg), MESSAGE_TERM_CHAR)
  /\ UNCHANGED <<msg, queue_, received>>

(* The pieces between the terminators: what follows the last one stays in  *)
(* msg_buffer_, and nothing follows the one that sendMessage appends.      *)
push ==
  /\ phase = "sent"
  /\ phase' = "cut"
  /\ LET ends == Ascending({0} \cup {i \in DOMAIN wire : wire[i] = MESSAGE_TERM_CHAR})
     IN  queue_' = [i \in 1..Len(ends) - 1 |->
                     SubSeq(wire, ends[i] + 1, ends[i + 1] - 1)]
  /\ UNCHANGED <<msg, wire, received>>

(* Seeded bug: the result is used also if there is none.                   *)
FetchAnything ==
  /\ queue_ # << >>
  /\ queue_' = Tail(queue_)
  /\ \/ \E m \in deserialize(Head(queue_)) : received' = Append(received, m)
     \/ /\ deserialize(Head(queue_)) = {}
        /\ received' = Append(received, NoMessage)
  /\ UNCHANGED <<phase, msg, wire>>

fetchMessageFromBuffer ==
  /\ queue_ # << >>
  /\ queue_' = Tail(queue_)
  /\ \/ \E m \in deserialize(Head(queue_)) : received' = Append(received, m)
     \/ deserialize(Head(queue_)) = {} /\ UNCHANGED received
  /\ UNCHANGED <<phase, msg, wire>>

Transmit == sendMessage \/ push \/ fetchMessageFromBuffer

-----------------------------------------------------------------------------
(* The defects that are known.  A byte of the message is a terminator.     *)
Damaged(m) == MESSAGE_TERM_CHAR \in ToSet(serialize(m))

IsPattern(m) == m.type = TYPE_TUPLE_PATTERN_ELEM

(* The text of a pattern does not say where its operator ends: ">" and the *)
(* value "=x" are written like ">=" and "x".                               *)
Ambiguous(m) ==
  /\ IsPattern(m) /\ m.pattern.elem_type = ELEM_STRING
  /\ m.pattern.op \in {"GreaterThan", "LessThan"}
  /\ m.pattern.value[1] = 61

(* A double has more decimals than std::to_string writes.                  *)
Imprecise(m) ==
  /\ IsPattern(m) /\ m.pattern.elem_type = ELEM_FLOAT
  /\ m.pattern.value % 10 # 0

Defective(m) == Damaged(m) \/ Ambiguous(m) \/ Imprecise(m)

(* Everything stays in its type.                                           *)
WireTypeOK ==
  /\ phase \in {"none", "made", "sent", "cut"}
  /\ wire \in Seq(Byte)
  /\ queue_ \in Seq(Seq(Byte))
  /\ \A i \in DOMAIN received : received[i].type \in MsgType

(* A message of any kind, with any value, arrives once and as it was sent, *)
(* except for the three defects.                                           *)
OthersArrive == Arrived /\ ~Defective(msg) => received = <<msg>>

(* What two of the defects do.  A rounded double is off by half of 10^-6   *)
(* at most, and an ambiguous pattern is received with the wrong operator   *)
(* or not at all.                                                          *)
DefectsAreThese ==
  Arrived /\ ~Damaged(msg) =>
    /\ Imprecise(msg) =>
         /\ Len(received) = 1
         /\ received[1].pattern.op = msg.pattern.op
         /\ Abs(received[1].pattern.value - msg.pattern.value) <= 5
    /\ Ambiguous(msg) =>
         \A i \in DOMAIN received :
           /\ received[i].pattern.op \in {"NotLessThan", "NotGreaterThan"}
           /\ received[i].pattern.value = Trimmed(Tail(msg.pattern.value))

=============================================================================
