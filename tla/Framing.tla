------------------------------ MODULE Framing ------------------------------
(***************************************************************************)
(* How messages travel through one FIFO: sendMessage and sendBytes         *)
(* (include/linda_common.hpp), readBytes, bufferedReadFromPipe,            *)
(* fetchMessageFromBuffer and readFromPipeUntilMessageFound                *)
(* (src/linda_common.cpp) and class MessageBuffer (src/message_buffer.cpp).*)
(* The loops of Server::mainLoop and of readFromPipeUntilMessageFound are  *)
(* the same here: fetch messages until there is none, then read.           *)
(*                                                                         *)
(* A message is its serialized bytes, of which all that matters is how     *)
(* many there are and which of them have the value of MESSAGE_TERM_CHAR.   *)
(* Each byte remembers the message it comes from, so that a message that   *)
(* arrives can be compared with the one that was sent.                     *)
(***************************************************************************)
EXTENDS Integers, SequencesExt

CONSTANTS
  Messages,       \* what may be sent: [size : Nat, dollars : SUBSET 1..size]
  MaxMessages,    \* bound: messages sent
  PipeSize,       \* capacity of the FIFO in bytes
  PIPE_READ_SIZE, \* largest read
  max_size_       \* messages a MessageBuffer queues before it refuses bytes

ASSUME FramingAssumption ==
  /\ \A m \in Messages : m.size \in Nat \ {0} /\ m.dollars \subseteq 1..m.size
  /\ MaxMessages \in Nat
  /\ PipeSize \in Nat \ {0}
  /\ PIPE_READ_SIZE \in Nat \ {0}
  /\ max_size_ \in Nat \ {0}

VARIABLES
  sent,        \* history: the messages sent
  unwritten,   \* bytes of a write that the FIFO has not taken yet
  pipe,        \* bytes in the FIFO
  queue_,      \* MessageBuffer: complete messages
  msg_buffer_, \* MessageBuffer: the bytes of an incomplete one
  pushing,     \* bytes of the last read that push has not looked at yet
  pc,          \* the receiver: "fetch", "read" or "push"
  received     \* history: the messages deserialized, as their numbers

vars ==
  <<sent, unwritten, pipe, queue_, msg_buffer_, pushing, pc, received>>

Init ==
  /\ sent = << >>
  /\ unwritten = << >> /\ pipe = << >>
  /\ queue_ = << >> /\ msg_buffer_ = << >> /\ pushing = << >>
  /\ pc = "fetch"
  /\ received = << >>

-----------------------------------------------------------------------------
(* The i-th message, with its terminator.                                  *)
serialize(i, m) ==
  [k \in 1..(m.size + 1) |->
     [msg |-> i, at |-> k, dollar |-> k \in m.dollars \cup {m.size + 1}]]

(* write() blocks until the FIFO has taken every byte, so that the next    *)
(* message is not begun before.                                            *)
sendMessage ==
  /\ Len(sent) < MaxMessages /\ unwritten = << >>
  /\ \E m \in Messages :
       /\ sent' = Append(sent, m)
       /\ unwritten' = serialize(Len(sent'), m)
  /\ UNCHANGED <<pipe, queue_, msg_buffer_, pushing, pc, received>>

(* The FIFO takes as many bytes as it likes and has room for: a message    *)
(* larger than PIPE_BUF may be taken in parts.                             *)
WriteBytes ==
  /\ \E n \in 1..Len(unwritten) :
       /\ Len(pipe) + n <= PipeSize
       /\ pipe' = pipe \o SubSeq(unwritten, 1, n)
       /\ unwritten' = SubSeq(unwritten, n + 1, Len(unwritten))
  /\ UNCHANGED <<sent, queue_, msg_buffer_, pushing, pc, received>>

(* Bytes deserialize to a message if they are the whole of one.  A part    *)
(* of one lacks bytes or begins with no message type, and throws.          *)
Deserializes(bytes, i) == bytes = Front(serialize(i, sent[i]))

(* Seeded bug: the receiver reads again after every message.               *)
FetchOneMessage ==
  /\ pc = "fetch" /\ queue_ # << >>
  /\ queue_' = Tail(queue_)
  /\ \E i \in DOMAIN sent :
       /\ Deserializes(Head(queue_), i)
       /\ received' = Append(received, i)
  /\ pc' = "read"
  /\ UNCHANGED <<sent, unwritten, pipe, msg_buffer_, pushing>>

(* popMessage and deserialize; a message is handled and the next fetched.  *)
fetchMessageFromBuffer ==
  /\ pc = "fetch" /\ queue_ # << >>
  /\ queue_' = Tail(queue_)
  /\ \/ \E i \in DOMAIN sent :
          /\ Deserializes(Head(queue_), i)
          /\ received' = Append(received, i)
          /\ UNCHANGED pc
     \/ /\ ~ \E i \in DOMAIN sent : Deserializes(Head(queue_), i)
        /\ pc' = "read"
        /\ UNCHANGED received
  /\ UNCHANGED <<sent, unwritten, pipe, msg_buffer_, pushing>>

NoMessage ==
  /\ pc = "fetch" /\ queue_ = << >>
  /\ pc' = "read"
  /\ UNCHANGED <<sent, unwritten, pipe, queue_, msg_buffer_, pushing, received>>

(* read() blocks while the FIFO is empty and takes what there is.          *)
ReadSize == IF Len(pipe) < PIPE_READ_SIZE THEN Len(pipe) ELSE PIPE_READ_SIZE

(* The bytes are refused, and lost, if the queue is full beforehand.       *)
push(bytes) == IF Len(queue_) < max_size_ THEN bytes ELSE << >>

(* Seeded bug: the part of a message that an earlier read brought is lost. *)
ReadForgetsPart ==
  /\ pc = "read" /\ pipe # << >>
  /\ pipe' = SubSeq(pipe, ReadSize + 1, Len(pipe))
  /\ pushing' = push(SubSeq(pipe, 1, ReadSize))
  /\ msg_buffer_' = << >>
  /\ pc' = IF pushing' = << >> THEN "fetch" ELSE "push"
  /\ UNCHANGED <<sent, unwritten, queue_, received>>

bufferedReadFromPipe ==
  /\ pc = "read" /\ pipe # << >>
  /\ pipe' = SubSeq(pipe, ReadSize + 1, Len(pipe))
  /\ pushing' = push(SubSeq(pipe, 1, ReadSize))
  /\ pc' = IF pushing' = << >> THEN "fetch" ELSE "push"
  /\ UNCHANGED <<sent, unwritten, queue_, msg_buffer_, received>>

(* Seeded bug: the terminator begins the next message.                     *)
PushKeepsTerminator ==
  /\ pc = "push"
  /\ IF Head(pushing).dollar
     THEN queue_' = Append(queue_, msg_buffer_) /\ msg_buffer_' = <<Head(pushing)>>
     ELSE msg_buffer_' = Append(msg_buffer_, Head(pushing)) /\ UNCHANGED queue_
  /\ pushing' = Tail(pushing)
  /\ pc' = IF pushing' = << >> THEN "fetch" ELSE "push"
  /\ UNCHANGED <<sent, unwritten, pipe, received>>

(* One turn of the loop of MessageBuffer::push.                            *)
PushByte ==
  /\ pc = "push"
  /\ IF Head(pushing).dollar
     THEN queue_' = Append(queue_, msg_buffer_) /\ msg_buffer_' = << >>
     ELSE msg_buffer_' = Append(msg_buffer_, Head(pushing)) /\ UNCHANGED queue_
  /\ pushing' = Tail(pushing)
  /\ pc' = IF pushing' = << >> THEN "fetch" ELSE "push"
  /\ UNCHANGED <<sent, unwritten, pipe, received>>

-----------------------------------------------------------------------------
Receiver ==
  fetchMessageFromBuffer \/ NoMessage \/ bufferedReadFromPipe \/ PushByte

Next == sendMessage \/ WriteBytes \/ Receiver

Spec == Init /\ [][Next]_vars

(* A write that was begun goes on, and the receiver keeps calling; nobody  *)
(* is obliged to send.                                                     *)
FairSpec == Spec /\ WF_vars(WriteBytes) /\ WF_vars(Receiver)

-----------------------------------------------------------------------------
Byte == [msg : 1..MaxMessages, at : Nat \ {0}, dollar : BOOLEAN]

Text == {b \in Byte : ~b.dollar}

(* The size check of push is made once per read, so that the queue may     *)
(* pass max_size_ by the messages of one read, and no further; no          *)
(* terminator gets into it.                                                *)
TypeOK ==
  /\ sent \in Seq(Messages) /\ Len(sent) <= MaxMessages
  /\ unwritten \in Seq(Byte)
  /\ pipe \in Seq(Byte) /\ Len(pipe) <= PipeSize
  /\ queue_ \in Seq(Seq(Text))
  /\ msg_buffer_ \in Seq(Text)
  /\ pushing \in Seq(Byte)
  /\ Len(queue_) + Len(pushing) <= max_size_ - 1 + PIPE_READ_SIZE
  /\ pc \in {"fetch", "read", "push"} /\ (pc = "push" <=> pushing # << >>)
  /\ received \in Seq(DOMAIN sent)

(* Messages that push takes apart.                                         *)
Cut == {m \in Messages : m.dollars # {}}

(* The receiver goes to the FIFO, where it may block, only when it has     *)
(* taken every complete message it holds, as long as none of them was cut: *)
(* nothing that has arrived is kept from it, and push never finds the      *)
(* queue full and loses bytes.                                             *)
NothingWithheld ==
  pc = "read" => queue_ = << >> \/ \E i \in DOMAIN sent : sent[i] \in Cut

LastReceived == IF received = << >> THEN 0 ELSE Last(received)

Transport == INSTANCE Channel WITH
  Messages  <- Messages,
  Fragile   <- Cut,
  transit   <- SubSeq(sent, LastReceived + 1, Len(sent)),
  delivered <- [i \in DOMAIN received |-> sent[received[i]]]

(* Messages arrive whole, in order and once, however reads cut the bytes.  *)
(* A terminator inside a message costs this message and no other one.      *)
ImplementsChannel == Transport!Spec

(* Every message that is sent arrives, until one is cut.                   *)
EveryMessageArrives ==
  \A n \in 1..MaxMessages :
    Len(sent) >= n /\ (\A i \in 1..n : sent[i] \notin Cut) ~> Len(received) >= n

=============================================================================
