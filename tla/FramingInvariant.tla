-------------------------- MODULE FramingInvariant --------------------------
(***************************************************************************)
(* The inductive invariant of Framing that FramingProofs proves: what the  *)
(* bytes on their way and the messages in the queue have to do with the    *)
(* messages sent.                                                          *)
(***************************************************************************)
EXTENDS Framing

(* push finds room in the queue for the bytes of a read.  It does as long  *)
(* as no message was cut; behind pieces of cut ones the queue may fill up, *)
(* and then push loses bytes.                                              *)
QueueHasRoom == pc = "read" => Len(queue_) < max_size_

(* The bytes that no queued message contains yet, oldest first.            *)
coming == ((msg_buffer_ \o pushing) \o pipe) \o unwritten

(* A byte of a message that was sent, in its place.                        *)
Genuine(b) ==
  /\ b.msg \in DOMAIN sent
  /\ b.at \in 1..(sent[b.msg].size + 1)
  /\ b = serialize(b.msg, sent[b.msg])[b.at]

EndsMessage(b) == b.at = sent[b.msg].size + 1

Successive(b, c) ==
  IF EndsMessage(b) THEN c.msg = b.msg + 1 /\ c.at = 1
                    ELSE c.msg = b.msg /\ c.at = b.at + 1

(* Bytes come in the order in which they were written, without a gap, up   *)
(* to the last that was.  They begin in the middle of a message only if a  *)
(* terminator in it was pushed already.                                    *)
StreamOK ==
  /\ \A k \in 1..Len(coming) : Genuine(coming[k])
  /\ \A k \in 1..(Len(coming) - 1) : Successive(coming[k], coming[k + 1])
  /\ coming # << >> =>
       /\ coming[Len(coming)].msg = Len(sent)
       /\ EndsMessage(coming[Len(coming)])
       /\ coming[1].at # 1 => sent[coming[1].msg] \in Cut

(* What waits for its terminator is one piece of one message.              *)
BufferOK ==
  \A k \in 1..Len(msg_buffer_) :
    /\ msg_buffer_[k].msg = msg_buffer_[1].msg
    /\ msg_buffer_[k].at = msg_buffer_[1].at + k - 1

(* The first message of which bytes are still coming.                      *)
Frontier == IF coming = << >> THEN Len(sent) + 1 ELSE coming[1].msg

(* Between the last message received and the frontier the queue holds      *)
(* every message that was not cut, in order, and nothing else that         *)
(* deserializes.  Other pieces are there only if a message was cut.        *)
QueueOK ==
  /\ LastReceived < Frontier
  /\ \A k \in 1..Len(queue_) : \A j \in 1..Len(queue_[k]) :
       queue_[k][j].msg \in DOMAIN sent
  /\ \A k \in 1..Len(queue_), i \in DOMAIN sent :
       Deserializes(queue_[k], i) => LastReceived < i /\ i < Frontier
  /\ \A k, l \in 1..Len(queue_), i, j \in DOMAIN sent :
       k < l /\ Deserializes(queue_[k], i) /\ Deserializes(queue_[l], j) => i < j
  /\ \A i \in DOMAIN sent :
       LastReceived < i /\ i < Frontier /\ sent[i] \notin Cut =>
         \E k \in 1..Len(queue_) : Deserializes(queue_[k], i)
  /\ \A k \in 1..Len(queue_) :
       \/ \E i \in DOMAIN sent : Deserializes(queue_[k], i)
       \/ \E i \in DOMAIN sent : sent[i] \in Cut

FlowInv == StreamOK /\ BufferOK /\ QueueOK /\ NothingWithheld

(* Bytes are refused behind a cut message only.                            *)
PlainInv == (\A i \in DOMAIN sent : sent[i] \notin Cut) => FlowInv
=============================================================================
