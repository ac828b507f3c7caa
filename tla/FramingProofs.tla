---------------------------- MODULE FramingProofs ----------------------------
(***************************************************************************)
(* Theorems about Framing for TLAPS, for all messages, sizes and bounds.   *)
(* TypeCorrectness needs no more than the types.  The others rest on       *)
(* FlowInv of FramingInvariant, which every step keeps that finds room in  *)
(* the queue (FlowStep).  If no message was cut there is room always,      *)
(* since the receiver reads only when the queue is empty.                  *)
(***************************************************************************)
EXTENDS FramingInvariant, SequenceTheorems, TLAPS

(* Constants and types used throughout.                                    *)
LEMMA Bounds ==
  /\ MaxMessages \in Nat /\ PipeSize \in Nat \ {0}
  /\ PIPE_READ_SIZE \in Nat \ {0} /\ max_size_ \in Nat \ {0}
  /\ \A m \in Messages : m.size \in Nat \ {0} /\ m.dollars \subseteq 1..m.size
  BY FramingAssumption DEF FramingAssumption

(* serialize makes as many bytes as the message has, and the terminator.   *)
LEMMA SerializedBytes ==
  ASSUME NEW i \in 1..MaxMessages, NEW m \in Messages
  PROVE  /\ serialize(i, m) \in Seq(Byte)
         /\ Len(serialize(i, m)) = m.size + 1
         /\ \A k \in 1..(m.size + 1) :
              serialize(i, m)[k] =
                [msg |-> i, at |-> k, dollar |-> k \in m.dollars \cup {m.size + 1}]
  <1>1. m.size + 1 \in Nat
    BY Bounds
  <1>2. \A k \in 1..(m.size + 1) :
          [msg |-> i, at |-> k, dollar |-> k \in m.dollars \cup {m.size + 1}] \in Byte
    BY <1>1 DEF Byte
  <1> QED
    BY <1>1, <1>2 DEF serialize

(* The two halves of a sequence that is cut after n elements.              *)
LEMMA Halves ==
  ASSUME NEW S, NEW s \in Seq(S), NEW n \in 0..Len(s)
  PROVE  /\ SubSeq(s, 1, n) \in Seq(S) /\ Len(SubSeq(s, 1, n)) = n
         /\ SubSeq(s, n + 1, Len(s)) \in Seq(S)
         /\ Len(SubSeq(s, n + 1, Len(s))) = Len(s) - n
         /\ SubSeq(s, 1, n) \o SubSeq(s, n + 1, Len(s)) = s
  <1>1. /\ Len(s) \in Nat /\ n \in Int /\ 1 \in Int /\ n + 1 \in Int /\ Len(s) \in Int
        /\ \A k \in 1..Len(s) : s[k] \in S
    BY LenProperties, ElementOfSeq
  <1>2. \A k \in 1..n : s[k] \in S
    BY <1>1
  <1>3. \A k \in (n + 1)..Len(s) : s[k] \in S
    BY <1>1
  <1>4. SubSeq(s, 1, n) \in Seq(S) /\ Len(SubSeq(s, 1, n)) = n
    BY <1>1, <1>2, SubSeqProperties
  <1>5. /\ SubSeq(s, n + 1, Len(s)) \in Seq(S)
        /\ Len(SubSeq(s, n + 1, Len(s))) = Len(s) - n
    BY <1>1, <1>3, SubSeqProperties
  <1>6. SubSeq(s, 1, n) \o SubSeq(s, n + 1, Len(s)) = SubSeq(s, 1, Len(s))
    <2>1. 1 \in 1..(Len(s) + 1) /\ n \in (1 - 1)..Len(s) /\ Len(s) \in n..Len(s)
      BY <1>1
    <2> QED  BY <2>1, ConcatAdjacentSubSeq
  <1> QED
    BY <1>4, <1>5, <1>6, SubSeqFull

LEMMA SizeOfRead ==
  ASSUME NEW S, pipe \in Seq(S), pipe # << >>
  PROVE  /\ ReadSize \in 1..Len(pipe) /\ ReadSize <= PIPE_READ_SIZE
         /\ ReadSize \in 0..Len(pipe)
  <1>1. Len(pipe) \in Nat \ {0}
    BY EmptySeq
  <1> QED
    BY <1>1, Bounds DEF ReadSize

-----------------------------------------------------------------------------
(* Types, one step per action.                                             *)
LEMMA InitialType == Init => TypeOK
  <1> SUFFICES ASSUME Init PROVE TypeOK
    OBVIOUS
  <1>1. \A S : << >> \in Seq(S) /\ Len(<< >>) = 0
    BY EmptySeq
  <1>2. received \in Seq(DOMAIN sent)
    BY <1>1 DEF Init
  <1> QED
    BY <1>1, <1>2, Bounds DEF Init, TypeOK

LEMMA TypeStep == TypeOK /\ [Next]_vars => TypeOK'
  <1> SUFFICES ASSUME TypeOK, [Next]_vars PROVE TypeOK'
    OBVIOUS
  <1>0. /\ Len(sent) \in Nat /\ DOMAIN sent = 1..Len(sent) /\ Len(unwritten) \in Nat
        /\ Len(pipe) \in Nat /\ Len(queue_) \in Nat /\ Len(pushing) \in Nat
    BY LenProperties DEF TypeOK
  <1>1. CASE sendMessage
    <2> PICK m \in Messages : /\ sent' = Append(sent, m)
                              /\ unwritten' = serialize(Len(sent'), m)
      BY <1>1 DEF sendMessage
    <2>1. /\ sent' \in Seq(Messages) /\ Len(sent') = Len(sent) + 1
          /\ DOMAIN sent' = 1..Len(sent')
      BY AppendProperties, LenProperties DEF TypeOK
    <2>2. Len(sent') <= MaxMessages /\ Len(sent') \in 1..MaxMessages
      BY <1>0, <1>1, <2>1, Bounds DEF sendMessage
    <2>3. unwritten' \in Seq(Byte)
      BY <2>2, SerializedBytes
    <2>4. received' \in Seq(DOMAIN sent')
      <3>1. received \in Seq(DOMAIN sent) /\ DOMAIN sent \subseteq DOMAIN sent'
        BY <1>0, <2>1 DEF TypeOK
      <3>2. received \in Seq(DOMAIN sent')
        BY <3>1, SeqMonotonic
      <3> QED  BY <1>1, <3>2 DEF sendMessage
    <2> QED  BY <1>1, <2>1, <2>2, <2>3, <2>4 DEF sendMessage, TypeOK
  <1>2. CASE WriteBytes
    <2> PICK n \in 1..Len(unwritten) :
          /\ Len(pipe) + n <= PipeSize
          /\ pipe' = pipe \o SubSeq(unwritten, 1, n)
          /\ unwritten' = SubSeq(unwritten, n + 1, Len(unwritten))
      BY <1>2 DEF WriteBytes
    <2>1. n \in 0..Len(unwritten) /\ unwritten \in Seq(Byte) /\ pipe \in Seq(Byte)
      BY <1>0 DEF TypeOK
    <2>2. /\ unwritten' \in Seq(Byte) /\ SubSeq(unwritten, 1, n) \in Seq(Byte)
          /\ Len(SubSeq(unwritten, 1, n)) = n
      BY <2>1, Halves
    <2>3. pipe' \in Seq(Byte) /\ Len(pipe') = Len(pipe) + n
      BY <2>1, <2>2, ConcatProperties
    <2> QED  BY <1>2, <2>2, <2>3 DEF WriteBytes, TypeOK
  <1>3. CASE fetchMessageFromBuffer
    <2>1. /\ queue_' \in Seq(Seq(Text)) /\ Len(queue_') = Len(queue_) - 1
      BY <1>3, HeadTailProperties DEF fetchMessageFromBuffer, TypeOK
    <2>2. received' \in Seq(DOMAIN sent)
      <3>1. received \in Seq(DOMAIN sent)
        BY DEF TypeOK
      <3>2. \A i \in DOMAIN sent : Append(received, i) \in Seq(DOMAIN sent)
        BY <3>1, AppendProperties
      <3>3. \/ received' = received
            \/ \E i \in DOMAIN sent : received' = Append(received, i)
        BY <1>3 DEF fetchMessageFromBuffer
      <3> QED  BY <3>1, <3>2, <3>3
    <2>3. /\ pc' \in {"fetch", "read"} /\ pushing = << >>
      BY <1>3 DEF fetchMessageFromBuffer, TypeOK
    <2>4. Len(queue_') + Len(pushing) <= max_size_ - 1 + PIPE_READ_SIZE
      BY <1>0, <2>1, Bounds DEF TypeOK
    <2> QED  BY <1>3, <2>1, <2>2, <2>3, <2>4 DEF fetchMessageFromBuffer, TypeOK
  <1>4. CASE NoMessage
    BY <1>4 DEF NoMessage, TypeOK
  <1>5. CASE bufferedReadFromPipe
    <2>0. pipe \in Seq(Byte) /\ pipe # << >>
      BY <1>5 DEF bufferedReadFromPipe, TypeOK
    <2>1. ReadSize \in 0..Len(pipe) /\ ReadSize <= PIPE_READ_SIZE /\ ReadSize >= 1
      BY <2>0, <1>0, SizeOfRead
    <2>2. /\ pipe' \in Seq(Byte) /\ Len(pipe') = Len(pipe) - ReadSize
          /\ SubSeq(pipe, 1, ReadSize) \in Seq(Byte)
          /\ Len(SubSeq(pipe, 1, ReadSize)) = ReadSize
      BY <1>5, <2>0, <2>1, Halves DEF bufferedReadFromPipe
    <2>3. pushing = << >> /\ Len(pushing) = 0
      BY <1>5, EmptySeq DEF bufferedReadFromPipe, TypeOK
    <2>4. /\ pushing' \in Seq(Byte)
          /\ Len(queue_) + Len(pushing') <= max_size_ - 1 + PIPE_READ_SIZE
      <3>1. CASE Len(queue_) < max_size_
        BY <1>0, <1>5, <2>1, <2>2, <3>1, Bounds DEF bufferedReadFromPipe, push
      <3>2. CASE ~(Len(queue_) < max_size_)
        BY <1>5, <2>3, <3>2 DEF bufferedReadFromPipe, push, TypeOK
      <3> QED  BY <3>1, <3>2
    <2>5. Len(pipe') <= PipeSize
      BY <1>0, <2>1, <2>2, Bounds DEF TypeOK
    <2> QED  BY <1>5, <2>2, <2>4, <2>5 DEF bufferedReadFromPipe, TypeOK
  <1>6. CASE PushByte
    <2>0. pushing \in Seq(Byte) /\ pushing # << >>
      BY <1>6 DEF PushByte, TypeOK
    <2>1. /\ Head(pushing) \in Byte /\ pushing' \in Seq(Byte)
          /\ Len(pushing') = Len(pushing) - 1
      BY <1>6, <2>0, HeadTailProperties DEF PushByte
    <2>2. CASE Head(pushing).dollar
      <3>1. queue_' = Append(queue_, msg_buffer_) /\ msg_buffer_' = << >>
        BY <1>6, <2>2 DEF PushByte
      <3>2. /\ queue_' \in Seq(Seq(Text)) /\ Len(queue_') = Len(queue_) + 1
            /\ msg_buffer_' \in Seq(Text)
        BY <3>1, AppendProperties, EmptySeq DEF TypeOK
      <3>3. Len(queue_') + Len(pushing') <= max_size_ - 1 + PIPE_READ_SIZE
        BY <1>0, <2>1, <3>2, Bounds DEF TypeOK
      <3> QED  BY <1>6, <2>1, <3>2, <3>3 DEF PushByte, TypeOK
    <2>3. CASE ~Head(pushing).dollar
      <3>1. msg_buffer_' = Append(msg_buffer_, Head(pushing)) /\ queue_' = queue_
        BY <1>6, <2>3 DEF PushByte
      <3>2. Head(pushing) \in Text
        BY <2>1, <2>3 DEF Text
      <3>3. msg_buffer_' \in Seq(Text)
        BY <3>1, <3>2, AppendProperties DEF TypeOK
      <3>4. Len(queue_') + Len(pushing') <= max_size_ - 1 + PIPE_READ_SIZE
        BY <1>0, <2>1, <3>1, Bounds DEF TypeOK
      <3> QED  BY <1>6, <2>1, <3>1, <3>3, <3>4 DEF PushByte, TypeOK
    <2> QED  BY <2>2, <2>3
  <1>7. CASE UNCHANGED vars
    BY <1>7 DEF vars, TypeOK
  <1> QED
    BY <1>1, <1>2, <1>3, <1>4, <1>5, <1>6, <1>7 DEF Next, Receiver

(* Every variable keeps its type, whatever is sent: push lets no           *)
(* terminator through, and the queue passes max_size_ by the messages of   *)
(* one read at most.                                                       *)
THEOREM FramingTypeCorrectness == Spec => []TypeOK
  BY InitialType, TypeStep, PTL DEF Spec

-----------------------------------------------------------------------------
(* What the steps do to the bytes that are coming.                         *)
LEMMA ComingBytes ==
  ASSUME TypeOK
  PROVE  /\ msg_buffer_ \in Seq(Byte)
         /\ coming \in Seq(Byte)
         /\ Len(coming) = Len(msg_buffer_) + Len(pushing) + Len(pipe) + Len(unwritten)
         /\ Len(coming) \in Nat
         /\ \A k \in 1..Len(msg_buffer_) : k \in 1..Len(coming) /\ coming[k] = msg_buffer_[k]
  <1>1. msg_buffer_ \in Seq(Byte)
    <2>1. Text \subseteq Byte /\ msg_buffer_ \in Seq(Text)
      BY DEF Text, TypeOK
    <2> QED  BY <2>1, SeqMonotonic
  <1>2. pushing \in Seq(Byte) /\ pipe \in Seq(Byte) /\ unwritten \in Seq(Byte)
    BY DEF TypeOK
  <1> DEFINE a == msg_buffer_ \o pushing
             b == a \o pipe
  <1>3. /\ a \in Seq(Byte) /\ Len(a) = Len(msg_buffer_) + Len(pushing)
        /\ \A k \in 1..(Len(msg_buffer_) + Len(pushing)) : a[k] =
             IF k <= Len(msg_buffer_) THEN msg_buffer_[k] ELSE pushing[k - Len(msg_buffer_)]
    BY <1>1, <1>2, ConcatProperties
  <1>4. /\ b \in Seq(Byte) /\ Len(b) = Len(a) + Len(pipe)
        /\ \A k \in 1..(Len(a) + Len(pipe)) : b[k] =
             IF k <= Len(a) THEN a[k] ELSE pipe[k - Len(a)]
    BY <1>2, <1>3, ConcatProperties
  <1>5. /\ coming \in Seq(Byte) /\ Len(coming) = Len(b) + Len(unwritten)
        /\ \A k \in 1..(Len(b) + Len(unwritten)) : coming[k] =
             IF k <= Len(b) THEN b[k] ELSE unwritten[k - Len(b)]
    BY <1>2, <1>4, ConcatProperties DEF coming
  <1>6. /\ Len(msg_buffer_) \in Nat /\ Len(pushing) \in Nat
        /\ Len(pipe) \in Nat /\ Len(unwritten) \in Nat
    BY <1>1, <1>2, LenProperties
  <1> HIDE DEF a, b
  <1>7. ASSUME NEW k \in 1..Len(msg_buffer_)
        PROVE  k \in 1..Len(coming) /\ coming[k] = msg_buffer_[k]
    <2>1. /\ k \in 1..(Len(msg_buffer_) + Len(pushing)) /\ k <= Len(msg_buffer_)
          /\ k \in 1..(Len(a) + Len(pipe)) /\ k <= Len(a)
          /\ k \in 1..(Len(b) + Len(unwritten)) /\ k <= Len(b)
      BY <1>3, <1>4, <1>5, <1>6
    <2>2. a[k] = msg_buffer_[k]
      BY <2>1, <1>3
    <2>3. b[k] = a[k]
      BY <2>1, <1>4
    <2>4. coming[k] = b[k]
      BY <2>1, <1>5
    <2> QED  BY <2>1, <2>2, <2>3, <2>4, <1>5
  <1> QED
    BY <1>1, <1>3, <1>4, <1>5, <1>6, <1>7

LEMMA Regrouped ==
  ASSUME NEW s \in Seq(Byte), NEW t \in Seq(Byte), NEW u \in Seq(Byte)
  PROVE  (s \o t) \o u = s \o (t \o u)
  BY ConcatAssociative

(* A write moves bytes along, a read with room for them does too, and push *)
(* keeps what is not a terminator.                                         *)
LEMMA WriteMovesBytes == TypeOK /\ WriteBytes => coming' = coming
  <1> SUFFICES ASSUME TypeOK, WriteBytes PROVE coming' = coming
    OBVIOUS
  <1> PICK n \in 1..Len(unwritten) :
        /\ pipe' = pipe \o SubSeq(unwritten, 1, n)
        /\ unwritten' = SubSeq(unwritten, n + 1, Len(unwritten))
    BY DEF WriteBytes
  <1>1. /\ msg_buffer_ \in Seq(Byte) /\ pushing \in Seq(Byte)
        /\ pipe \in Seq(Byte) /\ unwritten \in Seq(Byte)
    BY ComingBytes DEF TypeOK
  <1>2. n \in 0..Len(unwritten)
    BY <1>1, LenProperties
  <1> DEFINE u == SubSeq(unwritten, 1, n)
             v == SubSeq(unwritten, n + 1, Len(unwritten))
             a == msg_buffer_ \o pushing
  <1>3. u \in Seq(Byte) /\ v \in Seq(Byte) /\ u \o v = unwritten
    BY <1>1, <1>2, Halves
  <1>4. a \in Seq(Byte)
    BY <1>1, ConcatProperties
  <1>5. coming' = (a \o (pipe \o u)) \o v
    BY DEF WriteBytes, coming
  <1> HIDE DEF u, v, a
  <1>6. (a \o pipe) \o u = a \o (pipe \o u)
    <2>1. pipe \in Seq(Byte) /\ u \in Seq(Byte)
      BY <1>1, <1>3
    <2> QED  BY ONLY <1>4, <2>1, Regrouped
  <1>7. a \o pipe \in Seq(Byte)
    BY <1>1, <1>4, ConcatProperties
  <1>8. ((a \o pipe) \o u) \o v = (a \o pipe) \o (u \o v)
    BY <1>3, <1>7, Regrouped
  <1> QED
    BY <1>3, <1>5, <1>6, <1>8 DEF coming, a

LEMMA ReadMovesBytes ==
  TypeOK /\ QueueHasRoom /\ bufferedReadFromPipe => coming' = coming
  <1> SUFFICES ASSUME TypeOK, QueueHasRoom, bufferedReadFromPipe
               PROVE coming' = coming
    OBVIOUS
  <1>1. /\ msg_buffer_ \in Seq(Byte) /\ pipe \in Seq(Byte) /\ unwritten \in Seq(Byte)
        /\ pushing = << >> /\ pipe # << >>
    BY ComingBytes DEF TypeOK, bufferedReadFromPipe
  <1>2. ReadSize \in 0..Len(pipe)
    BY <1>1, SizeOfRead
  <1> DEFINE u == SubSeq(pipe, 1, ReadSize)
             v == SubSeq(pipe, ReadSize + 1, Len(pipe))
  <1>3. u \in Seq(Byte) /\ v \in Seq(Byte) /\ u \o v = pipe
    BY <1>1, <1>2, Halves
  <1>4. coming' = ((msg_buffer_ \o u) \o v) \o unwritten
    BY DEF bufferedReadFromPipe, coming, QueueHasRoom, push
  <1> HIDE DEF u, v
  <1>5. (msg_buffer_ \o u) \o v = msg_buffer_ \o pipe
    BY <1>1, <1>3, Regrouped
  <1>6. msg_buffer_ \o << >> = msg_buffer_
    BY <1>1, ConcatEmptySeq
  <1> QED
    BY <1>1, <1>4, <1>5, <1>6 DEF coming

(* The byte that push looks at comes right behind msg_buffer_.             *)
LEMMA PushTakesNextByte ==
  ASSUME TypeOK, PushByte
  PROVE  /\ Head(pushing) \in Byte
         /\ Len(msg_buffer_) + 1 \in 1..Len(coming)
         /\ coming[Len(msg_buffer_) + 1] = Head(pushing)
         /\ ~Head(pushing).dollar => coming' = coming
         /\ Head(pushing).dollar =>
              /\ coming' \in Seq(Byte)
              /\ Len(coming') = Len(coming) - (Len(msg_buffer_) + 1)
              /\ \A k \in 1..Len(coming') : coming'[k] = coming[k + (Len(msg_buffer_) + 1)]
  <1> DEFINE m == msg_buffer_
             b == Head(pushing)
             r == (Tail(pushing) \o pipe) \o unwritten
  <1>1. /\ m \in Seq(Byte) /\ pipe \in Seq(Byte) /\ unwritten \in Seq(Byte)
        /\ pushing \in Seq(Byte) /\ pushing # << >>
        /\ Len(m) \in Nat
    BY ComingBytes, LenProperties DEF TypeOK, PushByte
  <1>2. b \in Byte /\ Tail(pushing) \in Seq(Byte) /\ pushing = <<b>> \o Tail(pushing)
    <2>1. /\ b \in Byte /\ Tail(pushing) \in Seq(Byte) /\ Len(Tail(pushing)) = Len(pushing) - 1
          /\ \A k \in 1..Len(Tail(pushing)) : Tail(pushing)[k] = pushing[k + 1]
      BY <1>1, HeadTailProperties
    <2>2. <<b>> \in Seq(Byte) /\ Len(<<b>>) = 1 /\ <<b>>[1] = b /\ b = pushing[1]
      BY <2>1
    <2>3. /\ <<b>> \o Tail(pushing) \in Seq(Byte)
          /\ Len(<<b>> \o Tail(pushing)) = Len(pushing)
          /\ \A k \in 1..Len(pushing) : (<<b>> \o Tail(pushing))[k] =
               IF k <= 1 THEN <<b>>[k] ELSE Tail(pushing)[k - 1]
      BY <1>1, <2>1, <2>2, ConcatProperties, LenProperties
    <2>4. ASSUME NEW k \in 1..Len(pushing) PROVE (<<b>> \o Tail(pushing))[k] = pushing[k]
      <3>1. CASE k = 1
        BY <2>2, <2>3, <3>1
      <3>2. CASE k # 1
        <4>1. k - 1 \in 1..Len(Tail(pushing)) /\ (k - 1) + 1 = k /\ ~(k <= 1)
          BY <1>1, <2>1, <3>2, LenProperties
        <4> QED  BY <2>1, <2>3, <4>1
      <3> QED  BY <3>1, <3>2
    <2> QED  BY <1>1, <2>1, <2>3, <2>4, SeqEqual
  <1>3. r \in Seq(Byte) /\ <<b>> \in Seq(Byte) /\ Len(<<b>>) = 1 /\ Len(r) \in Nat
    <2>1. Tail(pushing) \o pipe \in Seq(Byte)
      BY <1>1, <1>2, ConcatProperties
    <2>2. r \in Seq(Byte)
      BY <1>1, <2>1, ConcatProperties
    <2> QED  BY <1>2, <2>2, LenProperties
  <1>0. m \o pushing = (m \o <<b>>) \o Tail(pushing)
    <2>1. m \o (<<b>> \o Tail(pushing)) = (m \o <<b>>) \o Tail(pushing)
      BY <1>1, <1>2, <1>3, Regrouped
    <2> QED  BY <1>2, <2>1, Zenon
  <1>4. coming = (m \o <<b>>) \o r
    <2>1. m \o pushing = (m \o <<b>>) \o Tail(pushing)
      BY <1>0
    <2>2. m \o <<b>> \in Seq(Byte)
      BY <1>1, <1>3, ConcatProperties
    <2>3. ((m \o <<b>>) \o Tail(pushing)) \o pipe = (m \o <<b>>) \o (Tail(pushing) \o pipe)
      BY <1>1, <1>2, <2>2, Regrouped
    <2>4. Tail(pushing) \o pipe \in Seq(Byte)
      BY <1>1, <1>2, ConcatProperties
    <2>5. ((m \o <<b>>) \o (Tail(pushing) \o pipe)) \o unwritten = (m \o <<b>>) \o r
      BY <1>1, <2>2, <2>4, Regrouped
    <2> QED  BY <2>1, <2>3, <2>5 DEF coming
  <1>5. /\ m \o <<b>> \in Seq(Byte) /\ Len(m \o <<b>>) = Len(m) + 1
        /\ (m \o <<b>>)[Len(m) + 1] = b
    BY <1>1, <1>3, ConcatProperties
  <1> HIDE DEF r
  <1>6. /\ Len(coming) = Len(m) + 1 + Len(r)
        /\ \A k \in 1..(Len(m) + 1 + Len(r)) : coming[k] =
             IF k <= Len(m) + 1 THEN (m \o <<b>>)[k] ELSE r[k - (Len(m) + 1)]
    BY <1>3, <1>4, <1>5, ConcatProperties
  <1>7. Len(m) + 1 \in 1..Len(coming) /\ coming[Len(m) + 1] = b
    BY <1>1, <1>3, <1>5, <1>6
  <1>8. ASSUME ~b.dollar PROVE coming' = coming
    <2>1. msg_buffer_' = Append(m, b)
      BY <1>8 DEF PushByte
    <2>2. msg_buffer_' = m \o <<b>>
      BY <2>1, <1>1, <1>2, AppendIsConcat
    <2>3. coming' = (((m \o <<b>>) \o Tail(pushing)) \o pipe) \o unwritten
      BY <2>2 DEF PushByte, coming
    <2>4. m \o pushing = (m \o <<b>>) \o Tail(pushing)
      BY <1>0
    <2> QED  BY <2>3, <2>4 DEF coming
  <1>9. ASSUME b.dollar
        PROVE  /\ coming' \in Seq(Byte)
               /\ Len(coming') = Len(coming) - (Len(m) + 1)
               /\ \A k \in 1..Len(coming') : coming'[k] = coming[k + (Len(m) + 1)]
    <2>1. coming' = ((<< >> \o Tail(pushing)) \o pipe) \o unwritten
      BY <1>9 DEF PushByte, coming
    <2>2. coming' = r
      BY <1>2, <2>1, ConcatEmptySeq DEF r
    <2>3. ASSUME NEW k \in 1..Len(r) PROVE r[k] = coming[k + (Len(m) + 1)]
      <3>1. /\ k + (Len(m) + 1) \in 1..(Len(m) + 1 + Len(r))
            /\ ~(k + (Len(m) + 1) <= Len(m) + 1)
            /\ (k + (Len(m) + 1)) - (Len(m) + 1) = k
        BY <1>1, <1>3
      <3> QED  BY <1>6, <3>1
    <2>4. Len(r) = Len(coming) - (Len(m) + 1)
      BY <1>1, <1>3, <1>6
    <2> QED  BY <1>3, <2>2, <2>3, <2>4
  <1> QED
    BY <1>2, <1>7, <1>8, <1>9

-----------------------------------------------------------------------------
(* What deserializes is whole, comes from one message and was not cut.     *)
LEMMA WholeMessage ==
  ASSUME TypeOK, NEW bytes \in Seq(Byte), NEW i \in DOMAIN sent
  PROVE  Deserializes(bytes, i) <=>
           /\ Len(bytes) = sent[i].size
           /\ \A k \in 1..sent[i].size : bytes[k] = serialize(i, sent[i])[k]
  <1> DEFINE s == serialize(i, sent[i])
             z == sent[i].size
  <1>1. i \in 1..MaxMessages /\ sent[i] \in Messages /\ z \in Nat \ {0}
    BY Bounds, LenProperties, ElementOfSeq DEF TypeOK
  <1>2. s \in Seq(Byte) /\ Len(s) = z + 1
    BY <1>1, SerializedBytes
  <1> HIDE DEF s, z
  <1>3. /\ Front(s) \in Seq(Byte) /\ Len(Front(s)) = z
        /\ \A k \in 1..z : Front(s)[k] = s[k]
    <2>1. Front(s) = SubSeq(s, 1, z)
      BY <1>1, <1>2 DEF Front
    <2>2. \A k \in 1..z : s[k] \in Byte
      BY <1>1, <1>2, ElementOfSeq
    <2>3. /\ SubSeq(s, 1, z) \in Seq(Byte)
          /\ Len(SubSeq(s, 1, z)) = IF 1 <= z THEN z - 1 + 1 ELSE 0
          /\ \A k \in 1..(z - 1 + 1) : SubSeq(s, 1, z)[k] = s[1 + k - 1]
      BY <1>1, <2>2, SubSeqProperties
    <2> QED  BY <1>1, <2>1, <2>3
  <1>4. Deserializes(bytes, i) <=> bytes = Front(s)
    BY DEF Deserializes, s
  <1>5. ASSUME Len(bytes) = z, \A k \in 1..z : bytes[k] = s[k]
        PROVE  bytes = Front(s)
    BY <1>3, <1>5, SeqEqual
  <1> QED
    BY <1>3, <1>4, <1>5 DEF s, z

LEMMA WholeMessageIsPlain ==
  ASSUME TypeOK, NEW bytes \in Seq(Text), NEW i \in DOMAIN sent,
         Deserializes(bytes, i)
  PROVE  /\ Len(bytes) = sent[i].size /\ 1 \in 1..Len(bytes)
         /\ bytes[1].msg = i /\ bytes[1].at = 1
         /\ sent[i] \notin Cut
  <1>1. i \in 1..MaxMessages /\ sent[i] \in Messages /\ sent[i].size \in Nat \ {0}
    BY Bounds, LenProperties, ElementOfSeq DEF TypeOK
  <1>2. bytes \in Seq(Byte)
    BY SeqMonotonic DEF Text
  <1>3. /\ Len(bytes) = sent[i].size
        /\ \A k \in 1..sent[i].size : bytes[k] =
             [msg |-> i, at |-> k, dollar |-> k \in sent[i].dollars \cup {sent[i].size + 1}]
    <2>1. /\ Len(bytes) = sent[i].size
          /\ \A k \in 1..sent[i].size : bytes[k] = serialize(i, sent[i])[k]
      BY <1>2, WholeMessage
    <2>2. \A k \in 1..(sent[i].size + 1) : serialize(i, sent[i])[k] =
             [msg |-> i, at |-> k, dollar |-> k \in sent[i].dollars \cup {sent[i].size + 1}]
      BY <1>1, SerializedBytes
    <2>3. 1..sent[i].size \subseteq 1..(sent[i].size + 1)
      BY <1>1
    <2> QED  BY <2>1, <2>2, <2>3
  <1>4. sent[i] \notin Cut
    <2>1. SUFFICES ASSUME NEW d \in sent[i].dollars PROVE FALSE
      BY DEF Cut
    <2>2. d \in 1..sent[i].size
      BY <1>1, Bounds
    <2>3. bytes[d] \in Text
      BY <1>3, <2>2, ElementOfSeq
    <2>4. bytes[d].dollar = (d \in sent[i].dollars \cup {sent[i].size + 1})
      <3>1. bytes[d] =
             [msg |-> i, at |-> d, dollar |-> d \in sent[i].dollars \cup {sent[i].size + 1}]
        BY <1>3, <2>2
      <3> QED  BY <3>1
    <2>5. ~bytes[d].dollar
      BY <2>3 DEF Text
    <2> QED  BY <2>4, <2>5
  <1>5. 1 \in 1..sent[i].size
    BY <1>1
  <1>6. bytes[1] =
         [msg |-> i, at |-> 1, dollar |-> 1 \in sent[i].dollars \cup {sent[i].size + 1}]
    BY <1>3, <1>5
  <1>7. bytes[1].msg = i /\ bytes[1].at = 1
    BY <1>6
  <1> QED
    BY <1>3, <1>4, <1>5, <1>7

-----------------------------------------------------------------------------
(* What is true of the bytes that are coming.                              *)
LEMMA StreamBytes ==
  ASSUME TypeOK, StreamOK, NEW k \in 1..Len(coming)
  PROVE  /\ coming[k].msg \in DOMAIN sent /\ coming[k].msg \in Nat
         /\ coming[k].at \in Nat /\ coming[k].at >= 1
         /\ sent[coming[k].msg] \in Messages
         /\ sent[coming[k].msg].size \in Nat \ {0}
         /\ coming[k] = serialize(coming[k].msg, sent[coming[k].msg])[coming[k].at]
         /\ coming[k].dollar =
              (coming[k].at \in sent[coming[k].msg].dollars \cup
                                {sent[coming[k].msg].size + 1})
  <1>1. Genuine(coming[k])
    BY DEF StreamOK
  <1> DEFINE b == coming[k]
  <1>2. b.msg \in 1..MaxMessages /\ sent[b.msg] \in Messages
        /\ sent[b.msg].size \in Nat \ {0} /\ b.at \in 1..(sent[b.msg].size + 1)
    <2>1. b.msg \in DOMAIN sent /\ b.at \in 1..(sent[b.msg].size + 1)
      BY <1>1 DEF Genuine
    <2>2. /\ sent \in Seq(Messages) /\ Len(sent) \in Nat /\ Len(sent) <= MaxMessages
          /\ DOMAIN sent = 1..Len(sent)
      BY LenProperties DEF TypeOK
    <2>3. b.msg \in 1..Len(sent)
      BY <2>1, <2>2
    <2>4. sent[b.msg] \in Messages
      BY <2>2, <2>3, ElementOfSeq
    <2> QED  BY <2>1, <2>2, <2>3, <2>4, Bounds
  <1>3. b = serialize(b.msg, sent[b.msg])[b.at]
    BY <1>1 DEF Genuine
  <1>4. serialize(b.msg, sent[b.msg])[b.at] =
          [msg |-> b.msg, at |-> b.at,
           dollar |-> b.at \in sent[b.msg].dollars \cup {sent[b.msg].size + 1}]
    BY <1>2, SerializedBytes
  <1>5. b.dollar = (b.at \in sent[b.msg].dollars \cup {sent[b.msg].size + 1})
    BY <1>3, <1>4
  <1> QED
    BY <1>1, <1>2, <1>3, <1>5, Bounds DEF Genuine

(* Steps that move bytes and send nothing.                                 *)
LEMMA SameStream ==
  ASSUME StreamOK, coming' = coming, sent' = sent
  PROVE  StreamOK' /\ Frontier' = Frontier
  BY DEF StreamOK, Frontier, Genuine, Successive, EndsMessage, serialize, Cut

(* The byte behind msg_buffer_ belongs to the message at the frontier, as  *)
(* does all of msg_buffer_, and lies as far behind the first byte of it as *)
(* there are bytes in between.                                             *)
LEMMA NextByte ==
  ASSUME TypeOK, StreamOK, BufferOK, PushByte
  PROVE  /\ Head(pushing).msg = Frontier
         /\ Head(pushing).at = coming[1].at + Len(msg_buffer_)
         /\ Frontier = coming[1].msg
         /\ \A k \in 1..Len(msg_buffer_) :
              /\ msg_buffer_[k].msg = Frontier
              /\ msg_buffer_[k].at = coming[1].at + k - 1
         /\ 1 \in 1..Len(coming) /\ coming # << >>
  <1> DEFINE n == Len(msg_buffer_)
             b == Head(pushing)
  <1>1. n \in Nat /\ n + 1 \in 1..Len(coming) /\ coming[n + 1] = b /\ Len(coming) \in Nat
    BY ComingBytes, PushTakesNextByte, LenProperties
  <1>2. 1 \in 1..Len(coming) /\ coming # << >>
    BY <1>1, EmptySeq
  <1>3. Frontier = coming[1].msg /\ coming[1].at \in Nat
    BY <1>2, StreamBytes DEF Frontier
  <1>4. CASE n = 0
    BY <1>1, <1>2, <1>3, <1>4
  <1>5. CASE n # 0
    <2>1. n \in 1..n /\ 1 \in 1..n
      BY <1>1, <1>5
    <2>2. msg_buffer_[1] = coming[1] /\ msg_buffer_[n] = coming[n] /\ n \in 1..Len(coming)
      BY <2>1, ComingBytes
    <2>3. msg_buffer_[n].msg = Frontier /\ msg_buffer_[n].at = coming[1].at + n - 1
      BY <1>3, <2>1, <2>2 DEF BufferOK
    <2>4. \A k \in 1..n : /\ msg_buffer_[k].msg = Frontier
                          /\ msg_buffer_[k].at = coming[1].at + k - 1
      BY <1>3, <2>2 DEF BufferOK
    <2>5. ~EndsMessage(coming[n])
      <3>1. msg_buffer_[n] \in Text
        BY <2>1, ElementOfSeq DEF TypeOK
      <3>2. ~coming[n].dollar
        BY <2>2, <3>1 DEF Text
      <3>3. coming[n].dollar =
              (coming[n].at \in sent[coming[n].msg].dollars \cup
                                {sent[coming[n].msg].size + 1})
        BY <2>2, StreamBytes
      <3> QED  BY <3>2, <3>3 DEF EndsMessage
    <2>6. Successive(coming[n], coming[n + 1])
      <3>1. n \in 1..(Len(coming) - 1)
        BY <1>1, <2>1
      <3> QED  BY <3>1 DEF StreamOK
    <2>7. b.msg = coming[n].msg /\ b.at = coming[n].at + 1
      BY <1>1, <2>5, <2>6 DEF Successive
    <2>8. b.at = coming[1].at + n
      BY <1>1, <1>3, <2>2, <2>3, <2>7
    <2> QED  BY <1>2, <1>3, <2>2, <2>3, <2>4, <2>7, <2>8
  <1> QED
    BY <1>4, <1>5

(* A terminator ends the piece in msg_buffer_.  If it ends the message at  *)
(* the frontier, this was the whole of it unless it was cut, and the next  *)
(* message is up; otherwise the message is cut here.                       *)
LEMMA TerminatorPushed ==
  ASSUME TypeOK, StreamOK, BufferOK, PushByte, Head(pushing).dollar
  PROVE  /\ StreamOK'
         /\ Frontier \in DOMAIN sent
         /\ \/ Frontier' = Frontier /\ sent[Frontier] \in Cut
            \/ /\ Frontier' = Frontier + 1
               /\ sent[Frontier] \notin Cut => Deserializes(msg_buffer_, Frontier)
         /\ \A i \in DOMAIN sent : Deserializes(msg_buffer_, i) =>
              i = Frontier /\ Frontier' = Frontier + 1
         /\ \A k \in 1..Len(msg_buffer_) : msg_buffer_[k].msg \in DOMAIN sent
  <1> DEFINE n == Len(msg_buffer_)
             b == Head(pushing)
             f == Frontier
  <1>1. /\ n \in Nat /\ n + 1 \in 1..Len(coming) /\ coming[n + 1] = b
        /\ Len(coming) \in Nat /\ coming' \in Seq(Byte)
        /\ Len(coming') = Len(coming) - (n + 1)
        /\ \A k \in 1..Len(coming') : coming'[k] = coming[k + (n + 1)]
    BY ComingBytes, PushTakesNextByte, LenProperties
  <1>2. /\ b.msg = f /\ b.at = coming[1].at + n /\ f = coming[1].msg
        /\ \A k \in 1..n : msg_buffer_[k].msg = f /\ msg_buffer_[k].at = coming[1].at + k - 1
        /\ 1 \in 1..Len(coming) /\ coming # << >>
    BY NextByte
  <1> HIDE DEF n, b, f
  <1>3. /\ f \in DOMAIN sent /\ f \in Nat
        /\ sent[f].size \in Nat \ {0} /\ sent[f] \in Messages
        /\ coming[1].at \in Nat /\ coming[1].at >= 1
    BY <1>2, StreamBytes
  <1>4. b.at \in sent[f].dollars \cup {sent[f].size + 1}
    <2>1. b.dollar = (b.at \in sent[b.msg].dollars \cup {sent[b.msg].size + 1})
      BY <1>1, StreamBytes
    <2> QED  BY <1>2, <2>1 DEF b
  <1>5. EndsMessage(b) \/ sent[f] \in Cut
    BY <1>2, <1>3, <1>4 DEF EndsMessage, Cut
  <1>6. sent' = sent
    BY DEF PushByte
  <1>7. Frontier' = IF coming' = << >> THEN Len(sent) + 1 ELSE coming'[1].msg
    BY <1>6 DEF Frontier
  <1>9. coming' # << >> => 1 \in 1..Len(coming') /\ n + 1 \in 1..(Len(coming) - 1)
    BY <1>1, EmptySeq
  <1>10. coming' # << >> =>
           /\ coming'[1] = coming[(n + 1) + 1] /\ Successive(b, coming'[1])
    <2>1. SUFFICES ASSUME coming' # << >>
                   PROVE  coming'[1] = coming[(n + 1) + 1] /\ Successive(b, coming'[1])
      OBVIOUS
    <2>2. coming'[1] = coming[1 + (n + 1)] /\ 1 + (n + 1) = (n + 1) + 1
      BY <1>1, <1>9, <2>1
    <2>3. Successive(coming[n + 1], coming[(n + 1) + 1])
      BY <1>9, <2>1 DEF StreamOK
    <2> QED  BY <1>1, <2>2, <2>3
  <1>11. /\ EndsMessage(b) => Frontier' = f + 1
         /\ ~EndsMessage(b) => Frontier' = f /\ coming' # << >>
    <2>1. CASE coming' = << >>
      <3>1. n + 1 = Len(coming)
        BY <1>1, <2>1, EmptySeq
      <3>2. b.msg = Len(sent) /\ EndsMessage(b)
        BY <1>1, <1>2, <3>1 DEF StreamOK
      <3> QED  BY <1>2, <1>7, <2>1, <3>2
    <2>2. CASE coming' # << >>
      BY <1>2, <1>7, <1>10, <2>2 DEF Successive
    <2> QED  BY <2>1, <2>2
  <1>12. StreamOK'
    <2>1. \A k \in 1..Len(coming') : Genuine(coming'[k])
      <3>1. SUFFICES ASSUME NEW k \in 1..Len(coming') PROVE Genuine(coming'[k])
        OBVIOUS
      <3>2. k + (n + 1) \in 1..Len(coming)
        BY <1>1
      <3> QED  BY <1>1, <3>2 DEF StreamOK
    <2>2. \A k \in 1..(Len(coming') - 1) : Successive(coming'[k], coming'[k + 1])
      <3>1. SUFFICES ASSUME NEW k \in 1..(Len(coming') - 1)
                     PROVE  Successive(coming'[k], coming'[k + 1])
        OBVIOUS
      <3>2. /\ k + (n + 1) \in 1..(Len(coming) - 1)
            /\ k \in 1..Len(coming') /\ k + 1 \in 1..Len(coming')
            /\ (k + 1) + (n + 1) = (k + (n + 1)) + 1
        BY <1>1
      <3>3. coming'[k] = coming[k + (n + 1)] /\ coming'[k + 1] = coming[(k + (n + 1)) + 1]
        <4>1. coming'[k] = coming[k + (n + 1)]
          BY <1>1, <3>2
        <4>2. coming'[k + 1] = coming[(k + 1) + (n + 1)]
          BY <1>1, <3>2
        <4> QED  BY <3>2, <4>1, <4>2
      <3>4. Successive(coming[k + (n + 1)], coming[(k + (n + 1)) + 1])
        BY <3>2 DEF StreamOK
      <3> QED  BY <3>3, <3>4
    <2>3. ASSUME coming' # << >>
          PROVE  /\ coming'[Len(coming')].msg = Len(sent)
                 /\ EndsMessage(coming'[Len(coming')])
                 /\ coming'[1].at # 1 => sent[coming'[1].msg] \in Cut
      <3>1. Len(coming') \in 1..Len(coming') /\ Len(coming') + (n + 1) = Len(coming)
        BY <1>1, <1>9, <2>3
      <3>2. coming'[Len(coming')] = coming[Len(coming)]
        BY <1>1, <3>1
      <3>3. coming[Len(coming)].msg = Len(sent) /\ EndsMessage(coming[Len(coming)])
        BY <1>2 DEF StreamOK
      <3>4. coming'[1].at # 1 => ~EndsMessage(b) /\ coming'[1].msg = b.msg
        BY <1>10, <2>3 DEF Successive
      <3> QED  BY <1>2, <1>5, <3>2, <3>3, <3>4
    <2> QED
      BY <1>6, <2>1, <2>2, <2>3
      DEF StreamOK, Genuine, Successive, EndsMessage, serialize, Cut
  <1>13. EndsMessage(b) /\ sent[f] \notin Cut => Deserializes(msg_buffer_, f)
    <2>1. SUFFICES ASSUME EndsMessage(b), sent[f] \notin Cut
                   PROVE  Deserializes(msg_buffer_, f)
      OBVIOUS
    <2>2. coming[1].at = 1
      BY <1>2, <2>1 DEF StreamOK
    <2>3. n = sent[f].size
      BY <1>1, <1>2, <1>3, <2>1, <2>2 DEF EndsMessage
    <2>4. ASSUME NEW k \in 1..n PROVE msg_buffer_[k] = serialize(f, sent[f])[k]
      <3>1. coming[k] = msg_buffer_[k] /\ k \in 1..Len(coming)
        BY ComingBytes DEF n
      <3>2. coming[k].msg = f /\ coming[k].at = k
        BY <1>1, <1>2, <2>2, <3>1
      <3> QED  BY <3>1, <3>2, StreamBytes
    <2>5. msg_buffer_ \in Seq(Byte)
      BY ComingBytes
    <2> QED  BY <1>3, <2>3, <2>4, <2>5, WholeMessage DEF n
  <1>14. ASSUME NEW i \in DOMAIN sent, Deserializes(msg_buffer_, i)
         PROVE  i = f /\ EndsMessage(b)
    <2>1. msg_buffer_ \in Seq(Text)
      BY DEF TypeOK
    <2>2. /\ n = sent[i].size /\ 1 \in 1..n
          /\ msg_buffer_[1].msg = i /\ msg_buffer_[1].at = 1
      BY <1>14, <2>1, WholeMessageIsPlain DEF n
    <2>3. i = f /\ coming[1].at = 1
      BY <1>2, <1>3, <2>2
    <2> QED  BY <1>1, <1>2, <1>3, <2>2, <2>3 DEF EndsMessage
  <1>15. \A k \in 1..n : msg_buffer_[k].msg \in DOMAIN sent
    BY <1>2, <1>3
  <1> QED
    BY <1>3, <1>5, <1>11, <1>12, <1>13, <1>14, <1>15 DEF f, n

(* A message that is sent is appended to the bytes that are coming.        *)
LEMMA SendExtendsStream ==
  ASSUME TypeOK, StreamOK, sendMessage, TypeOK'
  PROVE  /\ StreamOK' /\ Frontier' = Frontier
         /\ DOMAIN sent' = 1..(Len(sent) + 1) /\ DOMAIN sent = 1..Len(sent)
         /\ Len(sent) \in Nat
         /\ \A i \in DOMAIN sent : sent'[i] = sent[i]
  <1> DEFINE n == Len(sent) + 1
  <1> PICK m \in Messages : /\ sent' = Append(sent, m)
                            /\ unwritten' = serialize(Len(sent'), m)
    BY DEF sendMessage
  <1>1. /\ Len(sent) \in Nat /\ DOMAIN sent = 1..Len(sent) /\ Len(sent') = n
        /\ DOMAIN sent' = 1..n /\ sent'[n] = m
        /\ \A i \in DOMAIN sent : sent'[i] = sent[i]
    BY AppendProperties, LenProperties DEF TypeOK
  <1>2. n \in 1..MaxMessages /\ m.size \in Nat \ {0}
    BY <1>1, Bounds DEF TypeOK
  <1> DEFINE s == serialize(n, m)
             c == Len(coming)
  <1>3. /\ s \in Seq(Byte) /\ Len(s) = m.size + 1
        /\ \A k \in 1..(m.size + 1) : s[k].msg = n /\ s[k].at = k
    <2>1. /\ s \in Seq(Byte) /\ Len(s) = m.size + 1
          /\ \A k \in 1..(m.size + 1) : s[k] =
               [msg |-> n, at |-> k, dollar |-> k \in m.dollars \cup {m.size + 1}]
      BY <1>2, SerializedBytes
    <2>2. ASSUME NEW k \in 1..(m.size + 1) PROVE s[k].msg = n /\ s[k].at = k
      <3> HIDE DEF s, n
      <3>1. s[k] = [msg |-> n, at |-> k, dollar |-> k \in m.dollars \cup {m.size + 1}]
        BY <2>1
      <3> QED  BY <3>1
    <2> QED  BY <2>1, <2>2
  <1>4. coming' = coming \o s /\ coming \in Seq(Byte) /\ c \in Nat
    <2> DEFINE a == (msg_buffer_ \o pushing) \o pipe
    <2>1. a \in Seq(Byte)
      <3>1. msg_buffer_ \in Seq(Byte) /\ pushing \in Seq(Byte) /\ pipe \in Seq(Byte)
        BY ComingBytes DEF TypeOK
      <3>2. msg_buffer_ \o pushing \in Seq(Byte)
        BY <3>1, ConcatProperties
      <3> QED  BY <3>1, <3>2, ConcatProperties
    <2>2. coming = a \o unwritten /\ unwritten = << >>
      BY DEF coming, sendMessage
    <2>3. coming = a
      BY <2>1, <2>2, ConcatEmptySeq
    <2>4. coming' = a \o unwritten'
      BY DEF coming, sendMessage
    <2> QED  BY <1>1, <2>3, <2>4, ComingBytes
  <1> HIDE DEF s, c
  <1>5. /\ coming' \in Seq(Byte) /\ Len(coming') = c + (m.size + 1)
        /\ \A k \in 1..(c + (m.size + 1)) : coming'[k] =
             IF k <= c THEN coming[k] ELSE s[k - c]
    <2>1. /\ coming \o s \in Seq(Byte) /\ Len(coming \o s) = Len(coming) + Len(s)
          /\ \A k \in 1..(Len(coming) + Len(s)) : (coming \o s)[k] =
               IF k <= Len(coming) THEN coming[k] ELSE s[k - Len(coming)]
      BY <1>3, <1>4, ConcatProperties
    <2>2. Len(coming) = c /\ Len(s) = m.size + 1
      BY <1>3 DEF c
    <2> HIDE DEF c
    <2> QED  BY <1>4, <2>1, <2>2
  <1>6. ASSUME NEW k \in 1..c
        PROVE  /\ k \in 1..Len(coming') /\ coming'[k] = coming[k]
               /\ coming[k].msg \in DOMAIN sent
               /\ sent'[coming[k].msg] = sent[coming[k].msg]
               /\ Genuine(coming[k]) /\ Genuine(coming[k])'
               /\ EndsMessage(coming[k])' = EndsMessage(coming[k])
    <2>1. k \in 1..Len(coming') /\ coming'[k] = coming[k]
      BY <1>2, <1>4, <1>5
    <2>2. Genuine(coming[k])
      BY DEF StreamOK, c
    <2>3. coming[k].msg \in DOMAIN sent /\ coming[k].msg \in DOMAIN sent'
      BY <1>1, <2>2 DEF Genuine
    <2>4. sent'[coming[k].msg] = sent[coming[k].msg]
      BY <1>1, <2>3
    <2> QED  BY <2>1, <2>2, <2>3, <2>4 DEF Genuine, EndsMessage, serialize
  <1>7. ASSUME NEW k \in (c + 1)..(c + (m.size + 1))
        PROVE  /\ k - c \in 1..(m.size + 1) /\ coming'[k] = s[k - c]
               /\ coming'[k].msg = n /\ coming'[k].at = k - c
               /\ coming'[k] = serialize(n, m)[k - c]
    <2>1. k - c \in 1..(m.size + 1) /\ ~(k <= c) /\ k \in 1..(c + (m.size + 1))
      BY <1>2, <1>4
    <2>2. coming'[k] = s[k - c]
      BY <1>5, <2>1
    <2> QED  BY <1>3, <2>1, <2>2 DEF s
  <1>8. \A k \in 1..Len(coming') : k \in 1..c \/ k \in (c + 1)..(c + (m.size + 1))
    BY <1>2, <1>4, <1>5
  <1>9. \A k \in 1..Len(coming') : Genuine(coming[k])'
    <2>1. SUFFICES ASSUME NEW k \in 1..Len(coming') PROVE Genuine(coming[k])'
      OBVIOUS
    <2>2. CASE k \in 1..c
      BY <1>6, <2>2
    <2>3. CASE k \in (c + 1)..(c + (m.size + 1))
      <3>1. /\ k - c \in 1..(m.size + 1)
            /\ coming'[k].msg = n /\ coming'[k].at = k - c
            /\ coming'[k] = serialize(n, m)[k - c]
        BY <1>7, <2>3
      <3>2. n \in DOMAIN sent' /\ sent'[n] = m
        BY <1>1, <1>2
      <3> QED  BY <3>1, <3>2 DEF Genuine, serialize
    <2> QED  BY <1>8, <2>2, <2>3
  <1>10. Len(coming') \in (c + 1)..(c + (m.size + 1)) /\ Len(coming') - c = m.size + 1
    BY <1>2, <1>4, <1>5
  <1>11. coming'[Len(coming')].msg = Len(sent') /\ EndsMessage(coming[Len(coming)])'
    BY <1>1, <1>7, <1>10 DEF EndsMessage
  <1>12. \A k \in 1..(Len(coming') - 1) : Successive(coming[k], coming[k + 1])'
    <2>1. SUFFICES ASSUME NEW k \in 1..(Len(coming') - 1)
                   PROVE  Successive(coming[k], coming[k + 1])'
      OBVIOUS
    <2>2. CASE k \in 1..(c - 1)
      <3>1. k \in 1..c /\ k + 1 \in 1..c
        BY <1>4, <2>2
      <3>2. coming'[k] = coming[k] /\ EndsMessage(coming[k])' = EndsMessage(coming[k])
        BY <1>6, <3>1
      <3>3. coming'[k + 1] = coming[k + 1]
        BY <1>6, <3>1
      <3>4. Successive(coming[k], coming[k + 1])
        BY <2>2 DEF StreamOK, c
      <3> QED  BY <3>2, <3>3, <3>4 DEF Successive
    <2>3. CASE k = c
      <3>1. k \in 1..c /\ k + 1 \in (c + 1)..(c + (m.size + 1)) /\ (k + 1) - c = 1
        BY <1>2, <1>4, <2>1, <2>3
      <3>2. coming'[k] = coming[k] /\ EndsMessage(coming[k])' = EndsMessage(coming[k])
        BY <1>6, <3>1
      <3>3. coming'[k + 1].msg = n /\ coming'[k + 1].at = 1
        BY <1>7, <3>1
      <3>4. coming # << >>
        BY <3>1, EmptySeq DEF c
      <3>5. coming[k].msg = Len(sent) /\ EndsMessage(coming[k])
        BY <2>3, <3>4 DEF StreamOK, c
      <3>6. EndsMessage(coming[k])' /\ coming'[k].msg = Len(sent)
        BY <3>2, <3>5
      <3> QED  BY <3>3, <3>6 DEF Successive
    <2>4. CASE k \in (c + 1)..(c + m.size)
      <3>1. /\ k \in (c + 1)..(c + (m.size + 1)) /\ k + 1 \in (c + 1)..(c + (m.size + 1))
            /\ (k + 1) - c = (k - c) + 1 /\ k - c # m.size + 1
        BY <1>2, <1>4, <2>4
      <3>2. coming'[k].msg = n /\ coming'[k].at = k - c
        BY <1>7, <3>1
      <3>3. coming'[k + 1].msg = n /\ coming'[k + 1].at = (k - c) + 1
        BY <1>7, <3>1
      <3>4. ~EndsMessage(coming[k])'
        BY <1>1, <3>1, <3>2 DEF EndsMessage
      <3> QED  BY <3>2, <3>3, <3>4 DEF Successive
    <2> QED
      <3>1. k \in 1..(c - 1) \/ k = c \/ k \in (c + 1)..(c + m.size)
        BY <1>2, <1>4, <1>5
      <3> QED  BY <2>2, <2>3, <2>4, <3>1
  <1>13. CASE coming = << >>
    <2>1. c = 0 /\ 1 \in (c + 1)..(c + (m.size + 1))
      BY <1>2, <1>13, EmptySeq DEF c
    <2>2. coming'[1].msg = n /\ coming'[1].at = 1
      BY <1>7, <2>1
    <2>3. coming' # << >>
      BY <1>10, <2>1, <1>2, EmptySeq
    <2>4. Frontier' = n /\ Frontier = n
      BY <1>13, <2>2, <2>3 DEF Frontier
    <2> QED
      BY <1>1, <1>9, <1>11, <1>12, <2>2, <2>4 DEF StreamOK
  <1>14. CASE coming # << >>
    <2>1. 1 \in 1..c /\ coming' # << >>
      BY <1>2, <1>4, <1>5, <1>14, EmptySeq DEF c
    <2>2. coming'[1] = coming[1] /\ sent'[coming[1].msg] = sent[coming[1].msg]
      BY <1>6, <2>1
    <2>3. coming[1].at # 1 => sent[coming[1].msg] \in Cut
      BY <1>14 DEF StreamOK
    <2>4. coming'[1].at # 1 => sent'[coming'[1].msg] \in Cut'
      BY <2>2, <2>3 DEF Cut
    <2>5. Frontier' = Frontier
      BY <1>14, <2>1, <2>2 DEF Frontier
    <2> QED
      BY <1>1, <1>9, <1>11, <1>12, <2>4, <2>5 DEF StreamOK
  <1> QED
    BY <1>13, <1>14

-----------------------------------------------------------------------------
(* What the steps do to the queue.                                         *)
LEMMA FrontierBounds ==
  ASSUME TypeOK, StreamOK
  PROVE  Frontier \in 1..(Len(sent) + 1) /\ DOMAIN sent = 1..Len(sent) /\ Len(sent) \in Nat
  <1>1. Len(sent) \in Nat /\ DOMAIN sent = 1..Len(sent)
    BY LenProperties DEF TypeOK
  <1>2. CASE coming = << >>
    BY <1>1, <1>2 DEF Frontier
  <1>3. CASE coming # << >>
    <2>1. 1 \in 1..Len(coming)
      BY <1>3, ComingBytes, EmptySeq
    <2>2. coming[1].msg \in DOMAIN sent
      BY <2>1, StreamBytes
    <2> QED  BY <1>1, <1>3, <2>2 DEF Frontier
  <1> QED
    BY <1>2, <1>3

LEMMA LastReceivedBounds ==
  ASSUME TypeOK
  PROVE  LastReceived \in Nat /\ LastReceived <= Len(sent)
  <1>1. Len(sent) \in Nat /\ DOMAIN sent = 1..Len(sent)
    BY LenProperties DEF TypeOK
  <1>2. received # << >> => Last(received) \in DOMAIN sent
    <2>1. received \in Seq(DOMAIN sent)
      BY DEF TypeOK
    <2>2. received # << >> => Len(received) \in 1..Len(received)
      BY <2>1, EmptySeq
    <2> QED  BY <2>1, <2>2, ElementOfSeq DEF Last
  <1> QED
    BY <1>1, <1>2 DEF LastReceived

LEMMA SameQueue ==
  ASSUME QueueOK, queue_' = queue_, sent' = sent, received' = received,
         Frontier' = Frontier
  PROVE  QueueOK'
  <1>1. \A k \in 1..Len(queue_), i \in DOMAIN sent :
          Deserializes(queue_[k], i)' <=> Deserializes(queue_[k], i)
    BY DEF Deserializes, serialize
  <1>2. LastReceived' = LastReceived /\ Cut' = Cut
    BY DEF LastReceived, Cut
  <1> QED
    BY <1>1, <1>2 DEF QueueOK

LEMMA WholeMessageIsPlainNext ==
  (TypeOK => \A bytes \in Seq(Text) : \A i \in DOMAIN sent :
     Deserializes(bytes, i) => 1 \in 1..Len(bytes) /\ bytes[1].msg = i)'
  <1>1. TypeOK => \A bytes \in Seq(Text) : \A i \in DOMAIN sent :
          Deserializes(bytes, i) => 1 \in 1..Len(bytes) /\ bytes[1].msg = i
    BY WholeMessageIsPlain
  <1> QED
    BY <1>1, PTL

(* The same piece deserializes to the same messages after a message is     *)
(* sent: a new one has left no byte in the queue.                          *)
LEMMA SendKeepsQueue ==
  ASSUME TypeOK, StreamOK, QueueOK, sendMessage, TypeOK'
  PROVE  QueueOK'
  <1>1. /\ DOMAIN sent' = 1..(Len(sent) + 1) /\ DOMAIN sent = 1..Len(sent)
        /\ Len(sent) \in Nat /\ Frontier' = Frontier
        /\ \A i \in DOMAIN sent : sent'[i] = sent[i]
    BY SendExtendsStream
  <1>2. queue_' = queue_ /\ received' = received /\ LastReceived' = LastReceived
    BY DEF sendMessage, LastReceived
  <1>3. Frontier \in 1..(Len(sent) + 1)
    BY FrontierBounds
  <1>4. \A i \in DOMAIN sent : i \in DOMAIN sent'
    BY <1>1
  <1>5. \A k \in 1..Len(queue_), i \in DOMAIN sent :
          Deserializes(queue_[k], i)' <=> Deserializes(queue_[k], i)
    BY <1>1, <1>2 DEF Deserializes, serialize
  <1>6. ASSUME NEW k \in 1..Len(queue_), NEW i \in DOMAIN sent', Deserializes(queue_[k], i)'
        PROVE  i \in DOMAIN sent
    <2>1. queue_[k] \in Seq(Text)
      BY ElementOfSeq DEF TypeOK
    <2>2. queue_[k] = Front(serialize(i, sent'[i]))
      BY <1>2, <1>6 DEF Deserializes, serialize
    <2>3. 1 \in 1..Len(queue_[k]) /\ queue_[k][1].msg = i
      BY <2>1, <2>2, WholeMessageIsPlainNext DEF Deserializes, serialize
    <2> QED  BY <2>3 DEF QueueOK
  <1>7. LastReceived < Frontier
    BY DEF QueueOK
  <1>8. \A k \in 1..Len(queue_) : \A j \in 1..Len(queue_[k]) :
          queue_[k][j].msg \in DOMAIN sent'
    BY <1>4 DEF QueueOK
  <1>9. \A k \in 1..Len(queue_), i \in DOMAIN sent' :
          Deserializes(queue_[k], i)' => LastReceived < i /\ i < Frontier
    BY <1>5, <1>6 DEF QueueOK
  <1>10. \A k, l \in 1..Len(queue_), i, j \in DOMAIN sent' :
           k < l /\ Deserializes(queue_[k], i)' /\ Deserializes(queue_[l], j)' => i < j
    BY <1>5, <1>6 DEF QueueOK
  <1>11. ASSUME NEW i \in DOMAIN sent', LastReceived < i, i < Frontier, sent'[i] \notin Cut'
         PROVE  \E k \in 1..Len(queue_) : Deserializes(queue_[k], i)'
    <2>1. i \in DOMAIN sent /\ sent[i] \notin Cut
      BY <1>1, <1>3, <1>11 DEF Cut
    <2>2. PICK k \in 1..Len(queue_) : Deserializes(queue_[k], i)
      BY <1>11, <2>1 DEF QueueOK
    <2> QED  BY <1>5, <2>1, <2>2
  <1>12. \A k \in 1..Len(queue_) :
           \/ \E i \in DOMAIN sent' : Deserializes(queue_[k], i)'
           \/ \E i \in DOMAIN sent' : sent'[i] \in Cut'
    BY <1>1, <1>4, <1>5 DEF QueueOK, Cut
  <1> QED
    BY <1>1, <1>2, <1>7, <1>8, <1>9, <1>10, <1>11, <1>12 DEF QueueOK

(* push appends what TerminatorPushed says of msg_buffer_.                 *)
LEMMA TerminatorKeepsQueue ==
  ASSUME TypeOK, StreamOK, BufferOK, QueueOK, PushByte, Head(pushing).dollar
  PROVE  QueueOK'
  <1> DEFINE q == Len(queue_)
             f == Frontier
  <1>1. /\ queue_' = Append(queue_, msg_buffer_)
        /\ sent' = sent /\ received' = received /\ LastReceived' = LastReceived
    BY DEF PushByte, LastReceived
  <1>2. /\ q \in Nat /\ Len(queue_') = q + 1
        /\ queue_'[q + 1] = msg_buffer_
        /\ \A k \in 1..q : queue_'[k] = queue_[k]
    BY <1>1, AppendProperties, LenProperties DEF TypeOK
  <1>3. /\ f \in DOMAIN sent
        /\ \/ Frontier' = f /\ sent[f] \in Cut
           \/ /\ Frontier' = f + 1
              /\ sent[f] \notin Cut => Deserializes(msg_buffer_, f)
        /\ \A i \in DOMAIN sent : Deserializes(msg_buffer_, i) =>
             i = f /\ Frontier' = f + 1
        /\ \A k \in 1..Len(msg_buffer_) : msg_buffer_[k].msg \in DOMAIN sent
    BY TerminatorPushed
  <1> HIDE DEF q, f
  <1>4. /\ f \in Nat /\ DOMAIN sent \subseteq Nat
        /\ LastReceived \in Nat /\ LastReceived < f
    BY <1>3, FrontierBounds, LastReceivedBounds DEF QueueOK, f
  <1>6. Frontier' \in Nat /\ f <= Frontier'
    BY <1>3, <1>4
  <1>7. \A k \in 1..Len(queue_') : k \in 1..q \/ k = q + 1
    BY <1>2
  <1>8. \A k \in 1..q, i \in DOMAIN sent :
          Deserializes(queue_[k], i)' <=> Deserializes(queue_[k], i)
    BY <1>1, <1>2 DEF Deserializes, serialize
  <1>9. \A k, i : k = q + 1 =>
          (Deserializes(queue_[k], i)' <=> Deserializes(msg_buffer_, i))
    BY <1>1, <1>2 DEF Deserializes, serialize
  <1>10. LastReceived < Frontier'
    BY <1>4, <1>6
  <1>11. \A k \in 1..Len(queue_') : \A j \in 1..Len(queue_'[k]) :
           queue_'[k][j].msg \in DOMAIN sent
    BY <1>2, <1>3, <1>7 DEF QueueOK, q
  <1>12. ASSUME NEW k \in 1..q, NEW i \in DOMAIN sent, Deserializes(queue_[k], i)'
         PROVE  LastReceived < i /\ i < f
    BY <1>8, <1>12 DEF QueueOK, q, f
  <1>13. ASSUME NEW k \in 1..Len(queue_'), NEW i \in DOMAIN sent,
                Deserializes(queue_[k], i)'
         PROVE  LastReceived < i /\ i < Frontier'
    <2>1. CASE k \in 1..q
      BY <1>4, <1>6, <1>12, <1>13, <2>1
    <2>2. CASE k = q + 1
      BY <1>3, <1>4, <1>9, <1>13, <2>2
    <2> QED  BY <1>7, <2>1, <2>2
  <1>14. ASSUME NEW k \in 1..Len(queue_'), NEW l \in 1..Len(queue_'),
                NEW i \in DOMAIN sent, NEW j \in DOMAIN sent, k < l,
                Deserializes(queue_[k], i)', Deserializes(queue_[l], j)'
         PROVE  i < j
    <2>1. k \in 1..q
      BY <1>2, <1>14
    <2>2. CASE l \in 1..q
      BY <1>8, <1>14, <2>1, <2>2 DEF QueueOK, q
    <2>3. CASE l = q + 1
      <3>1. j = f
        BY <1>3, <1>9, <1>14, <2>3
      <3> QED  BY <1>12, <1>14, <2>1, <3>1
    <2> QED  BY <1>7, <2>2, <2>3
  <1>15. ASSUME NEW i \in DOMAIN sent, LastReceived < i, i < Frontier', sent[i] \notin Cut
         PROVE  \E k \in 1..Len(queue_') : Deserializes(queue_[k], i)'
    <2>1. CASE i < f
      <3>1. PICK k \in 1..q : Deserializes(queue_[k], i)
        BY <1>15, <2>1 DEF QueueOK, q, f
      <3>2. k \in 1..Len(queue_')
        BY <1>2
      <3> QED  BY <1>8, <3>1, <3>2
    <2>2. CASE i = f
      <3>1. Deserializes(msg_buffer_, i)
        BY <1>3, <1>4, <1>15, <2>2
      <3>2. q + 1 \in 1..Len(queue_')
        BY <1>2
      <3>3. \A k : k = q + 1 => Deserializes(queue_[k], i)'
        BY <1>9, <3>1
      <3> QED  BY <3>2, <3>3
    <2> QED
      <3>1. i < f \/ i = f
        BY <1>3, <1>4, <1>15
      <3> QED  BY <2>1, <2>2, <3>1
  <1>16. ASSUME NEW k \in 1..Len(queue_')
         PROVE  \/ \E i \in DOMAIN sent : Deserializes(queue_[k], i)'
                \/ \E i \in DOMAIN sent : sent[i] \in Cut
    <2>1. CASE k \in 1..q
      BY <1>8, <2>1 DEF QueueOK, q
    <2>2. CASE k = q + 1
      BY <1>3, <1>9, <2>2
    <2> QED  BY <1>7, <2>1, <2>2
  <1> QED
    <2>1. Cut' = Cut
      BY DEF Cut
    <2> QED
      BY <1>1, <1>10, <1>11, <1>13, <1>14, <1>15, <1>16, <2>1 DEF QueueOK

(* A message that is fetched is the next one, but for cut ones.            *)
LEMMA FetchTakesNext ==
  ASSUME TypeOK, StreamOK, QueueOK, fetchMessageFromBuffer,
         NEW i \in DOMAIN sent, Deserializes(Head(queue_), i),
         received' = Append(received, i)
  PROVE  /\ QueueOK'
         /\ LastReceived < i /\ LastReceived' = i
         /\ \A j \in DOMAIN sent : LastReceived < j /\ j < i => sent[j] \in Cut
  <1> DEFINE q == Len(queue_)
  <1>1. /\ q \in Nat /\ 1 \in 1..q /\ Head(queue_) = queue_[1] /\ queue_[1] \in Seq(Text)
        /\ queue_' = Tail(queue_) /\ Len(queue_') = q - 1
        /\ \A k \in 1..Len(queue_') : queue_'[k] = queue_[k + 1]
    <2>1. queue_ \in Seq(Seq(Text)) /\ queue_ # << >>
      BY DEF TypeOK, fetchMessageFromBuffer
    <2>2. q \in Nat /\ 1 \in 1..q
      BY <2>1, EmptySeq
    <2> QED
      BY <2>1, <2>2, HeadTailProperties, ElementOfSeq DEF fetchMessageFromBuffer
  <1>2. /\ sent' = sent /\ Frontier' = Frontier
    BY DEF fetchMessageFromBuffer, Frontier, coming
  <1>3. LastReceived' = i
    <2>1. received \in Seq(DOMAIN sent)
      BY DEF TypeOK
    <2>2. received' # << >> /\ Len(received') = Len(received) + 1
          /\ received'[Len(received) + 1] = i
      BY <2>1, AppendProperties
    <2> QED  BY <2>2 DEF LastReceived, Last
  <1>4. /\ DOMAIN sent \subseteq Nat /\ i \in Nat /\ LastReceived \in Nat
        /\ Frontier \in Nat
    BY FrontierBounds, LastReceivedBounds
  <1> HIDE DEF q
  <1>5. Deserializes(queue_[1], i)
    BY <1>1
  <1>6. LastReceived < i /\ i < Frontier
    BY <1>1, <1>5 DEF QueueOK, q
  <1>7. ASSUME NEW l \in 1..q, l # 1, NEW j \in DOMAIN sent, Deserializes(queue_[l], j)
        PROVE  i < j
    <2>1. 1 < l
      BY <1>1, <1>7
    <2> QED  BY <1>1, <1>5, <1>7, <2>1 DEF QueueOK, q
  <1>8. ASSUME NEW j \in DOMAIN sent, Deserializes(queue_[1], j)
        PROVE  j = i
    BY <1>1, <1>5, <1>8, WholeMessageIsPlain
  <1>9. ASSUME NEW j \in DOMAIN sent, LastReceived < j, j < i
        PROVE  sent[j] \in Cut
    <2>1. SUFFICES ASSUME sent[j] \notin Cut PROVE FALSE
      OBVIOUS
    <2>2. j < Frontier
      BY <1>4, <1>6, <1>9
    <2>3. PICK k \in 1..q : Deserializes(queue_[k], j)
      BY <1>9, <2>1, <2>2 DEF QueueOK, q
    <2>4. CASE k = 1
      BY <1>4, <1>8, <1>9, <2>3, <2>4
    <2>5. CASE k # 1
      BY <1>4, <1>7, <1>9, <2>3, <2>5
    <2> QED  BY <2>4, <2>5
  <1>10. \A k \in 1..Len(queue_') :
           /\ k + 1 \in 1..q /\ k + 1 # 1
           /\ \A j : Deserializes(queue_[k], j)' <=> Deserializes(queue_[k + 1], j')
    <2>1. SUFFICES ASSUME NEW k \in 1..Len(queue_')
                   PROVE  /\ k + 1 \in 1..q /\ k + 1 # 1
                          /\ \A j : Deserializes(queue_[k], j)' <=> Deserializes(queue_[k + 1], j')
      OBVIOUS
    <2>2. k + 1 \in 1..q /\ k + 1 # 1
      BY <1>1
    <2>3. queue_'[k] = queue_[k + 1]
      BY <1>1
    <2> QED  BY <1>2, <2>2, <2>3 DEF Deserializes, serialize
  <1>11. \A k \in 1..Len(queue_') : \A j \in 1..Len(queue_'[k]) :
           queue_'[k][j].msg \in DOMAIN sent
    BY <1>1, <1>10 DEF QueueOK, q
  <1>12. ASSUME NEW k \in 1..Len(queue_'), NEW j \in DOMAIN sent,
                Deserializes(queue_[k], j)'
         PROVE  i < j /\ j < Frontier
    <2>1. k + 1 \in 1..q /\ k + 1 # 1 /\ Deserializes(queue_[k + 1], j)
      BY <1>10, <1>12
    <2> QED  BY <1>7, <2>1 DEF QueueOK, q
  <1>13. ASSUME NEW k \in 1..Len(queue_'), NEW l \in 1..Len(queue_'),
                NEW j \in DOMAIN sent, NEW h \in DOMAIN sent, k < l,
                Deserializes(queue_[k], j)', Deserializes(queue_[l], h)'
         PROVE  j < h
    <2>1. k + 1 \in 1..q /\ l + 1 \in 1..q /\ k + 1 < l + 1
      BY <1>1, <1>10, <1>13
    <2>2. Deserializes(queue_[k + 1], j)
      BY <1>10, <1>13
    <2>3. Deserializes(queue_[l + 1], h)
      BY <1>10, <1>13
    <2> QED  BY <2>1, <2>2, <2>3 DEF QueueOK, q
  <1>14. ASSUME NEW j \in DOMAIN sent, i < j, j < Frontier, sent[j] \notin Cut
         PROVE  \E k \in 1..Len(queue_') : Deserializes(queue_[k], j)'
    <2>1. LastReceived < j
      BY <1>4, <1>6, <1>14
    <2>2. PICK k \in 1..q : Deserializes(queue_[k], j)
      BY <1>14, <2>1 DEF QueueOK, q
    <2>3. k # 1
      BY <1>4, <1>8, <1>14, <2>2
    <2>4. k - 1 \in 1..Len(queue_') /\ (k - 1) + 1 = k
      BY <1>1, <2>3
    <2>5. Deserializes(queue_[k - 1], j)'
      BY <1>10, <2>2, <2>4
    <2> QED  BY <2>4, <2>5
  <1>15. ASSUME NEW k \in 1..Len(queue_')
         PROVE  \/ \E j \in DOMAIN sent : Deserializes(queue_[k], j)'
                \/ \E j \in DOMAIN sent : sent[j] \in Cut
    <2>1. k + 1 \in 1..q
      BY <1>10
    <2>2. \/ \E j \in DOMAIN sent : Deserializes(queue_[k + 1], j)
          \/ \E j \in DOMAIN sent : sent[j] \in Cut
      BY <2>1 DEF QueueOK, q
    <2> QED  BY <1>10, <2>2
  <1>16. QueueOK'
    <2>1. Cut' = Cut
      BY DEF Cut
    <2> QED
      BY <1>2, <1>3, <1>6, <1>11, <1>12, <1>13, <1>14, <1>15, <2>1 DEF QueueOK
  <1> QED
    BY <1>3, <1>6, <1>9, <1>16

(* A piece that does not deserialize is dropped; it stems from a message   *)
(* that was cut.                                                           *)
LEMMA FetchDropsPiece ==
  ASSUME TypeOK, StreamOK, QueueOK, fetchMessageFromBuffer,
         ~ \E i \in DOMAIN sent : Deserializes(Head(queue_), i),
         UNCHANGED received
  PROVE  QueueOK' /\ \E i \in DOMAIN sent : sent[i] \in Cut
  <1> DEFINE q == Len(queue_)
  <1>1. /\ q \in Nat /\ 1 \in 1..q /\ Head(queue_) = queue_[1]
        /\ queue_' = Tail(queue_) /\ Len(queue_') = q - 1
        /\ \A k \in 1..Len(queue_') : queue_'[k] = queue_[k + 1]
    <2>1. queue_ \in Seq(Seq(Text)) /\ queue_ # << >>
      BY DEF TypeOK, fetchMessageFromBuffer
    <2>2. q \in Nat /\ 1 \in 1..q
      BY <2>1, EmptySeq
    <2> QED
      BY <2>1, <2>2, HeadTailProperties DEF fetchMessageFromBuffer
  <1>2. /\ sent' = sent /\ Frontier' = Frontier /\ LastReceived' = LastReceived
        /\ Cut' = Cut
    BY DEF fetchMessageFromBuffer, Frontier, coming, LastReceived, Cut
  <1> HIDE DEF q
  <1>3. \A i \in DOMAIN sent : ~Deserializes(queue_[1], i)
    BY <1>1
  <1>4. \E i \in DOMAIN sent : sent[i] \in Cut
    BY <1>1, <1>3 DEF QueueOK, q
  <1>5. \A k \in 1..Len(queue_') :
           /\ k + 1 \in 1..q
           /\ \A j : Deserializes(queue_[k], j)' <=> Deserializes(queue_[k + 1], j')
    <2>1. SUFFICES ASSUME NEW k \in 1..Len(queue_')
                   PROVE  /\ k + 1 \in 1..q
                          /\ \A j : Deserializes(queue_[k], j)' <=> Deserializes(queue_[k + 1], j')
      OBVIOUS
    <2>2. k + 1 \in 1..q
      BY <1>1
    <2>3. queue_'[k] = queue_[k + 1]
      BY <1>1
    <2> QED  BY <1>2, <2>2, <2>3 DEF Deserializes, serialize
  <1>6. \A k \in 1..Len(queue_') : \A j \in 1..Len(queue_'[k]) :
           queue_'[k][j].msg \in DOMAIN sent
    BY <1>1, <1>5 DEF QueueOK, q
  <1>7. \A k \in 1..Len(queue_'), j \in DOMAIN sent :
          Deserializes(queue_[k], j)' => LastReceived < j /\ j < Frontier
    BY <1>5 DEF QueueOK, q
  <1>8. ASSUME NEW k \in 1..Len(queue_'), NEW l \in 1..Len(queue_'),
               NEW j \in DOMAIN sent, NEW h \in DOMAIN sent, k < l,
               Deserializes(queue_[k], j)', Deserializes(queue_[l], h)'
        PROVE  j < h
    <2>1. k + 1 \in 1..q /\ l + 1 \in 1..q /\ k + 1 < l + 1
      BY <1>1, <1>5, <1>8
    <2>2. Deserializes(queue_[k + 1], j)
      BY <1>5, <1>8
    <2>3. Deserializes(queue_[l + 1], h)
      BY <1>5, <1>8
    <2> QED  BY <2>1, <2>2, <2>3 DEF QueueOK, q
  <1>9. ASSUME NEW j \in DOMAIN sent, LastReceived < j, j < Frontier, sent[j] \notin Cut
        PROVE  \E k \in 1..Len(queue_') : Deserializes(queue_[k], j)'
    <2>1. PICK k \in 1..q : Deserializes(queue_[k], j)
      BY <1>9 DEF QueueOK, q
    <2>2. k # 1
      BY <1>3, <2>1
    <2>3. k - 1 \in 1..Len(queue_') /\ (k - 1) + 1 = k
      BY <1>1, <2>2
    <2>4. Deserializes(queue_[k - 1], j)'
      BY <1>5, <2>1, <2>3
    <2> QED  BY <2>3, <2>4
  <1>10. LastReceived < Frontier
    BY DEF QueueOK
  <1> QED
    BY <1>2, <1>4, <1>6, <1>7, <1>8, <1>9, <1>10 DEF QueueOK

-----------------------------------------------------------------------------
(* What waits for its terminator.                                          *)
LEMMA BufferStep ==
  ASSUME TypeOK, StreamOK, BufferOK, PushByte
  PROVE  BufferOK'
  <1> DEFINE n == Len(msg_buffer_)
             b == Head(pushing)
  <1>1. CASE b.dollar
    <2>1. msg_buffer_' = << >> /\ Len(<< >>) = 0
      BY <1>1, EmptySeq DEF PushByte
    <2>2. 1..Len(msg_buffer_') = {}
      BY <2>1
    <2> QED  BY <2>2 DEF BufferOK
  <1>2. CASE ~b.dollar
    <2>1. msg_buffer_' = Append(msg_buffer_, b) /\ msg_buffer_ \in Seq(Byte) /\ b \in Byte
      BY <1>2, ComingBytes, PushTakesNextByte DEF PushByte
    <2>2. /\ n \in Nat /\ Len(msg_buffer_') = n + 1 /\ msg_buffer_'[n + 1] = b
          /\ \A k \in 1..n : msg_buffer_'[k] = msg_buffer_[k]
      BY <2>1, AppendProperties, LenProperties
    <2>3. /\ b.msg = Frontier /\ b.at = coming[1].at + n
          /\ \A k \in 1..n : /\ msg_buffer_[k].msg = Frontier
                             /\ msg_buffer_[k].at = coming[1].at + k - 1
          /\ coming[1].at \in Nat
      BY NextByte, StreamBytes
    <2> HIDE DEF n, b
    <2>4. ASSUME NEW k \in 1..(n + 1)
          PROVE  /\ msg_buffer_'[k].msg = Frontier
                 /\ msg_buffer_'[k].at = coming[1].at + k - 1
      <3>1. CASE k \in 1..n
        BY <2>2, <2>3, <3>1
      <3>2. CASE k = n + 1
        BY <2>2, <2>3, <3>2
      <3> QED  BY <2>2, <3>1, <3>2
    <2>5. 1 \in 1..(n + 1)
      BY <2>2
    <2>6. msg_buffer_'[1].msg = Frontier /\ msg_buffer_'[1].at = coming[1].at
      BY <2>3, <2>4, <2>5
    <2> QED  BY <2>2, <2>4, <2>6 DEF BufferOK
  <1> QED
    BY <1>1, <1>2

(* The invariant holds at first and is kept by every step that finds room. *)
LEMMA InitialFlow == Init => FlowInv
  <1> SUFFICES ASSUME Init PROVE FlowInv
    OBVIOUS
  <1>1. \A S : << >> \in Seq(S) /\ Len(<< >>) = 0 /\ << >> \o << >> = << >>
    BY EmptySeq, ConcatEmptySeq
  <1>2. coming = << >> /\ Len(coming) = 0 /\ Len(sent) = 0 /\ DOMAIN sent = {}
    BY <1>1 DEF Init, coming
  <1>3. StreamOK /\ BufferOK
    BY <1>1, <1>2 DEF StreamOK, BufferOK, Init
  <1>4. QueueOK
    BY <1>1, <1>2 DEF QueueOK, Frontier, LastReceived, Init
  <1> QED
    BY <1>3, <1>4 DEF FlowInv, NothingWithheld, Init

LEMMA FlowStep ==
  TypeOK /\ TypeOK' /\ FlowInv /\ QueueHasRoom /\ [Next]_vars => FlowInv'
  <1> SUFFICES ASSUME TypeOK, TypeOK', FlowInv, QueueHasRoom, [Next]_vars
               PROVE  FlowInv'
    OBVIOUS
  <1> USE DEF FlowInv
  <1>1. CASE sendMessage
    <2>1. StreamOK' /\ QueueOK'
      BY <1>1, SendExtendsStream, SendKeepsQueue
    <2>2. BufferOK'
      BY <1>1 DEF BufferOK, sendMessage
    <2>3. NothingWithheld'
      <3>1. \A i \in DOMAIN sent : i \in DOMAIN sent' /\ sent'[i] = sent[i]
        BY <1>1, SendExtendsStream
      <3>2. queue_' = queue_ /\ pc' = pc /\ Cut' = Cut
        BY <1>1 DEF sendMessage, Cut
      <3> QED  BY <3>1, <3>2 DEF NothingWithheld
    <2> QED  BY <2>1, <2>2, <2>3
  <1>2. CASE WriteBytes
    <2>1. coming' = coming
      BY <1>2, WriteMovesBytes
    <2>2. /\ sent' = sent /\ queue_' = queue_ /\ received' = received
          /\ msg_buffer_' = msg_buffer_ /\ pc' = pc
      BY <1>2 DEF WriteBytes
    <2> QED  BY <2>1, <2>2, SameStream, SameQueue DEF BufferOK, NothingWithheld, Cut
  <1>3. CASE fetchMessageFromBuffer
    <2>1. /\ sent' = sent /\ coming' = coming /\ msg_buffer_' = msg_buffer_
      BY <1>3 DEF fetchMessageFromBuffer, coming
    <2>2. StreamOK' /\ BufferOK'
      BY <2>1, SameStream DEF BufferOK
    <2>3. QueueOK' /\ NothingWithheld'
      <3>1. CASE \E i \in DOMAIN sent : /\ Deserializes(Head(queue_), i)
                                        /\ received' = Append(received, i)
                                        /\ UNCHANGED pc
        <4>1. QueueOK'
          BY <1>3, <3>1, FetchTakesNext
        <4>2. pc' = "fetch"
          BY <1>3, <3>1 DEF fetchMessageFromBuffer
        <4> QED  BY <4>1, <4>2 DEF NothingWithheld
      <3>2. CASE /\ ~ \E i \in DOMAIN sent : Deserializes(Head(queue_), i)
                 /\ UNCHANGED received
        <4>1. QueueOK' /\ \E i \in DOMAIN sent : sent[i] \in Cut
          BY <1>3, <3>2, FetchDropsPiece
        <4> QED  BY <2>1, <4>1 DEF NothingWithheld, Cut
      <3> QED  BY <1>3, <3>1, <3>2 DEF fetchMessageFromBuffer
    <2> QED  BY <2>2, <2>3
  <1>4. CASE NoMessage
    <2>1. /\ sent' = sent /\ coming' = coming /\ msg_buffer_' = msg_buffer_
          /\ queue_' = queue_ /\ received' = received /\ queue_ = << >>
      BY <1>4 DEF NoMessage, coming
    <2> QED  BY <2>1, SameStream, SameQueue DEF BufferOK, NothingWithheld
  <1>5. CASE bufferedReadFromPipe
    <2>1. coming' = coming
      BY <1>5, ReadMovesBytes
    <2>2. /\ sent' = sent /\ queue_' = queue_ /\ received' = received
          /\ msg_buffer_' = msg_buffer_ /\ pc' # "read"
      BY <1>5 DEF bufferedReadFromPipe
    <2> QED  BY <2>1, <2>2, SameStream, SameQueue DEF BufferOK, NothingWithheld
  <1>6. CASE PushByte
    <2>1. BufferOK'
      BY <1>6, BufferStep
    <2>2. pc' # "read" /\ sent' = sent /\ received' = received
      BY <1>6 DEF PushByte
    <2>3. CASE Head(pushing).dollar
      <3>1. StreamOK'
        BY <1>6, <2>3, TerminatorPushed
      <3>2. QueueOK'
        BY <1>6, <2>3, TerminatorKeepsQueue
      <3> QED  BY <2>1, <2>2, <3>1, <3>2 DEF NothingWithheld
    <2>4. CASE ~Head(pushing).dollar
      <3>1. coming' = coming /\ queue_' = queue_
        BY <1>6, <2>4, PushTakesNextByte DEF PushByte
      <3> QED  BY <2>1, <2>2, <3>1, SameStream, SameQueue DEF NothingWithheld
    <2> QED  BY <2>3, <2>4
  <1>7. CASE UNCHANGED vars
    <2>1. /\ sent' = sent /\ coming' = coming /\ msg_buffer_' = msg_buffer_
          /\ queue_' = queue_ /\ received' = received /\ pc' = pc
      BY <1>7 DEF vars, coming
    <2> QED  BY <2>1, SameStream, SameQueue DEF BufferOK, NothingWithheld, Cut
  <1> QED
    BY <1>1, <1>2, <1>3, <1>4, <1>5, <1>6, <1>7 DEF Next, Receiver

-----------------------------------------------------------------------------
(* As long as no message was cut the receiver reads only when the queue is *)
(* empty, so that push finds room and the invariant goes on.               *)
LEMMA PlainStep ==
  TypeOK /\ TypeOK' /\ PlainInv /\ [Next]_vars => PlainInv'
  <1> SUFFICES ASSUME TypeOK, TypeOK', PlainInv, [Next]_vars,
                      \A i \in DOMAIN sent' : sent'[i] \notin Cut
               PROVE  FlowInv'
    BY DEF PlainInv, Cut
  <1>1. \A i \in DOMAIN sent : i \in DOMAIN sent' /\ sent'[i] = sent[i]
    <2>1. CASE sendMessage
      <3> PICK m \in Messages : sent' = Append(sent, m)
        BY <2>1 DEF sendMessage
      <3>1. /\ Len(sent) \in Nat /\ DOMAIN sent = 1..Len(sent)
            /\ DOMAIN sent' = 1..(Len(sent) + 1)
            /\ \A i \in 1..Len(sent) : sent'[i] = sent[i]
        BY AppendProperties, LenProperties DEF TypeOK
      <3> QED  BY <3>1
    <2>2. CASE sent' = sent
      BY <2>2
    <2> QED
      BY <2>1, <2>2 DEF Next, Receiver, WriteBytes, fetchMessageFromBuffer, NoMessage,
                        bufferedReadFromPipe, PushByte, vars
  <1>2. FlowInv
    BY <1>1 DEF PlainInv
  <1>3. QueueHasRoom
    <2>1. pc = "read" => queue_ = << >>
      BY <1>1, <1>2 DEF FlowInv, NothingWithheld
    <2>2. Len(<< >>) < max_size_
      BY Bounds, EmptySeq
    <2> QED  BY <2>1, <2>2 DEF QueueHasRoom
  <1> QED
    BY <1>2, <1>3, FlowStep

LEMMA PlainInvHolds == Spec => []PlainInv
  <1>1. Init => PlainInv
    BY InitialFlow DEF PlainInv
  <1> QED
    BY <1>1, PlainStep, FramingTypeCorrectness, PTL DEF Spec

(* The receiver goes to the FIFO only when it has taken every complete     *)
(* message it holds, as long as none was cut, whatever the sizes of the    *)
(* messages, the FIFO, the reads and the queue.                            *)
THEOREM NoMessageIsWithheld == Spec => []NothingWithheld
  <1>1. PlainInv => NothingWithheld
    BY DEF PlainInv, FlowInv, NothingWithheld
  <1> QED
    BY <1>1, PlainInvHolds, PTL

(* A step of the receiver that delivers a message is Deliver of Channel,   *)
(* a message sent is Send, and everything else is invisible.               *)
LEMMA DeliverStep ==
  ASSUME TypeOK, FlowInv, fetchMessageFromBuffer,
         NEW i \in DOMAIN sent, Deserializes(Head(queue_), i),
         received' = Append(received, i)
  PROVE  Transport!Deliver
  <1> DEFINE transit == SubSeq(sent, LastReceived + 1, Len(sent))
             n == Len(sent)
             r == LastReceived
  <1>1. /\ r < i /\ LastReceived' = i
        /\ \A j \in DOMAIN sent : r < j /\ j < i => sent[j] \in Cut
    BY FetchTakesNext DEF FlowInv
  <1>2. /\ n \in Nat /\ DOMAIN sent = 1..n /\ sent \in Seq(Messages)
        /\ r \in Nat /\ r <= n /\ sent' = sent
    BY LenProperties, LastReceivedBounds DEF TypeOK, fetchMessageFromBuffer
  <1>3. i \in 1..n
    BY <1>2
  <1> HIDE DEF n, r
  <1>4. /\ transit \in Seq(Messages) /\ Len(transit) = n - r
        /\ \A k \in 1..(n - r) : transit[k] = sent[r + k]
    <2>1. \A k \in (r + 1)..n : sent[k] \in Messages
      <3>1. SUFFICES ASSUME NEW k \in (r + 1)..n PROVE sent[k] \in Messages
        OBVIOUS
      <3>2. k \in 1..Len(sent)
        BY <1>2 DEF n
      <3> QED  BY <1>2, <3>2, ElementOfSeq
    <2>2. r + 1 \in Int /\ n \in Int
      BY <1>2
    <2>3. /\ SubSeq(sent, r + 1, n) \in Seq(Messages)
          /\ Len(SubSeq(sent, r + 1, n)) = IF r + 1 <= n THEN n - (r + 1) + 1 ELSE 0
          /\ \A k \in 1..(n - (r + 1) + 1) : SubSeq(sent, r + 1, n)[k] = sent[r + 1 + k - 1]
      BY <2>1, <2>2, SubSeqProperties
    <2>4. transit = SubSeq(sent, r + 1, n)
      BY DEF r, n
    <2> HIDE DEF transit
    <2>5. \A k \in 1..(n - r) : k \in 1..(n - (r + 1) + 1) /\ r + 1 + k - 1 = r + k
      BY <1>2
    <2>6. Len(transit) = n - r
      BY <1>2, <2>3, <2>4
    <2> QED  BY <2>3, <2>4, <2>5, <2>6
  <1> DEFINE k == i - r
  <1>5. k \in 1..(n - r) /\ r + k = i
    BY <1>1, <1>2, <1>3
  <1>6. k \in DOMAIN transit /\ transit[k] = sent[i]
    BY <1>4, <1>5, LenProperties
  <1>7. \A j \in 1..(k - 1) : transit[j] \in Cut
    <2>1. SUFFICES ASSUME NEW j \in 1..(k - 1) PROVE transit[j] \in Cut
      OBVIOUS
    <2>2. /\ j \in 1..(n - r) /\ r + j \in 1..n /\ r < r + j /\ r + j < i
      BY <1>1, <1>2, <1>3
    <2>3. transit[j] = sent[r + j]
      BY <1>4, <2>2
    <2> QED  BY <1>1, <1>2, <2>2, <2>3
  <1>8. transit' = SubSeq(transit, k + 1, Len(transit))
    <2>1. transit' = SubSeq(sent, i + 1, n)
      BY <1>1, <1>2 DEF n
    <2>2. transit = SubSeq(sent, r + 1, n)
      BY DEF r, n
    <2>3. CASE i = n
      <3>1. SubSeq(sent, i + 1, n) = << >>
        BY <1>2, <2>3, SubSeqEmpty
      <3>2. Len(transit) < k + 1 /\ k + 1 \in Int /\ Len(transit) \in Int
        BY <1>2, <1>4, <1>5, <2>3
      <3>3. SubSeq(transit, k + 1, Len(transit)) = << >>
        BY <3>2, SubSeqEmpty
      <3> QED  BY <2>1, <3>1, <3>3
    <2>4. CASE i # n
      <3>1. /\ r + 1 \in 1..Len(sent) /\ n \in 1..Len(sent)
            /\ k + 1 \in 1..(n - (r + 1) + 1) /\ n - r \in 1..(n - (r + 1) + 1)
            /\ (r + 1) + (k + 1) - 1 = i + 1 /\ (r + 1) + (n - r) - 1 = n
        BY <1>2, <1>3, <1>5, <2>4 DEF n
      <3>2. SubSeq(SubSeq(sent, r + 1, n), k + 1, n - r) = SubSeq(sent, i + 1, n)
        <4>1. SubSeq(SubSeq(sent, r + 1, n), k + 1, n - r)
                = SubSeq(sent, (r + 1) + (k + 1) - 1, (r + 1) + (n - r) - 1)
          <5>1. \A i1, j1 \in 1..Len(sent) : \A m1, n1 \in 1..(j1 - i1 + 1) :
                  SubSeq(SubSeq(sent, i1, j1), m1, n1)
                    = SubSeq(sent, i1 + m1 - 1, i1 + n1 - 1)
            BY <1>2, SubSeqOfSubSeq
          <5> HIDE DEF k
          <5> QED  BY <3>1, <5>1
        <4> QED  BY <3>1, <4>1
      <3> QED  BY <1>4, <2>1, <2>2, <3>2
    <2> QED  BY <2>3, <2>4
  <1>9. LET delivered == [j \in DOMAIN received |-> sent[received[j]]]
        IN  delivered' = Append(delivered, sent[i])
    <2> DEFINE d == [j \in DOMAIN received |-> sent[received[j]]]
               m == Len(received)
    <2>1. received \in Seq(DOMAIN sent) /\ m \in Nat /\ DOMAIN received = 1..m
      BY LenProperties DEF TypeOK
    <2>2. /\ DOMAIN received' = 1..(m + 1) /\ received'[m + 1] = i
          /\ \A j \in 1..m : received'[j] = received[j]
      <3>1. /\ Append(received, i) \in Seq(DOMAIN sent) /\ Len(Append(received, i)) = m + 1
            /\ \A j \in 1..m : Append(received, i)[j] = received[j]
            /\ Append(received, i)[m + 1] = i
        BY <2>1, AppendProperties
      <3> QED  BY <3>1, LenProperties
    <2> HIDE DEF m
    <2>3. d = [j \in 1..m |-> sent[received[j]]]
      BY <2>1
    <2>4. \A j \in 1..m : sent[received[j]] \in Messages
      <3>1. SUFFICES ASSUME NEW j \in 1..m PROVE sent[received[j]] \in Messages
        OBVIOUS
      <3>2. received[j] \in DOMAIN sent
        BY <2>1, ElementOfSeq DEF m
      <3> QED  BY <1>2, <3>2, ElementOfSeq DEF n
    <2>5. d \in Seq(Messages) /\ Len(d) = m
      BY <2>1, <2>3, <2>4
    <2>6. d' = [j \in 1..(m + 1) |-> sent[received'[j]]]
      BY <1>2, <2>2
    <2>7. sent[i] \in Messages
      BY <1>2, ElementOfSeq DEF n
    <2>8. /\ Append(d, sent[i]) \in Seq(Messages) /\ Len(Append(d, sent[i])) = m + 1
          /\ \A j \in 1..m : Append(d, sent[i])[j] = d[j]
          /\ Append(d, sent[i])[m + 1] = sent[i]
      BY <2>5, <2>7, AppendProperties
    <2>9. ASSUME NEW j \in 1..(m + 1)
          PROVE  sent[received'[j]] = Append(d, sent[i])[j]
      <3>1. CASE j = m + 1
        BY <2>2, <2>8, <3>1
      <3>2. CASE j # m + 1
        <4>1. j \in 1..m
          BY <2>1, <3>2
        <4> QED  BY <2>2, <2>3, <2>8, <4>1
      <3> QED  BY <3>1, <3>2
    <2>10. d' \in Seq(Messages) /\ Len(d') = m + 1
      <3>1. \A j \in 1..(m + 1) : sent[received'[j]] \in Messages
        BY <2>8, <2>9, ElementOfSeq
      <3> QED  BY <2>1, <2>6, <3>1
    <2>11. \A j \in 1..(m + 1) : d'[j] = Append(d, sent[i])[j]
      BY <2>6, <2>9
    <2>12. d' = Append(d, sent[i])
      <3> HIDE DEF d
      <3> QED  BY <2>8, <2>10, <2>11, SeqEqual
    <2> QED  BY <2>12
  <1> QED
    BY <1>6, <1>7, <1>8, <1>9 DEF Transport!Deliver, r, n

LEMMA Segment ==
  ASSUME NEW s, NEW i \in Int, NEW j \in Int, \A k \in i..j : s[k] \in Messages
  PROVE  /\ SubSeq(s, i, j) \in Seq(Messages)
         /\ Len(SubSeq(s, i, j)) = IF i <= j THEN j - i + 1 ELSE 0
         /\ \A k \in 1..(j - i + 1) : SubSeq(s, i, j)[k] = s[i + k - 1]
  BY SubSeqProperties

LEMMA SendStep ==
  ASSUME TypeOK, TypeOK', sendMessage
  PROVE  Transport!Send
  <1> DEFINE transit == SubSeq(sent, LastReceived + 1, Len(sent))
             d == [j \in DOMAIN received |-> sent[received[j]]]
             n == Len(sent)
             r == LastReceived
  <1> PICK m \in Messages : sent' = Append(sent, m)
    BY DEF sendMessage
  <1>1. /\ sent \in Seq(Messages) /\ sent' \in Seq(Messages)
        /\ n \in Nat /\ DOMAIN sent = 1..n
        /\ Len(sent') = n + 1 /\ sent'[n + 1] = m
        /\ \A i \in 1..n : sent'[i] = sent[i]
    BY AppendProperties, LenProperties DEF TypeOK
  <1>2. received' = received /\ LastReceived' = r /\ r \in Nat /\ r <= n
    BY LastReceivedBounds DEF sendMessage, LastReceived
  <1>3. transit' = SubSeq(sent', r + 1, n + 1) /\ transit = SubSeq(sent, r + 1, n)
    BY <1>1, <1>2
  <1> HIDE DEF n, r, transit
  <1>4. transit' = Append(transit, m)
    <2>1. \A k \in (r + 1)..n : sent[k] \in Messages
      <3>1. \A k \in 1..n : sent[k] \in Messages
        BY <1>1, ElementOfSeq DEF n
      <3> QED  BY <1>2, <3>1
    <2>2. \A k \in (r + 1)..(n + 1) : sent'[k] \in Messages
      <3>1. \A k \in 1..(n + 1) : sent'[k] \in Messages
        BY <1>1, ElementOfSeq
      <3> QED  BY <1>1, <1>2, <3>1
    <2>3. r + 1 \in Int /\ n \in Int /\ n + 1 \in Int
      BY <1>1, <1>2
    <2>4. /\ transit \in Seq(Messages) /\ Len(transit) = n - r
          /\ \A k \in 1..(n - r) : transit[k] = sent[r + k]
      <3>1. /\ transit \in Seq(Messages)
            /\ Len(transit) = IF r + 1 <= n THEN n - (r + 1) + 1 ELSE 0
            /\ \A k \in 1..(n - (r + 1) + 1) : transit[k] = sent[r + 1 + k - 1]
        BY <1>3, <2>1, <2>3, SubSeqProperties
      <3>2. \A k \in 1..(n - r) : k \in 1..(n - (r + 1) + 1) /\ r + 1 + k - 1 = r + k
        BY <1>1, <1>2
      <3>3. Len(transit) = n - r
        BY <1>1, <1>2, <3>1
      <3> QED  BY <3>1, <3>2, <3>3
    <2>5. /\ transit' \in Seq(Messages) /\ Len(transit') = (n - r) + 1
          /\ \A k \in 1..((n - r) + 1) : transit'[k] = sent'[r + k]
      <3>1. /\ transit' \in Seq(Messages)
            /\ Len(transit') = IF r + 1 <= n + 1 THEN (n + 1) - (r + 1) + 1 ELSE 0
            /\ \A k \in 1..((n + 1) - (r + 1) + 1) : transit'[k] = sent'[r + 1 + k - 1]
        BY <1>3, <2>2, <2>3, Segment
      <3>2. \A k \in 1..((n - r) + 1) :
              k \in 1..((n + 1) - (r + 1) + 1) /\ r + 1 + k - 1 = r + k
        BY <1>1, <1>2
      <3>3. Len(transit') = (n - r) + 1
        BY <1>1, <1>2, <3>1
      <3> QED  BY <3>1, <3>2, <3>3
    <2>6. /\ Append(transit, m) \in Seq(Messages) /\ Len(Append(transit, m)) = (n - r) + 1
          /\ \A k \in 1..(n - r) : Append(transit, m)[k] = transit[k]
          /\ Append(transit, m)[(n - r) + 1] = m
      <3>1. /\ Append(transit, m) \in Seq(Messages)
            /\ Len(Append(transit, m)) = Len(transit) + 1
            /\ \A k \in 1..Len(transit) : Append(transit, m)[k] = transit[k]
            /\ Append(transit, m)[Len(transit) + 1] = m
        BY <2>4, AppendProperties
      <3> QED  BY <2>4, <3>1
    <2>7. ASSUME NEW k \in 1..((n - r) + 1) PROVE transit'[k] = Append(transit, m)[k]
      <3>1. transit'[k] = sent'[r + k]
        BY <2>5
      <3>2. CASE k = (n - r) + 1
        <4>1. r + k = n + 1
          BY <1>1, <1>2, <3>2
        <4> QED  BY <1>1, <2>6, <3>1, <3>2, <4>1
      <3>3. CASE k # (n - r) + 1
        <4>1. k \in 1..(n - r) /\ r + k \in 1..n
          BY <1>1, <1>2, <3>3
        <4> QED  BY <1>1, <2>4, <2>6, <3>1, <4>1
      <3> QED  BY <3>2, <3>3
    <2> QED  BY <2>5, <2>6, <2>7, SeqEqual
  <1>5. d' = d
    <2>1. received \in Seq(DOMAIN sent)
      BY DEF TypeOK
    <2>2. \A j \in DOMAIN received : sent'[received[j]] = sent[received[j]]
      <3>1. \A j \in DOMAIN received : received[j] \in 1..n
        BY <1>1, <2>1, LenProperties, ElementOfSeq
      <3> QED  BY <1>1, <3>1
    <2> QED  BY <1>2, <2>2
  <1> QED
    BY <1>4, <1>5 DEF Transport!Send, transit

LEMMA TransportStep ==
  /\ TypeOK /\ TypeOK' /\ FlowInv /\ QueueHasRoom /\ [Next]_vars =>
       [Transport!Next]_<<SubSeq(sent, LastReceived + 1, Len(sent)),
                          [i \in DOMAIN received |-> sent[received[i]]]>>
  <1> SUFFICES ASSUME TypeOK, TypeOK', FlowInv, QueueHasRoom, [Next]_vars
               PROVE  [Transport!Next]_<<SubSeq(sent, LastReceived + 1, Len(sent)),
                                         [i \in DOMAIN received |-> sent[received[i]]]>>
    OBVIOUS
  <1>1. CASE sendMessage
    BY <1>1, SendStep DEF Transport!Next
  <1>2. CASE \E i \in DOMAIN sent : /\ fetchMessageFromBuffer
                                    /\ Deserializes(Head(queue_), i)
                                    /\ received' = Append(received, i)
    BY <1>2, DeliverStep DEF Transport!Next
  <1>3. CASE sent' = sent /\ received' = received
    BY <1>3 DEF LastReceived
  <1> QED
    BY <1>1, <1>2, <1>3
    DEF Next, Receiver, WriteBytes, fetchMessageFromBuffer, NoMessage,
        bufferedReadFromPipe, PushByte, vars

LEMMA TransportInit == Init => Transport!Init
  <1> SUFFICES ASSUME Init PROVE Transport!Init
    OBVIOUS
  <1>1. Len(sent) = 0 /\ LastReceived = 0
    BY EmptySeq DEF Init, LastReceived
  <1>2. SubSeq(sent, 0 + 1, 0) = << >>
    BY SubSeqEmpty
  <1>3. DOMAIN received = 1..0
    BY LenProperties, EmptySeq DEF Init
  <1>4. [i \in DOMAIN received |-> sent[received[i]]] = << >>
    BY <1>3
  <1> QED
    BY <1>1, <1>2, <1>4 DEF Transport!Init

(* Messages arrive whole, in order and once, however reads and writes cut  *)
(* the bytes, and only those are lost that contain a terminator, if push   *)
(* always finds room.                                                      *)
THEOREM FramingImplementsChannel == Spec /\ []QueueHasRoom => ImplementsChannel
  <1>1. Spec /\ []QueueHasRoom => []FlowInv
    BY InitialFlow, FlowStep, FramingTypeCorrectness, PTL DEF Spec
  <1> QED
    BY <1>1, TransportInit, TransportStep, FramingTypeCorrectness, PTL
    DEF Spec, ImplementsChannel, Transport!Spec

(* Without a terminator inside any message push does: every message        *)
(* arrives, for every size of the queue.                                   *)
THEOREM PlainMessagesImplementChannel == Cut = {} /\ Spec => ImplementsChannel
  <1>1. ASSUME Cut = {} PROVE NothingWithheld => QueueHasRoom
    <2>1. NothingWithheld => (pc = "read" => queue_ = << >>)
      BY <1>1 DEF NothingWithheld
    <2>2. Len(<< >>) < max_size_
      BY Bounds, EmptySeq
    <2> QED  BY <2>1, <2>2 DEF QueueHasRoom
  <1>2. ASSUME Cut = {} PROVE Spec => ImplementsChannel
    <2>1. NothingWithheld => QueueHasRoom
      BY <1>1, <1>2
    <2> QED  BY <2>1, NoMessageIsWithheld, FramingImplementsChannel, PTL
  <1> QED
    BY <1>2
=============================================================================
