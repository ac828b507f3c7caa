--------------------------- MODULE SessionProofs ---------------------------
(***************************************************************************)
(* The safety properties of Session, for every set of clients, tuples,     *)
(* patterns and commands, and whatever becomes of the elements on their    *)
(* way, as long as no piece of a cut element is itself an element.         *)
(*                                                                         *)
(* The argument is the inductive invariant IInv of SessionInvariant.  What *)
(* sender and receiver do to the sequences of a link is proved first, for  *)
(* sequences; then what each action makes of the exchange of its client.   *)
(***************************************************************************)
EXTENDS SessionInvariant, SequenceLemmas, FiniteSetTheorems

-----------------------------------------------------------------------------
(* Messages and what is sent                                               *)

(* A tuple or pattern of which the transport makes what PiecesAreNoElements*)
(* says.                                                                   *)
Sendable(s) ==
  /\ s \in Seq(TupleElem \cup Pattern)
  /\ \A i \in 1..Len(s) : Arrives(s[i]) \in Seq(Message)
  /\ \A i \in 1..Len(s) :
       IsWhole(s[i]) \/ \A k \in DOMAIN Arrives(s[i]) : ~IsElement(Arrives(s[i])[k])

(* The messages of tuple elements and of patterns.                         *)
LEMMA ElemMessageType ==
  ASSUME NEW e \in TupleElem \cup Pattern
  PROVE  /\ e \in TupleElem => ElemMessage(e) = [type |-> "elem", elem |-> e]
         /\ e \in Pattern => ElemMessage(e) = [type |-> "pattern", elem |-> e]
         /\ ElemMessage(e) \in Message
<1>1. CASE e \in TupleElem
  <2>1. DOMAIN e = {"type", "value"}
    BY <1>1 DEF TupleElem
  <2>2. "op" \notin DOMAIN e /\ e \notin Pattern
    <3>1. "op" \notin DOMAIN e
      BY <2>1
    <3>2. ASSUME e \in Pattern PROVE FALSE
      <4>1. DOMAIN e = {"type", "value", "op"}
        BY <3>2 DEF Pattern
      <4> QED
        BY <3>1, <4>1
    <3> QED
      BY <3>1, <3>2
  <2>3. ElemMessage(e) = [type |-> "elem", elem |-> e]
    BY <2>2 DEF ElemMessage
  <2> QED
    BY <1>1, <2>2, <2>3 DEF Message
<1>2. CASE e \in Pattern
  <2>1. DOMAIN e = {"type", "value", "op"}
    BY <1>2 DEF Pattern
  <2>2. "op" \in DOMAIN e /\ e \notin TupleElem
    <3>1. "op" \in DOMAIN e
      BY <2>1
    <3>2. ASSUME e \in TupleElem PROVE FALSE
      <4>1. DOMAIN e = {"type", "value"}
        BY <3>2 DEF TupleElem
      <4> QED
        BY <3>1, <4>1
    <3> QED
      BY <3>1, <3>2
  <2>3. ElemMessage(e) = [type |-> "pattern", elem |-> e]
    BY <2>2 DEF ElemMessage
  <2> QED
    BY <1>2, <2>2, <2>3 DEF Message
<1> QED
  BY <1>1, <1>2

(* An element's message is neither garbage nor of another type.            *)
LEMMA ElemMessageFields ==
  ASSUME NEW e
  PROVE  /\ ElemMessage(e).elem = e
         /\ ElemMessage(e).type \in {"elem", "pattern"}
         /\ IsElement(ElemMessage(e))
         /\ ElemMessage(e) # Garbage
         /\ Pieces(ElemMessage(e)) = Arrives(e)
<1>1. ElemMessage(e).elem = e /\ ElemMessage(e).type \in {"elem", "pattern"}
  BY DEF ElemMessage
<1>2. IsElement(ElemMessage(e))
  BY <1>1 DEF IsElement
<1>3. ElemMessage(e) # Garbage
  <2>1. Garbage.type = "garbage"
    BY DEF Garbage
  <2> QED
    BY <1>1, <2>1
<1>4. Pieces(ElemMessage(e)) = Arrives(e)
  BY <1>1 DEF Pieces
<1> QED
  BY <1>1, <1>2, <1>3, <1>4

(* The other messages of an exchange are written as they are.              *)
LEMMA OtherMessages ==
  /\ \A op, n : /\ OperationMessage(op, n).type = "operation"
                /\ OperationMessage(op, n).op_type = op
                /\ OperationMessage(op, n).tuple_size = n
                /\ ~IsElement(OperationMessage(op, n))
                /\ OperationMessage(op, n) # Garbage
                /\ Pieces(OperationMessage(op, n)) = <<OperationMessage(op, n)>>
  /\ ConnectionMessage(FALSE).type = "connection"
  /\ ConnectionMessage(FALSE).connect = FALSE
  /\ ConnectionMessage(FALSE) # Garbage
  /\ Pieces(ConnectionMessage(FALSE)) = <<ConnectionMessage(FALSE)>>
<1>1. Garbage.type = "garbage"
  BY DEF Garbage
<1>2. ASSUME NEW op, NEW n
      PROVE  /\ OperationMessage(op, n).type = "operation"
             /\ OperationMessage(op, n).op_type = op
             /\ OperationMessage(op, n).tuple_size = n
  BY DEF OperationMessage
<1>3. ConnectionMessage(FALSE).type = "connection" /\ ConnectionMessage(FALSE).connect = FALSE
  BY DEF ConnectionMessage
<1>4. ASSUME NEW op, NEW n
      PROVE  /\ ~IsElement(OperationMessage(op, n))
             /\ OperationMessage(op, n) # Garbage
             /\ Pieces(OperationMessage(op, n)) = <<OperationMessage(op, n)>>
  BY <1>1, <1>2 DEF IsElement, Pieces
<1>5. /\ ConnectionMessage(FALSE) # Garbage
      /\ Pieces(ConnectionMessage(FALSE)) = <<ConnectionMessage(FALSE)>>
  BY <1>1, <1>3 DEF Pieces
<1>6. \A op, n : /\ OperationMessage(op, n).type = "operation"
                 /\ OperationMessage(op, n).op_type = op
                 /\ OperationMessage(op, n).tuple_size = n
                 /\ ~IsElement(OperationMessage(op, n))
                 /\ OperationMessage(op, n) # Garbage
                 /\ Pieces(OperationMessage(op, n)) = <<OperationMessage(op, n)>>
  BY <1>2, <1>4, Zenon
<1> QED
  BY <1>3, <1>5, <1>6

(* The arguments of commands can be sent, and so can the tuples.           *)
LEMMA ArgumentsAreSendable ==
  ASSUME PiecesAreNoElements
  PROVE  \A s \in Tuples \cup Patterns : Sendable(s) /\ s # << >> /\ Len(s) \in Nat \ {0}
<1> SUFFICES ASSUME NEW s \in Tuples \cup Patterns
             PROVE  Sendable(s) /\ s # << >> /\ Len(s) \in Nat \ {0}
  OBVIOUS
<1>1. (s \in Seq(TupleElem) \/ s \in Seq(Pattern)) /\ s # << >>
  BY SessionAssumption
<1>2. s \in Seq(TupleElem \cup Pattern)
  <2>1. CASE s \in Seq(TupleElem)
    BY <2>1, SeqMonotonic
  <2>2. CASE s \in Seq(Pattern)
    BY <2>2, SeqMonotonic
  <2> QED
    BY <1>1, <2>1, <2>2
<1>3. DOMAIN s = 1..Len(s) /\ Len(s) \in Nat \ {0}
  BY <1>1, <1>2, LenProperties, EmptySeq
<1>4. \A i \in 1..Len(s) : Arrives(s[i]) \in Seq(Message)
  BY <1>3, SessionAssumption
<1>5. \A i \in 1..Len(s) :
        IsWhole(s[i]) \/ \A k \in DOMAIN Arrives(s[i]) : ~IsElement(Arrives(s[i])[k])
  BY DEF PiecesAreNoElements
<1> QED
  BY <1>1, <1>2, <1>3, <1>4, <1>5 DEF Sendable

LEMMA EmptyIsSendable == Sendable(<< >>) /\ AllWhole(<< >>) /\ Len(<< >>) = 0
  BY EmptySeq DEF Sendable, AllWhole

-----------------------------------------------------------------------------
(* Counting the elements of a stream                                       *)

Places(stream) == {i \in DOMAIN stream : IsElement(stream[i])}

LEMMA PlacesAreFinite ==
  ASSUME NEW stream \in Seq(Message)
  PROVE  IsFiniteSet(Places(stream)) /\ Elements(stream) \in Nat
<1>1. DOMAIN stream = 1..Len(stream) /\ Len(stream) \in Nat
  BY LenProperties
<1>2. IsFiniteSet(1..Len(stream))
  <2>1. 1 \in Int /\ Len(stream) \in Int
    BY <1>1
  <2> QED
    BY <2>1, FS_Interval
<1>3. Places(stream) \in SUBSET (1..Len(stream))
  BY <1>1 DEF Places
<1>4. IsFiniteSet(Places(stream))
  BY <1>2, <1>3, FS_Subset
<1>5. Elements(stream) = Cardinality(Places(stream))
  BY DEF Elements, Places
<1> QED
  BY <1>4, <1>5, FS_CardinalityType

LEMMA EveryMessageAnElement ==
  ASSUME NEW stream \in Seq(Message),
         \A i \in 1..Len(stream) : IsElement(stream[i])
  PROVE  Elements(stream) = Len(stream)
<1>1. DOMAIN stream = 1..Len(stream) /\ Len(stream) \in Nat
  BY LenProperties
<1>2. Places(stream) = 1..Len(stream)
  BY <1>1 DEF Places
<1>3. Cardinality(1..Len(stream)) = Len(stream)
  BY <1>1, FS_Interval
<1> QED
  BY <1>2, <1>3 DEF Elements, Places

LEMMA PiecesAddNoElement ==
  ASSUME NEW stream \in Seq(Message), NEW p \in Seq(Message),
         \A k \in DOMAIN p : ~IsElement(p[k])
  PROVE  Elements(stream \o p) = Elements(stream)
<1> DEFINE q == stream \o p
<1>1. /\ Len(stream) \in Nat /\ Len(p) \in Nat
      /\ DOMAIN stream = 1..Len(stream) /\ DOMAIN p = 1..Len(p)
  BY LenProperties
<1>2. /\ q \in Seq(Message) /\ Len(q) = Len(stream) + Len(p)
      /\ \A i \in 1..(Len(stream) + Len(p)) :
           q[i] = IF i <= Len(stream) THEN stream[i] ELSE p[i - Len(stream)]
  BY ConcatProperties
<1>3. DOMAIN q = 1..(Len(stream) + Len(p))
  BY <1>2, LenProperties
<1> HIDE DEF q
<1>4. ASSUME NEW i \in DOMAIN q
      PROVE  IsElement(q[i]) <=> i \in DOMAIN stream /\ IsElement(stream[i])
  <2>1. CASE i <= Len(stream)
    <3>1. q[i] = stream[i] /\ i \in DOMAIN stream
      BY <1>1, <1>2, <1>3, <2>1
    <3> QED
      BY <3>1
  <2>2. CASE ~(i <= Len(stream))
    <3>1. i - Len(stream) \in DOMAIN p /\ i \notin DOMAIN stream
      BY <1>1, <1>3, <2>2
    <3>2. q[i] = p[i - Len(stream)]
      BY <1>2, <1>3, <2>2
    <3>3. ~IsElement(p[i - Len(stream)])
      BY <3>1
    <3> QED
      BY <3>1, <3>2, <3>3
  <2> QED
    BY <2>1, <2>2
<1>5. DOMAIN stream \subseteq DOMAIN q
  BY <1>1, <1>3
<1>6. Places(q) = Places(stream)
  BY <1>4, <1>5 DEF Places
<1> QED
  BY <1>6 DEF Elements, Places, q

LEMMA OneMoreMessage ==
  ASSUME NEW stream \in Seq(Message), NEW m \in Message
  PROVE  Elements(stream \o <<m>>) <= Elements(stream) + 1
<1> DEFINE q == stream \o <<m>>
<1>1. Len(stream) \in Nat /\ DOMAIN stream = 1..Len(stream)
  BY LenProperties
<1>2. <<m>> \in Seq(Message) /\ Len(<<m>>) = 1
  OBVIOUS
<1>3. /\ q \in Seq(Message) /\ Len(q) = Len(stream) + 1
      /\ \A i \in 1..(Len(stream) + 1) :
           q[i] = IF i <= Len(stream) THEN stream[i] ELSE <<m>>[i - Len(stream)]
  BY <1>2, ConcatProperties
<1>4. DOMAIN q = 1..(Len(stream) + 1)
  BY <1>3, LenProperties
<1> HIDE DEF q
<1>5. Places(q) \subseteq Places(stream) \cup {Len(stream) + 1}
  <2> SUFFICES ASSUME NEW i \in Places(q), i # Len(stream) + 1
               PROVE  i \in Places(stream)
    OBVIOUS
  <2>1. i \in DOMAIN q /\ IsElement(q[i])
    BY DEF Places
  <2>2. i \in 1..Len(stream) /\ i <= Len(stream)
    BY <1>1, <1>4, <2>1
  <2>3. q[i] = stream[i]
    BY <1>3, <1>4, <2>1, <2>2
  <2> QED
    BY <1>1, <2>1, <2>2, <2>3 DEF Places
<1>6. IsFiniteSet(Places(stream)) /\ Elements(stream) \in Nat
  BY PlacesAreFinite
<1>7. /\ IsFiniteSet(Places(stream) \cup {Len(stream) + 1})
      /\ Cardinality(Places(stream) \cup {Len(stream) + 1})
           = IF Len(stream) + 1 \in Places(stream) THEN Cardinality(Places(stream))
             ELSE Cardinality(Places(stream)) + 1
  BY <1>6, FS_AddElement
<1>8. Cardinality(Places(q)) <= Cardinality(Places(stream) \cup {Len(stream) + 1})
  BY <1>5, <1>7, FS_Subset
<1>9. Elements(q) \in Nat
  BY <1>3, PlacesAreFinite
<1>10. Elements(q) = Cardinality(Places(q)) /\ Elements(stream) = Cardinality(Places(stream))
  BY DEF Elements, Places
<1>11. Cardinality(Places(stream) \cup {Len(stream) + 1}) <= Elements(stream) + 1
  BY <1>6, <1>7, <1>10
<1>12. Elements(q) <= Elements(stream) + 1
  BY <1>6, <1>8, <1>9, <1>10, <1>11, <1>7
<1> QED
  BY <1>12 DEF q

LEMMA OneMessageLess ==
  ASSUME NEW stream \in Seq(Message), stream # << >>
  PROVE  Elements(stream)
           = Elements(Tail(stream)) + (IF IsElement(Head(stream)) THEN 1 ELSE 0)
<1> DEFINE t == Tail(stream)
<1>1. /\ Len(stream) \in Nat /\ DOMAIN stream = 1..Len(stream) /\ Len(stream) # 0
      /\ Head(stream) = stream[1]
  BY LenProperties, EmptySeq
<1>2. /\ t \in Seq(Message) /\ Len(t) = Len(stream) - 1
      /\ \A i \in 1..Len(t) : t[i] = stream[i + 1]
  BY HeadTailProperties
<1>3. DOMAIN t = 1..(Len(stream) - 1)
  BY <1>2, LenProperties
<1> HIDE DEF t
<1> DEFINE f == [i \in Places(t) |-> i + 1]
<1>4. IsFiniteSet(Places(stream)) /\ IsFiniteSet(Places(t))
  BY <1>2, PlacesAreFinite
<1>5. \A i \in Places(t) : f[i] = i + 1 /\ i + 1 \in Places(stream) \ {1}
  <2> SUFFICES ASSUME NEW i \in Places(t)
               PROVE  i + 1 \in Places(stream) \ {1}
    OBVIOUS
  <2>1. i \in 1..(Len(stream) - 1) /\ IsElement(t[i])
    BY <1>3 DEF Places
  <2>2. t[i] = stream[i + 1]
    BY <1>2, <2>1
  <2>3. i + 1 \in 1..Len(stream) /\ i + 1 # 1
    BY <1>1, <2>1
  <2> QED
    BY <1>1, <2>1, <2>2, <2>3 DEF Places
<1>6. \A j \in Places(stream) \ {1} : j - 1 \in Places(t) /\ f[j - 1] = j
  <2> SUFFICES ASSUME NEW j \in Places(stream) \ {1}
               PROVE  j - 1 \in Places(t) /\ f[j - 1] = j
    OBVIOUS
  <2>1. j \in 2..Len(stream) /\ IsElement(stream[j])
    BY <1>1 DEF Places
  <2>2. j - 1 \in 1..(Len(stream) - 1) /\ (j - 1) + 1 = j
    BY <1>1, <2>1
  <2>3. t[j - 1] = stream[j]
    BY <1>2, <2>2
  <2>4. j - 1 \in Places(t)
    BY <1>3, <2>1, <2>2, <2>3 DEF Places
  <2> QED
    BY <2>2, <2>4
<1>7. ASSUME NEW i \in Places(t), NEW j \in Places(t), f[i] = f[j]
      PROVE  i = j
  <2>1. i \in Nat /\ j \in Nat
    BY <1>1, <1>3 DEF Places
  <2>2. i + 1 = j + 1
    BY <1>5, <1>7
  <2> QED
    BY <2>1, <2>2
<1>8. f \in Bijection(Places(t), Places(stream) \ {1})
  <2>1. f \in [Places(t) -> Places(stream) \ {1}]
    BY <1>5
  <2> HIDE DEF f
  <2>2. f \in Injection(Places(t), Places(stream) \ {1})
    BY <1>7, <2>1 DEF Injection, IsInjective
  <2>3. f \in Surjection(Places(t), Places(stream) \ {1})
    BY <1>6, <2>1 DEF Surjection
  <2> QED
    BY <2>2, <2>3 DEF Bijection
<1>9. Cardinality(Places(stream) \ {1}) = Cardinality(Places(t))
  <2>1. ExistsBijection(Places(t), Places(stream) \ {1})
    BY <1>8 DEF ExistsBijection
  <2> QED
    BY <1>4, <2>1, FS_Bijection
<1>10. 1 \in Places(stream) <=> IsElement(Head(stream))
  BY <1>1 DEF Places
<1>11. Cardinality(Places(stream) \ {1})
         = IF 1 \in Places(stream) THEN Cardinality(Places(stream)) - 1
           ELSE Cardinality(Places(stream))
  BY <1>4, FS_RemoveElement
<1>12. Cardinality(Places(stream)) \in Nat
  BY <1>4, FS_CardinalityType
<1>13. Cardinality(Places(stream))
         = Cardinality(Places(t)) + (IF IsElement(Head(stream)) THEN 1 ELSE 0)
  BY <1>9, <1>10, <1>11, <1>12
<1> QED
  BY <1>13 DEF Elements, Places, t

-----------------------------------------------------------------------------
(* The sequences of a link                                                 *)

(* What is written goes behind what is there.                              *)
LEMMA StreamGrows ==
  ASSUME NEW b \in Seq(Message), NEW f \in Seq(Message), NEW p \in Seq(Message)
  PROVE  /\ b \o (f \o p) = (b \o f) \o p
         /\ f \o p \in Seq(Message)
  BY ConcatAssociative, ConcatProperties

(* A read moves what is in the FIFO behind what is in the buffer.          *)
LEMMA StreamIsRead ==
  ASSUME NEW b \in Seq(Message), NEW f \in Seq(Message)
  PROVE  /\ (b \o f) \o << >> = b \o f
         /\ b \o f \in Seq(Message)
  BY ConcatEmptySeq, ConcatProperties

(* The first message of the buffer is that of the stream.                  *)
LEMMA StreamIsFetched ==
  ASSUME NEW b \in Seq(Message), NEW f \in Seq(Message), b # << >>
  PROVE  /\ b \o f # << >>
         /\ Head(b \o f) = Head(b)
         /\ Tail(b \o f) = Tail(b) \o f
         /\ Tail(b) \in Seq(Message)
<1>1. Len(b) \in Nat \ {0} /\ Len(f) \in Nat
  BY EmptySeq, LenProperties
<1>2. /\ b \o f \in Seq(Message) /\ Len(b \o f) = Len(b) + Len(f)
      /\ \A i \in 1..(Len(b) + Len(f)) :
           (b \o f)[i] = IF i <= Len(b) THEN b[i] ELSE f[i - Len(b)]
  BY ConcatProperties
<1>3. b \o f # << >>
  BY <1>1, <1>2, EmptySeq
<1>4. (b \o f)[1] = b[1]
  BY <1>1, <1>2
<1>5. Head(b \o f) = Head(b)
  BY <1>4
<1>6. /\ Tail(b) \in Seq(Message) /\ Len(Tail(b)) = Len(b) - 1
      /\ \A i \in 1..Len(Tail(b)) : Tail(b)[i] = b[i + 1]
  BY HeadTailProperties
<1>7. /\ Tail(b \o f) \in Seq(Message) /\ Len(Tail(b \o f)) = Len(b \o f) - 1
      /\ \A i \in 1..Len(Tail(b \o f)) : Tail(b \o f)[i] = (b \o f)[i + 1]
  BY <1>2, <1>3, HeadTailProperties
<1>8. /\ Tail(b) \o f \in Seq(Message) /\ Len(Tail(b) \o f) = Len(Tail(b)) + Len(f)
      /\ \A i \in 1..(Len(Tail(b)) + Len(f)) :
           (Tail(b) \o f)[i] = IF i <= Len(Tail(b)) THEN Tail(b)[i]
                               ELSE f[i - Len(Tail(b))]
  BY <1>6, ConcatProperties
<1>9. Len(Tail(b \o f)) = Len(Tail(b) \o f) /\ Len(Tail(b \o f)) = Len(b) - 1 + Len(f)
  BY <1>1, <1>2, <1>6, <1>7, <1>8
<1>10. ASSUME NEW i \in 1..Len(Tail(b \o f))
       PROVE  Tail(b \o f)[i] = (Tail(b) \o f)[i]
  <2>1. i + 1 \in 1..(Len(b) + Len(f)) /\ i \in 1..(Len(Tail(b)) + Len(f))
    BY <1>1, <1>6, <1>9
  <2>2. Tail(b \o f)[i] = (b \o f)[i + 1]
    BY <1>7
  <2>3. CASE i <= Len(Tail(b))
    <3>1. i + 1 <= Len(b) /\ i \in 1..Len(Tail(b))
      BY <1>1, <1>6, <2>1, <2>3
    <3>2. (b \o f)[i + 1] = b[i + 1] /\ Tail(b)[i] = b[i + 1]
      BY <1>2, <1>6, <2>1, <3>1
    <3> QED
      BY <1>8, <2>1, <2>2, <2>3, <3>2
  <2>4. CASE ~(i <= Len(Tail(b)))
    <3>1. ~(i + 1 <= Len(b)) /\ (i + 1) - Len(b) = i - Len(Tail(b))
      BY <1>1, <1>6, <2>1, <2>4
    <3>2. (b \o f)[i + 1] = f[(i + 1) - Len(b)]
      BY <1>2, <2>1, <3>1
    <3>3. (Tail(b) \o f)[i] = f[i - Len(Tail(b))]
      BY <1>8, <2>1, <2>4
    <3> QED
      BY <2>2, <3>1, <3>2, <3>3
  <2> QED
    BY <2>3, <2>4
<1>11. Tail(b \o f) = Tail(b) \o f
  BY <1>7, <1>8, <1>9, <1>10, SeqEqual
<1> QED
  BY <1>3, <1>5, <1>6, <1>11

(* Operations that head a message sequence.                                *)
HeadOps == Ops \cup {OP_RETURN_RESULT}

(* A header and the messages of the elements.                              *)
LEMMA SentProperties ==
  ASSUME NEW op \in HeadOps, NEW s, Sendable(s)
  PROVE  /\ Sent(op, s) \in Seq(Message) /\ Sent(op, s) # << >>
         /\ Head(Sent(op, s)) = OperationMessage(op, Len(s))
         /\ OperationMessage(op, Len(s)) \in Message
         /\ Len(Tail(Sent(op, s))) = Len(s)
         /\ \A i \in 1..Len(s) : Tail(Sent(op, s))[i] = ElemMessage(s[i])
<1> DEFINE h == OperationMessage(op, Len(s))
           r == [i \in 1..Len(s) |-> ElemMessage(s[i])]
<1>1. s \in Seq(TupleElem \cup Pattern) /\ Len(s) \in Nat
  BY LenProperties DEF Sendable
<1>2. h \in Message
  BY <1>1 DEF OperationMessage, Message, HeadOps
<1>3. \A i \in 1..Len(s) : ElemMessage(s[i]) \in Message
  <2> SUFFICES ASSUME NEW i \in 1..Len(s) PROVE ElemMessage(s[i]) \in Message
    OBVIOUS
  <2>1. s[i] \in TupleElem \cup Pattern
    BY <1>1, ElementOfSeq
  <2> QED
    BY <2>1, ElemMessageType
<1>4. r \in [1..Len(s) -> Message]
  BY <1>3
<1>5. r \in Seq(Message) /\ Len(r) = Len(s) /\ \A i \in 1..Len(s) : r[i] = ElemMessage(s[i])
  BY <1>1, <1>4
<1>6. Sent(op, s) = <<h>> \o r
  BY DEF Sent
<1> HIDE DEF r, h
<1>7. <<h>> \in Seq(Message) /\ <<h>> # << >> /\ Head(<<h>>) = h /\ Tail(<<h>>) = << >>
  BY <1>2
<1>8. /\ <<h>> \o r # << >> /\ Head(<<h>> \o r) = h
      /\ Tail(<<h>> \o r) = << >> \o r
  BY <1>5, <1>7, StreamIsFetched
<1>9. << >> \o r = r /\ <<h>> \o r \in Seq(Message)
  BY <1>5, <1>7, ConcatEmptySeq, ConcatProperties
<1> QED
  BY <1>2, <1>5, <1>6, <1>8, <1>9 DEF h

(* No elements, no more than a header.                                     *)
LEMMA SentNothing ==
  ASSUME NEW op \in HeadOps
  PROVE  Sent(op, << >>) = <<OperationMessage(op, 0)>>
<1> DEFINE r == [i \in 1..Len(<< >>) |-> ElemMessage(<< >>[i])]
           h == OperationMessage(op, 0)
<1>1. Len(<< >>) = 0
  BY EmptySeq
<1>2. h \in Message
  BY DEF OperationMessage, Message, HeadOps
<1>3. r = << >>
  BY <1>1
<1>4. Sent(op, << >>) = <<h>> \o r
  BY <1>1 DEF Sent
<1> HIDE DEF r, h
<1>5. <<h>> \o << >> = <<h>>
  BY <1>2, ConcatEmptySeq
<1> QED
  BY <1>3, <1>4, <1>5 DEF h

-----------------------------------------------------------------------------
(* What a step of sender or receiver makes of the elements under way       *)

(* Lengths and places of three sequences of a link.                        *)
LEMMA LinkLengths ==
  ASSUME NEW sent, Sendable(sent), NEW R, NEW received \in Seq(R),
         NEW stream \in Seq(Message), NEW rest \in Seq(Message)
  PROVE  /\ Len(sent) \in Nat /\ Len(received) \in Nat
         /\ Len(stream) \in Nat /\ Len(rest) \in Nat
         /\ rest # << >> => Len(rest) > 0
         /\ stream # << >> => Len(stream) > 0
<1>1. sent \in Seq(TupleElem \cup Pattern)
  BY DEF Sendable
<1>2. /\ Len(sent) \in Nat /\ Len(received) \in Nat
      /\ Len(stream) \in Nat /\ Len(rest) \in Nat
  BY <1>1, LenProperties
<1>3. /\ rest # << >> => Len(rest) \in Nat \ {0}
      /\ stream # << >> => Len(stream) \in Nat \ {0}
  BY EmptySeq
<1> QED
  BY <1>2, <1>3

(* The next element is written: whole, or less will arrive.                *)
LEMMA IntactSend ==
  ASSUME NEW sent, Sendable(sent), NEW R, NEW received \in Seq(R),
         NEW stream \in Seq(Message), NEW rest \in Seq(Message), rest # << >>,
         Intact(sent, received, stream, rest)
  PROVE  /\ Pieces(Head(rest)) \in Seq(Message)
         /\ \/ Intact(sent, received, stream \o Pieces(Head(rest)), Tail(rest))
            \/ Short(sent, received, stream \o Pieces(Head(rest)), Tail(rest))
         /\ AllWhole(sent) =>
              Intact(sent, received, stream \o Pieces(Head(rest)), Tail(rest))
<1> DEFINE n == Len(received) + Len(stream)
           e == sent[n + 1]
           p == Pieces(Head(rest))
           t == Tail(rest)
           q == stream \o p
<1>1. /\ Len(sent) \in Nat /\ Len(received) \in Nat
      /\ Len(stream) \in Nat /\ Len(rest) \in Nat /\ Len(rest) > 0
  BY LinkLengths
<1>2. /\ n + Len(rest) = Len(sent)
      /\ \A i \in 1..Len(received) : received[i] = sent[i]
      /\ \A i \in 1..Len(stream) : stream[i] = ElemMessage(sent[Len(received) + i])
      /\ \A i \in 1..n : IsWhole(sent[i])
      /\ \A i \in 1..Len(rest) : rest[i] = ElemMessage(sent[n + i])
  BY DEF Intact
<1>3. n \in Nat /\ n + 1 \in 1..Len(sent)
  BY <1>1, <1>2
<1>4. Head(rest) = ElemMessage(e)
  <2>1. 1 \in 1..Len(rest)
    BY <1>1
  <2> QED
    BY <1>2, <2>1
<1>5. p = Arrives(e)
  BY <1>4, ElemMessageFields
<1>6. p \in Seq(Message)
  BY <1>3, <1>5 DEF Sendable
<1>7. IsWhole(e) \/ \A k \in DOMAIN Arrives(e) : ~IsElement(Arrives(e)[k])
  BY <1>3 DEF Sendable
<1>8. /\ t \in Seq(Message) /\ Len(t) = Len(rest) - 1
      /\ \A i \in 1..Len(t) : t[i] = rest[i + 1]
  BY HeadTailProperties
<1>9. \A i \in 1..Len(t) : /\ i + 1 \in 1..Len(rest)
                           /\ t[i] = ElemMessage(sent[n + (i + 1)])
  BY <1>1, <1>2, <1>8
<1>10. /\ q \in Seq(Message) /\ Len(q) = Len(stream) + Len(p)
       /\ \A i \in 1..(Len(stream) + Len(p)) :
            q[i] = IF i <= Len(stream) THEN stream[i] ELSE p[i - Len(stream)]
  BY <1>6, ConcatProperties
<1>11. CASE IsWhole(e)
  <2>1. p = <<ElemMessage(e)>> /\ Len(p) = 1 /\ p[1] = ElemMessage(e)
    BY <1>5, <1>11 DEF IsWhole
  <2>2. Len(q) = Len(stream) + 1
    BY <1>10, <2>1
  <2>3. ASSUME NEW i \in 1..Len(q)
        PROVE  q[i] = ElemMessage(sent[Len(received) + i])
    <3>1. CASE i <= Len(stream)
      <4>1. i \in 1..Len(stream) /\ q[i] = stream[i]
        BY <1>1, <1>10, <2>1, <2>2, <3>1
      <4> QED
        BY <1>2, <4>1
    <3>2. CASE ~(i <= Len(stream))
      <4>1. i = Len(stream) + 1 /\ i - Len(stream) = 1 /\ Len(received) + i = n + 1
        BY <1>1, <2>2, <3>2
      <4>2. q[i] = p[1]
        BY <1>10, <2>1, <2>2, <3>2, <4>1
      <4> QED
        BY <2>1, <4>1, <4>2
    <3> QED
      BY <3>1, <3>2
  <2> DEFINE n2 == Len(received) + Len(q)
  <2>4. n2 = n + 1
    BY <1>1, <2>2
  <2>5. n2 + Len(t) = Len(sent)
    <3>1. n + Len(rest) = Len(sent) /\ Len(t) = Len(rest) - 1 /\ Len(rest) \in Nat
      BY <1>1, <1>2, <1>8
    <3> HIDE DEF n, n2, t
    <3> QED
      BY <1>3, <2>4, <3>1
  <2>6. \A i \in 1..n2 : IsWhole(sent[i])
    <3> SUFFICES ASSUME NEW i \in 1..n2 PROVE IsWhole(sent[i])
      OBVIOUS
    <3>1. CASE i = n + 1
      BY <1>11, <3>1
    <3>2. CASE i # n + 1
      <4>1. i \in 1..n
        BY <1>3, <2>4, <3>2
      <4> QED
        BY <1>2, <4>1
    <3> QED
      BY <3>1, <3>2
  <2>7. \A i \in 1..Len(t) : t[i] = ElemMessage(sent[n2 + i])
    <3> SUFFICES ASSUME NEW i \in 1..Len(t) PROVE t[i] = ElemMessage(sent[n2 + i])
      OBVIOUS
    <3>1. i \in Nat
      BY <1>1, <1>8
    <3>2. n + (i + 1) = n2 + i
      <4> HIDE DEF n, n2
      <4> QED
        BY <1>3, <2>4, <3>1
    <3> QED
      BY <1>9, <3>2
  <2>8. n2 + Len(t) <= Len(sent)
    BY <1>1, <2>5
  <2> HIDE DEF q, t, p
  <2>9. Intact(sent, received, q, t)
    BY <1>2, <2>3, <2>5, <2>6, <2>7, <2>8 DEF Intact
  <2> QED
    BY <1>6, <2>9 DEF q, t, p
<1>12. CASE ~IsWhole(e)
  <2>1. \A k \in DOMAIN p : ~IsElement(p[k])
    BY <1>5, <1>7, <1>12
  <2>2. Elements(q) = Elements(stream)
    BY <1>6, <2>1, PiecesAddNoElement
  <2>3. Elements(stream) = Len(stream)
    <3>1. \A i \in 1..Len(stream) : IsElement(stream[i])
      BY <1>2, ElemMessageFields
    <3> QED
      BY <3>1, EveryMessageAnElement
  <2>4. ~AllWhole(sent)
    BY <1>3, <1>12 DEF AllWhole
  <2>5. Len(received) + Elements(q) + Len(t) < Len(sent)
    BY <1>1, <1>2, <1>8, <2>2, <2>3
  <2>6. \A i \in 1..Len(t) : \E k \in 1..Len(sent) : t[i] = ElemMessage(sent[k])
    <3> SUFFICES ASSUME NEW i \in 1..Len(t)
                 PROVE  \E k \in 1..Len(sent) : t[i] = ElemMessage(sent[k])
      OBVIOUS
    <3>1. n + (i + 1) \in 1..Len(sent)
      BY <1>1, <1>2, <1>3, <1>8
    <3> QED
      BY <1>9, <3>1
  <2> HIDE DEF q, t, p, n, e
  <2>7. Short(sent, received, q, t)
    BY <2>4, <2>5, <2>6 DEF Short
  <2> QED
    BY <1>6, <2>4, <2>7 DEF q, t, p
<1> QED
  BY <1>11, <1>12

(* What is short stays so.                                                 *)
LEMMA ShortSend ==
  ASSUME NEW sent, Sendable(sent), NEW R, NEW received \in Seq(R),
         NEW stream \in Seq(Message), NEW rest \in Seq(Message), rest # << >>,
         Short(sent, received, stream, rest)
  PROVE  /\ Pieces(Head(rest)) \in Seq(Message)
         /\ Short(sent, received, stream \o Pieces(Head(rest)), Tail(rest))
<1> DEFINE p == Pieces(Head(rest))
           t == Tail(rest)
           q == stream \o p
<1>1. /\ Len(sent) \in Nat /\ Len(received) \in Nat
      /\ Len(stream) \in Nat /\ Len(rest) \in Nat /\ Len(rest) > 0
  BY LinkLengths
<1>2. PICK k \in 1..Len(sent) : Head(rest) = ElemMessage(sent[k])
  <2>1. 1 \in 1..Len(rest) /\ Head(rest) = rest[1]
    BY <1>1
  <2> QED
    BY <2>1 DEF Short
<1>3. p = Arrives(sent[k])
  BY <1>2, ElemMessageFields
<1>4. p \in Seq(Message)
  BY <1>3 DEF Sendable
<1>5. /\ t \in Seq(Message) /\ Len(t) = Len(rest) - 1
      /\ \A i \in 1..Len(t) : t[i] = rest[i + 1]
  BY HeadTailProperties
<1>6. Elements(q) <= Elements(stream) + 1 /\ Elements(q) \in Nat /\ Elements(stream) \in Nat
  <2>1. q \in Seq(Message)
    BY <1>4, ConcatProperties
  <2>2. CASE IsWhole(sent[k])
    <3>1. p = <<ElemMessage(sent[k])>> /\ ElemMessage(sent[k]) \in Message
      <4>1. sent[k] \in TupleElem \cup Pattern
        BY ElementOfSeq DEF Sendable
      <4> QED
        BY <1>3, <2>2, <4>1, ElemMessageType DEF IsWhole
    <3> QED
      BY <2>1, <3>1, OneMoreMessage, PlacesAreFinite
  <2>3. CASE ~IsWhole(sent[k])
    <3>1. \A i \in DOMAIN p : ~IsElement(p[i])
      BY <1>3, <2>3 DEF Sendable
    <3>2. Elements(q) = Elements(stream)
      BY <1>4, <3>1, PiecesAddNoElement
    <3>3. Elements(stream) \in Nat
      BY PlacesAreFinite
    <3> QED
      BY <3>2, <3>3
  <2> QED
    BY <2>2, <2>3
<1>7. Len(received) + Elements(q) + Len(t) < Len(sent)
  <2>1. Len(received) + Elements(stream) + Len(rest) < Len(sent)
    BY DEF Short
  <2> HIDE DEF q, t
  <2> QED
    BY <1>1, <1>5, <1>6, <2>1
<1>8. \A i \in 1..Len(t) : \E j \in 1..Len(sent) : t[i] = ElemMessage(sent[j])
  <2> SUFFICES ASSUME NEW i \in 1..Len(t)
               PROVE  \E j \in 1..Len(sent) : t[i] = ElemMessage(sent[j])
    OBVIOUS
  <2>1. i + 1 \in 1..Len(rest) /\ t[i] = rest[i + 1]
    BY <1>1, <1>5
  <2> QED
    BY <2>1 DEF Short
<1> HIDE DEF q, t, p
<1>9. Short(sent, received, q, t)
  BY <1>7, <1>8 DEF Short
<1> QED
  BY <1>4, <1>9 DEF q, t, p

(* The header or an element is written.                                    *)
LEMMA AnnouncedSend ==
  ASSUME NEW sent, Sendable(sent), NEW op \in HeadOps,
         NEW stream \in Seq(Message), NEW rest \in Seq(Message), rest # << >>,
         Announced(op, sent, stream, rest)
  PROVE  /\ Pieces(Head(rest)) \in Seq(Message)
         /\ Announced(op, sent, stream \o Pieces(Head(rest)), Tail(rest))
<1> DEFINE h == OperationMessage(op, Len(sent))
           p == Pieces(Head(rest))
<1>1. << >> \in Seq(Message) /\ Len(<< >>) = 0
  BY EmptySeq
<1>2. CASE stream = << >> /\ rest = Sent(op, sent)
  <2>1. /\ Head(rest) = h /\ h \in Message /\ Len(Tail(rest)) = Len(sent)
        /\ \A i \in 1..Len(sent) : Tail(rest)[i] = ElemMessage(sent[i])
    BY <1>2, SentProperties
  <2>2. p = <<h>> /\ p \in Seq(Message) /\ p # << >> /\ Head(p) = h /\ Tail(p) = << >>
    <3>1. p = <<h>>
      BY <2>1, OtherMessages
    <3>2. h \in Message
      BY <2>1
    <3> HIDE DEF h, p
    <3> QED
      BY <3>1, <3>2
  <2>3. stream \o p = p
    BY <1>2, <2>2, ConcatEmptySeq
  <2>4. Intact(sent, << >>, << >>, Tail(rest))
    <3>1. Len(sent) \in Nat
      BY LinkLengths, <1>1
    <3>2. \A i \in 1..Len(Tail(rest)) : Tail(rest)[i] = ElemMessage(sent[0 + i])
      BY <2>1, <3>1
    <3>3. 0 + Len(Tail(rest)) = Len(sent)
      BY <2>1, <3>1
    <3> QED
      BY <1>1, <3>1, <3>2, <3>3 DEF Intact
  <2> HIDE DEF h, p
  <2>5. Announced(op, sent, p, Tail(rest))
    BY <2>2, <2>4 DEF Announced, h
  <2> QED
    BY <2>2, <2>3, <2>5 DEF p
<1>3. CASE stream # << >> /\ Head(stream) = h
  <2>1. Intact(sent, << >>, Tail(stream), rest) \/ Short(sent, << >>, Tail(stream), rest)
    <3>1. rest # Sent(op, sent) \/ stream # << >>
      BY <1>3
    <3> QED
      BY <1>3 DEF Announced
  <2>2. Tail(stream) \in Seq(Message)
    BY <1>3, HeadTailProperties
  <2>3. /\ p \in Seq(Message)
        /\ \/ Intact(sent, << >>, Tail(stream) \o p, Tail(rest))
           \/ Short(sent, << >>, Tail(stream) \o p, Tail(rest))
    BY <1>1, <2>1, <2>2, IntactSend, ShortSend
  <2> HIDE DEF p, h
  <2>4. /\ stream \o p # << >> /\ Head(stream \o p) = Head(stream)
        /\ Tail(stream \o p) = Tail(stream) \o p
    BY <1>3, <2>3, StreamIsFetched
  <2>5. Announced(op, sent, stream \o p, Tail(rest))
    BY <1>3, <2>3, <2>4 DEF Announced, h
  <2> QED
    BY <2>3, <2>5 DEF p
<1> QED
  BY <1>2, <1>3 DEF Announced

(* The receiver gets the next element, as it was sent.                     *)
LEMMA IntactFetch ==
  ASSUME NEW sent, Sendable(sent), NEW R, NEW received \in Seq(R),
         NEW stream \in Seq(Message), NEW rest \in Seq(Message), stream # << >>,
         Intact(sent, received, stream, rest)
  PROVE  /\ Len(received) + 1 \in 1..Len(sent)
         /\ Head(stream) = ElemMessage(sent[Len(received) + 1])
         /\ IsWhole(sent[Len(received) + 1])
         /\ \A e \in R : e = sent[Len(received) + 1] =>
              Intact(sent, Append(received, e), Tail(stream), rest)
<1> DEFINE n == Len(received) + Len(stream)
           t == Tail(stream)
<1>1. /\ Len(sent) \in Nat /\ Len(received) \in Nat
      /\ Len(stream) \in Nat /\ Len(rest) \in Nat /\ Len(stream) > 0
  BY LinkLengths
<1>2. /\ n + Len(rest) <= Len(sent)
      /\ rest # << >> => n + Len(rest) = Len(sent)
      /\ \A i \in 1..Len(received) : received[i] = sent[i]
      /\ \A i \in 1..Len(stream) : stream[i] = ElemMessage(sent[Len(received) + i])
      /\ \A i \in 1..n : IsWhole(sent[i])
      /\ \A i \in 1..Len(rest) : rest[i] = ElemMessage(sent[n + i])
  BY DEF Intact
<1>3. Len(received) + 1 \in 1..Len(sent) /\ Len(received) + 1 \in 1..n
  BY <1>1, <1>2
<1>4. Head(stream) = ElemMessage(sent[Len(received) + 1])
  <2>1. 1 \in 1..Len(stream) /\ Head(stream) = stream[1]
    BY <1>1
  <2> QED
    BY <1>2, <2>1
<1>5. IsWhole(sent[Len(received) + 1])
  BY <1>2, <1>3
<1>6. /\ t \in Seq(Message) /\ Len(t) = Len(stream) - 1
      /\ \A i \in 1..Len(t) : t[i] = stream[i + 1]
  BY HeadTailProperties
<1>7. ASSUME NEW e \in R, e = sent[Len(received) + 1]
      PROVE  Intact(sent, Append(received, e), t, rest)
  <2> DEFINE a == Append(received, e)
  <2>1. /\ Len(a) = Len(received) + 1
        /\ \A i \in 1..Len(received) : a[i] = received[i]
        /\ a[Len(received) + 1] = e
    BY AppendProperties
  <2> HIDE DEF a, t
  <2>2. Len(a) + Len(t) = n
    BY <1>1, <1>6, <2>1
  <2>3. \A i \in 1..Len(a) : a[i] = sent[i]
    <3> SUFFICES ASSUME NEW i \in 1..Len(a) PROVE a[i] = sent[i]
      OBVIOUS
    <3>1. CASE i = Len(received) + 1
      BY <1>7, <2>1, <3>1
    <3>2. CASE i # Len(received) + 1
      <4>1. i \in 1..Len(received)
        BY <1>1, <2>1, <3>2
      <4> QED
        BY <1>2, <2>1, <4>1
    <3> QED
      BY <3>1, <3>2
  <2>4. \A i \in 1..Len(t) : t[i] = ElemMessage(sent[Len(a) + i])
    <3> SUFFICES ASSUME NEW i \in 1..Len(t) PROVE t[i] = ElemMessage(sent[Len(a) + i])
      OBVIOUS
    <3>1. i + 1 \in 1..Len(stream) /\ Len(received) + (i + 1) = Len(a) + i
      BY <1>1, <1>6, <2>1
    <3> QED
      BY <1>2, <1>6, <3>1
  <2> QED
    BY <1>2, <2>2, <2>3, <2>4 DEF Intact, a
<1> QED
  BY <1>3, <1>4, <1>5, <1>7 DEF t

(* All has been received: nothing is left, and it is what was sent.        *)
LEMMA IntactDone ==
  ASSUME NEW sent, Sendable(sent), NEW R, NEW received \in Seq(R), sent \in Seq(R),
         NEW stream \in Seq(Message), NEW rest \in Seq(Message),
         Intact(sent, received, stream, rest), Len(received) = Len(sent)
  PROVE  stream = << >> /\ rest = << >> /\ received = sent /\ AllWhole(sent)
<1>1. /\ Len(sent) \in Nat /\ Len(received) \in Nat
      /\ Len(stream) \in Nat /\ Len(rest) \in Nat
      /\ rest # << >> => Len(rest) > 0
      /\ stream # << >> => Len(stream) > 0
  BY LinkLengths
<1>2. Len(received) + Len(stream) + Len(rest) <= Len(sent)
  BY DEF Intact
<1>3. Len(stream) = 0 /\ Len(rest) = 0
  BY <1>1, <1>2
<1>4. stream = << >> /\ rest = << >>
  BY <1>1, <1>3
<1>5. \A i \in 1..Len(received) : received[i] = sent[i]
  BY DEF Intact
<1>6. received = sent
  BY <1>5, SeqEqual
<1>7. \A i \in 1..(Len(received) + Len(stream)) : IsWhole(sent[i])
  BY DEF Intact
<1>8. Len(received) + Len(stream) = Len(sent)
  BY <1>1, <1>3
<1> QED
  BY <1>4, <1>6, <1>7, <1>8 DEF AllWhole

(* What is short stays so when a message is fetched: as an element or as   *)
(* garbage.                                                                *)
LEMMA ShortFetch ==
  ASSUME NEW sent, Sendable(sent), NEW R, NEW received \in Seq(R),
         NEW stream \in Seq(Message), NEW rest \in Seq(Message), stream # << >>,
         Short(sent, received, stream, rest)
  PROVE  /\ ~IsElement(Head(stream)) => Short(sent, received, Tail(stream), rest)
         /\ IsElement(Head(stream)) =>
              /\ Len(received) + 1 < Len(sent)
              /\ \A e \in R : Short(sent, Append(received, e), Tail(stream), rest)
<1> DEFINE t == Tail(stream)
<1>1. /\ Len(sent) \in Nat /\ Len(received) \in Nat /\ Len(rest) \in Nat
  BY LinkLengths
<1>2. t \in Seq(Message)
  BY HeadTailProperties
<1>3. Elements(stream) = Elements(t) + (IF IsElement(Head(stream)) THEN 1 ELSE 0)
  BY OneMessageLess
<1>4. Elements(stream) \in Nat /\ Elements(t) \in Nat
  BY <1>2, PlacesAreFinite
<1> HIDE DEF t
<1>5. Len(received) + Elements(stream) + Len(rest) < Len(sent)
  BY DEF Short
<1>6. CASE ~IsElement(Head(stream))
  <2>1. Len(received) + Elements(t) + Len(rest) < Len(sent)
    BY <1>3, <1>4, <1>5, <1>6
  <2>2. Short(sent, received, t, rest)
    BY <2>1 DEF Short
  <2> QED
    BY <1>6, <2>2 DEF t
<1>7. CASE IsElement(Head(stream))
  <2>1. Elements(stream) = Elements(t) + 1
    BY <1>3, <1>7
  <2>2. Len(received) + 1 < Len(sent)
    BY <1>1, <1>4, <1>5, <2>1
  <2>3. (Len(received) + 1) + Elements(t) + Len(rest) < Len(sent)
    BY <1>1, <1>4, <1>5, <2>1
  <2>4. ASSUME NEW e \in R
        PROVE  Short(sent, Append(received, e), t, rest)
    <3>1. Len(Append(received, e)) = Len(received) + 1
      BY AppendProperties
    <3> QED
      BY <2>3, <3>1 DEF Short
  <2> QED
    BY <1>7, <2>2, <2>4 DEF t
<1> QED
  BY <1>6, <1>7

(* A sender that is killed writes no more.                                 *)
LEMMA LinkKilled ==
  ASSUME NEW sent, Sendable(sent), NEW R, NEW received \in Seq(R),
         NEW stream \in Seq(Message), NEW rest \in Seq(Message)
  PROVE  /\ Intact(sent, received, stream, rest) => Intact(sent, received, stream, << >>)
         /\ Short(sent, received, stream, rest) => Short(sent, received, stream, << >>)
<1>1. /\ Len(sent) \in Nat /\ Len(received) \in Nat
      /\ Len(stream) \in Nat /\ Len(rest) \in Nat
  BY LinkLengths
<1>2. Len(<< >>) = 0 /\ 1..0 = {}
  BY EmptySeq
<1>3. ASSUME Intact(sent, received, stream, rest)
      PROVE  Intact(sent, received, stream, << >>)
  <2>1. Len(received) + Len(stream) + Len(rest) <= Len(sent)
    BY <1>3 DEF Intact
  <2>2. Len(received) + Len(stream) + 0 <= Len(sent)
    BY <1>1, <2>1
  <2> QED
    BY <1>2, <1>3, <2>2 DEF Intact
<1>4. ASSUME Short(sent, received, stream, rest)
      PROVE  Short(sent, received, stream, << >>)
  <2>1. Len(received) + Elements(stream) + Len(rest) < Len(sent)
    BY <1>4 DEF Short
  <2>2. Elements(stream) \in Nat
    BY PlacesAreFinite
  <2>3. Len(received) + Elements(stream) + 0 < Len(sent)
    BY <1>1, <2>1, <2>2
  <2> QED
    BY <1>2, <1>4, <2>3 DEF Short
<1> QED
  BY <1>3, <1>4

(* A header that has been written comes first, the elements follow it.     *)
LEMMA AnnouncedStream ==
  ASSUME NEW op, NEW sent, NEW stream, NEW rest, stream # << >>
  PROVE  /\ Announced(op, sent, stream, rest) =>
              /\ Head(stream) = OperationMessage(op, Len(sent))
              /\ \/ Intact(sent, << >>, Tail(stream), rest)
                 \/ Short(sent, << >>, Tail(stream), rest)
         /\ Head(stream) = OperationMessage(op, Len(sent))
              /\ (\/ Intact(sent, << >>, Tail(stream), rest)
                  \/ Short(sent, << >>, Tail(stream), rest))
              => Announced(op, sent, stream, rest)
  BY DEF Announced

-----------------------------------------------------------------------------
(* The links of a client                                                   *)

Dirs == {"up", "down"}

LEMMA LinkTypes ==
  ASSUME TypeOK, NEW c \in Clients, NEW d \in Dirs
  PROVE  /\ <<c, d>> \in Links
         /\ unsent[<<c, d>>] \in Seq(Message)
         /\ fifo[<<c, d>>] \in Seq(Message)
         /\ buffer[<<c, d>>] \in Seq(Message)
         /\ Stream(c, d) \in Seq(Message)
<1>1. <<c, d>> \in Links
  BY DEF Links, Dirs
<1>2. /\ unsent[<<c, d>>] \in Seq(Message)
      /\ fifo[<<c, d>>] \in Seq(Message)
      /\ buffer[<<c, d>>] \in Seq(Message)
  BY <1>1 DEF TypeOK
<1> QED
  BY <1>1, <1>2, StreamIsRead DEF Stream

(* An empty link is quiet, and a quiet one is empty.                       *)
LEMMA EmptyStream ==
  ASSUME TypeOK, NEW c \in Clients, NEW d \in Dirs
  PROVE  Stream(c, d) = << >> <=> buffer[<<c, d>>] = << >> /\ fifo[<<c, d>>] = << >>
<1>1. buffer[<<c, d>>] \in Seq(Message) /\ fifo[<<c, d>>] \in Seq(Message)
  BY LinkTypes
<1> QED
  BY <1>1, ConcatEqualIffEmpty DEF Stream

(* The other links are as they were.                                       *)
OthersSame(c, d) ==
  \A l \in Links \ {<<c, d>>} :
    /\ unsent'[l] = unsent[l] /\ fifo'[l] = fifo[l] /\ buffer'[l] = buffer[l]
    /\ l \in starved' <=> l \in starved

LinkTypesKept ==
  /\ unsent' \in [Links -> Seq(Message)]
  /\ fifo' \in [Links -> Seq(Message)]
  /\ buffer' \in [Links -> Seq(Message)]
  /\ starved' \subseteq Links

(* sendMessage, bufferedReadFromPipe and the fetch of a message, as steps  *)
(* of the stream between writer and reader.                                *)
LEMMA LinkSend ==
  ASSUME TypeOK, NEW c \in Clients, NEW d \in Dirs, sendMessage(c, d),
         Pieces(Head(unsent[<<c, d>>])) \in Seq(Message)
  PROVE  /\ unsent[<<c, d>>] # << >>
         /\ Stream(c, d)' = Stream(c, d) \o Pieces(Head(unsent[<<c, d>>]))
         /\ unsent'[<<c, d>>] = Tail(unsent[<<c, d>>])
         /\ <<c, d>> \in starved' <=> <<c, d>> \in starved
         /\ OthersSame(c, d)
         /\ LinkTypesKept
<1> DEFINE l == <<c, d>>
           p == Pieces(Head(unsent[l]))
<1>1. /\ l \in Links /\ unsent[l] \in Seq(Message)
      /\ fifo[l] \in Seq(Message) /\ buffer[l] \in Seq(Message)
  BY LinkTypes
<1>2. /\ unsent[l] # << >>
      /\ fifo' = [fifo EXCEPT ![l] = @ \o p]
      /\ unsent' = [unsent EXCEPT ![l] = Tail(@)]
      /\ buffer' = buffer /\ starved' = starved
  BY DEF sendMessage
<1>3. /\ unsent \in [Links -> Seq(Message)] /\ fifo \in [Links -> Seq(Message)]
      /\ buffer \in [Links -> Seq(Message)] /\ starved \subseteq Links
  BY DEF TypeOK
<1>4. p \in Seq(Message)
  OBVIOUS
<1> HIDE DEF l, p
<1>5. fifo'[l] = fifo[l] \o p /\ unsent'[l] = Tail(unsent[l]) /\ buffer'[l] = buffer[l]
  BY <1>1, <1>2, <1>3
<1>6. fifo[l] \o p \in Seq(Message) /\ Tail(unsent[l]) \in Seq(Message)
  BY <1>1, <1>2, <1>4, StreamGrows, HeadTailProperties
<1>7. buffer'[l] \o fifo'[l] = (buffer[l] \o fifo[l]) \o p
  <2>1. buffer[l] \o (fifo[l] \o p) = (buffer[l] \o fifo[l]) \o p
    <3>1. \A x, y, z \in Seq(Message) : x \o (y \o z) = (x \o y) \o z
      BY StreamGrows
    <3>2. buffer[l] \in Seq(Message) /\ fifo[l] \in Seq(Message) /\ p \in Seq(Message)
      BY <1>1, <1>4
    <3> QED
      BY <3>1, <3>2, Zenon
  <2> QED
    BY <1>5, <2>1, Zenon
<1>8. LinkTypesKept
  BY <1>2, <1>3, <1>6 DEF LinkTypesKept
<1>9. OthersSame(c, d)
  BY <1>2, <1>3 DEF OthersSame, l
<1> QED
  BY <1>2, <1>5, <1>7, <1>8, <1>9 DEF Stream, l, p

LEMMA LinkRead ==
  ASSUME TypeOK, NEW c \in Clients, NEW d \in Dirs, bufferedReadFromPipe(c, d)
  PROVE  /\ Stream(c, d) # << >>
         /\ Stream(c, d)' = Stream(c, d)
         /\ unsent'[<<c, d>>] = unsent[<<c, d>>]
         /\ <<c, d>> \notin starved'
         /\ OthersSame(c, d)
         /\ LinkTypesKept
<1> DEFINE l == <<c, d>>
<1>1. /\ l \in Links /\ unsent[l] \in Seq(Message)
      /\ fifo[l] \in Seq(Message) /\ buffer[l] \in Seq(Message)
  BY LinkTypes
<1>2. /\ fifo[l] # << >>
      /\ buffer' = [buffer EXCEPT ![l] = @ \o fifo[l]]
      /\ fifo' = [fifo EXCEPT ![l] = << >>]
      /\ unsent' = unsent /\ starved' = starved \ {l}
  BY DEF bufferedReadFromPipe
<1>3. /\ unsent \in [Links -> Seq(Message)] /\ fifo \in [Links -> Seq(Message)]
      /\ buffer \in [Links -> Seq(Message)] /\ starved \subseteq Links
  BY DEF TypeOK
<1>4. Stream(c, d) # << >>
  BY <1>2, EmptyStream
<1> HIDE DEF l
<1>5. buffer'[l] = buffer[l] \o fifo[l] /\ fifo'[l] = << >> /\ unsent'[l] = unsent[l]
  BY <1>1, <1>2, <1>3
<1>6. buffer[l] \o fifo[l] \in Seq(Message) /\ << >> \in Seq(Message)
  BY <1>1, StreamIsRead, EmptySeq
<1>7. buffer'[l] \o fifo'[l] = buffer[l] \o fifo[l]
  BY <1>1, <1>5, StreamIsRead
<1>8. LinkTypesKept
  BY <1>2, <1>3, <1>6 DEF LinkTypesKept
<1>9. OthersSame(c, d)
  BY <1>2, <1>3 DEF OthersSame, l
<1> QED
  BY <1>2, <1>4, <1>5, <1>7, <1>8, <1>9 DEF Stream, l

LEMMA LinkFetch ==
  ASSUME TypeOK, NEW c \in Clients, NEW d \in Dirs,
         buffer[<<c, d>>] # << >>,
         buffer' = [buffer EXCEPT ![<<c, d>>] = Tail(@)],
         unsent' = unsent, fifo' = fifo,
         starved' = starved \/ starved' = starved \cup {<<c, d>>}
  PROVE  /\ Stream(c, d) # << >>
         /\ Head(buffer[<<c, d>>]) = Head(Stream(c, d))
         /\ Head(Stream(c, d)) \in Message
         /\ Stream(c, d)' = Tail(Stream(c, d))
         /\ unsent'[<<c, d>>] = unsent[<<c, d>>]
         /\ OthersSame(c, d)
         /\ LinkTypesKept
<1> DEFINE l == <<c, d>>
<1>1. /\ l \in Links /\ unsent[l] \in Seq(Message)
      /\ fifo[l] \in Seq(Message) /\ buffer[l] \in Seq(Message)
  BY LinkTypes
<1>2. /\ buffer[l] # << >> /\ buffer' = [buffer EXCEPT ![l] = Tail(@)]
      /\ unsent' = unsent /\ fifo' = fifo
      /\ starved' = starved \/ starved' = starved \cup {l}
  OBVIOUS
<1>3. /\ unsent \in [Links -> Seq(Message)] /\ fifo \in [Links -> Seq(Message)]
      /\ buffer \in [Links -> Seq(Message)] /\ starved \subseteq Links
  BY DEF TypeOK
<1> HIDE DEF l
<1>4. buffer'[l] = Tail(buffer[l]) /\ fifo'[l] = fifo[l]
  BY <1>1, <1>2, <1>3
<1>5. /\ buffer[l] \o fifo[l] # << >>
      /\ Head(buffer[l] \o fifo[l]) = Head(buffer[l])
      /\ Tail(buffer[l] \o fifo[l]) = Tail(buffer[l]) \o fifo[l]
      /\ Tail(buffer[l]) \in Seq(Message)
  BY <1>1, <1>2, StreamIsFetched
<1>6. Head(buffer[l]) \in Message
  BY <1>1, <1>2, HeadTailProperties
<1>7. LinkTypesKept
  BY <1>1, <1>2, <1>3, <1>5 DEF LinkTypesKept
<1>8. OthersSame(c, d)
  BY <1>2, <1>3 DEF OthersSame, l
<1> QED
  BY <1>2, <1>4, <1>5, <1>6, <1>7, <1>8 DEF Stream, l

(* The receiver of a link gets its first message.                          *)
LEMMA LinkReceives ==
  ASSUME TypeOK, NEW c \in Clients, NEW d \in Dirs, NEW m, Receives(c, d, m)
  PROVE  /\ Stream(c, d) # << >>
         /\ m = Head(Stream(c, d)) /\ m \in Message /\ m # Garbage
         /\ Stream(c, d)' = Tail(Stream(c, d))
         /\ unsent'[<<c, d>>] = unsent[<<c, d>>]
         /\ starved' = starved
         /\ OthersSame(c, d)
         /\ LinkTypesKept
         /\ <<c, d>> \notin starved
<1>1. /\ buffer[<<c, d>>] # << >>
      /\ buffer' = [buffer EXCEPT ![<<c, d>>] = Tail(@)]
      /\ unsent' = unsent /\ fifo' = fifo /\ starved' = starved
      /\ m = Head(buffer[<<c, d>>]) /\ m # Garbage /\ <<c, d>> \notin starved
  BY DEF Receives
<1> QED
  BY <1>1, LinkFetch

(* A read or fetched message that is not an element's own, of a link       *)
(* whose elements are intact.                                              *)
LEMMA LinkGarbage ==
  ASSUME TypeOK, NEW c \in Clients, NEW d \in Dirs, fetchGarbage(c, d)
  PROVE  /\ Stream(c, d) # << >>
         /\ Head(Stream(c, d)) = Garbage
         /\ Stream(c, d)' = Tail(Stream(c, d))
         /\ unsent'[<<c, d>>] = unsent[<<c, d>>]
         /\ OthersSame(c, d)
         /\ LinkTypesKept
<1>1. /\ buffer[<<c, d>>] # << >>
      /\ buffer' = [buffer EXCEPT ![<<c, d>>] = Tail(@)]
      /\ unsent' = unsent /\ fifo' = fifo /\ starved' = starved \cup {<<c, d>>}
      /\ Garbage = Head(buffer[<<c, d>>])
  BY DEF fetchGarbage
<1> QED
  BY <1>1, LinkFetch

-----------------------------------------------------------------------------
(* Exchanges that a step leaves alone                                      *)

LinkUntouched(c, d) ==
  /\ unsent'[<<c, d>>] = unsent[<<c, d>>]
  /\ fifo'[<<c, d>>] = fifo[<<c, d>>]
  /\ buffer'[<<c, d>>] = buffer[<<c, d>>]
  /\ <<c, d>> \in starved' <=> <<c, d>> \in starved

(* What the exchange of c depends on, besides its links.                   *)
SidesUntouched(c) ==
  /\ at'[c] = at[c] /\ command'[c] = command[c]
  /\ missing'[c] = missing[c] /\ got'[c] = got[c]
  /\ pc'[c] = pc[c] /\ header'[c] = header[c]
  /\ elems'[c] = elems[c] /\ tuple'[c] = tuple[c]
  /\ c \in served' <=> c \in served

LEMMA QuietUntouched ==
  ASSUME NEW c, NEW d, LinkUntouched(c, d)
  PROVE  /\ Quiet(c, d)' <=> Quiet(c, d)
         /\ Stream(c, d)' = Stream(c, d)
  BY DEF LinkUntouched, Quiet, Stream

LEMMA ResultUntouched ==
  ASSUME NEW c, command'[c] = command[c], tuple'[c] = tuple[c]
  PROVE  /\ Result(c)' = Result(c)
         /\ ResultOK(c)' <=> ResultOK(c)
<1>1. Result(c)' = Result(c)
  BY DEF Result
<1> QED
  BY <1>1 DEF ResultOK

LEMMA ExchangeUntouched ==
  ASSUME NEW c, SidesUntouched(c), LinkUntouched(c, "up"), LinkUntouched(c, "down"),
         ExchangeOK(c)
  PROVE  ExchangeOK(c)'
<1>1. /\ at'[c] = at[c] /\ command'[c] = command[c]
      /\ missing'[c] = missing[c] /\ got'[c] = got[c]
      /\ pc'[c] = pc[c] /\ header'[c] = header[c]
      /\ elems'[c] = elems[c] /\ tuple'[c] = tuple[c]
      /\ c \in served' <=> c \in served
  BY DEF SidesUntouched
<1>2. /\ Quiet(c, "up")' <=> Quiet(c, "up")
      /\ Quiet(c, "down")' <=> Quiet(c, "down")
      /\ Stream(c, "up")' = Stream(c, "up")
      /\ Stream(c, "down")' = Stream(c, "down")
  BY QuietUntouched
<1>3. /\ unsent'[<<c, "up">>] = unsent[<<c, "up">>]
      /\ unsent'[<<c, "down">>] = unsent[<<c, "down">>]
      /\ <<c, "up">> \in starved' <=> <<c, "up">> \in starved
      /\ <<c, "down">> \in starved' <=> <<c, "down">> \in starved
  BY DEF LinkUntouched
<1>4. Result(c)' = Result(c) /\ (ResultOK(c)' <=> ResultOK(c))
  BY <1>1, ResultUntouched
<1>5. CASE Typing(c)
  <2>1. Typing(c)'
    BY <1>1, <1>2, <1>5 DEF Typing
  <2> QED
    BY <2>1 DEF ExchangeOK
<1>6. CASE Asking(c)
  <2>1. Asking(c)'
    BY <1>1, <1>2, <1>3, <1>6 DEF Asking
  <2> QED
    BY <2>1 DEF ExchangeOK
<1>7. CASE Passing(c)
  <2>1. Passing(c)'
    BY <1>1, <1>2, <1>3, <1>7 DEF Passing
  <2> QED
    BY <2>1 DEF ExchangeOK
<1>8. CASE Serving(c)
  <2>1. Serving(c)'
    BY <1>1, <1>2, <1>4, <1>8 DEF Serving
  <2> QED
    BY <2>1 DEF ExchangeOK
<1>9. CASE Answering(c)
  <2>1. Answering(c)'
    BY <1>1, <1>2, <1>3, <1>4, <1>9 DEF Answering
  <2> QED
    BY <2>1 DEF ExchangeOK
<1>10. CASE Leaving(c)
  <2>1. Leaving(c)'
    BY <1>1, <1>2, <1>3, <1>10 DEF Leaving
  <2> QED
    BY <2>1 DEF ExchangeOK
<1> QED
  BY <1>5, <1>6, <1>7, <1>8, <1>9, <1>10 DEF ExchangeOK

(* The other links of a step on one link.                                  *)
LEMMA OthersUntouched ==
  ASSUME NEW c \in Clients, NEW d \in Dirs, OthersSame(c, d),
         NEW e \in Clients, NEW x \in Dirs, <<e, x>> # <<c, d>>
  PROVE  LinkUntouched(e, x)
<1>1. <<e, x>> \in Links \ {<<c, d>>}
  BY DEF Links, Dirs
<1> QED
  BY <1>1 DEF OthersSame, LinkUntouched

(* A step on one link touches neither side of any exchange.                *)
LEMMA LinkStep ==
  ASSUME IInv, NEW c \in Clients, NEW d \in Dirs, OthersSame(c, d), LinkTypesKept,
         UNCHANGED <<clientVars, threadVars, dbVars, server, issued, served>>,
         ExchangeOK(c)'
  PROVE  IInv'
<1>1. /\ UNCHANGED <<at, command, missing, got, shown>>
      /\ UNCHANGED <<pc, header, elems, tuple>>
      /\ UNCHANGED <<records, waiting_threads_queue>>
      /\ UNCHANGED <<server, issued, served>>
  BY DEF clientVars, threadVars, dbVars
<1>2. TypeOK'
  BY <1>1 DEF IInv, TypeOK, LinkTypesKept
<1>3. ASSUME NEW e \in Clients PROVE ExchangeOK(e)'
  <2>1. CASE e = c
    BY <2>1
  <2>2. CASE e # c
    <3>1. LinkUntouched(e, "up") /\ LinkUntouched(e, "down")
      BY <2>2, OthersUntouched DEF Dirs
    <3>2. SidesUntouched(e)
      BY <1>1 DEF SidesUntouched
    <3> QED
      BY <3>1, <3>2, ExchangeUntouched DEF IInv
  <2> QED
    BY <2>1, <2>2
<1>4. StoreOK' /\ QueueOK' /\ ThrownOK' /\ AnswersCommand'
  BY <1>1 DEF IInv, StoreOK, QueueOK, ThrownOK, AnswersCommand
<1> QED
  BY <1>2, <1>3, <1>4 DEF IInv

(* What is on its way in either direction can be sent.                     *)
LEMMA WhatIsSent ==
  ASSUME PiecesAreNoElements, NEW c
  PROVE  /\ command[c] \in Request =>
              /\ Sendable(command[c].arg) /\ command[c].op \in HeadOps
              /\ command[c].arg # << >> /\ Len(command[c].arg) \in Nat \ {0}
         /\ ResultOK(c) => Sendable(Result(c))
         /\ OP_RETURN_RESULT \in HeadOps
<1>1. ASSUME command[c] \in Request
      PROVE  command[c].arg \in Tuples \cup Patterns /\ command[c].op \in HeadOps
  BY <1>1 DEF Request, HeadOps, Ops, OP_LINDA_WRITE, OP_LINDA_READ, OP_LINDA_INPUT
<1>2. ASSUME ResultOK(c) PROVE Sendable(Result(c))
  <2>1. CASE command[c].op = OP_LINDA_WRITE
    BY <2>1, EmptyIsSendable DEF Result
  <2>2. CASE command[c].op # OP_LINDA_WRITE
    BY <1>2, <2>2, ArgumentsAreSendable DEF Result, ResultOK
  <2> QED
    BY <2>1, <2>2
<1> QED
  BY <1>1, <1>2, ArgumentsAreSendable DEF HeadOps

-----------------------------------------------------------------------------
(* The transport                                                           *)

LEMMA DirsDiffer == \A c : <<c, "up">> # <<c, "down">>
  OBVIOUS

LEMMA GoodbyeProperties ==
  /\ Goodbye \in Seq(Message) /\ Goodbye # << >>
  /\ Head(Goodbye) = ConnectionMessage(FALSE) /\ Tail(Goodbye) = << >>
<1>1. \A m : Head(<<m>>) = m /\ Tail(<<m>>) = << >> /\ <<m>> # << >>
  OBVIOUS
<1>2. ConnectionMessage(FALSE) \in Message
  BY DEF ConnectionMessage, Message
<1>3. \A m \in Message : <<m>> \in Seq(Message)
  OBVIOUS
<1> QED
  BY <1>1, <1>2, <1>3 DEF Goodbye

(* The client writes a message.                                            *)
LEMMA SendUpKeeps ==
  ASSUME IInv, PiecesAreNoElements, NEW c \in Clients, sendMessage(c, "up")
  PROVE  IInv'
<1> DEFINE l == <<c, "up">>
           p == Pieces(Head(unsent[l]))
<1>1. /\ UNCHANGED <<clientVars, threadVars, dbVars, server, issued, served>>
      /\ UNCHANGED <<at, command, missing, got, pc, header, elems, tuple, served>>
      /\ unsent[l] # << >>
  BY DEF sendMessage, clientVars, threadVars
<1>2. TypeOK /\ ExchangeOK(c)
  BY DEF IInv
<1>3. /\ unsent[l] \in Seq(Message) /\ Stream(c, "up") \in Seq(Message)
      /\ elems[c] \in Seq(TupleElem \cup Pattern)
  BY <1>2, LinkTypes DEF Dirs, TypeOK
<1>4. SUFFICES p \in Seq(Message) /\ ExchangeOK(c)'
  BY <1>1, <1>2, LinkSend, LinkStep DEF Dirs
<1>5. ASSUME p \in Seq(Message)
      PROVE  /\ Stream(c, "up")' = Stream(c, "up") \o p
             /\ unsent'[l] = Tail(unsent[l])
             /\ l \in starved' <=> l \in starved
             /\ Quiet(c, "down") => Quiet(c, "down")'
  <2>1. /\ Stream(c, "up")' = Stream(c, "up") \o p
        /\ unsent'[l] = Tail(unsent[l])
        /\ l \in starved' <=> l \in starved
        /\ OthersSame(c, "up")
    BY <1>2, <1>5, LinkSend DEF Dirs
  <2>2. LinkUntouched(c, "down")
    BY <2>1, OthersUntouched, DirsDiffer DEF Dirs
  <2> QED
    BY <2>1, <2>2, QuietUntouched
<1> HIDE DEF p
<1>6. CASE Asking(c)
  <2>1. /\ Announced(command[c].op, command[c].arg, Stream(c, "up"), unsent[l])
        /\ command[c] \in Request
    BY <1>1, <1>6 DEF Asking, Quiet
  <2>2. Sendable(command[c].arg) /\ command[c].op \in HeadOps
    BY <2>1, WhatIsSent
  <2>3. /\ p \in Seq(Message)
        /\ Announced(command[c].op, command[c].arg, Stream(c, "up") \o p, Tail(unsent[l]))
    BY <1>1, <1>3, <2>1, <2>2, AnnouncedSend DEF p
  <2>4. Asking(c)'
    BY <1>1, <1>5, <1>6, <2>3 DEF Asking
  <2> QED
    BY <2>3, <2>4 DEF ExchangeOK
<1>7. CASE Passing(c)
  <2>1. /\ command[c] \in Request
        /\ \/ /\ Intact(command[c].arg, elems[c], Stream(c, "up"), unsent[l])
              /\ l \notin starved
           \/ Short(command[c].arg, elems[c], Stream(c, "up"), unsent[l])
    BY <1>7 DEF Passing
  <2>2. Sendable(command[c].arg)
    BY <2>1, WhatIsSent
  <2>3. /\ p \in Seq(Message)
        /\ \/ /\ Intact(command[c].arg, elems[c], Stream(c, "up") \o p, Tail(unsent[l]))
              /\ l \notin starved
           \/ Short(command[c].arg, elems[c], Stream(c, "up") \o p, Tail(unsent[l]))
    BY <1>1, <1>3, <2>1, <2>2, IntactSend, ShortSend DEF p
  <2>4. Passing(c)'
    BY <1>1, <1>5, <1>7, <2>3 DEF Passing
  <2> QED
    BY <2>3, <2>4 DEF ExchangeOK
<1>8. CASE Leaving(c)
  <2>1. /\ Stream(c, "up") = << >> /\ unsent[l] = Goodbye /\ pc[c] = "main"
        /\ at[c] = "left" /\ c \notin served /\ Quiet(c, "down") /\ l \notin starved
    BY <1>1, <1>8 DEF Leaving, Quiet
  <2>2. p = Goodbye /\ Tail(unsent[l]) = << >>
    <3>1. Head(unsent[l]) = ConnectionMessage(FALSE) /\ Tail(unsent[l]) = << >>
      BY <2>1, GoodbyeProperties
    <3> QED
      BY <3>1, OtherMessages DEF Goodbye, p
  <2>3. Goodbye \in Seq(Message) /\ << >> \o Goodbye = Goodbye
    <3> QED
      BY GoodbyeProperties, ConcatEmptySeq
  <2>4. Stream(c, "up")' = Goodbye /\ unsent'[l] = << >> /\ p \in Seq(Message)
    BY <1>5, <2>1, <2>2, <2>3
  <2>5. Leaving(c)'
    BY <1>1, <1>5, <2>1, <2>4 DEF Leaving
  <2> QED
    BY <2>4, <2>5 DEF ExchangeOK, p
<1>9. ~Typing(c) /\ ~Serving(c) /\ ~Answering(c)
  BY <1>1 DEF Typing, Serving, Answering, Quiet
<1> QED
  BY <1>2, <1>6, <1>7, <1>8, <1>9 DEF ExchangeOK

(* The thread writes a message of its reply, whether or not the client is  *)
(* there.                                                                  *)
LEMMA SendDownKeeps ==
  ASSUME IInv, PiecesAreNoElements, NEW c \in Clients, sendMessage(c, "down")
  PROVE  IInv'
<1> DEFINE l == <<c, "down">>
           p == Pieces(Head(unsent[l]))
<1>1. /\ UNCHANGED <<clientVars, threadVars, dbVars, server, issued, served>>
      /\ UNCHANGED <<at, command, missing, got, pc, header, elems, tuple, served>>
      /\ unsent[l] # << >>
  BY DEF sendMessage, clientVars, threadVars
<1>2. TypeOK /\ ExchangeOK(c)
  BY DEF IInv
<1>3. /\ unsent[l] \in Seq(Message) /\ Stream(c, "down") \in Seq(Message)
      /\ got[c] \in Seq(TupleElem)
  BY <1>2, LinkTypes DEF Dirs, TypeOK
<1>4. Answering(c)
  BY <1>1, <1>2 DEF ExchangeOK, Typing, Asking, Passing, Serving, Leaving, Quiet
<1>5. ResultOK(c) /\ AllWhole(Result(c)) /\ Sendable(Result(c)) /\ OP_RETURN_RESULT \in HeadOps
  BY <1>4, WhatIsSent DEF Answering, ResultOK
<1>6. \/ Announced(OP_RETURN_RESULT, Result(c), Stream(c, "down"), unsent[l])
      \/ Intact(Result(c), got[c], Stream(c, "down"), unsent[l])
  BY <1>4 DEF Answering
<1>7. /\ p \in Seq(Message)
      /\ Announced(OP_RETURN_RESULT, Result(c), Stream(c, "down"), unsent[l])
           => Announced(OP_RETURN_RESULT, Result(c), Stream(c, "down") \o p, Tail(unsent[l]))
      /\ Intact(Result(c), got[c], Stream(c, "down"), unsent[l])
           => Intact(Result(c), got[c], Stream(c, "down") \o p, Tail(unsent[l]))
  BY <1>1, <1>3, <1>5, <1>6, AnnouncedSend, IntactSend
<1> HIDE DEF p
<1>8. /\ Stream(c, "down")' = Stream(c, "down") \o p
      /\ unsent'[l] = Tail(unsent[l])
      /\ l \in starved' <=> l \in starved
      /\ OthersSame(c, "down") /\ LinkTypesKept
  BY <1>2, <1>7, LinkSend DEF Dirs, p
<1>9. Quiet(c, "up")'
  <2>1. LinkUntouched(c, "up")
    BY <1>8, OthersUntouched, DirsDiffer DEF Dirs
  <2> QED
    BY <1>4, <2>1, QuietUntouched DEF Answering
<1>10. Result(c)' = Result(c) /\ ResultOK(c)'
  BY <1>1, <1>5, ResultUntouched
<1>11. Answering(c)'
  BY <1>1, <1>4, <1>7, <1>8, <1>9, <1>10 DEF Answering
<1>12. ExchangeOK(c)'
  BY <1>11 DEF ExchangeOK
<1> QED
  BY <1>1, <1>8, <1>12, LinkStep DEF Dirs

(* A read leaves the stream as it is.                                      *)
LEMMA ReadKeeps ==
  ASSUME IInv, NEW c \in Clients, NEW d \in Dirs, bufferedReadFromPipe(c, d)
  PROVE  IInv'
<1>1. /\ UNCHANGED <<clientVars, threadVars, dbVars, server, issued, served>>
      /\ UNCHANGED <<at, command, missing, got, pc, header, elems, tuple, served>>
  BY DEF bufferedReadFromPipe, clientVars, threadVars
<1>2. TypeOK /\ ExchangeOK(c)
  BY DEF IInv
<1>3. /\ Stream(c, d) # << >>
      /\ Stream(c, d)' = Stream(c, d)
      /\ unsent'[<<c, d>>] = unsent[<<c, d>>]
      /\ <<c, d>> \notin starved'
      /\ OthersSame(c, d) /\ LinkTypesKept
  BY <1>2, LinkRead
<1>4. ~Quiet(c, d)
  BY <1>2, <1>3, EmptyStream DEF Quiet
<1>5. Result(c)' = Result(c) /\ (ResultOK(c)' <=> ResultOK(c))
  BY <1>1, ResultUntouched
<1>6. ExchangeOK(c)'
  <2>1. CASE d = "up"
    <3>1. Quiet(c, "down") => Quiet(c, "down")'
      <4>1. LinkUntouched(c, "down")
        BY <1>3, <2>1, OthersUntouched, DirsDiffer DEF Dirs
      <4> QED
        BY <4>1, QuietUntouched
    <3>2. CASE Asking(c)
      <4>1. Asking(c)'
        BY <1>1, <1>3, <1>4, <2>1, <3>1, <3>2 DEF Asking
      <4> QED
        BY <4>1 DEF ExchangeOK
    <3>3. CASE Passing(c)
      <4>1. Passing(c)'
        BY <1>1, <1>3, <2>1, <3>1, <3>3 DEF Passing
      <4> QED
        BY <4>1 DEF ExchangeOK
    <3>4. CASE Leaving(c)
      <4>1. Leaving(c)'
        BY <1>1, <1>3, <1>4, <2>1, <3>1, <3>4 DEF Leaving
      <4> QED
        BY <4>1 DEF ExchangeOK
    <3>5. ~Typing(c) /\ ~Serving(c) /\ ~Answering(c)
      BY <1>4, <2>1 DEF Typing, Serving, Answering
    <3> QED
      BY <1>2, <3>2, <3>3, <3>4, <3>5 DEF ExchangeOK
  <2>2. CASE d = "down"
    <3>1. Quiet(c, "up") => Quiet(c, "up")'
      <4>1. LinkUntouched(c, "up")
        BY <1>3, <2>2, OthersUntouched, DirsDiffer DEF Dirs
      <4> QED
        BY <4>1, QuietUntouched
    <3>2. Answering(c)
      BY <1>2, <1>4, <2>2 DEF ExchangeOK, Typing, Asking, Passing, Serving, Leaving
    <3>3. Answering(c)'
      BY <1>1, <1>3, <1>5, <2>2, <3>1, <3>2 DEF Answering
    <3> QED
      BY <3>3 DEF ExchangeOK
  <2> QED
    BY <2>1, <2>2 DEF Dirs
<1> QED
  BY <1>1, <1>3, <1>6, LinkStep

(* Garbage is found only where something was cut: in a command that the    *)
(* thread will not get whole.                                              *)
LEMMA GarbageKeeps ==
  ASSUME IInv, PiecesAreNoElements, NEW c \in Clients, NEW d \in Dirs,
         fetchGarbage(c, d)
  PROVE  IInv'
<1>1. /\ UNCHANGED <<clientVars, threadVars, dbVars, server, issued, served>>
      /\ UNCHANGED <<at, command, missing, got, pc, header, elems, tuple, served>>
  BY DEF fetchGarbage, clientVars, threadVars
<1>2. TypeOK /\ ExchangeOK(c)
  BY DEF IInv
<1>3. /\ Stream(c, d) # << >> /\ Head(Stream(c, d)) = Garbage
      /\ Stream(c, d)' = Tail(Stream(c, d))
      /\ unsent'[<<c, d>>] = unsent[<<c, d>>]
      /\ OthersSame(c, d) /\ LinkTypesKept
  BY <1>2, LinkGarbage
<1>4. ~Quiet(c, d)
  BY <1>2, <1>3, EmptyStream DEF Quiet
<1>5. /\ unsent[<<c, d>>] \in Seq(Message) /\ Stream(c, d) \in Seq(Message)
      /\ elems[c] \in Seq(TupleElem \cup Pattern) /\ got[c] \in Seq(TupleElem)
  BY <1>2, LinkTypes DEF TypeOK
<1>6. \A op, s, rest : ~Announced(op, s, Stream(c, d), rest)
  <2> SUFFICES ASSUME NEW op, NEW s, NEW rest, Announced(op, s, Stream(c, d), rest)
               PROVE  FALSE
    OBVIOUS
  <2>1. Head(Stream(c, d)) = OperationMessage(op, Len(s))
    BY <1>3 DEF Announced
  <2> QED
    BY <1>3, <2>1, OtherMessages
<1>7. ~IsElement(Garbage)
  BY DEF Garbage, IsElement
<1>8. CASE Passing(c) /\ d = "up"
  <2>1. command[c] \in Request /\ Sendable(command[c].arg)
    BY <1>8, WhatIsSent DEF Passing
  <2>2. ~Intact(command[c].arg, elems[c], Stream(c, "up"), unsent[<<c, "up">>])
    BY <1>3, <1>5, <1>8, <2>1, IntactFetch, ElemMessageFields
  <2>3. Short(command[c].arg, elems[c], Stream(c, "up"), unsent[<<c, "up">>])
    BY <1>8, <2>2 DEF Passing
  <2>4. Short(command[c].arg, elems[c], Tail(Stream(c, "up")), unsent[<<c, "up">>])
    BY <1>3, <1>5, <1>7, <1>8, <2>1, <2>3, ShortFetch
  <2>5. Quiet(c, "down") => Quiet(c, "down")'
    <3>1. LinkUntouched(c, "down")
      BY <1>3, <1>8, OthersUntouched, DirsDiffer DEF Dirs
    <3> QED
      BY <3>1, QuietUntouched
  <2>6. Passing(c)'
    BY <1>1, <1>3, <1>8, <2>4, <2>5 DEF Passing
  <2>7. ExchangeOK(c)'
    BY <2>6 DEF ExchangeOK
  <2> QED
    BY <1>1, <1>3, <2>7, LinkStep
<1>9. CASE ~(Passing(c) /\ d = "up")
  <2>1. CASE d = "up"
    <3>1. Asking(c) \/ Leaving(c)
      BY <1>2, <1>4, <1>9, <2>1 DEF ExchangeOK, Typing, Serving, Answering
    <3>2. ~Asking(c)
      BY <1>4, <1>6, <2>1 DEF Asking
    <3>3. Stream(c, "up") = Goodbye
      BY <1>3, <1>4, <2>1, <3>1, <3>2 DEF Leaving
    <3>4. Head(Stream(c, "up")) = ConnectionMessage(FALSE)
      BY <3>3, GoodbyeProperties
    <3> QED
      BY <1>3, <2>1, <3>4, OtherMessages
  <2>2. CASE d = "down"
    <3>1. Answering(c)
      BY <1>2, <1>4, <2>2 DEF ExchangeOK, Typing, Asking, Passing, Serving, Leaving
    <3>2. Intact(Result(c), got[c], Stream(c, "down"), unsent[<<c, "down">>])
      BY <1>6, <2>2, <3>1 DEF Answering
    <3>3. Sendable(Result(c))
      BY <3>1, WhatIsSent DEF Answering
    <3> QED
      BY <1>3, <1>5, <2>2, <3>2, <3>3, IntactFetch, ElemMessageFields
  <2> QED
    BY <2>1, <2>2 DEF Dirs
<1> QED
  BY <1>8, <1>9

-----------------------------------------------------------------------------
(* The client                                                              *)

(* A step of one exchange leaves the others alone.                         *)
LEMMA OtherExchanges ==
  ASSUME IInv, NEW c \in Clients, ExchangeOK(c)',
         \A e \in Clients \ {c} :
           SidesUntouched(e) /\ LinkUntouched(e, "up") /\ LinkUntouched(e, "down")
  PROVE  \A e \in Clients : ExchangeOK(e)'
<1> SUFFICES ASSUME NEW e \in Clients PROVE ExchangeOK(e)'
  OBVIOUS
<1>1. CASE e = c
  BY <1>1
<1>2. CASE e # c
  BY <1>2, ExchangeUntouched DEF IInv
<1> QED
  BY <1>1, <1>2

(* A link on which nothing was under way before the sender began.          *)
LEMMA QuietStream ==
  ASSUME NEW c, NEW d, Quiet(c, d), fifo' = fifo, buffer' = buffer
  PROVE  Stream(c, d) = << >> /\ Stream(c, d)' = << >>
<1>1. << >> \o << >> = << >>
  BY EmptySeq, ConcatEmptySeq
<1> QED
  BY <1>1 DEF Quiet, Stream

LEMMA InitInv == Init => IInv
<1> SUFFICES ASSUME Init PROVE IInv
  OBVIOUS
<1> USE DEF Init
<1>1. << >> \in Seq(Message) /\ << >> \in Seq(TupleElem) /\ << >> \in Seq(Tuples)
      /\ << >> \in Seq(Clients) /\ << >> \in Seq(TupleElem \cup Pattern) /\ Len(<< >>) = 0
  BY EmptySeq
<1>2. OperationMessage(EXIT, 0) \in Message /\ OperationMessage(EXIT, 0).type = "operation"
  BY DEF OperationMessage, Message, EXIT
<1>3. NothingShown \in [kind : Kinds, tuple : Seq(TupleElem)]
  BY <1>1 DEF NothingShown, Kinds
<1>4. TypeOK
  <2>1. 0 \in Nat /\ 0 \in 0..MaxCommands
    BY SessionAssumption
  <2>2. /\ at \in [Clients -> {"prompt", "reply", "elements", "left", "killed"}]
        /\ command \in [Clients -> Request \cup {NoRequest}]
        /\ missing \in [Clients -> Nat]
        /\ got \in [Clients -> Seq(TupleElem)]
        /\ shown \in [Clients -> [kind : Kinds, tuple : Seq(TupleElem)]]
    BY <1>1, <1>3, <2>1
  <2>3. /\ unsent \in [Links -> Seq(Message)] /\ fifo \in [Links -> Seq(Message)]
        /\ buffer \in [Links -> Seq(Message)] /\ starved \subseteq Links
    BY <1>1
  <2>4. /\ pc \in [Clients -> {"main", "receive", "find", "wait", "blocked", "add", "scan",
                               "answer", "ended"}]
        /\ header \in [Clients -> Message]
        /\ \A c \in Clients : header[c].type = "operation"
        /\ elems \in [Clients -> Seq(TupleElem \cup Pattern)]
        /\ tuple \in [Clients -> Tuples \cup {<< >>}]
    BY <1>1, <1>2
  <2>5. /\ records \in Seq(Tuples) /\ waiting_threads_queue \in Seq(Clients)
        /\ server \in {"up", "terminated"} /\ issued \in 0..MaxCommands
        /\ served \subseteq Clients
    BY <1>1, <2>1
  <2> QED
    BY <2>2, <2>3, <2>4, <2>5 DEF TypeOK
<1>5. \A c \in Clients : ExchangeOK(c)
  <2> SUFFICES ASSUME NEW c \in Clients PROVE ExchangeOK(c)
    OBVIOUS
  <2>1. <<c, "up">> \in Links /\ <<c, "down">> \in Links
    BY DEF Links
  <2>2. Typing(c)
    BY <2>1 DEF Typing, Quiet
  <2> QED
    BY <2>2 DEF ExchangeOK
<1>6. StoreOK /\ QueueOK
  <2>1. 1..0 = {}
    OBVIOUS
  <2> QED
    BY <1>1, <2>1 DEF StoreOK, QueueOK
<1>7. ThrownOK /\ AnswersCommand
  BY DEF ThrownOK, AnswersCommand
<1> QED
  BY <1>4, <1>5, <1>6, <1>7 DEF IInv

(* A command is typed.                                                     *)
LEMMA CommandKeeps ==
  ASSUME IInv, PiecesAreNoElements, NEW c \in Clients, handleCommand(c)
  PROVE  IInv'
<1>1. PICK r \in Request :
        /\ at[c] = "prompt" /\ issued < MaxCommands
        /\ command' = [command EXCEPT ![c] = r]
        /\ unsent' = [unsent EXCEPT ![<<c, "up">>] = Sent(r.op, r.arg)]
        /\ at' = [at EXCEPT ![c] = "reply"]
        /\ issued' = issued + 1
        /\ UNCHANGED <<missing, got, shown, fifo, buffer, starved, pc, header, elems,
                       tuple, records, waiting_threads_queue, server, served>>
  BY DEF handleCommand, threadVars, dbVars
<1>2. TypeOK
  BY DEF IInv
<1>3. r.arg \in Tuples \cup Patterns /\ r.op \in HeadOps
  BY DEF Request, HeadOps, Ops, OP_LINDA_WRITE, OP_LINDA_READ, OP_LINDA_INPUT
<1>4. Sent(r.op, r.arg) \in Seq(Message) /\ Sent(r.op, r.arg) # << >>
  BY <1>3, ArgumentsAreSendable, SentProperties
<1>5. <<c, "up">> \in Links /\ <<c, "down">> \in Links
  BY DEF Links
<1>6. /\ at'[c] = "reply" /\ command'[c] = r
      /\ unsent'[<<c, "up">>] = Sent(r.op, r.arg)
      /\ unsent'[<<c, "down">>] = unsent[<<c, "down">>]
  BY <1>1, <1>2, <1>5, DirsDiffer DEF TypeOK
<1>7. Typing(c)
  BY <1>1 DEF IInv, ExchangeOK, Typing, Asking, Passing, Serving, Answering, Leaving
<1>8. ASSUME NEW e \in Clients \ {c}
      PROVE  SidesUntouched(e) /\ LinkUntouched(e, "up") /\ LinkUntouched(e, "down")
  <2>1. <<e, "up">> \in Links /\ <<e, "down">> \in Links
        /\ <<e, "up">> # <<c, "up">> /\ <<e, "down">> # <<c, "up">>
    BY DEF Links
  <2> QED
    BY <1>1, <1>2, <2>1 DEF TypeOK, SidesUntouched, LinkUntouched
<1>9. TypeOK'
  <2>1. issued' \in 0..MaxCommands
    BY <1>1, <1>2, SessionAssumption DEF TypeOK
  <2>2. unsent' \in [Links -> Seq(Message)]
    BY <1>1, <1>2, <1>4 DEF TypeOK
  <2>3. /\ at' \in [Clients -> {"prompt", "reply", "elements", "left", "killed"}]
        /\ command' \in [Clients -> Request \cup {NoRequest}]
    BY <1>1, <1>2 DEF TypeOK
  <2> QED
    BY <1>1, <1>2, <2>1, <2>2, <2>3 DEF TypeOK
<1>10. ExchangeOK(c)'
  <2>1. Stream(c, "up")' = << >>
    BY <1>1, <1>7, QuietStream DEF Typing
  <2>2. Announced(command'[c].op, command'[c].arg, Stream(c, "up")', unsent'[<<c, "up">>])
    BY <1>6, <2>1 DEF Announced
  <2>3. Quiet(c, "down")'
    BY <1>1, <1>6, <1>7 DEF Typing, Quiet
  <2>4. Asking(c)'
    BY <1>1, <1>6, <1>7, <2>2, <2>3 DEF Asking, Typing, Quiet
  <2> QED
    BY <2>4 DEF ExchangeOK
<1>11. \A e \in Clients : ExchangeOK(e)'
  BY <1>8, <1>10, OtherExchanges
<1>12. StoreOK' /\ QueueOK'
  BY <1>1 DEF IInv, StoreOK, QueueOK
<1>13. ThrownOK'
  <2>1. \A e \in Clients : pc[e] = "receive" => command'[e] = command[e]
    BY <1>7, <1>8 DEF Typing, SidesUntouched
  <2> QED
    BY <1>1, <2>1 DEF IInv, ThrownOK
<1>14. AnswersCommand'
  <2>1. \A e \in Clients : at'[e] = "prompt" => at[e] = "prompt" /\ command'[e] = command[e]
    BY <1>6, <1>8 DEF SidesUntouched
  <2> QED
    BY <1>1, <2>1 DEF IInv, AnswersCommand
<1> QED
  BY <1>9, <1>11, <1>12, <1>13, <1>14 DEF IInv

(* The client says goodbye.                                                *)
LEMMA DisconnectKeeps ==
  ASSUME IInv, NEW c \in Clients, disconnect(c)
  PROVE  IInv'
<1>1. /\ at[c] = "prompt"
      /\ unsent' = [unsent EXCEPT ![<<c, "up">>] = Goodbye]
      /\ at' = [at EXCEPT ![c] = "left"]
      /\ UNCHANGED <<command, missing, got, shown, fifo, buffer, starved, pc, header, elems,
                     tuple, records, waiting_threads_queue, server, issued, served>>
  BY DEF disconnect, threadVars, dbVars, Goodbye
<1>2. TypeOK
  BY DEF IInv
<1>3. <<c, "up">> \in Links /\ <<c, "down">> \in Links
  BY DEF Links
<1>4. /\ at'[c] = "left"
      /\ unsent'[<<c, "up">>] = Goodbye
      /\ unsent'[<<c, "down">>] = unsent[<<c, "down">>]
  BY <1>1, <1>2, <1>3, DirsDiffer DEF TypeOK
<1>5. Typing(c)
  BY <1>1 DEF IInv, ExchangeOK, Typing, Asking, Passing, Serving, Answering, Leaving
<1>6. ASSUME NEW e \in Clients \ {c}
      PROVE  SidesUntouched(e) /\ LinkUntouched(e, "up") /\ LinkUntouched(e, "down")
  <2>1. <<e, "up">> \in Links /\ <<e, "down">> \in Links
        /\ <<e, "up">> # <<c, "up">> /\ <<e, "down">> # <<c, "up">>
    BY DEF Links
  <2> QED
    BY <1>1, <1>2, <2>1 DEF TypeOK, SidesUntouched, LinkUntouched
<1>7. TypeOK'
  <2>1. unsent' \in [Links -> Seq(Message)]
    BY <1>1, <1>2, GoodbyeProperties DEF TypeOK
  <2>2. at' \in [Clients -> {"prompt", "reply", "elements", "left", "killed"}]
    BY <1>1, <1>2 DEF TypeOK
  <2> QED
    BY <1>1, <1>2, <2>1, <2>2 DEF TypeOK
<1>8. ExchangeOK(c)'
  <2>1. Stream(c, "up")' = << >>
    BY <1>1, <1>5, QuietStream DEF Typing
  <2>2. Quiet(c, "down")'
    BY <1>1, <1>4, <1>5 DEF Typing, Quiet
  <2>3. Leaving(c)'
    BY <1>1, <1>4, <1>5, <2>1, <2>2 DEF Leaving, Typing, Quiet
  <2> QED
    BY <2>3 DEF ExchangeOK
<1>9. \A e \in Clients : ExchangeOK(e)'
  BY <1>6, <1>8, OtherExchanges
<1>10. StoreOK' /\ QueueOK' /\ ThrownOK'
  BY <1>1 DEF IInv, StoreOK, QueueOK, ThrownOK
<1>11. AnswersCommand'
  <2>1. \A e \in Clients : at'[e] = "prompt" => at[e] = "prompt"
    BY <1>4, <1>6 DEF SidesUntouched
  <2> QED
    BY <1>1, <2>1 DEF IInv, AnswersCommand
<1> QED
  BY <1>7, <1>9, <1>10, <1>11 DEF IInv

(* The client is killed: what it has written is still on its way.          *)
LEMMA KillKeeps ==
  ASSUME IInv, PiecesAreNoElements, NEW c \in Clients, Kill(c)
  PROVE  IInv'
<1>1. /\ at[c] \in {"prompt", "reply", "elements"} \/ unsent[<<c, "up">>] # << >>
      /\ unsent' = [unsent EXCEPT ![<<c, "up">>] = << >>]
      /\ at' = [at EXCEPT ![c] = IF @ \in {"prompt", "left"} THEN "left" ELSE "killed"]
      /\ UNCHANGED <<command, missing, got, shown, fifo, buffer, starved, pc, header, elems,
                     tuple, records, waiting_threads_queue, server, issued, served>>
  BY DEF Kill, threadVars, dbVars
<1>2. TypeOK /\ ExchangeOK(c)
  BY DEF IInv
<1>3. <<c, "up">> \in Links /\ <<c, "down">> \in Links
  BY DEF Links
<1>4. /\ at'[c] = IF at[c] \in {"prompt", "left"} THEN "left" ELSE "killed"
      /\ unsent'[<<c, "up">>] = << >>
      /\ unsent'[<<c, "down">>] = unsent[<<c, "down">>]
  BY <1>1, <1>2, <1>3, DirsDiffer DEF TypeOK
<1>5. ASSUME NEW e \in Clients \ {c}
      PROVE  SidesUntouched(e) /\ LinkUntouched(e, "up") /\ LinkUntouched(e, "down")
  <2>1. <<e, "up">> \in Links /\ <<e, "down">> \in Links
        /\ <<e, "up">> # <<c, "up">> /\ <<e, "down">> # <<c, "up">>
    BY DEF Links
  <2> QED
    BY <1>1, <1>2, <2>1 DEF TypeOK, SidesUntouched, LinkUntouched
<1>6. TypeOK'
  <2>1. unsent' \in [Links -> Seq(Message)]
    BY <1>1, <1>2, EmptySeq DEF TypeOK
  <2>2. at' \in [Clients -> {"prompt", "reply", "elements", "left", "killed"}]
    BY <1>1, <1>2 DEF TypeOK
  <2> QED
    BY <1>1, <1>2, <2>1, <2>2 DEF TypeOK
<1>7. ExchangeOK(c)'
  <2>1. /\ Quiet(c, "down") => Quiet(c, "down")'
        /\ Quiet(c, "up") => Quiet(c, "up")'
        /\ Stream(c, "up")' = Stream(c, "up") /\ Stream(c, "down")' = Stream(c, "down")
    BY <1>1, <1>4 DEF Quiet, Stream
  <2>2. Result(c)' = Result(c) /\ (ResultOK(c)' <=> ResultOK(c))
    BY <1>1, ResultUntouched
  <2>3. /\ unsent[<<c, "up">>] \in Seq(Message) /\ Stream(c, "up") \in Seq(Message)
        /\ elems[c] \in Seq(TupleElem \cup Pattern)
        /\ << >> \in Seq(TupleElem)
        /\ (Tail(Stream(c, "up")) \in Seq(Message) \/ Stream(c, "up") = << >>)
    BY <1>2, LinkTypes, EmptySeq, HeadTailProperties DEF Dirs, TypeOK
  <2>4. CASE Typing(c)
    <3>1. Leaving(c)'
      BY <1>1, <1>4, <2>1, <2>4 DEF Typing, Leaving, Quiet
    <3> QED
      BY <3>1 DEF ExchangeOK
  <2>5. CASE Asking(c)
    <3>1. at'[c] = "killed"
      BY <1>4, <2>5 DEF Asking
    <3>2. \/ Stream(c, "up") = << >>
          \/ Announced(command[c].op, command[c].arg, Stream(c, "up"), << >>)
      <4>1. CASE Quiet(c, "up")
        <5>1. Stream(c, "up") = << >>
          BY <1>1, <4>1, QuietStream
        <5> QED
          BY <5>1
      <4>2. CASE /\ ~Quiet(c, "up") /\ Stream(c, "up") # << >>
        <5>1. /\ Announced(command[c].op, command[c].arg, Stream(c, "up"), unsent[<<c, "up">>])
              /\ Sendable(command[c].arg)
          BY <2>5, <4>2, WhatIsSent DEF Asking
        <5>2. /\ Head(Stream(c, "up")) = OperationMessage(command[c].op, Len(command[c].arg))
              /\ \/ Intact(command[c].arg, << >>, Tail(Stream(c, "up")), unsent[<<c, "up">>])
                 \/ Short(command[c].arg, << >>, Tail(Stream(c, "up")), unsent[<<c, "up">>])
          BY <4>2, <5>1, AnnouncedStream
        <5>3. \/ Intact(command[c].arg, << >>, Tail(Stream(c, "up")), << >>)
              \/ Short(command[c].arg, << >>, Tail(Stream(c, "up")), << >>)
          <6>1. << >> \in Seq(TupleElem) /\ Tail(Stream(c, "up")) \in Seq(Message)
            BY <2>3, <4>2
          <6> QED
            BY <2>3, <5>1, <5>2, <6>1, LinkKilled
        <5> QED
          BY <4>2, <5>2, <5>3, AnnouncedStream
      <4> QED
        BY <4>1, <4>2
    <3>3. CASE Stream(c, "up") = << >>
      <4>1. Quiet(c, "up")'
        <5>1. buffer[<<c, "up">>] = << >> /\ fifo[<<c, "up">>] = << >>
          BY <1>2, <3>3, EmptyStream DEF Dirs
        <5> QED
          BY <1>1, <1>4, <2>5, <5>1 DEF Quiet, Asking
      <4>2. Asking(c)'
        BY <1>1, <2>1, <2>5, <3>1, <4>1 DEF Asking
      <4> QED
        BY <4>2 DEF ExchangeOK
    <3>4. CASE Announced(command[c].op, command[c].arg, Stream(c, "up"), << >>)
      <4>1. Asking(c)'
        BY <1>1, <1>4, <2>1, <2>5, <3>1, <3>4 DEF Asking
      <4> QED
        BY <4>1 DEF ExchangeOK
    <3> QED
      BY <3>2, <3>3, <3>4
  <2>6. CASE Passing(c)
    <3>1. Sendable(command[c].arg)
      BY <2>6, WhatIsSent DEF Passing
    <3>2. \/ /\ Intact(command[c].arg, elems[c], Stream(c, "up"), << >>)
             /\ <<c, "up">> \notin starved
          \/ Short(command[c].arg, elems[c], Stream(c, "up"), << >>)
      BY <2>3, <2>6, <3>1, LinkKilled DEF Passing
    <3>3. Passing(c)'
      BY <1>1, <1>4, <2>1, <2>6, <3>2 DEF Passing
    <3> QED
      BY <3>3 DEF ExchangeOK
  <2>7. CASE Serving(c)
    <3>1. Serving(c)'
      BY <1>1, <1>4, <2>1, <2>2, <2>7 DEF Serving
    <3> QED
      BY <3>1 DEF ExchangeOK
  <2>8. CASE Answering(c)
    <3>1. Answering(c)'
      BY <1>1, <1>4, <2>1, <2>2, <2>8 DEF Answering
    <3> QED
      BY <3>1 DEF ExchangeOK
  <2>9. CASE Leaving(c)
    <3>1. unsent[<<c, "up">>] # << >> /\ Stream(c, "up") = << >>
      BY <1>1, <2>9 DEF Leaving, Quiet
    <3>2. buffer[<<c, "up">>] = << >> /\ fifo[<<c, "up">>] = << >>
      BY <1>2, <3>1, EmptyStream DEF Dirs
    <3>3. Quiet(c, "up")'
      BY <1>1, <1>4, <2>9, <3>2 DEF Quiet, Leaving
    <3>4. Leaving(c)'
      BY <1>1, <1>4, <2>1, <2>9, <3>3 DEF Leaving
    <3> QED
      BY <3>4 DEF ExchangeOK
  <2> QED
    BY <1>2, <2>4, <2>5, <2>6, <2>7, <2>8, <2>9 DEF ExchangeOK
<1>8. \A e \in Clients : ExchangeOK(e)'
  BY <1>5, <1>7, OtherExchanges
<1>9. StoreOK' /\ QueueOK' /\ ThrownOK'
  BY <1>1 DEF IInv, StoreOK, QueueOK, ThrownOK
<1>10. AnswersCommand'
  <2>1. \A e \in Clients : at'[e] = "prompt" => at[e] = "prompt"
    BY <1>4, <1>5 DEF SidesUntouched
  <2> QED
    BY <1>1, <2>1 DEF IInv, AnswersCommand
<1> QED
  BY <1>6, <1>8, <1>9, <1>10 DEF IInv

(* What both receiving actions of the client have in common.               *)
LEMMA ClientReceives ==
  ASSUME IInv, NEW c \in Clients, NEW m, Receives(c, "down", m),
         UNCHANGED <<command, pc, header, elems, tuple, records, waiting_threads_queue,
                     server, issued>>,
         at' \in [Clients -> {"prompt", "reply", "elements", "left", "killed"}],
         missing' \in [Clients -> Nat],
         got' \in [Clients -> Seq(TupleElem)],
         shown' \in [Clients -> [kind : Kinds, tuple : Seq(TupleElem)]],
         served' \in SUBSET Clients,
         \A e \in Clients \ {c} : /\ at'[e] = at[e] /\ missing'[e] = missing[e]
                                  /\ got'[e] = got[e] /\ shown'[e] = shown[e]
                                  /\ e \in served' <=> e \in served,
         ExchangeOK(c)',
         at'[c] = "prompt" =>
           \/ command[c].op = OP_LINDA_WRITE /\ shown'[c].kind = "written"
           \/ /\ command[c].op # OP_LINDA_WRITE
              /\ shown'[c].kind = "tuple" /\ shown'[c].tuple \in Tuples
              /\ isPatternEqualToTuple(command[c].arg, shown'[c].tuple)
  PROVE  IInv'
<1>1. TypeOK
  BY DEF IInv
<1>2. OthersSame(c, "down") /\ LinkTypesKept
  BY <1>1, LinkReceives DEF Dirs
<1>3. TypeOK'
  BY <1>1, <1>2 DEF TypeOK, LinkTypesKept
<1>4. ASSUME NEW e \in Clients \ {c}
      PROVE  SidesUntouched(e) /\ LinkUntouched(e, "up") /\ LinkUntouched(e, "down")
  <2>1. LinkUntouched(e, "up") /\ LinkUntouched(e, "down")
    BY <1>2, OthersUntouched DEF Dirs
  <2> QED
    BY <2>1 DEF SidesUntouched
<1>5. \A e \in Clients : ExchangeOK(e)'
  BY <1>4, OtherExchanges
<1>6. StoreOK' /\ QueueOK' /\ ThrownOK'
  BY DEF IInv, StoreOK, QueueOK, ThrownOK
<1>7. AnswersCommand'
  <2>1. ASSUME NEW e \in Clients, at'[e] = "prompt", command'[e] # NoRequest
        PROVE  \/ command'[e].op = OP_LINDA_WRITE /\ shown'[e].kind = "written"
               \/ /\ command'[e].op # OP_LINDA_WRITE
                  /\ shown'[e].kind = "tuple" /\ shown'[e].tuple \in Tuples
                  /\ isPatternEqualToTuple(command'[e].arg, shown'[e].tuple)
    <3>1. CASE e = c
      BY <2>1, <3>1
    <3>2. CASE e # c
      <4>1. at[e] = "prompt" /\ command[e] # NoRequest
            /\ shown'[e] = shown[e] /\ command'[e] = command[e]
        BY <2>1, <3>2
      <4> QED
        BY <4>1 DEF IInv, AnswersCommand
    <3> QED
      BY <3>1, <3>2
  <2> QED
    BY <2>1 DEF AnswersCommand
<1> QED
  BY <1>3, <1>5, <1>6, <1>7 DEF IInv

(* The thread has nothing under way while the client waits for its reply.  *)
LEMMA ClientWaits ==
  ASSUME IInv, PiecesAreNoElements, NEW c \in Clients, NEW m, Receives(c, "down", m),
         at[c] \in {"reply", "elements"}
  PROVE  /\ Answering(c) /\ AllWhole(Result(c)) /\ Sendable(Result(c))
         /\ Stream(c, "down") # << >> /\ m = Head(Stream(c, "down"))
         /\ Stream(c, "down") \in Seq(Message) /\ Tail(Stream(c, "down")) \in Seq(Message)
         /\ unsent[<<c, "down">>] \in Seq(Message)
         /\ Stream(c, "down")' = Tail(Stream(c, "down"))
         /\ unsent'[<<c, "down">>] = unsent[<<c, "down">>]
         /\ <<c, "down">> \notin starved'
         /\ Quiet(c, "up")'
         /\ Len(Result(c)) \in Nat
<1>1. TypeOK /\ ExchangeOK(c)
  BY DEF IInv
<1>2. /\ Stream(c, "down") # << >> /\ m = Head(Stream(c, "down"))
      /\ Stream(c, "down")' = Tail(Stream(c, "down"))
      /\ unsent'[<<c, "down">>] = unsent[<<c, "down">>]
      /\ starved' = starved /\ <<c, "down">> \notin starved
      /\ OthersSame(c, "down")
  BY <1>1, LinkReceives DEF Dirs
<1>3. unsent[<<c, "down">>] \in Seq(Message) /\ Stream(c, "down") \in Seq(Message)
  BY <1>1, LinkTypes DEF Dirs
<1>4. ~Quiet(c, "down")
  BY <1>1, <1>2, EmptyStream DEF Quiet, Dirs
<1>5. Answering(c)
  BY <1>1, <1>4 DEF ExchangeOK, Typing, Asking, Passing, Serving, Leaving
<1>6. AllWhole(Result(c)) /\ Sendable(Result(c))
  BY <1>5, WhatIsSent DEF Answering, ResultOK
<1>7. Tail(Stream(c, "down")) \in Seq(Message)
  BY <1>2, <1>3, HeadTailProperties
<1>8. Quiet(c, "up")'
  <2>1. LinkUntouched(c, "up")
    BY <1>2, OthersUntouched, DirsDiffer DEF Dirs
  <2> QED
    BY <1>5, <2>1, QuietUntouched DEF Answering
<1>9. Len(Result(c)) \in Nat
  BY <1>6, LenProperties DEF Sendable
<1> QED
  BY <1>2, <1>3, <1>5, <1>6, <1>7, <1>8, <1>9

(* The end of an exchange: the links are quiet again.                      *)
LEMMA ExchangeEnds ==
  ASSUME IInv, NEW c \in Clients, Answering(c),
         Quiet(c, "up")', LinkTypesKept, pc' = pc,
         Stream(c, "down")' = << >>, unsent'[<<c, "down">>] = << >>,
         <<c, "down">> \notin starved',
         at'[c] = "prompt", c \notin served'
  PROVE  ExchangeOK(c)'
<1>1. <<c, "down">> \in Links
  BY DEF Links
<1>2. buffer'[<<c, "down">>] \in Seq(Message) /\ fifo'[<<c, "down">>] \in Seq(Message)
  BY <1>1 DEF LinkTypesKept
<1>3. buffer'[<<c, "down">>] \o fifo'[<<c, "down">>] = << >>
  BY DEF Stream
<1>4. buffer'[<<c, "down">>] = << >> /\ fifo'[<<c, "down">>] = << >>
  BY <1>2, <1>3, ConcatEqualIffEmpty
<1>5. Quiet(c, "down")'
  BY <1>4 DEF Quiet
<1>6. Typing(c)'
  BY <1>5 DEF Typing, Answering
<1> QED
  BY <1>6 DEF ExchangeOK

(* The first message of a reply is its header: of a tuple to come, or of   *)
(* the confirmation of an output.                                          *)
LEMMA ReplyKeeps ==
  ASSUME IInv, PiecesAreNoElements, NEW c \in Clients, receiveReply(c)
  PROVE  IInv'
<1>1. PICK m \in ToSet(buffer[<<c, "down">>]) :
        /\ Receives(c, "down", m)
        /\ IF m.type = "operation" /\ m.op_type = OP_RETURN_RESULT /\ m.tuple_size > 0
           THEN /\ at' = [at EXCEPT ![c] = "elements"]
                /\ missing' = [missing EXCEPT ![c] = m.tuple_size]
                /\ got' = [got EXCEPT ![c] = << >>]
                /\ UNCHANGED <<shown, served>>
           ELSE /\ Shows(c, IF m.type # "operation" THEN "nothing"
                            ELSE IF m.op_type # OP_RETURN_RESULT THEN "error"
                            ELSE IF command[c].op = OP_LINDA_WRITE THEN "written"
                            ELSE "tuple", << >>)
                /\ UNCHANGED <<missing, got>>
  BY DEF receiveReply
<1>2. /\ at[c] = "reply"
      /\ UNCHANGED <<command, pc, header, elems, tuple, records, waiting_threads_queue,
                     server, issued>>
  BY DEF receiveReply, threadVars, dbVars
<1>3. TypeOK
  BY DEF IInv
<1> DEFINE stream == Stream(c, "down")
           rest == unsent[<<c, "down">>]
<1>4. /\ Answering(c) /\ AllWhole(Result(c)) /\ Sendable(Result(c))
      /\ stream # << >> /\ m = Head(stream)
      /\ stream \in Seq(Message) /\ Tail(stream) \in Seq(Message)
      /\ rest \in Seq(Message)
      /\ stream' = Tail(stream) /\ rest' = rest
      /\ <<c, "down">> \notin starved' /\ Quiet(c, "up")'
      /\ Len(Result(c)) \in Nat
  BY <1>1, <1>2, ClientWaits
<1>5. Announced(OP_RETURN_RESULT, Result(c), stream, rest)
  BY <1>2, <1>4 DEF Answering
<1>6. /\ m = OperationMessage(OP_RETURN_RESULT, Len(Result(c)))
      /\ Intact(Result(c), << >>, Tail(stream), rest)
  BY <1>4, <1>5, AnnouncedStream DEF Short
<1>7. /\ m.type = "operation" /\ m.op_type = OP_RETURN_RESULT
      /\ m.tuple_size = Len(Result(c))
  BY <1>6, OtherMessages
<1>8. Result(c)' = Result(c) /\ (ResultOK(c)' <=> ResultOK(c))
  BY <1>2, ResultUntouched
<1>9. << >> \in Seq(TupleElem) /\ Len(<< >>) = 0
  BY EmptySeq
<1>10. CASE Len(Result(c)) > 0
  <2>1. /\ at' = [at EXCEPT ![c] = "elements"]
        /\ missing' = [missing EXCEPT ![c] = Len(Result(c))]
        /\ got' = [got EXCEPT ![c] = << >>]
        /\ UNCHANGED <<shown, served>>
    BY <1>1, <1>7, <1>10
  <2>2. /\ at'[c] = "elements" /\ missing'[c] = Len(Result(c)) /\ got'[c] = << >>
    BY <1>3, <2>1 DEF TypeOK
  <2>3. missing'[c] + Len(got'[c]) = Len(Result(c)) /\ missing'[c] > 0
    BY <1>4, <1>9, <1>10, <2>2
  <2>4. Answering(c)'
    <3>1. Intact(Result(c)', got'[c], stream', rest')
      BY <1>4, <1>6, <1>8, <2>2
    <3>2. pc'[c] = "main" /\ c \in served' /\ command'[c] \in Request /\ ResultOK(c)'
      BY <1>2, <1>4, <1>8, <2>1 DEF Answering
    <3>3. missing'[c] > 0 /\ missing'[c] + Len(got'[c]) = Len(Result(c)')
      BY <1>8, <2>3
    <3>4. at'[c] = "elements" /\ <<c, "down">> \notin starved' /\ Quiet(c, "up")'
      BY <1>4, <2>2
    <3>5. Intact(Result(c)', got'[c], Stream(c, "down")', unsent'[<<c, "down">>])
      BY <3>1
    <3> HIDE DEF stream, rest
    <3> QED
      BY <3>2, <3>3, <3>4, <3>5 DEF Answering
  <2>5. ExchangeOK(c)'
    BY <2>4 DEF ExchangeOK
  <2>6. /\ at' \in [Clients -> {"prompt", "reply", "elements", "left", "killed"}]
        /\ missing' \in [Clients -> Nat]
        /\ got' \in [Clients -> Seq(TupleElem)]
        /\ shown' \in [Clients -> [kind : Kinds, tuple : Seq(TupleElem)]]
        /\ served' \in SUBSET Clients
    BY <1>3, <1>4, <1>9, <2>1 DEF TypeOK
  <2>7. \A e \in Clients \ {c} : /\ at'[e] = at[e] /\ missing'[e] = missing[e]
                                 /\ got'[e] = got[e] /\ shown'[e] = shown[e]
                                 /\ e \in served' <=> e \in served
    BY <1>3, <2>1 DEF TypeOK
  <2> QED
    BY <1>1, <1>2, <2>2, <2>5, <2>6, <2>7, ClientReceives
<1>11. CASE ~(Len(Result(c)) > 0)
  <2>1. Len(Result(c)) = 0
    BY <1>4, <1>11
  <2>2. command[c].op = OP_LINDA_WRITE
    <3>1. ASSUME command[c].op # OP_LINDA_WRITE PROVE FALSE
      <4>1. Result(c) \in Tuples
        BY <1>4, <3>1 DEF Answering, ResultOK, Result
      <4> QED
        BY <2>1, <4>1, ArgumentsAreSendable
    <3> QED
      BY <3>1
  <2>3. Shows(c, "written", << >>) /\ UNCHANGED <<missing, got>>
    BY <1>1, <1>7, <1>11, <2>2
  <2>4. /\ shown' = [shown EXCEPT ![c] = [kind |-> "written", tuple |-> << >>]]
        /\ at' = [at EXCEPT ![c] = "prompt"]
        /\ served' = served \ {c}
    BY <2>3 DEF Shows
  <2>5. at'[c] = "prompt" /\ shown'[c].kind = "written" /\ c \notin served'
    BY <1>3, <2>4 DEF TypeOK
  <2>6. Tail(stream) = << >> /\ rest = << >>
    <3>1. Result(c) \in Seq(TupleElem \cup Pattern) /\ << >> \in Seq(TupleElem \cup Pattern)
      BY <1>4, EmptySeq DEF Sendable
    <3>2. Len(<< >>) = Len(Result(c))
      BY <1>9, <2>1
    <3>3. Sendable(Result(c)) /\ Tail(stream) \in Seq(Message) /\ rest \in Seq(Message)
      BY <1>4
    <3>4. Intact(Result(c), << >>, Tail(stream), rest)
      BY <1>6
    <3> HIDE DEF stream, rest
    <3> QED
      BY <3>1, <3>2, <3>3, <3>4, IntactDone
  <2>7. ExchangeOK(c)'
    <3>1. LinkTypesKept
      BY <1>1, <1>3, LinkReceives DEF Dirs
    <3> QED
      BY <1>2, <1>4, <2>5, <2>6, <3>1, ExchangeEnds
  <2>8. /\ at' \in [Clients -> {"prompt", "reply", "elements", "left", "killed"}]
        /\ missing' \in [Clients -> Nat]
        /\ got' \in [Clients -> Seq(TupleElem)]
        /\ served' \in SUBSET Clients
    BY <1>3, <2>3, <2>4 DEF TypeOK
  <2>9. shown' \in [Clients -> [kind : Kinds, tuple : Seq(TupleElem)]]
    <3>1. [kind |-> "written", tuple |-> << >>] \in [kind : Kinds, tuple : Seq(TupleElem)]
      BY <1>9 DEF Kinds
    <3> QED
      BY <1>3, <2>4, <3>1 DEF TypeOK
  <2>10. \A e \in Clients \ {c} : /\ at'[e] = at[e] /\ missing'[e] = missing[e]
                                  /\ got'[e] = got[e] /\ shown'[e] = shown[e]
                                  /\ e \in served' <=> e \in served
    BY <1>3, <2>3, <2>4 DEF TypeOK
  <2> QED
    BY <1>1, <1>2, <2>2, <2>5, <2>7, <2>8, <2>9, <2>10, ClientReceives
<1> QED
  BY <1>10, <1>11

(* An element of the reply: the last one completes the tuple.              *)
LEMMA ElementKeeps ==
  ASSUME IInv, PiecesAreNoElements, NEW c \in Clients, receiveTuple(c)
  PROVE  IInv'
<1> DEFINE stream == Stream(c, "down")
           rest == unsent[<<c, "down">>]
           e == Result(c)[Len(got[c]) + 1]
           all == Append(got[c], e)
<1>1. PICK m \in ToSet(buffer[<<c, "down">>]) :
        /\ Receives(c, "down", m)
        /\ LET a == IF m.type = "elem" THEN Append(got[c], m.elem) ELSE << >> IN
           /\ got' = [got EXCEPT ![c] = a]
           /\ missing' = [missing EXCEPT ![c] = @ - 1]
           /\ IF m.type # "elem" THEN Shows(c, "error", << >>)
              ELSE IF missing[c] = 1 THEN Shows(c, "tuple", a)
              ELSE UNCHANGED <<shown, at, served>>
  BY DEF receiveTuple
<1>2. /\ at[c] = "elements"
      /\ UNCHANGED <<command, pc, header, elems, tuple, records, waiting_threads_queue,
                     server, issued>>
  BY DEF receiveTuple, threadVars, dbVars
<1>3. TypeOK
  BY DEF IInv
<1>4. /\ Answering(c) /\ AllWhole(Result(c)) /\ Sendable(Result(c))
      /\ stream # << >> /\ m = Head(stream)
      /\ stream \in Seq(Message) /\ Tail(stream) \in Seq(Message)
      /\ rest \in Seq(Message)
      /\ stream' = Tail(stream) /\ rest' = rest
      /\ <<c, "down">> \notin starved' /\ Quiet(c, "up")'
      /\ Len(Result(c)) \in Nat
  BY <1>1, <1>2, ClientWaits
<1>5. /\ missing[c] > 0 /\ missing[c] + Len(got[c]) = Len(Result(c))
      /\ Intact(Result(c), got[c], stream, rest)
  BY <1>2, <1>4 DEF Answering
<1>6. got[c] \in Seq(TupleElem) /\ Len(got[c]) \in Nat /\ missing[c] \in Nat
  BY <1>3, LenProperties DEF TypeOK
<1>7. /\ Len(got[c]) + 1 \in 1..Len(Result(c))
      /\ m = ElemMessage(e)
      /\ e \in TupleElem => Intact(Result(c), all, Tail(stream), rest)
  BY <1>4, <1>5, <1>6, IntactFetch
<1>8. command[c].op # OP_LINDA_WRITE /\ Result(c) = tuple[c] /\ tuple[c] \in Tuples
      /\ isPatternEqualToTuple(command[c].arg, tuple[c]) /\ Result(c) \in Seq(TupleElem)
  <2>1. command[c].op # OP_LINDA_WRITE
    <3>1. ASSUME command[c].op = OP_LINDA_WRITE PROVE FALSE
      <4>1. Len(Result(c)) = 0
        BY <3>1, EmptySeq DEF Result
      <4> QED
        BY <1>7, <4>1
    <3> QED
      BY <3>1
  <2> QED
    BY <1>4, <2>1, SessionAssumption DEF Result, Answering, ResultOK
<1>9. e \in TupleElem
  BY <1>7, <1>8, ElementOfSeq
<1>10. m.type = "elem" /\ m.elem = e
  BY <1>7, <1>9, ElemMessageType
<1>11. /\ all \in Seq(TupleElem) /\ Len(all) = Len(got[c]) + 1
  BY <1>6, <1>9, AppendProperties
<1>12. /\ got' = [got EXCEPT ![c] = all]
       /\ missing' = [missing EXCEPT ![c] = @ - 1]
       /\ IF missing[c] = 1 THEN Shows(c, "tuple", all) ELSE UNCHANGED <<shown, at, served>>
  BY <1>1, <1>10
<1> HIDE DEF all, e
<1>13. /\ got'[c] = all /\ missing'[c] = missing[c] - 1
       /\ missing' \in [Clients -> Nat] /\ got' \in [Clients -> Seq(TupleElem)]
       /\ \A d \in Clients \ {c} : missing'[d] = missing[d] /\ got'[d] = got[d]
  BY <1>3, <1>5, <1>6, <1>11, <1>12 DEF TypeOK
<1>14. Result(c)' = Result(c) /\ (ResultOK(c)' <=> ResultOK(c))
  BY <1>2, ResultUntouched
<1>15. Intact(Result(c), all, Tail(stream), rest)
  BY <1>7, <1>9
<1>16. CASE missing[c] = 1
  <2>1. /\ shown' = [shown EXCEPT ![c] = [kind |-> "tuple", tuple |-> all]]
        /\ at' = [at EXCEPT ![c] = "prompt"]
        /\ served' = served \ {c}
    BY <1>12, <1>16 DEF Shows
  <2>2. at'[c] = "prompt" /\ shown'[c] = [kind |-> "tuple", tuple |-> all] /\ c \notin served'
    BY <1>3, <2>1 DEF TypeOK
  <2>3. Len(all) = Len(Result(c))
    BY <1>5, <1>6, <1>11, <1>16
  <2>4. Tail(stream) = << >> /\ rest = << >> /\ all = Result(c)
    <3>1. /\ Result(c) \in Seq(TupleElem) /\ all \in Seq(TupleElem) /\ Sendable(Result(c))
          /\ Tail(stream) \in Seq(Message) /\ rest \in Seq(Message)
      BY <1>4, <1>8, <1>11
    <3> HIDE DEF stream, rest
    <3> QED
      BY <1>15, <2>3, <3>1, IntactDone
  <2>5. ExchangeOK(c)'
    <3>1. LinkTypesKept
      BY <1>1, <1>3, LinkReceives DEF Dirs
    <3> QED
      BY <1>2, <1>4, <2>2, <2>4, <3>1, ExchangeEnds
  <2>6. shown' \in [Clients -> [kind : Kinds, tuple : Seq(TupleElem)]]
    <3>1. [kind |-> "tuple", tuple |-> all] \in [kind : Kinds, tuple : Seq(TupleElem)]
      BY <1>11 DEF Kinds
    <3> QED
      BY <1>3, <2>1, <3>1 DEF TypeOK
  <2>7. /\ at' \in [Clients -> {"prompt", "reply", "elements", "left", "killed"}]
        /\ served' \in SUBSET Clients
        /\ \A d \in Clients \ {c} : /\ at'[d] = at[d] /\ shown'[d] = shown[d]
                                    /\ d \in served' <=> d \in served
    BY <1>3, <2>1 DEF TypeOK
  <2>8. shown'[c].kind = "tuple" /\ shown'[c].tuple = tuple[c]
    BY <1>8, <2>2, <2>4
  <2> QED
    BY <1>1, <1>2, <1>8, <1>13, <2>5, <2>6, <2>7, <2>8, ClientReceives
<1>17. CASE missing[c] # 1
  <2>1. UNCHANGED <<shown, at, served>>
    BY <1>12, <1>17
  <2>2. missing'[c] > 0 /\ missing'[c] + Len(got'[c]) = Len(Result(c))
    <3>1. missing[c] > 0 /\ missing[c] + Len(got[c]) = Len(Result(c))
      BY <1>5
    <3>2. Len(got'[c]) = Len(got[c]) + 1 /\ missing'[c] = missing[c] - 1
      BY <1>11, <1>13
    <3>3. missing[c] \in Nat /\ Len(got[c]) \in Nat
      BY <1>6
    <3>4. missing[c] - 1 > 0 /\ (missing[c] - 1) + (Len(got[c]) + 1) = missing[c] + Len(got[c])
      BY <1>17, <3>1, <3>3
    <3> QED
      BY <3>1, <3>2, <3>4
  <2>3. Answering(c)'
    <3>1. Intact(Result(c)', got'[c], stream', rest')
      BY <1>4, <1>13, <1>14, <1>15
    <3>2. pc'[c] = "main" /\ c \in served' /\ command'[c] \in Request /\ ResultOK(c)'
      BY <1>2, <1>4, <1>14, <2>1 DEF Answering
    <3> QED
      BY <1>2, <1>4, <1>14, <2>1, <2>2, <3>1, <3>2 DEF Answering
  <2>4. ExchangeOK(c)'
    BY <2>3 DEF ExchangeOK
  <2>5. /\ at' \in [Clients -> {"prompt", "reply", "elements", "left", "killed"}]
        /\ shown' \in [Clients -> [kind : Kinds, tuple : Seq(TupleElem)]]
        /\ served' \in SUBSET Clients
        /\ \A d \in Clients \ {c} : /\ at'[d] = at[d] /\ shown'[d] = shown[d]
                                    /\ d \in served' <=> d \in served
    BY <1>3, <2>1 DEF TypeOK
  <2>6. at'[c] # "prompt"
    BY <1>2, <2>1
  <2> QED
    BY <1>1, <1>2, <1>13, <2>4, <2>5, <2>6, ClientReceives
<1> QED
  BY <1>16, <1>17

-----------------------------------------------------------------------------
(* The thread receives                                                     *)

(* A dropped message leaves what is short so, whatever it was.             *)
LEMMA ShortDrop ==
  ASSUME NEW sent, Sendable(sent), NEW R, NEW received \in Seq(R),
         NEW stream \in Seq(Message), NEW rest \in Seq(Message), stream # << >>,
         Short(sent, received, stream, rest)
  PROVE  Short(sent, received, Tail(stream), rest)
<1>1. /\ Len(sent) \in Nat /\ Len(received) \in Nat /\ Len(rest) \in Nat
  BY LinkLengths
<1>2. Elements(stream) \in Nat /\ Elements(Tail(stream)) \in Nat
  BY HeadTailProperties, PlacesAreFinite
<1>3. Elements(Tail(stream)) <= Elements(stream)
  <2>1. Elements(stream)
          = Elements(Tail(stream)) + (IF IsElement(Head(stream)) THEN 1 ELSE 0)
    BY OneMessageLess
  <2> QED
    BY <1>2, <2>1
<1>4. Len(received) + Elements(stream) + Len(rest) < Len(sent)
  BY DEF Short
<1>5. Len(received) + Elements(Tail(stream)) + Len(rest) < Len(sent)
  BY <1>1, <1>2, <1>3, <1>4
<1> QED
  BY <1>5 DEF Short

(* The messages of the two kinds of elements.                              *)
LEMMA MessageElements ==
  ASSUME NEW m \in Message, m.type \in {"elem", "pattern"}
  PROVE  m.elem \in TupleElem \cup Pattern
<1>1. Garbage.type = "garbage"
  BY DEF Garbage
<1>2. m \in [type : {"elem"}, elem : TupleElem] \cup [type : {"pattern"}, elem : Pattern]
  <2>1. m \notin [type : {"operation"}, op_type : Ops \cup {OP_RETURN_RESULT, EXIT},
                  tuple_size : Int]
    OBVIOUS
  <2>2. m \notin [type : {"connection"}, connect : BOOLEAN]
    OBVIOUS
  <2>3. m # Garbage
    BY <1>1
  <2> QED
    BY <2>1, <2>2, <2>3 DEF Message
<1> QED
  BY <1>2

(* What both receiving actions of the thread have in common.               *)
LEMMA ThreadReceives ==
  ASSUME IInv, NEW c \in Clients, NEW m, Receives(c, "up", m),
         UNCHANGED <<at, command, missing, got, shown, tuple, records,
                     waiting_threads_queue, issued, served>>,
         pc' \in [Clients -> {"main", "receive", "find", "wait", "blocked", "add", "scan",
                              "answer", "ended"}],
         header' \in [Clients -> Message],
         elems' \in [Clients -> Seq(TupleElem \cup Pattern)],
         server' \in {"up", "terminated"},
         header'[c].type = "operation",
         \A e \in Clients \ {c} : /\ pc'[e] = pc[e] /\ header'[e] = header[e]
                                  /\ elems'[e] = elems[e],
         pc[c] # "blocked", pc'[c] # "scan",
         ExchangeOK(c)', ThrownOK'
  PROVE  IInv'
<1>1. TypeOK
  BY DEF IInv
<1>2. OthersSame(c, "up") /\ LinkTypesKept
  BY <1>1, LinkReceives DEF Dirs
<1>3. TypeOK'
  BY <1>1, <1>2 DEF TypeOK, LinkTypesKept
<1>4. ASSUME NEW e \in Clients \ {c}
      PROVE  SidesUntouched(e) /\ LinkUntouched(e, "up") /\ LinkUntouched(e, "down")
  <2>1. LinkUntouched(e, "up") /\ LinkUntouched(e, "down")
    BY <1>2, OthersUntouched DEF Dirs
  <2> QED
    BY <2>1 DEF SidesUntouched
<1>5. \A e \in Clients : ExchangeOK(e)'
  BY <1>4, OtherExchanges
<1>6. StoreOK' /\ AnswersCommand'
  BY DEF IInv, StoreOK, AnswersCommand
<1>7. QueueOK'
  <2>1. \A i \in 1..Len(waiting_threads_queue) :
          waiting_threads_queue[i] \in Clients /\ pc[waiting_threads_queue[i]] = "blocked"
    BY <1>1, ElementOfSeq DEF IInv, QueueOK, TypeOK
  <2>2. \A i \in 1..Len(waiting_threads_queue) : pc'[waiting_threads_queue[i]] = "blocked"
    BY <2>1
  <2>3. \A d \in Clients : pc'[d] = "scan" => pc[d] = "scan"
    OBVIOUS
  <2> QED
    BY <2>2, <2>3 DEF IInv, QueueOK
<1> QED
  BY <1>3, <1>5, <1>6, <1>7 DEF IInv

(* The link of a thread that has received.                                 *)
LEMMA ThreadLink ==
  ASSUME IInv, NEW c \in Clients, NEW m, Receives(c, "up", m)
  PROVE  /\ ExchangeOK(c) /\ ~Quiet(c, "up") /\ server = "up"
         /\ Stream(c, "up") # << >> /\ m = Head(Stream(c, "up"))
         /\ m \in Message
         /\ Stream(c, "up") \in Seq(Message) /\ Tail(Stream(c, "up")) \in Seq(Message)
         /\ unsent[<<c, "up">>] \in Seq(Message)
         /\ elems[c] \in Seq(TupleElem \cup Pattern)
         /\ Stream(c, "up")' = Tail(Stream(c, "up"))
         /\ unsent'[<<c, "up">>] = unsent[<<c, "up">>]
         /\ <<c, "up">> \notin starved'
         /\ Quiet(c, "down") => Quiet(c, "down")'
<1>1. TypeOK /\ ExchangeOK(c)
  BY DEF IInv
<1>2. /\ Stream(c, "up") # << >> /\ m = Head(Stream(c, "up")) /\ m \in Message
      /\ Stream(c, "up")' = Tail(Stream(c, "up"))
      /\ unsent'[<<c, "up">>] = unsent[<<c, "up">>]
      /\ starved' = starved /\ <<c, "up">> \notin starved
      /\ OthersSame(c, "up")
  BY <1>1, LinkReceives DEF Dirs
<1>3. /\ unsent[<<c, "up">>] \in Seq(Message) /\ Stream(c, "up") \in Seq(Message)
      /\ elems[c] \in Seq(TupleElem \cup Pattern)
  BY <1>1, LinkTypes DEF Dirs, TypeOK
<1>4. ~Quiet(c, "up")
  BY <1>1, <1>2, EmptyStream DEF Quiet, Dirs
<1>5. Tail(Stream(c, "up")) \in Seq(Message)
  BY <1>2, <1>3, HeadTailProperties
<1>6. Quiet(c, "down") => Quiet(c, "down")'
  <2>1. LinkUntouched(c, "down")
    BY <1>2, OthersUntouched, DirsDiffer DEF Dirs
  <2> QED
    BY <2>1, QuietUntouched
<1>7. server = "up"
  BY DEF Receives, Receiving
<1> QED
  BY <1>1, <1>2, <1>3, <1>4, <1>5, <1>6, <1>7

(* The last message of a link has been received.                           *)
LEMMA LinkEmptied ==
  ASSUME IInv, NEW c \in Clients, NEW m, Receives(c, "up", m),
         Tail(Stream(c, "up")) = << >>, unsent[<<c, "up">>] = << >>
  PROVE  Quiet(c, "up")'
<1>1. LinkTypesKept
  BY LinkReceives DEF IInv, Dirs
<1>2. <<c, "up">> \in Links
  BY DEF Links
<1>3. /\ buffer'[<<c, "up">>] \in Seq(Message) /\ fifo'[<<c, "up">>] \in Seq(Message)
      /\ buffer'[<<c, "up">>] \o fifo'[<<c, "up">>] = << >>
  BY <1>1, <1>2, ThreadLink DEF LinkTypesKept, Stream
<1>4. buffer'[<<c, "up">>] = << >> /\ fifo'[<<c, "up">>] = << >>
  BY <1>3, ConcatEqualIffEmpty
<1> QED
  BY <1>4, ThreadLink DEF Quiet

(* The loop gets a header, or the goodbye.                                 *)
LEMMA LoopKeeps ==
  ASSUME IInv, PiecesAreNoElements, NEW c \in Clients, mainLoop(c)
  PROVE  IInv'
<1> DEFINE stream == Stream(c, "up")
           rest == unsent[<<c, "up">>]
<1>1. PICK m \in ToSet(buffer[<<c, "up">>]) :
        /\ Receives(c, "up", m)
        /\ GoTo(c, "main", Dispatch(m))
        /\ header' = [header EXCEPT ![c] = IF m.type = "operation" THEN m ELSE @]
  BY DEF mainLoop
<1>2. /\ elems' = [elems EXCEPT ![c] = << >>]
      /\ UNCHANGED <<at, command, missing, got, shown, tuple, records,
                     waiting_threads_queue, server, issued, served>>
  BY DEF mainLoop, clientVars, dbVars
<1>3. pc[c] = "main" /\ pc' = [pc EXCEPT ![c] = Dispatch(m)]
  BY <1>1 DEF GoTo
<1>4. /\ ExchangeOK(c) /\ ~Quiet(c, "up") /\ server = "up"
      /\ stream # << >> /\ m = Head(stream) /\ m \in Message
      /\ stream \in Seq(Message) /\ Tail(stream) \in Seq(Message)
      /\ rest \in Seq(Message)
      /\ stream' = Tail(stream) /\ rest' = rest
      /\ <<c, "up">> \notin starved'
      /\ Quiet(c, "down") => Quiet(c, "down")'
  BY <1>1, ThreadLink
<1>5. Dispatch(m) \in {"ended", "receive", "main"}
  BY DEF Dispatch
<1>6. TypeOK /\ << >> \in Seq(TupleElem \cup Pattern) /\ Len(<< >>) = 0
  BY EmptySeq DEF IInv
<1>7. /\ pc'[c] = Dispatch(m) /\ elems'[c] = << >>
      /\ header'[c] = IF m.type = "operation" THEN m ELSE header[c]
      /\ header'[c].type = "operation"
  BY <1>1, <1>2, <1>3, <1>6 DEF TypeOK
<1>8. /\ pc' \in [Clients -> {"main", "receive", "find", "wait", "blocked", "add", "scan",
                              "answer", "ended"}]
      /\ header' \in [Clients -> Message]
      /\ elems' \in [Clients -> Seq(TupleElem \cup Pattern)]
      /\ server' \in {"up", "terminated"}
  BY <1>1, <1>2, <1>3, <1>4, <1>5, <1>6 DEF TypeOK
<1>9. \A e \in Clients \ {c} : /\ pc'[e] = pc[e] /\ header'[e] = header[e]
                               /\ elems'[e] = elems[e]
  BY <1>1, <1>2, <1>3, <1>6 DEF TypeOK
<1>10. ThrownOK'
  BY <1>2, <1>4 DEF ThrownOK
<1>11. CASE Asking(c)
  <2>1. /\ Announced(command[c].op, command[c].arg, stream, rest)
        /\ command[c] \in Request
    BY <1>4, <1>11 DEF Asking
  <2>2. /\ m = OperationMessage(command[c].op, Len(command[c].arg))
        /\ \/ Intact(command[c].arg, << >>, Tail(stream), rest)
           \/ Short(command[c].arg, << >>, Tail(stream), rest)
    BY <1>4, <2>1, AnnouncedStream
  <2>3. /\ m.type = "operation" /\ m.op_type = command[c].op
    BY <2>2, OtherMessages
  <2>4. command[c].op \in Ops
    BY <2>1 DEF Request, Ops, OP_LINDA_WRITE, OP_LINDA_READ, OP_LINDA_INPUT
  <2>5. Dispatch(m) = "receive"
    BY <2>3, <2>4 DEF Dispatch
  <2>6. Len(<< >>) < Len(command[c].arg)
    BY <1>6, <2>1, WhatIsSent
  <2>7. \/ Intact(command'[c].arg, elems'[c], Stream(c, "up")', unsent'[<<c, "up">>])
        \/ Short(command'[c].arg, elems'[c], Stream(c, "up")', unsent'[<<c, "up">>])
    BY <1>2, <1>4, <1>7, <2>2
  <2>8. /\ at'[c] \in {"reply", "killed"} /\ pc'[c] = "receive" /\ c \notin served'
        /\ Quiet(c, "down")' /\ command'[c] \in Request
        /\ header'[c] = OperationMessage(command'[c].op, Len(command'[c].arg))
        /\ Len(elems'[c]) < Len(command'[c].arg)
        /\ <<c, "up">> \notin starved'
    BY <1>2, <1>4, <1>7, <1>11, <2>1, <2>2, <2>3, <2>5, <2>6 DEF Asking
  <2> HIDE DEF stream, rest
  <2>9. Passing(c)'
    BY <2>7, <2>8 DEF Passing
  <2>10. ExchangeOK(c)' /\ pc'[c] # "scan" /\ pc[c] # "blocked"
    BY <1>3, <2>8, <2>9 DEF ExchangeOK
  <2> QED
    BY <1>1, <1>2, <1>7, <1>8, <1>9, <1>10, <2>10, ThreadReceives
<1>12. CASE Leaving(c)
  <2>1. stream = Goodbye /\ rest = << >>
    BY <1>4, <1>12 DEF Leaving
  <2>2. m = ConnectionMessage(FALSE) /\ Tail(stream) = << >>
    BY <1>4, <2>1, GoodbyeProperties
  <2>3. Dispatch(m) = "ended"
    BY <2>2, OtherMessages DEF Dispatch
  <2>4. Quiet(c, "up")'
    BY <1>1, <2>1, <2>2, LinkEmptied
  <2>5. Leaving(c)'
    BY <1>2, <1>4, <1>7, <1>12, <2>3, <2>4 DEF Leaving
  <2>6. ExchangeOK(c)' /\ pc'[c] # "scan" /\ pc[c] # "blocked"
    BY <1>3, <1>7, <2>3, <2>5 DEF ExchangeOK
  <2> QED
    BY <1>1, <1>2, <1>7, <1>8, <1>9, <1>10, <2>6, ThreadReceives
<1>13. ~Typing(c) /\ ~Passing(c) /\ ~Serving(c) /\ ~Answering(c)
  BY <1>3, <1>4 DEF Typing, Passing, Serving, Answering
<1> QED
  BY <1>4, <1>11, <1>12, <1>13 DEF ExchangeOK

(* The types of the elements that a command sends.                         *)
LEMMA WantedMessages ==
  ASSUME PiecesAreNoElements, NEW r \in Request, NEW i \in 1..Len(r.arg)
  PROVE  /\ r.arg[i] \in TupleElem \cup Pattern
         /\ ElemMessage(r.arg[i]).type = WantedType(r.op)
<1>1. CASE r \in [op : {OP_LINDA_WRITE}, arg : Tuples]
  <2>1. r.arg \in Seq(TupleElem) /\ r.op = OP_LINDA_WRITE
    BY <1>1, SessionAssumption
  <2>2. r.arg[i] \in TupleElem
    BY <2>1, ElementOfSeq
  <2> QED
    BY <2>1, <2>2, ElemMessageType DEF WantedType
<1>2. CASE r \in [op : {OP_LINDA_READ, OP_LINDA_INPUT}, arg : Patterns]
  <2>1. r.arg \in Seq(Pattern) /\ r.op # OP_LINDA_WRITE
    BY <1>2, SessionAssumption DEF OP_LINDA_WRITE, OP_LINDA_READ, OP_LINDA_INPUT
  <2>2. r.arg[i] \in Pattern
    BY <2>1, ElementOfSeq
  <2> QED
    BY <2>1, <2>2, ElemMessageType DEF WantedType
<1> QED
  BY <1>1, <1>2 DEF Request

(* What a thread that waits for an element knows.                          *)
LEMMA ThreadWaits ==
  ASSUME IInv, PiecesAreNoElements, NEW c \in Clients, NEW m, Receives(c, "up", m),
         pc[c] = "receive"
  PROVE  /\ Passing(c) /\ command[c] \in Request /\ Sendable(command[c].arg)
         /\ header[c].op_type = command[c].op
         /\ header[c].tuple_size = Len(command[c].arg)
         /\ Len(command[c].arg) \in Nat /\ Len(elems[c]) \in Nat
         /\ Len(elems[c]) + 1 <= Len(command[c].arg)
         /\ \/ /\ Intact(command[c].arg, elems[c], Stream(c, "up"), unsent[<<c, "up">>])
               /\ m = ElemMessage(command[c].arg[Len(elems[c]) + 1])
               /\ m.type = WantedType(command[c].op)
               /\ m.elem = command[c].arg[Len(elems[c]) + 1]
               /\ \A e \in TupleElem \cup Pattern : e = m.elem =>
                    Intact(command[c].arg, Append(elems[c], e), Tail(Stream(c, "up")),
                           unsent[<<c, "up">>])
            \/ Short(command[c].arg, elems[c], Stream(c, "up"), unsent[<<c, "up">>])
<1> DEFINE stream == Stream(c, "up")
           rest == unsent[<<c, "up">>]
           arg == command[c].arg
<1>1. /\ ExchangeOK(c) /\ stream # << >> /\ m = Head(stream)
      /\ stream \in Seq(Message) /\ rest \in Seq(Message)
      /\ elems[c] \in Seq(TupleElem \cup Pattern)
  BY ThreadLink
<1>2. Passing(c)
  BY <1>1 DEF ExchangeOK, Typing, Asking, Passing, Serving, Answering, Leaving
<1>3. /\ command[c] \in Request /\ header[c] = OperationMessage(command[c].op, Len(arg))
      /\ Len(elems[c]) < Len(arg)
      /\ Intact(arg, elems[c], stream, rest) \/ Short(arg, elems[c], stream, rest)
  BY <1>2 DEF Passing
<1>4. Sendable(arg) /\ Len(arg) \in Nat /\ Len(elems[c]) \in Nat
  BY <1>1, <1>3, WhatIsSent, LenProperties
<1>5. header[c].op_type = command[c].op /\ header[c].tuple_size = Len(arg)
  BY <1>3, OtherMessages
<1>6. ASSUME Intact(arg, elems[c], stream, rest)
      PROVE  /\ m = ElemMessage(arg[Len(elems[c]) + 1])
             /\ m.type = WantedType(command[c].op)
             /\ m.elem = arg[Len(elems[c]) + 1]
             /\ \A e \in TupleElem \cup Pattern : e = m.elem =>
                  Intact(arg, Append(elems[c], e), Tail(stream), rest)
  <2> HIDE DEF stream, rest, arg
  <2>1. /\ Len(elems[c]) + 1 \in 1..Len(arg)
        /\ m = ElemMessage(arg[Len(elems[c]) + 1])
        /\ \A e \in TupleElem \cup Pattern : e = arg[Len(elems[c]) + 1] =>
             Intact(arg, Append(elems[c], e), Tail(stream), rest)
    BY <1>1, <1>4, <1>6, IntactFetch
  <2>2. m.elem = arg[Len(elems[c]) + 1]
    BY <2>1, ElemMessageFields
  <2>3. m.type = WantedType(command[c].op)
    BY <1>3, <2>1, WantedMessages DEF arg
  <2> QED
    BY <2>1, <2>2, <2>3
<1> HIDE DEF stream, rest, arg
<1>7. Len(elems[c]) + 1 <= Len(arg)
  BY <1>3, <1>4
<1> QED
  BY <1>2, <1>3, <1>4, <1>5, <1>6, <1>7 DEF stream, rest, arg

(* An element of a command: the last one completes its argument.           *)
LEMMA ElemKeeps ==
  ASSUME IInv, PiecesAreNoElements, NEW c \in Clients, receiveElem(c)
  PROVE  IInv'
<1> DEFINE stream == Stream(c, "up")
           rest == unsent[<<c, "up">>]
           arg == command[c].arg
           op == command[c].op
<1>1. PICK m \in ToSet(buffer[<<c, "up">>]) :
        /\ Receives(c, "up", m)
        /\ m.type = WantedType(header[c].op_type)
        /\ elems' = [elems EXCEPT ![c] = Append(@, m.elem)]
  BY DEF receiveElem
<1>2. /\ GoTo(c, "receive",
              IF Len(elems[c]) + 1 < header[c].tuple_size THEN "receive"
              ELSE IF header[c].op_type = OP_LINDA_WRITE THEN "add" ELSE "find")
      /\ UNCHANGED <<at, command, missing, got, shown, header, tuple, records,
                     waiting_threads_queue, server, issued, served>>
  BY DEF receiveElem, clientVars, dbVars
<1>3. pc[c] = "receive"
  BY <1>2 DEF GoTo
<1>4. /\ ExchangeOK(c) /\ server = "up"
      /\ stream # << >> /\ m = Head(stream) /\ m \in Message
      /\ stream \in Seq(Message) /\ Tail(stream) \in Seq(Message)
      /\ rest \in Seq(Message)
      /\ elems[c] \in Seq(TupleElem \cup Pattern)
      /\ stream' = Tail(stream) /\ rest' = rest
      /\ <<c, "up">> \notin starved'
      /\ Quiet(c, "down") => Quiet(c, "down")'
  BY <1>1, ThreadLink
<1>5. /\ Passing(c) /\ command[c] \in Request /\ Sendable(arg)
      /\ header[c].op_type = op /\ header[c].tuple_size = Len(arg)
      /\ Len(arg) \in Nat /\ Len(elems[c]) \in Nat /\ Len(elems[c]) + 1 <= Len(arg)
      /\ \/ \A e \in TupleElem \cup Pattern : e = m.elem =>
              Intact(arg, Append(elems[c], e), Tail(stream), rest)
         \/ Short(arg, elems[c], stream, rest)
  BY <1>1, <1>3, ThreadWaits
<1>6. m.elem \in TupleElem \cup Pattern /\ m.type \in {"elem", "pattern"}
  <2>1. m.type \in {"elem", "pattern"}
    BY <1>1 DEF WantedType
  <2> QED
    BY <1>4, <2>1, MessageElements
<1> DEFINE all == Append(elems[c], m.elem)
<1>7. all \in Seq(TupleElem \cup Pattern) /\ Len(all) = Len(elems[c]) + 1
  BY <1>4, <1>6, AppendProperties
<1>8. \/ Intact(arg, all, Tail(stream), rest)
      \/ /\ Short(arg, all, Tail(stream), rest)
         /\ Len(elems[c]) + 1 < Len(arg)
  <2>1. CASE Short(arg, elems[c], stream, rest)
    <3>1. IsElement(Head(stream))
      BY <1>4, <1>6 DEF IsElement
    <3> HIDE DEF stream, rest, arg
    <3> QED
      BY <1>4, <1>5, <1>6, <2>1, <3>1, ShortFetch
  <2>2. CASE \A e \in TupleElem \cup Pattern : e = m.elem =>
               Intact(arg, Append(elems[c], e), Tail(stream), rest)
    BY <1>6, <2>2
  <2> QED
    BY <1>5, <2>1, <2>2
<1> HIDE DEF all
<1>9. elems' = [elems EXCEPT ![c] = all]
  BY <1>1 DEF all
<1>10. TypeOK
  BY DEF IInv
<1> DEFINE to == IF Len(elems[c]) + 1 < Len(arg) THEN "receive"
                 ELSE IF op = OP_LINDA_WRITE THEN "add" ELSE "find"
<1>11. pc' = [pc EXCEPT ![c] = to] /\ to \in {"receive", "add", "find"}
  BY <1>2, <1>5 DEF GoTo
<1> HIDE DEF to
<1>12. /\ pc'[c] = to /\ elems'[c] = all
       /\ pc' \in [Clients -> {"main", "receive", "find", "wait", "blocked", "add", "scan",
                               "answer", "ended"}]
       /\ elems' \in [Clients -> Seq(TupleElem \cup Pattern)]
       /\ \A e \in Clients \ {c} : pc'[e] = pc[e] /\ elems'[e] = elems[e]
  BY <1>7, <1>9, <1>10, <1>11 DEF TypeOK
<1>13. /\ header' \in [Clients -> Message] /\ header'[c].type = "operation"
       /\ server' \in {"up", "terminated"}
       /\ \A e \in Clients \ {c} : header'[e] = header[e]
       /\ pc[c] # "blocked" /\ pc'[c] # "scan"
       /\ ThrownOK'
  BY <1>2, <1>3, <1>4, <1>10, <1>11, <1>12 DEF TypeOK, ThrownOK
<1>14. CASE Len(elems[c]) + 1 < Len(arg)
  <2>1. pc'[c] = "receive"
    BY <1>12, <1>14 DEF to
  <2>2. /\ at'[c] \in {"reply", "killed"} /\ c \notin served'
        /\ Quiet(c, "down")' /\ command'[c] \in Request
        /\ header'[c] = OperationMessage(command'[c].op, Len(command'[c].arg))
        /\ Len(elems'[c]) < Len(command'[c].arg)
        /\ <<c, "up">> \notin starved'
    BY <1>2, <1>4, <1>5, <1>7, <1>12, <1>14 DEF Passing
  <2>3. \/ Intact(command'[c].arg, elems'[c], Stream(c, "up")', unsent'[<<c, "up">>])
        \/ Short(command'[c].arg, elems'[c], Stream(c, "up")', unsent'[<<c, "up">>])
    BY <1>2, <1>4, <1>8, <1>12
  <2> HIDE DEF stream, rest, arg
  <2>4. Passing(c)'
    BY <2>1, <2>2, <2>3 DEF Passing
  <2>5. ExchangeOK(c)'
    BY <2>4 DEF ExchangeOK
  <2> QED
    BY <1>1, <1>2, <1>12, <1>13, <2>5, ThreadReceives
<1>15. CASE ~(Len(elems[c]) + 1 < Len(arg))
  <2>1. Len(all) = Len(arg) /\ Intact(arg, all, Tail(stream), rest)
    BY <1>5, <1>7, <1>8, <1>15
  <2>2. arg \in Seq(TupleElem \cup Pattern)
    BY <1>5 DEF Sendable
  <2>3. Tail(stream) = << >> /\ rest = << >> /\ all = arg /\ AllWhole(arg)
    <3> HIDE DEF stream, rest, arg
    <3> QED
      BY <1>4, <1>5, <1>7, <2>1, <2>2, IntactDone
  <2>4. Quiet(c, "up")'
    BY <1>1, <2>3, LinkEmptied
  <2>5. /\ at'[c] \in {"reply", "killed"} /\ c \notin served'
        /\ Quiet(c, "down")' /\ command'[c] \in Request
        /\ header'[c] = OperationMessage(command'[c].op, Len(command'[c].arg))
    BY <1>2, <1>4, <1>5 DEF Passing
  <2>6. elems'[c] = command'[c].arg /\ AllWhole(elems'[c])
    BY <1>2, <1>12, <2>3
  <2>7. \/ pc'[c] = "find" /\ command'[c].op # OP_LINDA_WRITE
        \/ pc'[c] = "add" /\ command'[c].op = OP_LINDA_WRITE
    BY <1>2, <1>12, <1>15 DEF to
  <2> HIDE DEF stream, rest, arg, op
  <2>8. Serving(c)'
    BY <2>4, <2>5, <2>6, <2>7 DEF Serving
  <2>9. ExchangeOK(c)'
    BY <2>8 DEF ExchangeOK
  <2> QED
    BY <1>1, <1>2, <1>12, <1>13, <2>9, ThreadReceives
<1> QED
  BY <1>14, <1>15

(* A message of another type comes only where something was cut.           *)
LEMMA ThrowKeeps ==
  ASSUME IInv, PiecesAreNoElements, NEW c \in Clients, receiveThrows(c)
  PROVE  IInv'
<1> DEFINE stream == Stream(c, "up")
           rest == unsent[<<c, "up">>]
           arg == command[c].arg
<1>1. PICK m \in ToSet(buffer[<<c, "up">>]) :
        Receives(c, "up", m) /\ m.type # WantedType(header[c].op_type)
  BY DEF receiveThrows
<1>2. /\ pc[c] = "receive" /\ server' = "terminated"
      /\ UNCHANGED <<at, command, missing, got, shown, pc, header, elems, tuple, records,
                     waiting_threads_queue, issued, served>>
  BY DEF receiveThrows, clientVars, threadVars, dbVars
<1>3. /\ stream # << >>
      /\ stream \in Seq(Message) /\ rest \in Seq(Message)
      /\ elems[c] \in Seq(TupleElem \cup Pattern)
      /\ stream' = Tail(stream) /\ rest' = rest
      /\ Quiet(c, "down") => Quiet(c, "down")'
  BY <1>1, ThreadLink
<1>4. /\ Passing(c) /\ Sendable(arg)
      /\ Short(arg, elems[c], stream, rest)
  BY <1>1, <1>2, ThreadWaits
<1>5. Short(arg, elems[c], Tail(stream), rest) /\ ~AllWhole(arg)
  BY <1>3, <1>4, ShortDrop DEF Short
<1>6. Passing(c)'
  BY <1>2, <1>3, <1>4, <1>5 DEF Passing
<1>7. ExchangeOK(c)'
  BY <1>6 DEF ExchangeOK
<1>8. ThrownOK'
  BY <1>2, <1>5 DEF ThrownOK
<1>9. TypeOK
  BY DEF IInv
<1>10. /\ pc' \in [Clients -> {"main", "receive", "find", "wait", "blocked", "add", "scan",
                               "answer", "ended"}]
       /\ header' \in [Clients -> Message] /\ header'[c].type = "operation"
       /\ elems' \in [Clients -> Seq(TupleElem \cup Pattern)]
       /\ pc'[c] # "scan" /\ pc[c] # "blocked" /\ server' \in {"up", "terminated"}
  BY <1>2, <1>9 DEF TypeOK
<1> QED
  BY <1>1, <1>2, <1>7, <1>8, <1>10, ThreadReceives

-----------------------------------------------------------------------------
(* The thread serves its command                                           *)

(* What the steps of a thread inside the database have in common.          *)
LEMMA ThreadWorks ==
  ASSUME IInv, server = "up",
         UNCHANGED <<at, command, missing, got, shown, unsent, fifo, buffer, starved,
                     header, elems, server, issued>>,
         pc' \in [Clients -> {"main", "receive", "find", "wait", "blocked", "add", "scan",
                              "answer", "ended"}],
         tuple' \in [Clients -> Tuples \cup {<< >>}],
         records' \in Seq(Tuples), waiting_threads_queue' \in Seq(Clients),
         served' \in SUBSET Clients,
         \A e \in Clients : \/ ExchangeOK(e)'
                            \/ /\ pc'[e] = pc[e] /\ tuple'[e] = tuple[e]
                               /\ e \in served' <=> e \in served,
         StoreOK', QueueOK'
  PROVE  IInv'
<1>1. TypeOK'
  BY DEF IInv, TypeOK
<1>2. ASSUME NEW e \in Clients PROVE ExchangeOK(e)'
  <2>1. CASE /\ pc'[e] = pc[e] /\ tuple'[e] = tuple[e]
             /\ e \in served' <=> e \in served
    <3>1. SidesUntouched(e) /\ LinkUntouched(e, "up") /\ LinkUntouched(e, "down")
      BY <2>1 DEF SidesUntouched, LinkUntouched
    <3> QED
      BY <3>1, ExchangeUntouched DEF IInv
  <2> QED
    BY <2>1
<1>3. ThrownOK' /\ AnswersCommand'
  BY DEF IInv, ThrownOK, AnswersCommand
<1> QED
  BY <1>1, <1>2, <1>3 DEF IInv

(* A thread that serves goes on to serve.                                  *)
LEMMA ServingStep ==
  ASSUME NEW c, Serving(c),
         UNCHANGED <<at, command, unsent, fifo, buffer, starved, header, elems>>,
         c \in served' <=> pc'[c] \in {"scan", "answer"},
         \/ pc'[c] \in {"find", "wait", "blocked"} /\ command[c].op # OP_LINDA_WRITE
         \/ pc'[c] \in {"add", "scan"} /\ command[c].op = OP_LINDA_WRITE
         \/ pc'[c] = "answer" /\ ResultOK(c)'
  PROVE  ExchangeOK(c)'
<1>1. /\ Quiet(c, "up")' <=> Quiet(c, "up")
      /\ Quiet(c, "down")' <=> Quiet(c, "down")
  BY DEF Quiet
<1>2. Serving(c)'
  BY <1>1 DEF Serving
<1> QED
  BY <1>2 DEF ExchangeOK

(* Where a thread stands says what it serves.                              *)
LEMMA ServingPlaces ==
  ASSUME IInv, NEW c \in Clients,
         pc[c] \in {"find", "wait", "blocked", "add", "scan", "answer"}
  PROVE  /\ Serving(c) /\ command[c] \in Request /\ elems[c] = command[c].arg
         /\ header[c].op_type = command[c].op
         /\ AllWhole(elems[c])
         /\ c \in served <=> pc[c] \in {"scan", "answer"}
         /\ pc[c] \in {"find", "wait", "blocked"} => command[c].op # OP_LINDA_WRITE
         /\ pc[c] \in {"add", "scan"} =>
              command[c].op = OP_LINDA_WRITE /\ elems[c] \in Tuples
         /\ pc[c] = "answer" => ResultOK(c)
<1>1. ExchangeOK(c)
  BY DEF IInv
<1>2. Serving(c)
  BY <1>1 DEF ExchangeOK, Typing, Asking, Passing, Serving, Answering, Leaving
<1>3. /\ command[c] \in Request /\ elems[c] = command[c].arg
      /\ header[c] = OperationMessage(command[c].op, Len(command[c].arg))
      /\ AllWhole(elems[c])
      /\ c \in served <=> pc[c] \in {"scan", "answer"}
      /\ pc[c] \in {"find", "wait", "blocked"} => command[c].op # OP_LINDA_WRITE
      /\ pc[c] \in {"add", "scan"} => command[c].op = OP_LINDA_WRITE
      /\ pc[c] = "answer" => ResultOK(c)
  BY <1>2 DEF Serving
<1>4. header[c].op_type = command[c].op
  BY <1>3, OtherMessages
<1>5. command[c].op = OP_LINDA_WRITE => command[c].arg \in Tuples
  BY <1>3 DEF Request, OP_LINDA_WRITE, OP_LINDA_READ, OP_LINDA_INPUT
<1> QED
  BY <1>2, <1>3, <1>4, <1>5

(* An output has no result to get right.                                   *)
LEMMA OutputResult ==
  ASSUME NEW c, command'[c] = command[c], command[c].op = OP_LINDA_WRITE
  PROVE  ResultOK(c)'
<1>1. Result(c)' = << >>
  BY DEF Result
<1> QED
  BY <1>1, EmptyIsSendable DEF ResultOK

(* The search returns a tuple that matches.                                *)
LEMMA FoundMatches ==
  ASSUME NEW c, Len(records) \in Nat, Found(c) # 0
  PROVE  /\ Found(c) \in 1..Len(records)
         /\ isPatternEqualToTuple(elems[c], records[Found(c)])
<1> DEFINE I == {i \in 1..Len(records) : isPatternEqualToTuple(elems[c], records[i])}
<1>1. Found(c) = IF I # {} THEN Min(I) ELSE 0
  BY DEF Found, SelectInSeq
<1>2. I \in SUBSET Nat
  OBVIOUS
<1> HIDE DEF I
<1>3. Found(c) \in I
  BY <1>1, <1>2, MinInSet
<1> QED
  BY <1>3 DEF I

(* The scan passes the tuple to a waiter that it matches.                  *)
LEMMA WaiterMatches ==
  ASSUME NEW c, Len(waiting_threads_queue) \in Nat, FirstWaiter(c) # 0
  PROVE  /\ FirstWaiter(c) \in 1..Len(waiting_threads_queue)
         /\ isPatternEqualToTuple(elems[waiting_threads_queue[FirstWaiter(c)]], elems[c])
<1> DEFINE I == {i \in 1..Len(waiting_threads_queue) :
                   isPatternEqualToTuple(elems[waiting_threads_queue[i]], elems[c])}
<1>1. FirstWaiter(c) = IF I # {} THEN Min(I) ELSE 0
  BY DEF FirstWaiter, SelectInSeq
<1>2. I \in SUBSET Nat
  OBVIOUS
<1> HIDE DEF I
<1>3. FirstWaiter(c) \in I
  BY <1>1, <1>2, MinInSet
<1> QED
  BY <1>3 DEF I

(* The queue and the places of the threads in it.                          *)
LEMMA QueueTypes ==
  ASSUME IInv
  PROVE  /\ waiting_threads_queue \in Seq(Clients) /\ Len(waiting_threads_queue) \in Nat
         /\ \A i \in 1..Len(waiting_threads_queue) :
              /\ waiting_threads_queue[i] \in Clients
              /\ pc[waiting_threads_queue[i]] = "blocked"
         /\ \A i, j \in 1..Len(waiting_threads_queue) :
              waiting_threads_queue[i] = waiting_threads_queue[j] => i = j
         /\ \A c, d \in Clients : pc[c] = "scan" /\ pc[d] = "scan" => c = d
         /\ records \in Seq(Tuples) /\ Len(records) \in Nat
<1>1. waiting_threads_queue \in Seq(Clients) /\ records \in Seq(Tuples)
  BY DEF IInv, TypeOK
<1>2. Len(waiting_threads_queue) \in Nat /\ Len(records) \in Nat
  BY <1>1, LenProperties
<1>3. \A i \in 1..Len(waiting_threads_queue) : waiting_threads_queue[i] \in Clients
  BY <1>1, ElementOfSeq
<1> QED
  BY <1>1, <1>2, <1>3 DEF IInv, QueueOK

(* A step of a thread that is not blocked, and does not go to scan, leaves *)
(* the queue in order.                                                     *)
LEMMA QueueKept ==
  ASSUME IInv, NEW c \in Clients, pc[c] # "blocked",
         waiting_threads_queue' = waiting_threads_queue,
         \A e \in Clients \ {c} : pc'[e] = pc[e],
         pc'[c] = "scan" => pc[c] = "scan" \/ \A e \in Clients : pc[e] # "scan"
  PROVE  QueueOK'
<1>1. \A i \in 1..Len(waiting_threads_queue) : pc'[waiting_threads_queue[i]] = "blocked"
  BY QueueTypes
<1>2. \A d, e \in Clients : pc'[d] = "scan" /\ pc'[e] = "scan" => d = e
  BY QueueTypes
<1> QED
  BY <1>1, <1>2, QueueTypes DEF QueueOK

LEMMA FindKeeps ==
  ASSUME IInv, PiecesAreNoElements, NEW c \in Clients, findTuple(c)
  PROVE  IInv'
<1> DEFINE i == Found(c)
<1>1. /\ server = "up" /\ pc[c] = "find" /\ pc' = [pc EXCEPT ![c] = "answer"]
      /\ i # 0
      /\ tuple' = [tuple EXCEPT ![c] = records[i]]
      /\ records' = IF header[c].op_type = OP_LINDA_INPUT
                    THEN RemoveAt(records, i) ELSE records
      /\ served' = served \cup {c}
      /\ UNCHANGED <<at, command, missing, got, shown, unsent, fifo, buffer, starved,
                     header, elems, waiting_threads_queue, server, issued>>
  BY DEF findTuple, GoTo, clientVars, linkVars
<1>2. TypeOK /\ StoreOK
  BY DEF IInv
<1>3. /\ i \in 1..Len(records) /\ isPatternEqualToTuple(elems[c], records[i])
  BY <1>1, QueueTypes, FoundMatches
<1> HIDE DEF i
<1>4. /\ Serving(c) /\ elems[c] = command[c].arg /\ command[c].op # OP_LINDA_WRITE
  BY <1>1, ServingPlaces
<1>5. records[i] \in Tuples /\ AllWhole(records[i])
  BY <1>2, <1>3 DEF StoreOK
<1>6. pc'[c] = "answer" /\ tuple'[c] = records[i] /\ c \in served'
  BY <1>1, <1>2 DEF TypeOK
<1>7. ResultOK(c)'
  <2>1. Result(c)' = records[i]
    BY <1>1, <1>4, <1>6 DEF Result
  <2> QED
    BY <1>1, <1>3, <1>4, <1>5, <1>6, <2>1 DEF ResultOK
<1>8. ExchangeOK(c)'
  BY <1>1, <1>4, <1>6, <1>7, ServingStep
<1>9. records' \in Seq(Tuples) /\ StoreOK'
  <2>1. CASE header[c].op_type = OP_LINDA_INPUT
    <3>1. records \in Seq(Tuples) /\ Len(records) \in Nat
      BY QueueTypes
    <3>2. records' = RemoveAt(records, i)
      BY <1>1, <2>1
    <3>3. records' \in Seq(Tuples) /\ Len(records') = Len(records) - 1
      BY <1>3, <3>1, <3>2, RemoveAtProperties
    <3>4. \A j \in 1..(Len(records) - 1) : \E k \in 1..Len(records) : records'[j] = records[k]
      BY <1>3, <3>1, <3>2, RemoveAtOrigin
    <3>5. \A j, k \in 1..(Len(records) - 1) : records'[j] = records'[k] => j = k
      <4>1. \A j, k \in 1..Len(records) : records[j] = records[k] => j = k
        BY <1>2 DEF StoreOK
      <4> QED
        BY <1>3, <3>1, <3>2, <4>1, RemoveAtDistinct
    <3>6. \A j \in 1..Len(records') : records'[j] \in Tuples /\ AllWhole(records'[j])
      BY <1>2, <3>3, <3>4 DEF StoreOK
    <3> QED
      BY <3>3, <3>5, <3>6 DEF StoreOK
  <2>2. CASE header[c].op_type # OP_LINDA_INPUT
    BY <1>1, <1>2, <2>2 DEF TypeOK, StoreOK
  <2> QED
    BY <2>1, <2>2
<1>10. /\ pc' \in [Clients -> {"main", "receive", "find", "wait", "blocked", "add", "scan",
                               "answer", "ended"}]
       /\ tuple' \in [Clients -> Tuples \cup {<< >>}]
       /\ served' \in SUBSET Clients
       /\ waiting_threads_queue' \in Seq(Clients)
       /\ \A e \in Clients \ {c} : /\ pc'[e] = pc[e] /\ tuple'[e] = tuple[e]
                                   /\ e \in served' <=> e \in served
  BY <1>1, <1>2, <1>5 DEF TypeOK
<1>11. QueueOK'
  BY <1>1, <1>6, <1>10, QueueKept
<1> QED
  BY <1>1, <1>8, <1>9, <1>10, <1>11, ThreadWorks

LEMMA FindNothingKeeps ==
  ASSUME IInv, NEW c \in Clients, findNothing(c)
  PROVE  IInv'
<1>1. /\ server = "up" /\ pc[c] = "find" /\ pc' = [pc EXCEPT ![c] = "wait"]
      /\ UNCHANGED <<at, command, missing, got, shown, unsent, fifo, buffer, starved,
                     header, elems, tuple, records, waiting_threads_queue, server, issued,
                     served>>
  BY DEF findNothing, GoTo, clientVars, linkVars, dbVars
<1>2. TypeOK
  BY DEF IInv
<1>3. pc'[c] = "wait" /\ c \notin served /\ Serving(c) /\ command[c].op # OP_LINDA_WRITE
  BY <1>1, <1>2, ServingPlaces DEF TypeOK
<1>4. ExchangeOK(c)'
  BY <1>1, <1>3, ServingStep
<1>5. /\ pc' \in [Clients -> {"main", "receive", "find", "wait", "blocked", "add", "scan",
                              "answer", "ended"}]
      /\ \A e \in Clients \ {c} : pc'[e] = pc[e]
      /\ tuple' \in [Clients -> Tuples \cup {<< >>}]
      /\ records' \in Seq(Tuples) /\ waiting_threads_queue' \in Seq(Clients)
      /\ served' \in SUBSET Clients
  BY <1>1, <1>2 DEF TypeOK
<1>6. QueueOK' /\ StoreOK'
  <2>1. QueueOK'
    BY <1>1, <1>3, <1>5, QueueKept
  <2> QED
    BY <1>1, <2>1 DEF IInv, StoreOK
<1> QED
  BY <1>1, <1>4, <1>5, <1>6, ThreadWorks

LEMMA WaitKeeps ==
  ASSUME IInv, NEW c \in Clients, waitForTuple(c)
  PROVE  IInv'
<1>1. /\ server = "up" /\ pc[c] = "wait" /\ pc' = [pc EXCEPT ![c] = "blocked"]
      /\ waiting_threads_queue' = Append(waiting_threads_queue, c)
      /\ UNCHANGED <<at, command, missing, got, shown, unsent, fifo, buffer, starved,
                     header, elems, tuple, records, server, issued, served>>
  BY DEF waitForTuple, GoTo, clientVars, linkVars
<1>2. TypeOK
  BY DEF IInv
<1>3. pc'[c] = "blocked" /\ c \notin served /\ Serving(c) /\ command[c].op # OP_LINDA_WRITE
  BY <1>1, <1>2, ServingPlaces DEF TypeOK
<1>4. ExchangeOK(c)'
  BY <1>1, <1>3, ServingStep
<1> DEFINE q == waiting_threads_queue
<1>5. /\ q' \in Seq(Clients) /\ Len(q') = Len(q) + 1
      /\ \A i \in 1..Len(q) : q'[i] = q[i]
      /\ q'[Len(q) + 1] = c
  BY <1>1, <1>2, AppendProperties DEF TypeOK
<1>6. /\ pc' \in [Clients -> {"main", "receive", "find", "wait", "blocked", "add", "scan",
                              "answer", "ended"}]
      /\ \A e \in Clients \ {c} : pc'[e] = pc[e]
      /\ tuple' \in [Clients -> Tuples \cup {<< >>}]
      /\ records' \in Seq(Tuples)
      /\ served' \in SUBSET Clients
  BY <1>1, <1>2 DEF TypeOK
<1>7. QueueOK'
  <2>1. \A i \in 1..Len(q) : q[i] \in Clients /\ pc[q[i]] = "blocked" /\ q[i] # c
    BY <1>1, QueueTypes
  <2>2. Len(q) \in Nat /\ \A i, j \in 1..Len(q) : q[i] = q[j] => i = j
    BY QueueTypes
  <2> HIDE DEF q
  <2>3. \A i \in 1..Len(q') : i = Len(q) + 1 \/ i \in 1..Len(q)
    BY <1>5, <2>2
  <2>4. \A i \in 1..Len(q') : pc'[q'[i]] = "blocked"
    BY <1>3, <1>5, <1>6, <2>1, <2>3
  <2>5. ASSUME NEW i \in 1..Len(q'), NEW j \in 1..Len(q'), q'[i] = q'[j]
        PROVE  i = j
    BY <1>5, <2>1, <2>2, <2>3, <2>5
  <2>6. \A d, e \in Clients : pc'[d] = "scan" /\ pc'[e] = "scan" => d = e
    BY <1>3, <1>6, QueueTypes
  <2> QED
    BY <2>4, <2>5, <2>6 DEF QueueOK, q
<1>8. StoreOK'
  BY <1>1 DEF IInv, StoreOK
<1> QED
  BY <1>1, <1>4, <1>5, <1>6, <1>7, <1>8, ThreadWorks

LEMMA AddKeeps ==
  ASSUME IInv, NEW c \in Clients, addTupleToDB(c)
  PROVE  IInv'
<1>1. /\ server = "up" /\ pc[c] = "add" /\ pc' = [pc EXCEPT ![c] = "scan"]
      /\ \A e \in Clients : pc[e] # "scan"
      /\ served' = served \cup {c}
      /\ UNCHANGED <<at, command, missing, got, shown, unsent, fifo, buffer, starved,
                     header, elems, tuple, records, waiting_threads_queue, server, issued>>
  BY DEF addTupleToDB, QueueIsFree, GoTo, clientVars, linkVars, dbVars
<1>2. TypeOK
  BY DEF IInv
<1>3. pc'[c] = "scan" /\ c \in served' /\ Serving(c) /\ command[c].op = OP_LINDA_WRITE
  BY <1>1, <1>2, ServingPlaces DEF TypeOK
<1>4. ExchangeOK(c)'
  BY <1>1, <1>3, ServingStep
<1>5. /\ pc' \in [Clients -> {"main", "receive", "find", "wait", "blocked", "add", "scan",
                              "answer", "ended"}]
      /\ tuple' \in [Clients -> Tuples \cup {<< >>}]
      /\ records' \in Seq(Tuples) /\ waiting_threads_queue' \in Seq(Clients)
      /\ served' \in SUBSET Clients
      /\ \A e \in Clients \ {c} : /\ pc'[e] = pc[e] /\ tuple'[e] = tuple[e]
                                  /\ e \in served' <=> e \in served
  BY <1>1, <1>2 DEF TypeOK
<1>6. QueueOK'
  BY <1>1, <1>5, QueueKept
<1>7. StoreOK'
  BY <1>1 DEF IInv, StoreOK
<1> QED
  BY <1>1, <1>4, <1>5, <1>6, <1>7, ThreadWorks

(* Two threads move: the one that scans and the waiter that it serves.     *)
LEMMA InformKeeps ==
  ASSUME IInv, NEW c \in Clients, informWaitingThreads(c)
  PROVE  IInv'
<1>1. PICK i \in 1..Len(waiting_threads_queue) :
        i = FirstWaiter(c) /\ isPatternEqualToTuple(elems[waiting_threads_queue[i]], elems[c])
  <2>1. FirstWaiter(c) # 0
    BY DEF informWaitingThreads
  <2> QED
    BY <2>1, QueueTypes, WaiterMatches
<1>2. PICK w \in Clients : w = waiting_threads_queue[i] /\ pc[w] = "blocked"
  BY QueueTypes
<1>3. PICK to \in {"answer", "scan"} :
        to = IF header[w].op_type = OP_LINDA_INPUT THEN "answer" ELSE "scan"
  OBVIOUS
<1>4. /\ server = "up" /\ pc[c] = "scan"
      /\ tuple' = [tuple EXCEPT ![w] = elems[c]]
      /\ waiting_threads_queue' = RemoveAt(waiting_threads_queue, i)
      /\ pc' = [pc EXCEPT ![w] = "answer", ![c] = to]
      /\ served' = served \cup {w}
      /\ UNCHANGED <<at, command, missing, got, shown, unsent, fifo, buffer, starved,
                     header, elems, records, server, issued>>
  BY <1>1, <1>2, <1>3 DEF informWaitingThreads, clientVars, linkVars
<1>5. TypeOK /\ w # c
  BY <1>2, <1>4 DEF IInv
<1>6. /\ pc'[c] = to /\ pc'[w] = "answer" /\ tuple'[w] = elems[c]
      /\ \A e \in Clients \ {c, w} : pc'[e] = pc[e]
      /\ \A e \in Clients \ {w} : tuple'[e] = tuple[e] /\ (e \in served' <=> e \in served)
      /\ w \in served'
  BY <1>4, <1>5 DEF TypeOK
<1>7. /\ Serving(c) /\ command[c].op = OP_LINDA_WRITE /\ elems[c] \in Tuples
      /\ AllWhole(elems[c]) /\ c \in served
  BY <1>4, ServingPlaces
<1>8. /\ Serving(w) /\ command[w].op # OP_LINDA_WRITE /\ elems[w] = command[w].arg
  BY <1>2, ServingPlaces
<1>9. ExchangeOK(c)'
  <2>1. c \in served' /\ ResultOK(c)'
    BY <1>4, <1>5, <1>6, <1>7, OutputResult
  <2> QED
    BY <1>4, <1>6, <1>7, <2>1, ServingStep
<1>10. ExchangeOK(w)'
  <2>1. ResultOK(w)'
    <3>1. command'[w] = command[w]
      BY <1>4
    <3>2. Result(w)' = elems[c]
      BY <1>6, <1>8, <3>1 DEF Result
    <3>3. isPatternEqualToTuple(command[w].arg, elems[c])
      BY <1>1, <1>2, <1>8
    <3>4. AllWhole(Result(w))'
      BY <1>7, <3>2 DEF AllWhole, IsWhole
    <3> QED
      BY <1>6, <1>7, <3>1, <3>3, <3>4 DEF ResultOK
  <2> QED
    BY <1>4, <1>6, <1>8, <2>1, ServingStep
<1>11. /\ pc' \in [Clients -> {"main", "receive", "find", "wait", "blocked", "add", "scan",
                               "answer", "ended"}]
       /\ tuple' \in [Clients -> Tuples \cup {<< >>}]
       /\ records' \in Seq(Tuples)
       /\ served' \in SUBSET Clients
  BY <1>4, <1>5, <1>7 DEF TypeOK
<1> DEFINE q == waiting_threads_queue
           r == RemoveAt(q, i)
<1>12. /\ q \in Seq(Clients) /\ Len(q) \in Nat
       /\ \A j \in 1..Len(q) : q[j] \in Clients /\ pc[q[j]] = "blocked"
       /\ \A j, k \in 1..Len(q) : q[j] = q[k] => j = k
  BY QueueTypes
<1>13. i \in 1..Len(q) /\ q[i] = w /\ waiting_threads_queue' = RemoveAt(q, i)
  BY <1>2, <1>4
<1>14. /\ RemoveAt(q, i) \in Seq(Clients) /\ Len(RemoveAt(q, i)) = Len(q) - 1
       /\ \A j \in 1..(Len(q) - 1) :
            \E k \in 1..Len(q) : k # i /\ RemoveAt(q, i)[j] = q[k]
       /\ \A j, k \in 1..(Len(q) - 1) :
            RemoveAt(q, i)[j] = RemoveAt(q, i)[k] => j = k
  <2> HIDE DEF q, r
  <2>1. RemoveAt(q, i) \in Seq(Clients) /\ Len(RemoveAt(q, i)) = Len(q) - 1
    BY <1>12, <1>13, RemoveAtProperties
  <2>2. ASSUME NEW j \in 1..(Len(q) - 1)
        PROVE  \E k \in 1..Len(q) : k # i /\ RemoveAt(q, i)[j] = q[k]
    <3>1. q \in Seq(Clients) /\ i \in 1..Len(q)
      BY <1>12, <1>13
    <3>2. \E k \in 1..Len(q) : /\ k # i
                               /\ k = IF j < i THEN j ELSE j + 1
                               /\ RemoveAt(q, i)[j] = q[k]
      BY <3>1, RemoveAtOrigin
    <3> QED
      BY <3>2
  <2>3. \A j, k \in 1..(Len(q) - 1) : RemoveAt(q, i)[j] = RemoveAt(q, i)[k] => j = k
    BY <1>12, <1>13, RemoveAtDistinct
  <2> QED
    BY <2>1, <2>2, <2>3
<1>15. QueueOK'
  <2> HIDE DEF q
  <2>1. ASSUME NEW j \in 1..Len(waiting_threads_queue')
        PROVE  pc'[waiting_threads_queue'[j]] = "blocked"
    <3>1. PICK k \in 1..Len(q) : k # i /\ waiting_threads_queue'[j] = q[k]
      BY <1>13, <1>14, <2>1
    <3>2. q[k] # w
      BY <1>12, <1>13, <3>1
    <3>3. q[k] # c /\ q[k] \in Clients /\ pc[q[k]] = "blocked"
      BY <1>4, <1>12
    <3> QED
      BY <1>6, <3>1, <3>2, <3>3
  <2>2. \A d, e \in Clients : pc'[d] = "scan" /\ pc'[e] = "scan" => d = e
    <3>1. \A d \in Clients : pc'[d] = "scan" => pc[d] = "scan"
      BY <1>4, <1>6
    <3> QED
      BY <3>1, QueueTypes
  <2>3. \A j, k \in 1..Len(waiting_threads_queue') :
          waiting_threads_queue'[j] = waiting_threads_queue'[k] => j = k
    BY <1>13, <1>14
  <2> QED
    BY <2>1, <2>2, <2>3 DEF QueueOK
<1>16. StoreOK'
  BY <1>4 DEF IInv, StoreOK
<1>17. ASSUME NEW e \in Clients
       PROVE  \/ ExchangeOK(e)'
              \/ /\ pc'[e] = pc[e] /\ tuple'[e] = tuple[e]
                 /\ e \in served' <=> e \in served
  <2>1. CASE e = c
    BY <1>9, <2>1
  <2>2. CASE e = w
    BY <1>10, <2>2
  <2>3. CASE e # c /\ e # w
    BY <1>6, <2>3
  <2> QED
    BY <2>1, <2>2, <2>3
<1>18. waiting_threads_queue' \in Seq(Clients)
  BY <1>13, <1>14
<1> QED
  BY <1>4, <1>11, <1>15, <1>16, <1>17, <1>18, ThreadWorks

LEMMA InsertKeeps ==
  ASSUME IInv, NEW c \in Clients, insertTuple(c)
  PROVE  IInv'
<1>1. /\ server = "up" /\ pc[c] = "scan" /\ pc' = [pc EXCEPT ![c] = "answer"]
      /\ records' = IF Contains(records, elems[c]) THEN records
                    ELSE Append(records, elems[c])
      /\ UNCHANGED <<at, command, missing, got, shown, unsent, fifo, buffer, starved,
                     header, elems, tuple, waiting_threads_queue, server, issued, served>>
  BY DEF insertTuple, GoTo, clientVars, linkVars
<1>2. TypeOK /\ StoreOK
  BY DEF IInv
<1>3. /\ Serving(c) /\ command[c].op = OP_LINDA_WRITE /\ elems[c] \in Tuples
      /\ AllWhole(elems[c]) /\ c \in served
  BY <1>1, ServingPlaces
<1>4. pc'[c] = "answer" /\ c \in served'
  BY <1>1, <1>2, <1>3 DEF TypeOK
<1>5. ExchangeOK(c)'
  <2>1. ResultOK(c)'
    BY <1>1, <1>3, OutputResult
  <2> QED
    BY <1>1, <1>3, <1>4, <2>1, ServingStep
<1>6. /\ pc' \in [Clients -> {"main", "receive", "find", "wait", "blocked", "add", "scan",
                              "answer", "ended"}]
      /\ tuple' \in [Clients -> Tuples \cup {<< >>}]
      /\ waiting_threads_queue' \in Seq(Clients)
      /\ served' \in SUBSET Clients
      /\ \A e \in Clients \ {c} : /\ pc'[e] = pc[e] /\ tuple'[e] = tuple[e]
                                  /\ e \in served' <=> e \in served
  BY <1>1, <1>2 DEF TypeOK
<1>7. records' \in Seq(Tuples) /\ StoreOK'
  <2>1. CASE Contains(records, elems[c])
    BY <1>1, <1>2, <2>1 DEF TypeOK, StoreOK
  <2>2. CASE ~Contains(records, elems[c])
    <3>1. records' = Append(records, elems[c]) /\ records \in Seq(Tuples) /\ Len(records) \in Nat
      BY <1>1, <2>2, QueueTypes
    <3>2. /\ records' \in Seq(Tuples) /\ Len(records') = Len(records) + 1
          /\ \A i \in 1..Len(records) : records'[i] = records[i]
          /\ records'[Len(records) + 1] = elems[c]
      BY <1>3, <3>1, AppendProperties
    <3>3. \A i \in 1..Len(records') : i = Len(records) + 1 \/ i \in 1..Len(records)
      BY <3>1, <3>2
    <3>4. \A i \in 1..Len(records) : records[i] # elems[c]
      BY <2>2 DEF Contains
    <3>5. \A i \in 1..Len(records') : records'[i] \in Tuples /\ AllWhole(records'[i])
      BY <1>2, <1>3, <3>2, <3>3 DEF StoreOK
    <3>6. ASSUME NEW i \in 1..Len(records'), NEW j \in 1..Len(records'),
                 records'[i] = records'[j]
          PROVE  i = j
      <4>1. \A k, l \in 1..Len(records) : records[k] = records[l] => k = l
        BY <1>2 DEF StoreOK
      <4> QED
        BY <3>2, <3>3, <3>4, <3>6, <4>1
    <3> QED
      BY <3>2, <3>5, <3>6 DEF StoreOK
  <2> QED
    BY <2>1, <2>2
<1>8. QueueOK'
  BY <1>1, <1>4, <1>6, QueueKept
<1> QED
  BY <1>1, <1>5, <1>6, <1>7, <1>8, ThreadWorks

(* The thread begins to send its reply.                                    *)
LEMMA AnswerKeeps ==
  ASSUME IInv, PiecesAreNoElements, NEW c \in Clients, answer(c)
  PROVE  IInv'
<1>1. /\ server = "up" /\ pc[c] = "answer" /\ pc' = [pc EXCEPT ![c] = "main"]
      /\ unsent' = [unsent EXCEPT ![<<c, "down">>] =
                      IF header[c].op_type = OP_LINDA_WRITE
                      THEN <<OperationMessage(OP_RETURN_RESULT, 0)>>
                      ELSE Sent(OP_RETURN_RESULT, tuple[c])]
      /\ UNCHANGED <<at, command, missing, got, shown, fifo, buffer, starved, header, elems,
                     tuple, records, waiting_threads_queue, server, issued, served>>
  BY DEF answer, GoTo, clientVars, dbVars
<1>2. TypeOK
  BY DEF IInv
<1>3. /\ Serving(c) /\ command[c] \in Request /\ header[c].op_type = command[c].op
      /\ ResultOK(c) /\ c \in served
  BY <1>1, ServingPlaces
<1>4. unsent' = [unsent EXCEPT ![<<c, "down">>] = Sent(OP_RETURN_RESULT, Result(c))]
  <2>1. CASE command[c].op = OP_LINDA_WRITE
    <3>1. Sent(OP_RETURN_RESULT, Result(c)) = <<OperationMessage(OP_RETURN_RESULT, 0)>>
      BY <2>1, SentNothing DEF Result, HeadOps
    <3> QED
      BY <1>1, <1>3, <2>1, <3>1
  <2>2. CASE command[c].op # OP_LINDA_WRITE
    BY <1>1, <1>3, <2>2 DEF Result
  <2> QED
    BY <2>1, <2>2
<1>5. Sent(OP_RETURN_RESULT, Result(c)) \in Seq(Message)
  BY <1>3, WhatIsSent, SentProperties
<1>6. <<c, "down">> \in Links /\ <<c, "up">> \in Links
  BY DEF Links
<1>7. /\ unsent'[<<c, "down">>] = Sent(OP_RETURN_RESULT, Result(c))
      /\ unsent'[<<c, "up">>] = unsent[<<c, "up">>]
      /\ pc'[c] = "main"
  BY <1>1, <1>2, <1>4, <1>6, DirsDiffer DEF TypeOK
<1>8. TypeOK'
  <2>1. unsent' \in [Links -> Seq(Message)]
    BY <1>2, <1>4, <1>5 DEF TypeOK
  <2>2. pc' \in [Clients -> {"main", "receive", "find", "wait", "blocked", "add", "scan",
                             "answer", "ended"}]
    BY <1>1, <1>2 DEF TypeOK
  <2> QED
    BY <1>1, <1>2, <2>1, <2>2 DEF TypeOK
<1>9. ExchangeOK(c)'
  <2>1. Stream(c, "down")' = << >>
    BY <1>1, <1>3, QuietStream DEF Serving
  <2>2. Result(c)' = Result(c) /\ (ResultOK(c)' <=> ResultOK(c))
    BY <1>1, ResultUntouched
  <2>3. Announced(OP_RETURN_RESULT, Result(c)', Stream(c, "down")', unsent'[<<c, "down">>])
    BY <1>7, <2>1, <2>2 DEF Announced
  <2>4. Quiet(c, "up")' /\ <<c, "down">> \notin starved'
    BY <1>1, <1>3, <1>7 DEF Serving, Quiet
  <2>5. /\ at'[c] \in {"reply", "killed"} /\ c \in served'
        /\ command'[c] \in Request /\ ResultOK(c)'
    BY <1>1, <1>3, <2>2 DEF Serving
  <2>6. Answering(c)'
    BY <1>7, <2>3, <2>4, <2>5 DEF Answering
  <2> QED
    BY <2>6 DEF ExchangeOK
<1>10. ASSUME NEW e \in Clients \ {c}
       PROVE  SidesUntouched(e) /\ LinkUntouched(e, "up") /\ LinkUntouched(e, "down")
  <2>1. <<e, "up">> \in Links /\ <<e, "down">> \in Links
        /\ <<e, "up">> # <<c, "down">> /\ <<e, "down">> # <<c, "down">>
    BY DEF Links
  <2> QED
    BY <1>1, <1>2, <2>1 DEF TypeOK, SidesUntouched, LinkUntouched
<1>11. \A e \in Clients : ExchangeOK(e)'
  BY <1>9, <1>10, OtherExchanges
<1>12. QueueOK'
  <2>1. \A e \in Clients \ {c} : pc'[e] = pc[e]
    BY <1>10 DEF SidesUntouched
  <2> QED
    BY <1>1, <1>7, <2>1, QueueKept
<1>13. StoreOK' /\ ThrownOK' /\ AnswersCommand'
  BY <1>1 DEF IInv, StoreOK, ThrownOK, AnswersCommand
<1> QED
  BY <1>8, <1>11, <1>12, <1>13 DEF IInv


-----------------------------------------------------------------------------
(* Every step of a client or of a thread keeps the invariant.              *)
LEMMA NextKeeps ==
  ASSUME IInv, PiecesAreNoElements, [Next]_vars
  PROVE  IInv'
<1>1. CASE UNCHANGED vars
  <2>1. UNCHANGED <<at, command, missing, got, shown, unsent, fifo, buffer, starved,
                    pc, header, elems, tuple, records, waiting_threads_queue, server,
                    issued, served>>
    BY <1>1 DEF vars, clientVars, linkVars, threadVars, dbVars
  <2>2. TypeOK'
    BY <2>1 DEF IInv, TypeOK
  <2>3. ASSUME NEW c \in Clients PROVE ExchangeOK(c)'
    <3>1. SidesUntouched(c) /\ LinkUntouched(c, "up") /\ LinkUntouched(c, "down")
      BY <2>1 DEF SidesUntouched, LinkUntouched
    <3> QED
      BY <3>1, ExchangeUntouched DEF IInv
  <2>4. StoreOK' /\ QueueOK' /\ ThrownOK' /\ AnswersCommand'
    BY <2>1 DEF IInv, StoreOK, QueueOK, ThrownOK, AnswersCommand
  <2> QED
    BY <2>2, <2>3, <2>4 DEF IInv
<1>2. ASSUME NEW c \in Clients, handleCommand(c) \/ disconnect(c) \/ Kill(c)
      PROVE  IInv'
  BY <1>2, CommandKeeps, DisconnectKeeps, KillKeeps
<1>3. ASSUME NEW c \in Clients, ClientStep(c)
      PROVE  IInv'
  <2>1. CASE sendMessage(c, "up")
    BY <2>1, SendUpKeeps
  <2>2. CASE bufferedReadFromPipe(c, "down")
    BY <2>2, ReadKeeps DEF Dirs
  <2>3. CASE fetchGarbage(c, "down")
    BY <2>3, GarbageKeeps DEF Dirs
  <2>4. CASE receiveReply(c)
    BY <2>4, ReplyKeeps
  <2>5. CASE receiveTuple(c)
    BY <2>5, ElementKeeps
  <2> QED
    BY <1>3, <2>1, <2>2, <2>3, <2>4, <2>5 DEF ClientStep
<1>4. ASSUME NEW c \in Clients, ThreadStep(c)
      PROVE  IInv'
  <2>1. CASE sendMessage(c, "down")
    BY <2>1, SendDownKeeps
  <2>2. CASE bufferedReadFromPipe(c, "up")
    BY <2>2, ReadKeeps DEF Dirs
  <2>3. CASE fetchGarbage(c, "up")
    BY <2>3, GarbageKeeps DEF Dirs
  <2>4. CASE mainLoop(c)
    BY <2>4, LoopKeeps
  <2>5. CASE receiveElem(c)
    BY <2>5, ElemKeeps
  <2>6. CASE receiveThrows(c)
    BY <2>6, ThrowKeeps
  <2>7. CASE findTuple(c) \/ findNothing(c) \/ waitForTuple(c)
    BY <2>7, FindKeeps, FindNothingKeeps, WaitKeeps
  <2>8. CASE addTupleToDB(c) \/ informWaitingThreads(c) \/ insertTuple(c)
    BY <2>8, AddKeeps, InformKeeps, InsertKeeps
  <2>9. CASE answer(c)
    BY <2>9, AnswerKeeps
  <2> QED
    BY <1>4, <2>1, <2>2, <2>3, <2>4, <2>5, <2>6, <2>7, <2>8, <2>9 DEF ThreadStep
<1> QED
  BY <1>1, <1>2, <1>3, <1>4 DEF Next

(* The inductive invariant, from which the properties follow.              *)
THEOREM SessionInvariantHolds == PiecesAreNoElements /\ Spec => []IInv
<1> SUFFICES ASSUME PiecesAreNoElements
             PROVE  Spec => []IInv
  OBVIOUS
<1>1. IInv /\ [Next]_vars => IInv'
  BY NextKeeps
<1> QED
  BY <1>1, InitInv, PTL DEF Spec

(* TypeOK of Session: every variable of client, thread, FIFO and database  *)
(* keeps its type; in particular a client never counts its missing         *)
(* elements below zero, and what it shows is a sequence of tuple elements. *)
THEOREM SessionTypeCorrectness == PiecesAreNoElements /\ Spec => []TypeOK
<1>1. IInv => TypeOK
  BY DEF IInv
<1> QED
  BY <1>1, SessionInvariantHolds, PTL

(* What interact() prints answers the command that was typed, with a whole *)
(* tuple that matches its pattern, for every number of clients, all tuples *)
(* and patterns, and whatever is cut or killed on the way, as long as no   *)
(* piece of a cut element is an element itself.                            *)
THEOREM RepliesAnswerCommands == PiecesAreNoElements /\ Spec => []AnswersCommand
<1>1. IInv => AnswersCommand
  BY DEF IInv
<1> QED
  BY <1>1, SessionInvariantHolds, PTL

(* When interact() prompts again, nothing of the last exchange is left in  *)
(* a FIFO or a MessageBuffer, and mainLoop waits for the next command.     *)
THEOREM ExchangesEnd == PiecesAreNoElements /\ Spec => []ExchangeIsOver
<1>1. IInv => ExchangeIsOver
  <2>1. ASSUME IInv, NEW c \in Clients, at[c] = "prompt"
        PROVE  Quiet(c, "up") /\ Quiet(c, "down") /\ pc[c] = "main"
    <3>1. ExchangeOK(c)
      BY <2>1 DEF IInv
    <3>2. Typing(c)
      BY <2>1, <3>1 DEF ExchangeOK, Asking, Passing, Serving, Answering, Leaving
    <3> QED
      BY <3>2 DEF Typing
  <2> QED
    BY <2>1 DEF ExchangeIsOver, Quiet
<1> QED
  BY <1>1, SessionInvariantHolds, PTL

(* No command that arrives whole, and no client that is killed or leaves,  *)
(* makes receiveTuple or receivePattern of the server throw: its exception *)
(* ends the server only behind a command one of whose elements was cut.    *)
THEOREM ServerThrowsOnlyIfDamaged == PiecesAreNoElements /\ Spec => []ThrowsOnlyIfDamaged
<1>1. IInv => ThrowsOnlyIfDamaged
  <2> SUFFICES ASSUME IInv, server = "terminated"
               PROVE  \E c \in Clients : \E i \in DOMAIN command[c].arg :
                        LET e == command[c].arg[i] IN Arrives(e) # <<ElemMessage(e)>>
    BY DEF ThrowsOnlyIfDamaged
  <2>1. PICK c \in Clients : pc[c] = "receive" /\ ~AllWhole(command[c].arg)
    BY DEF IInv, ThrownOK
  <2>2. PICK i \in 1..Len(command[c].arg) : ~IsWhole(command[c].arg[i])
    BY <2>1 DEF AllWhole
  <2>3. i \in DOMAIN command[c].arg
    <3>1. ExchangeOK(c)
      BY DEF IInv
    <3>2. command[c] \in Request
      BY <2>1, <3>1 DEF ExchangeOK, Typing, Asking, Passing, Serving, Answering, Leaving
    <3>3. command[c].arg \in Tuples \cup Patterns
      BY <3>2 DEF Request
    <3>4. DOMAIN command[c].arg = 1..Len(command[c].arg)
      BY <3>3, SessionAssumption, LenProperties
    <3> QED
      BY <3>4
  <2> QED
    BY <2>2, <2>3 DEF IsWhole
<1> QED
  BY <1>1, SessionInvariantHolds, PTL

-----------------------------------------------------------------------------
(***************************************************************************)
(* Seen from the clients, Session is a TupleSpace: each of its steps is a  *)
(* step of the space or none.  A command is issued when it is typed, takes *)
(* effect in one step of some thread, and has returned when interact()     *)
(* prints; what the transport, a killed client or the dispatch of messages *)
(* do in between, the space does not see.                                  *)
(***************************************************************************)

(* What the space sees of a client is the same before and after a step.    *)
SeenSame(c) ==
  /\ at'[c] = "prompt" <=> at[c] = "prompt"
  /\ at'[c] = "left" <=> at[c] = "left"
  /\ c \in served' <=> c \in served
  /\ command'[c] = command[c]
  /\ c \in served => tuple'[c] = tuple[c]

(* A step of one client or its thread.                                     *)
LEMMA BarsChange ==
  ASSUME NEW c \in Clients, \A e \in Clients \ {c} : SeenSame(e)
  PROVE  /\ phaseBar' = [phaseBar EXCEPT ![c] = phaseBar'[c]]
         /\ resultBar' = [resultBar EXCEPT ![c] = resultBar'[c]]
<1>1. \A e \in Clients \ {c} :
        phaseBar'[e] = phaseBar[e] /\ resultBar'[e] = resultBar[e]
  BY DEF SeenSame, phaseBar, resultBar
<1>2. /\ phaseBar = [e \in Clients |-> phaseBar[e]]
      /\ phaseBar' = [e \in Clients |-> phaseBar'[e]]
      /\ resultBar = [e \in Clients |-> resultBar[e]]
      /\ resultBar' = [e \in Clients |-> resultBar'[e]]
  BY DEF phaseBar, resultBar
<1> HIDE DEF phaseBar, resultBar
<1> QED
  BY <1>1, <1>2

LEMMA BarsKept ==
  ASSUME \A e \in Clients : SeenSame(e)
  PROVE  phaseBar' = phaseBar /\ resultBar' = resultBar
  BY DEF SeenSame, phaseBar, resultBar

(* A tuple is in the space once for the thread that is about to insert it  *)
(* and once for the database.                                              *)
Inserting(v) == \E c \in Clients : pc[c] = "scan" /\ elems[c] = v

Copies(v) == (IF Inserting(v) THEN 1 ELSE 0) + (IF Contains(records, v) THEN 1 ELSE 0)

LEMMA SpaceCounts ==
  ASSUME QueueOK, NEW v \in Tuples
  PROVE  spaceBar[v] = Copies(v)
<1> DEFINE I == {c \in Clients : pc[c] = "scan" /\ elems[c] = v}
<1>1. Cardinality(I) = IF Inserting(v) THEN 1 ELSE 0
  <2>1. CASE Inserting(v)
    <3>1. PICK c \in Clients : pc[c] = "scan" /\ elems[c] = v
      BY <2>1 DEF Inserting
    <3>2. I = {c}
      BY <3>1 DEF QueueOK
    <3> QED
      BY <2>1, <3>2, FS_Singleton
  <2>2. CASE ~Inserting(v)
    <3>1. I = {}
      BY <2>2 DEF Inserting
    <3> QED
      BY <2>2, <3>1, FS_EmptySet
  <2> QED
    BY <2>1, <2>2
<1> HIDE DEF I
<1> QED
  BY <1>1 DEF spaceBar, Copies, I

LEMMA SpaceCountsAll == QueueOK => \A v \in Tuples : spaceBar[v] = Copies(v)
  BY SpaceCounts

LEMMA SpaceCountsPrime == (QueueOK => \A v \in Tuples : spaceBar[v] = Copies(v))'
  BY SpaceCountsAll, PTL

LEMMA SpaceCountsNext ==
  ASSUME QueueOK', NEW v \in Tuples
  PROVE  spaceBar'[v] = Copies(v)'
  BY SpaceCountsPrime

(* The space does not change if neither the database does nor a thread     *)
(* begins or ends to insert.                                               *)
LEMMA SpaceKept ==
  ASSUME records' = records,
         \A e \in Clients : /\ pc'[e] = "scan" <=> pc[e] = "scan"
                            /\ pc[e] = "scan" => elems'[e] = elems[e]
  PROVE  spaceBar' = spaceBar
<1>1. ASSUME NEW v \in Tuples
      PROVE  {c \in Clients : pc'[c] = "scan" /\ elems'[c] = v}
               = {c \in Clients : pc[c] = "scan" /\ elems[c] = v}
  OBVIOUS
<1>2. \A v \in Tuples : spaceBar'[v] = spaceBar[v]
  BY <1>1 DEF spaceBar
<1> QED
  BY <1>2 DEF spaceBar

(* What a step may be to the space.                                        *)
Silent    == UNCHANGED <<spaceBar, phaseBar, command, resultBar>>
Begins(c) == Space!Issue(c) \/ Space!Leave(c)
Merges    == \E v \in Tuples : Space!Merge(v)

(* A step that moves messages only.                                        *)
LEMMA SilentStep ==
  ASSUME UNCHANGED <<command, tuple, served, records>>,
         \A e \in Clients : /\ at'[e] = "prompt" <=> at[e] = "prompt"
                            /\ at'[e] = "left" <=> at[e] = "left"
                            /\ pc'[e] = "scan" <=> pc[e] = "scan"
                            /\ pc[e] = "scan" => elems'[e] = elems[e]
  PROVE  Silent
<1>1. \A e \in Clients : SeenSame(e)
  BY DEF SeenSame
<1> QED
  BY <1>1, BarsKept, SpaceKept DEF Silent

-----------------------------------------------------------------------------
(* The client                                                              *)

LEMMA CommandIssues ==
  ASSUME IInv, NEW c \in Clients, handleCommand(c)
  PROVE  Space!Issue(c)
<1>1. /\ at[c] = "prompt" /\ at' = [at EXCEPT ![c] = "reply"]
      /\ UNCHANGED <<pc, elems, tuple, records, served>>
  BY DEF handleCommand, threadVars, dbVars
<1>2. PICK r \in Request : command' = [command EXCEPT ![c] = r]
  BY DEF handleCommand
<1>3. TypeOK /\ ExchangeOK(c)
  BY DEF IInv
<1>4. c \notin served
  BY <1>1, <1>3 DEF ExchangeOK, Typing, Asking, Passing, Serving, Answering, Leaving
<1>5. \A e \in Clients \ {c} : SeenSame(e)
  BY <1>1, <1>2, <1>3 DEF SeenSame, TypeOK
<1>6. /\ phaseBar[c] = "idle" /\ phaseBar'[c] = "pending"
      /\ resultBar'[c] = resultBar[c]
  BY <1>1, <1>3, <1>4 DEF phaseBar, resultBar, TypeOK
<1>7. phaseBar' = [phaseBar EXCEPT ![c] = "pending"] /\ resultBar' = resultBar
  <2>1. /\ phaseBar' = [phaseBar EXCEPT ![c] = phaseBar'[c]]
        /\ resultBar' = [resultBar EXCEPT ![c] = resultBar'[c]]
    BY <1>5, BarsChange
  <2>2. [resultBar EXCEPT ![c] = resultBar[c]] = resultBar
    BY DEF resultBar
  <2> HIDE DEF phaseBar, resultBar
  <2> QED
    BY <1>6, <2>1, <2>2
<1>8. spaceBar' = spaceBar
  BY <1>1, SpaceKept
<1> QED
  BY <1>2, <1>6, <1>7, <1>8 DEF Space!Issue, Space!Step

LEMMA DepartureLeaves ==
  ASSUME IInv, NEW c \in Clients, at[c] = "prompt", at' = [at EXCEPT ![c] = "left"],
         UNCHANGED <<command, pc, elems, tuple, records, served>>
  PROVE  Space!Leave(c)
<1>1. TypeOK
  BY DEF IInv
<1>2. \A e \in Clients \ {c} : SeenSame(e)
  BY <1>1 DEF SeenSame, TypeOK
<1>3. /\ phaseBar[c] = "idle" /\ phaseBar'[c] = "gone"
      /\ resultBar' = resultBar
  BY <1>1 DEF phaseBar, resultBar, TypeOK
<1>4. phaseBar' = [phaseBar EXCEPT ![c] = phaseBar'[c]]
  BY <1>2, BarsChange
<1>5. spaceBar' = spaceBar
  BY SpaceKept
<1> QED
  BY <1>3, <1>4, <1>5 DEF Space!Leave, Space!Step

LEMMA GoodbyeLeaves ==
  ASSUME IInv, NEW c \in Clients, disconnect(c)
  PROVE  Space!Leave(c)
<1>1. /\ at[c] = "prompt" /\ at' = [at EXCEPT ![c] = "left"]
      /\ UNCHANGED <<command, pc, elems, tuple, records, served>>
  BY DEF disconnect, threadVars, dbVars
<1> QED
  BY <1>1, DepartureLeaves

LEMMA KillLeaves ==
  ASSUME IInv, NEW c \in Clients, Kill(c)
  PROVE  Silent \/ Space!Leave(c)
<1>1. /\ at' = [at EXCEPT ![c] = IF at[c] \in {"prompt", "left"} THEN "left" ELSE "killed"]
      /\ UNCHANGED <<command, pc, elems, tuple, records, served>>
  BY DEF Kill, threadVars, dbVars
<1>2. TypeOK
  BY DEF IInv
<1>3. CASE at[c] = "prompt"
  BY <1>1, <1>3, DepartureLeaves
<1>4. CASE at[c] # "prompt"
  <2>1. \A e \in Clients : /\ at'[e] = "prompt" <=> at[e] = "prompt"
                           /\ at'[e] = "left" <=> at[e] = "left"
    BY <1>1, <1>2, <1>4 DEF TypeOK
  <2> QED
    BY <1>1, <2>1, SilentStep
<1> QED
  BY <1>3, <1>4

(* The client prints the outcome of the command that was served.           *)
LEMMA ShownReturns ==
  ASSUME IInv, NEW c \in Clients, c \in served, at[c] \in {"reply", "elements"},
         at' = [at EXCEPT ![c] = "prompt"], served' = served \ {c},
         UNCHANGED <<command, pc, elems, tuple, records>>
  PROVE  Space!Return(c)
<1>1. TypeOK
  BY DEF IInv
<1>2. \A e \in Clients \ {c} : SeenSame(e)
  BY <1>1 DEF SeenSame, TypeOK
<1>3. /\ phaseBar[c] = "answered" /\ phaseBar'[c] = "idle"
      /\ resultBar'[c] = << >>
  BY <1>1 DEF phaseBar, resultBar, TypeOK
<1>4. /\ phaseBar' = [phaseBar EXCEPT ![c] = phaseBar'[c]]
      /\ resultBar' = [resultBar EXCEPT ![c] = resultBar'[c]]
  BY <1>2, BarsChange
<1>5. spaceBar' = spaceBar
  BY SpaceKept
<1> QED
  BY <1>3, <1>4, <1>5 DEF Space!Return, Space!Step

LEMMA ReplyReturns ==
  ASSUME IInv, PiecesAreNoElements, NEW c \in Clients, receiveReply(c)
  PROVE  Silent \/ Space!Return(c)
<1>1. PICK m \in ToSet(buffer[<<c, "down">>]) :
        /\ Receives(c, "down", m)
        /\ \/ at' = [at EXCEPT ![c] = "elements"] /\ UNCHANGED served
           \/ at' = [at EXCEPT ![c] = "prompt"] /\ served' = served \ {c}
  BY DEF receiveReply, Shows
<1>2. /\ at[c] = "reply"
      /\ UNCHANGED <<command, pc, elems, tuple, records>>
  BY DEF receiveReply, threadVars, dbVars
<1>3. Answering(c)
  BY <1>1, <1>2, ClientWaits
<1>4. c \in served
  BY <1>3 DEF Answering
<1>5. CASE at' = [at EXCEPT ![c] = "prompt"] /\ served' = served \ {c}
  BY <1>2, <1>4, <1>5, ShownReturns
<1>6. CASE at' = [at EXCEPT ![c] = "elements"] /\ UNCHANGED served
  <2>1. \A e \in Clients : /\ at'[e] = "prompt" <=> at[e] = "prompt"
                           /\ at'[e] = "left" <=> at[e] = "left"
    BY <1>2, <1>6 DEF IInv, TypeOK
  <2> QED
    BY <1>2, <1>6, <2>1, SilentStep
<1> QED
  BY <1>1, <1>5, <1>6

LEMMA ElementReturns ==
  ASSUME IInv, PiecesAreNoElements, NEW c \in Clients, receiveTuple(c)
  PROVE  Silent \/ Space!Return(c)
<1>1. PICK m \in ToSet(buffer[<<c, "down">>]) :
        /\ Receives(c, "down", m)
        /\ \/ UNCHANGED <<at, served>>
           \/ at' = [at EXCEPT ![c] = "prompt"] /\ served' = served \ {c}
  BY DEF receiveTuple, Shows
<1>2. /\ at[c] = "elements"
      /\ UNCHANGED <<command, pc, elems, tuple, records>>
  BY DEF receiveTuple, threadVars, dbVars
<1>3. Answering(c)
  BY <1>1, <1>2, ClientWaits
<1>4. c \in served
  BY <1>3 DEF Answering
<1>5. CASE at' = [at EXCEPT ![c] = "prompt"] /\ served' = served \ {c}
  BY <1>2, <1>4, <1>5, ShownReturns
<1>6. CASE UNCHANGED <<at, served>>
  BY <1>2, <1>6, SilentStep
<1> QED
  BY <1>1, <1>5, <1>6

-----------------------------------------------------------------------------
(* The thread                                                              *)

(* The space and the threads compare tuples and patterns alike.            *)
LEMMA SameMatch ==
  \A pattern, v : Space!isPatternEqualToTuple(pattern, v) <=> isPatternEqualToTuple(pattern, v)
  BY DEF Space!isPatternEqualToTuple, isPatternEqualToTuple, Space!matches, matches,
     Space!Compare, Compare

(* A tuple that is in the space is passed to the search of a client.       *)
LEMMA SearchAnswers ==
  ASSUME IInv, IInv', NEW w \in Clients, NEW v \in Tuples,
         w \notin served, at[w] \in {"reply", "killed"}, at' = at,
         command[w].op # OP_LINDA_WRITE,
         isPatternEqualToTuple(command[w].arg, v), Copies(v) > 0,
         tuple' = [tuple EXCEPT ![w] = v], served' = served \cup {w},
         UNCHANGED command
  PROVE  Space!Answer(w, v)
<1>1. TypeOK /\ QueueOK
  BY DEF IInv
<1>2. \A e \in Clients \ {w} : SeenSame(e)
  BY <1>1 DEF SeenSame, TypeOK
<1>3. /\ phaseBar[w] = "pending" /\ phaseBar'[w] = "answered"
      /\ resultBar'[w] = v
  BY <1>1 DEF phaseBar, resultBar, TypeOK
<1>4. /\ phaseBar' = [phaseBar EXCEPT ![w] = phaseBar'[w]]
      /\ resultBar' = [resultBar EXCEPT ![w] = resultBar'[w]]
  BY <1>2, BarsChange
<1>5. spaceBar[v] > 0
  BY <1>1, SpaceCounts
<1>6. Space!isPatternEqualToTuple(command[w].arg, v)
  BY SameMatch
<1> QED
  BY <1>3, <1>4, <1>5, <1>6 DEF Space!Answer, Space!Step

(* addTupleToDB: the output takes effect.                                  *)
LEMMA AddOutputs ==
  ASSUME IInv, IInv', NEW c \in Clients, addTupleToDB(c)
  PROVE  Space!Output(c)
<1>1. /\ pc[c] = "add" /\ pc' = [pc EXCEPT ![c] = "scan"]
      /\ \A e \in Clients : pc[e] # "scan"
      /\ served' = served \cup {c}
      /\ UNCHANGED <<at, command, elems, tuple, records>>
  BY DEF addTupleToDB, QueueIsFree, GoTo, clientVars, dbVars
<1>2. TypeOK /\ QueueOK /\ QueueOK'
  BY DEF IInv
<1>3. /\ Serving(c) /\ command[c].op = OP_LINDA_WRITE
      /\ elems[c] \in Tuples /\ elems[c] = command[c].arg /\ c \notin served
  BY <1>1, ServingPlaces
<1>4. \A e \in Clients \ {c} : SeenSame(e)
  BY <1>1, <1>2 DEF SeenSame, TypeOK
<1>5. /\ phaseBar[c] = "pending" /\ phaseBar'[c] = "answered"
      /\ resultBar'[c] = resultBar[c]
  BY <1>1, <1>3 DEF phaseBar, resultBar, Serving
<1>6. phaseBar' = [phaseBar EXCEPT ![c] = "answered"] /\ resultBar' = resultBar
  <2>1. /\ phaseBar' = [phaseBar EXCEPT ![c] = phaseBar'[c]]
        /\ resultBar' = [resultBar EXCEPT ![c] = resultBar'[c]]
    BY <1>4, BarsChange
  <2>2. [resultBar EXCEPT ![c] = resultBar[c]] = resultBar
    BY DEF resultBar
  <2> HIDE DEF phaseBar, resultBar
  <2> QED
    BY <1>5, <2>1, <2>2
<1>7. ASSUME NEW v \in Tuples
      PROVE  spaceBar'[v] = IF v = elems[c] THEN spaceBar[v] + 1 ELSE spaceBar[v]
  <2>1. ~Inserting(v)
    BY <1>1 DEF Inserting
  <2>2. Inserting(v)' <=> v = elems[c]
    BY <1>1, <1>2 DEF Inserting, TypeOK
  <2>3. Contains(records, v)' <=> Contains(records, v)
    BY <1>1
  <2>4. spaceBar[v] = Copies(v) /\ spaceBar'[v] = Copies(v)'
    BY <1>2, SpaceCounts, SpaceCountsNext
  <2> QED
    BY <2>1, <2>2, <2>3, <2>4 DEF Copies
<1>8. spaceBar' = [spaceBar EXCEPT ![command[c].arg] = @ + 1]
  <2>1. /\ spaceBar = [v \in Tuples |-> spaceBar[v]]
        /\ spaceBar' = [v \in Tuples |-> spaceBar'[v]]
    BY DEF spaceBar
  <2> HIDE DEF spaceBar
  <2> QED
    BY <1>3, <1>7, <2>1
<1> QED
  BY <1>1, <1>3, <1>5, <1>6, <1>8 DEF Space!Output, Space!Step, OP_LINDA_WRITE

(* findTuple and findTupleAndRemoveIt: the search takes effect.            *)
LEMMA FindTakes ==
  ASSUME IInv, IInv', NEW c \in Clients, findTuple(c)
  PROVE  Space!Read(c) \/ Space!Input(c)
<1>1. PICK i \in 1..Len(records) :
        i = Found(c) /\ isPatternEqualToTuple(elems[c], records[i])
  <2>1. Found(c) # 0
    BY DEF findTuple
  <2> QED
    BY <2>1, QueueTypes, FoundMatches
<1>2. PICK v \in Tuples : v = records[i]
  BY DEF IInv, StoreOK
<1>3. /\ pc[c] = "find" /\ pc' = [pc EXCEPT ![c] = "answer"]
      /\ tuple' = [tuple EXCEPT ![c] = v]
      /\ records' = IF header[c].op_type = OP_LINDA_INPUT
                    THEN RemoveAt(records, i) ELSE records
      /\ served' = served \cup {c}
      /\ UNCHANGED <<at, command, elems>>
  BY <1>1, <1>2 DEF findTuple, GoTo, clientVars
<1>4. TypeOK /\ QueueOK /\ QueueOK'
  BY DEF IInv
<1>5. /\ Serving(c) /\ command[c].op # OP_LINDA_WRITE
      /\ elems[c] = command[c].arg /\ c \notin served
      /\ header[c].op_type = command[c].op /\ command[c] \in Request
  BY <1>3, ServingPlaces
<1>6. \A e \in Clients : /\ pc'[e] = "scan" <=> pc[e] = "scan"
                         /\ elems'[e] = elems[e]
  BY <1>3, <1>4 DEF TypeOK
<1>7. Space!Answer(c, v)
  <2>1. Contains(records, v)
    BY <1>1, <1>2 DEF Contains
  <2>2. Copies(v) > 0
    BY <2>1 DEF Copies
  <2>3. at[c] \in {"reply", "killed"}
    BY <1>5 DEF Serving
  <2> QED
    BY <1>1, <1>2, <1>3, <1>5, <2>2, <2>3, SearchAnswers
<1>8. CASE command[c].op = OP_LINDA_INPUT
  <2>1. records' = RemoveAt(records, i) /\ records \in Seq(Tuples)
    BY <1>3, <1>4, <1>5, <1>8 DEF TypeOK
  <2>2. \A j, k \in 1..Len(records) : records[j] = records[k] => j = k
    BY DEF IInv, StoreOK
  <2>3. \A u : (\E j \in DOMAIN RemoveAt(records, i) : RemoveAt(records, i)[j] = u)
                 <=> u # records[i] /\ \E k \in DOMAIN records : records[k] = u
    BY <2>1, <2>2, RemoveAtElements
  <2>4. RemoveAt(records, i) \in Seq(Tuples)
    BY <2>1, RemoveAtProperties
  <2>5. /\ DOMAIN records = 1..Len(records)
        /\ DOMAIN RemoveAt(records, i) = 1..Len(RemoveAt(records, i))
    BY <2>1, <2>4, LenProperties
  <2>6. \A u : Contains(records', u) <=> u # v /\ Contains(records, u)
    BY <1>2, <2>1, <2>3, <2>5 DEF Contains
  <2>7. ASSUME NEW u \in Tuples
        PROVE  spaceBar'[u] = IF u = v THEN spaceBar[u] - 1 ELSE spaceBar[u]
    <3>1. Inserting(u)' <=> Inserting(u)
      BY <1>6 DEF Inserting
    <3>2. Contains(records, v)
      BY <1>1, <1>2 DEF Contains
    <3>3. spaceBar[u] = Copies(u) /\ spaceBar'[u] = Copies(u)'
      BY <1>4, SpaceCounts, SpaceCountsNext
    <3> QED
      BY <2>6, <3>1, <3>2, <3>3 DEF Copies
  <2>8. spaceBar' = [spaceBar EXCEPT ![v] = @ - 1]
    <3>1. /\ spaceBar = [u \in Tuples |-> spaceBar[u]]
          /\ spaceBar' = [u \in Tuples |-> spaceBar'[u]]
      BY DEF spaceBar
    <3> HIDE DEF spaceBar
    <3> QED
      BY <2>7, <3>1
  <2> QED
    BY <1>7, <1>8, <2>8 DEF Space!Input, OP_LINDA_INPUT
<1>9. CASE command[c].op # OP_LINDA_INPUT
  <2>1. records' = records
    BY <1>3, <1>5, <1>9
  <2>2. spaceBar' = spaceBar
    BY <1>6, <2>1, SpaceKept
  <2>3. command[c].op = "read"
    BY <1>5, <1>9 DEF Request, OP_LINDA_WRITE, OP_LINDA_READ, OP_LINDA_INPUT
  <2> QED
    BY <1>7, <2>2, <2>3 DEF Space!Read
<1> QED
  BY <1>8, <1>9

(* informWaitingThreads: the search of a waiter takes effect, and an input *)
(* takes the tuple before it is stored.                                    *)
LEMMA InformTakes ==
  ASSUME IInv, IInv', NEW c \in Clients, informWaitingThreads(c)
  PROVE  \E w \in Clients : Space!Read(w) \/ Space!Input(w)
<1>1. PICK i \in 1..Len(waiting_threads_queue) :
        i = FirstWaiter(c) /\ isPatternEqualToTuple(elems[waiting_threads_queue[i]], elems[c])
  <2>1. FirstWaiter(c) # 0
    BY DEF informWaitingThreads
  <2> QED
    BY <2>1, QueueTypes, WaiterMatches
<1>2. PICK w \in Clients : w = waiting_threads_queue[i] /\ pc[w] = "blocked"
  BY QueueTypes
<1>3. PICK to \in {"answer", "scan"} :
        to = IF header[w].op_type = OP_LINDA_INPUT THEN "answer" ELSE "scan"
  OBVIOUS
<1>4. /\ pc[c] = "scan"
      /\ tuple' = [tuple EXCEPT ![w] = elems[c]]
      /\ pc' = [pc EXCEPT ![w] = "answer", ![c] = to]
      /\ served' = served \cup {w}
      /\ UNCHANGED <<at, command, elems, records>>
  BY <1>1, <1>2, <1>3 DEF informWaitingThreads, clientVars
<1>5. TypeOK /\ QueueOK /\ QueueOK' /\ w # c
  BY <1>2, <1>4 DEF IInv
<1>6. PICK v \in Tuples : v = elems[c]
  BY <1>4, ServingPlaces
<1>7. /\ Serving(w) /\ command[w].op # OP_LINDA_WRITE /\ elems[w] = command[w].arg
      /\ w \notin served /\ header[w].op_type = command[w].op /\ command[w] \in Request
  BY <1>2, ServingPlaces
<1>8. pc'[c] = to /\ \A e \in Clients \ {c} : pc'[e] # "scan"
  BY <1>2, <1>4, <1>5 DEF TypeOK, QueueOK
<1>9. \A e \in Clients : pc[e] = "scan" <=> e = c
  BY <1>4, <1>5 DEF QueueOK
<1>10. Space!Answer(w, v)
  <2>1. Inserting(v)
    BY <1>4, <1>6 DEF Inserting
  <2>2. Copies(v) > 0
    BY <2>1 DEF Copies
  <2>3. at[w] \in {"reply", "killed"}
    BY <1>7 DEF Serving
  <2> QED
    BY <1>1, <1>2, <1>4, <1>6, <1>7, <2>2, <2>3, SearchAnswers
<1>11. CASE command[w].op = OP_LINDA_INPUT
  <2>1. \A e \in Clients : pc'[e] # "scan"
    BY <1>3, <1>7, <1>8, <1>11
  <2>2. ASSUME NEW u \in Tuples
        PROVE  spaceBar'[u] = IF u = v THEN spaceBar[u] - 1 ELSE spaceBar[u]
    <3>1. Inserting(u) <=> u = v
      BY <1>6, <1>9 DEF Inserting
    <3>2. ~Inserting(u)'
      BY <2>1 DEF Inserting
    <3>3. Contains(records, u)' <=> Contains(records, u)
      BY <1>4
    <3>4. spaceBar[u] = Copies(u) /\ spaceBar'[u] = Copies(u)'
      BY <1>5, SpaceCounts, SpaceCountsNext
    <3> QED
      BY <3>1, <3>2, <3>3, <3>4 DEF Copies
  <2>3. spaceBar' = [spaceBar EXCEPT ![v] = @ - 1]
    <3>1. /\ spaceBar = [u \in Tuples |-> spaceBar[u]]
          /\ spaceBar' = [u \in Tuples |-> spaceBar'[u]]
      BY DEF spaceBar
    <3> HIDE DEF spaceBar
    <3> QED
      BY <2>2, <3>1
  <2> QED
    BY <1>10, <1>11, <2>3 DEF Space!Input, OP_LINDA_INPUT
<1>12. CASE command[w].op # OP_LINDA_INPUT
  <2>1. \A e \in Clients : pc'[e] = "scan" <=> pc[e] = "scan"
    BY <1>3, <1>7, <1>8, <1>9, <1>12
  <2>2. spaceBar' = spaceBar
    BY <1>4, <2>1, SpaceKept
  <2>3. command[w].op = "read"
    BY <1>7, <1>12 DEF Request, OP_LINDA_WRITE, OP_LINDA_READ, OP_LINDA_INPUT
  <2> QED
    BY <1>10, <2>2, <2>3 DEF Space!Read
<1> QED
  BY <1>11, <1>12

(* insertTuple: the tuple moves into the database, or merges with the copy *)
(* that is there.                                                          *)
LEMMA InsertMerges ==
  ASSUME IInv, IInv', NEW c \in Clients, insertTuple(c)
  PROVE  Silent \/ Merges
<1>1. /\ pc[c] = "scan" /\ pc' = [pc EXCEPT ![c] = "answer"]
      /\ records' = IF Contains(records, elems[c]) THEN records
                    ELSE Append(records, elems[c])
      /\ UNCHANGED <<at, command, elems, tuple, served>>
  BY DEF insertTuple, GoTo, clientVars
<1>2. TypeOK /\ QueueOK /\ QueueOK'
  BY DEF IInv
<1>3. PICK v \in Tuples : v = elems[c]
  BY <1>1, ServingPlaces
<1>4. \A e \in Clients : pc[e] = "scan" <=> e = c
  BY <1>1, <1>2 DEF QueueOK
<1>5. \A e \in Clients : pc'[e] # "scan"
  BY <1>1, <1>2, <1>4 DEF TypeOK
<1>6. phaseBar' = phaseBar /\ resultBar' = resultBar
  BY <1>1, BarsKept DEF SeenSame
<1>7. ASSUME NEW u \in Tuples
      PROVE  /\ Inserting(u) <=> u = v
             /\ ~Inserting(u)'
             /\ spaceBar[u] = Copies(u) /\ spaceBar'[u] = Copies(u)'
  BY <1>2, <1>3, <1>4, <1>5, SpaceCounts, SpaceCountsNext DEF Inserting
<1>8. /\ spaceBar = [u \in Tuples |-> spaceBar[u]]
      /\ spaceBar' = [u \in Tuples |-> spaceBar'[u]]
  BY DEF spaceBar
<1>9. CASE Contains(records, v)
  <2>1. records' = records
    BY <1>1, <1>3, <1>9
  <2>2. \A u \in Tuples :
          spaceBar'[u] = IF u = v THEN spaceBar[u] - 1 ELSE spaceBar[u]
    BY <1>7, <1>9, <2>1 DEF Copies
  <2>3. spaceBar' = [spaceBar EXCEPT ![v] = @ - 1]
    <3> HIDE DEF spaceBar
    <3> QED
      BY <1>8, <2>2
  <2>4. spaceBar[v] > 1
    BY <1>7, <1>9 DEF Copies
  <2>5. Space!Merge(v)
    BY <1>1, <1>6, <2>3, <2>4 DEF Space!Merge
  <2> QED
    BY <2>5 DEF Merges
<1>10. CASE ~Contains(records, v)
  <2>1. records' = Append(records, v) /\ records \in Seq(Tuples) /\ Len(records) \in Nat
    BY <1>1, <1>3, <1>10, QueueTypes
  <2>2. /\ Len(records') = Len(records) + 1
        /\ \A k \in 1..Len(records) : records'[k] = records[k]
        /\ records'[Len(records) + 1] = v
    BY <2>1, AppendProperties
  <2>3. ASSUME NEW u
        PROVE  Contains(records', u) <=> u = v \/ Contains(records, u)
    BY <2>1, <2>2 DEF Contains
  <2>4. ASSUME NEW u \in Tuples PROVE spaceBar'[u] = spaceBar[u]
    <3>1. Contains(records', u) <=> u = v \/ Contains(records, u)
      BY <2>3
    <3> QED
      BY <1>7, <1>10, <3>1 DEF Copies
  <2>5. spaceBar' = spaceBar
    <3> HIDE DEF spaceBar
    <3> QED
      BY <1>8, <2>4
  <2> QED
    BY <1>1, <1>6, <2>5 DEF Silent
<1> QED
  BY <1>9, <1>10

(* Receiving, searching in vain, waiting and replying move messages and    *)
(* threads that have no tuple.                                             *)
LEMMA OtherStepsAreSilent ==
  ASSUME IInv, NEW c \in Clients,
         mainLoop(c) \/ receiveElem(c) \/ findNothing(c) \/ waitForTuple(c) \/ answer(c)
  PROVE  Silent
<1>1. /\ UNCHANGED <<at, command, tuple, records, served>>
      /\ pc[c] # "scan"
      /\ \E to \in {"main", "receive", "find", "wait", "blocked", "add", "answer", "ended"} :
           pc' = [pc EXCEPT ![c] = to]
      /\ elems' = elems \/ \E s : elems' = [elems EXCEPT ![c] = s]
  BY DEF mainLoop, receiveElem, findNothing, waitForTuple, answer, Dispatch, GoTo,
         clientVars, dbVars
<1>2. TypeOK
  BY DEF IInv
<1>3. \A e \in Clients : /\ pc'[e] = "scan" <=> pc[e] = "scan"
                         /\ pc[e] = "scan" => elems'[e] = elems[e]
  BY <1>1, <1>2 DEF TypeOK
<1> QED
  BY <1>1, <1>3, SilentStep

LEMMA Simulation ==
  ASSUME IInv, IInv', PiecesAreNoElements, [Next]_vars
  PROVE  [Space!Next]_(Space!vars)
<1>1. CASE UNCHANGED vars
  <2>1. UNCHANGED <<at, command, tuple, served, records, pc, elems>>
    BY <1>1 DEF vars, clientVars, threadVars, dbVars
  <2>2. Silent
    BY <2>1, SilentStep
  <2> QED
    BY <2>2 DEF Silent, Space!vars
<1>2. ASSUME NEW c \in Clients, handleCommand(c) \/ disconnect(c) \/ Kill(c)
      PROVE  Silent \/ Space!Next
  <2>1. Silent \/ Begins(c)
    BY <1>2, CommandIssues, GoodbyeLeaves, KillLeaves DEF Begins
  <2> QED
    BY <2>1 DEF Begins, Space!Next
<1>3. ASSUME NEW c \in Clients, ClientStep(c)
      PROVE  Silent \/ Space!Next
  <2>1. CASE sendMessage(c, "up") \/ bufferedReadFromPipe(c, "down") \/ fetchGarbage(c, "down")
    <3>1. UNCHANGED <<at, command, tuple, served, records, pc, elems>>
      BY <2>1 DEF sendMessage, bufferedReadFromPipe, fetchGarbage, clientVars, threadVars,
                  dbVars
    <3> QED
      BY <3>1, SilentStep
  <2>2. CASE receiveReply(c) \/ receiveTuple(c)
    <3>1. Silent \/ Space!Return(c)
      BY <2>2, ReplyReturns, ElementReturns
    <3> QED
      BY <3>1 DEF Space!Next
  <2> QED
    BY <1>3, <2>1, <2>2 DEF ClientStep
<1>4. ASSUME NEW c \in Clients, ThreadStep(c)
      PROVE  Silent \/ Space!Next
  <2>1. CASE \/ sendMessage(c, "down") \/ bufferedReadFromPipe(c, "up")
             \/ fetchGarbage(c, "up") \/ receiveThrows(c)
    <3>1. UNCHANGED <<at, command, tuple, served, records, pc, elems>>
      BY <2>1 DEF sendMessage, bufferedReadFromPipe, fetchGarbage, receiveThrows,
                  clientVars, threadVars, dbVars
    <3> QED
      BY <3>1, SilentStep
  <2>2. CASE \/ mainLoop(c) \/ receiveElem(c) \/ findNothing(c) \/ waitForTuple(c)
             \/ answer(c)
    BY <2>2, OtherStepsAreSilent
  <2>3. CASE addTupleToDB(c)
    BY <2>3, AddOutputs DEF Space!Next
  <2>4. CASE findTuple(c)
    BY <2>4, FindTakes DEF Space!Next
  <2>5. CASE informWaitingThreads(c)
    BY <2>5, InformTakes DEF Space!Next
  <2>6. CASE insertTuple(c)
    BY <2>6, InsertMerges DEF Merges, Space!Next
  <2> QED
    BY <1>4, <2>1, <2>2, <2>3, <2>4, <2>5, <2>6 DEF ThreadStep
<1>5. ASSUME Silent PROVE UNCHANGED Space!vars
  BY <1>5 DEF Silent, Space!vars
<1> QED
  BY <1>1, <1>2, <1>3, <1>4, <1>5 DEF Next

(* Seen from the clients, the protocol between Client and ServiceThread    *)
(* keeps the promise of a tuple space: a command takes effect once, as a   *)
(* whole, or not at all, and its reply goes to the client that typed it,   *)
(* also when clients are killed anywhere and elements are cut.             *)
THEOREM SessionIsATupleSpace == PiecesAreNoElements /\ Spec => ImplementsTupleSpace
<1> SUFFICES ASSUME PiecesAreNoElements
             PROVE  Spec => ImplementsTupleSpace
  OBVIOUS
<1>1. Init => Space!Init
  <2> SUFFICES ASSUME Init PROVE Space!Init
    OBVIOUS
  <2>1. \A v \in Tuples : {c \in Clients : pc[c] = "scan" /\ elems[c] = v} = {}
    BY DEF Init
  <2>2. \A v \in Tuples : ~Contains(records, v)
    BY EmptySeq DEF Init, Contains
  <2>3. spaceBar = [v \in Tuples |-> 0]
    BY <2>1, <2>2, FS_EmptySet DEF spaceBar
  <2>4. /\ phaseBar = [c \in Clients |-> "idle"]
        /\ resultBar = [c \in Clients |-> << >>]
    BY DEF Init, phaseBar, resultBar
  <2> QED
    BY <2>3, <2>4 DEF Init, Space!Init
<1>2. IInv /\ IInv' /\ [Next]_vars => [Space!Next]_(Space!vars)
  BY Simulation
<1>3. Spec => []IInv
  BY SessionInvariantHolds
<1> QED
  BY <1>1, <1>2, <1>3, PTL DEF Spec, ImplementsTupleSpace, Space!Spec

=============================================================================
