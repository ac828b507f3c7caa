-------------------------- MODULE SessionInvariant --------------------------
(***************************************************************************)
(* The inductive invariant of Session that SessionProofs proves: where an  *)
(* exchange stands on both sides, and what is under way on the two links   *)
(* of a client meanwhile.                                                  *)
(***************************************************************************)
EXTENDS Session

(* An element that arrives as it was sent, and tuples and patterns of      *)
(* such elements.                                                          *)
IsWhole(e)  == Arrives(e) = <<ElemMessage(e)>>
AllWhole(s) == \A i \in 1..Len(s) : IsWhole(s[i])

IsElement(m) == m.type \in {"elem", "pattern"}

(* Nothing that is left of a cut element is an element itself.             *)
PiecesAreNoElements ==
  \A s \in Tuples \cup Patterns : \A i \in 1..Len(s) :
    IsWhole(s[i]) \/ \A k \in DOMAIN Arrives(s[i]) : ~IsElement(Arrives(s[i])[k])

Elements(stream) == Cardinality({i \in DOMAIN stream : IsElement(stream[i])})

-----------------------------------------------------------------------------
(* Of a sequence of elements that are being sent, some have been received, *)
(* some are in the stream between writer and reader, and the messages of   *)
(* the others are about to be written.  A sender that was killed writes no *)
(* more.                                                                   *)

(* Everything so far has arrived, or will, as it was sent.                 *)
Intact(sent, received, stream, rest) ==
  LET n == Len(received) + Len(stream) IN
  /\ n + Len(rest) <= Len(sent)
  /\ rest # << >> => n + Len(rest) = Len(sent)
  /\ \A i \in 1..Len(received) : received[i] = sent[i]
  /\ \A i \in 1..Len(stream) : stream[i] = ElemMessage(sent[Len(received) + i])
  /\ \A i \in 1..n : IsWhole(sent[i])
  /\ \A i \in 1..Len(rest) : rest[i] = ElemMessage(sent[n + i])

(* Something was cut: less will arrive than the header says.               *)
Short(sent, received, stream, rest) ==
  /\ ~AllWhole(sent)
  /\ Len(received) + Elements(stream) + Len(rest) < Len(sent)
  /\ \A i \in 1..Len(rest) : \E k \in 1..Len(sent) : rest[i] = ElemMessage(sent[k])

(* The header comes first.                                                 *)
Announced(op, sent, stream, rest) ==
  \/ stream = << >> /\ rest = Sent(op, sent)
  \/ /\ stream # << >> /\ Head(stream) = OperationMessage(op, Len(sent))
     /\ \/ Intact(sent, << >>, Tail(stream), rest)
        \/ Short(sent, << >>, Tail(stream), rest)

-----------------------------------------------------------------------------
(* The exchange of a client and its thread                                 *)

Stream(c, d) == buffer[<<c, d>>] \o fifo[<<c, d>>]

Quiet(c, d) ==
  /\ unsent[<<c, d>>] = << >> /\ fifo[<<c, d>>] = << >> /\ buffer[<<c, d>>] = << >>
  /\ <<c, d>> \notin starved

(* The elements of the reply.                                              *)
Result(c) == IF command[c].op = OP_LINDA_WRITE THEN << >> ELSE tuple[c]

ResultOK(c) ==
  /\ AllWhole(Result(c))
  /\ command[c].op # OP_LINDA_WRITE =>
       tuple[c] \in Tuples /\ isPatternEqualToTuple(command[c].arg, tuple[c])

Typing(c) ==
  /\ at[c] = "prompt" /\ pc[c] = "main" /\ c \notin served
  /\ Quiet(c, "up") /\ Quiet(c, "down")

Asking(c) ==
  /\ at[c] \in {"reply", "killed"} /\ pc[c] = "main" /\ c \notin served
  /\ Quiet(c, "down") /\ <<c, "up">> \notin starved
  /\ command[c] \in Request
  /\ \/ Announced(command[c].op, command[c].arg, Stream(c, "up"), unsent[<<c, "up">>])
     \/ at[c] = "killed" /\ Quiet(c, "up")

Passing(c) ==
  /\ at[c] \in {"reply", "killed"} /\ pc[c] = "receive" /\ c \notin served
  /\ Quiet(c, "down")
  /\ command[c] \in Request
  /\ header[c] = OperationMessage(command[c].op, Len(command[c].arg))
  /\ Len(elems[c]) < Len(command[c].arg)
  /\ \/ /\ Intact(command[c].arg, elems[c], Stream(c, "up"), unsent[<<c, "up">>])
        /\ <<c, "up">> \notin starved
     \/ Short(command[c].arg, elems[c], Stream(c, "up"), unsent[<<c, "up">>])

Serving(c) ==
  /\ at[c] \in {"reply", "killed"} /\ Quiet(c, "up") /\ Quiet(c, "down")
  /\ command[c] \in Request
  /\ header[c] = OperationMessage(command[c].op, Len(command[c].arg))
  /\ elems[c] = command[c].arg /\ AllWhole(elems[c])
  /\ c \in served <=> pc[c] \in {"scan", "answer"}
  /\ \/ pc[c] \in {"find", "wait", "blocked"} /\ command[c].op # OP_LINDA_WRITE
     \/ pc[c] \in {"add", "scan"} /\ command[c].op = OP_LINDA_WRITE
     \/ pc[c] = "answer" /\ ResultOK(c)

Answering(c) ==
  /\ pc[c] = "main" /\ c \in served
  /\ Quiet(c, "up") /\ <<c, "down">> \notin starved
  /\ command[c] \in Request /\ ResultOK(c)
  /\ \/ /\ at[c] \in {"reply", "killed"}
        /\ Announced(OP_RETURN_RESULT, Result(c), Stream(c, "down"), unsent[<<c, "down">>])
     \/ /\ at[c] \in {"elements", "killed"}
        /\ missing[c] > 0 /\ missing[c] + Len(got[c]) = Len(Result(c))
        /\ Intact(Result(c), got[c], Stream(c, "down"), unsent[<<c, "down">>])

Goodbye == <<ConnectionMessage(FALSE)>>

Leaving(c) ==
  /\ at[c] = "left" /\ c \notin served
  /\ Quiet(c, "down") /\ <<c, "up">> \notin starved
  /\ \/ pc[c] \in {"main", "ended"} /\ Quiet(c, "up")
     \/ /\ pc[c] = "main"
        /\ \/ Stream(c, "up") = << >> /\ unsent[<<c, "up">>] = Goodbye
           \/ Stream(c, "up") = Goodbye /\ unsent[<<c, "up">>] = << >>

ExchangeOK(c) ==
  Typing(c) \/ Asking(c) \/ Passing(c) \/ Serving(c) \/ Answering(c) \/ Leaving(c)

(* Only whole tuples are stored, each once.                                *)
StoreOK ==
  /\ \A i \in 1..Len(records) : records[i] \in Tuples /\ AllWhole(records[i])
  /\ \A i, j \in 1..Len(records) : records[i] = records[j] => i = j

(* Only blocked threads are queued, each once, and one thread at a time    *)
(* scans the queue.                                                        *)
QueueOK ==
  /\ \A i, j \in 1..Len(waiting_threads_queue) :
       waiting_threads_queue[i] = waiting_threads_queue[j] => i = j
  /\ \A i \in 1..Len(waiting_threads_queue) : pc[waiting_threads_queue[i]] = "blocked"
  /\ \A c, d \in Clients : pc[c] = "scan" /\ pc[d] = "scan" => c = d

(* The thread that threw waited for an element that will not come.         *)
ThrownOK ==
  server = "terminated" =>
    \E c \in Clients : pc[c] = "receive" /\ ~AllWhole(command[c].arg)

IInv ==
  /\ TypeOK
  /\ \A c \in Clients : ExchangeOK(c)
  /\ StoreOK
  /\ QueueOK
  /\ ThrownOK
  /\ AnswersCommand
=============================================================================
