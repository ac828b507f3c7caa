------------------------------ MODULE Session ------------------------------
(***************************************************************************)
(* A client and its service thread, message by message: Client::interact,  *)
(* handleCommand and disconnect (src/client.cpp), ServiceThread::mainLoop  *)
(* and its handlers (src/service_thread.cpp), and the functions of         *)
(* src/linda_common.cpp that send and receive tuples and patterns.         *)
(*                                                                         *)
(* A command is a header and one message for each element, written one     *)
(* after the other; so is a reply.  Clients may be killed anywhere; both   *)
(* processes open both FIFOs O_RDWR, so that the survivor sees no end of   *)
(* file and no SIGPIPE.  An exception in the server ends it.               *)
(*                                                                         *)
(* What several threads do inside the database at once is the subject of   *)
(* ServerDB.  Here a search is one step, the scan of the waiting queue one *)
(* step for each waiter that is served, and the insertion one step.        *)
(***************************************************************************)
EXTENDS TupleMatch, FiniteSets, SequencesExt

CONSTANTS
  Clients,     \* each stands for its service thread, too
  Tuples,
  Patterns,
  Commands,    \* the operations that clients type
  MaxCommands, \* bound: commands of all clients
  MayDie,      \* whether clients may be killed
  Arrives(_)   \* the messages that are deserialized from the bytes of an element

OP_LINDA_READ    == "read"
OP_LINDA_INPUT   == "input"
OP_LINDA_WRITE   == "output"
OP_RETURN_RESULT == "result"
EXIT             == "exit"

Ops == {OP_LINDA_READ, OP_LINDA_INPUT, OP_LINDA_WRITE}

Request ==
  [op : {OP_LINDA_WRITE}, arg : Tuples]
    \cup [op : {OP_LINDA_READ, OP_LINDA_INPUT}, arg : Patterns]

NoRequest == [op |-> EXIT, arg |-> << >>]

-----------------------------------------------------------------------------
(* Messages                                                                *)

OperationMessage(op, n) == [type |-> "operation", op_type |-> op, tuple_size |-> n]
ConnectionMessage(b)    == [type |-> "connection", connect |-> b]

(* The message of an element that arrives as it was sent.                  *)
ElemMessage(e) ==
  [type |-> IF "op" \in DOMAIN e THEN "pattern" ELSE "elem", elem |-> e]

(* Bytes that do not deserialize: fetchMessageFromBuffer returns nullopt.  *)
Garbage == [type |-> "garbage"]

Message ==
  [type : {"operation"}, op_type : Ops \cup {OP_RETURN_RESULT, EXIT}, tuple_size : Int]
    \cup [type : {"connection"}, connect : BOOLEAN]
    \cup [type : {"elem"}, elem : TupleElem]
    \cup [type : {"pattern"}, elem : Pattern]
    \cup {Garbage}

(* The empty tuple, which the database confuses with none, is left to      *)
(* ServerDB, and a header that is cut itself, as the size 36 in it is the  *)
(* terminator, to Framing.                                                 *)
ASSUME SessionAssumption ==
  /\ Tuples \subseteq Seq(TupleElem) \ {<< >>}
  /\ Patterns \subseteq Seq(Pattern) \ {<< >>}
  /\ Commands \subseteq Ops \cup {EXIT}
  /\ MaxCommands \in Nat
  /\ MayDie \in BOOLEAN
  /\ \A s \in Tuples \cup Patterns :
       Len(s) < 36 /\ \A i \in DOMAIN s : Arrives(s[i]) \in Seq(Message)

(* sendTuple and sendPattern: the messages they write, one by one.         *)
Sent(op, elems) ==
  <<OperationMessage(op, Len(elems))>>
    \o [i \in 1..Len(elems) |-> ElemMessage(elems[i])]

(* What one of them is in the FIFO: only elements contain bytes that may   *)
(* cut them.                                                               *)
Pieces(m) == IF m.type \in {"elem", "pattern"} THEN Arrives(m.elem) ELSE <<m>>

Links == Clients \X {"up", "down"}

VARIABLES
  at,      \* where each client stands in interact()
  command, \* the command it typed last
  missing, \* elements of the reply that it has yet to receive
  got,     \* those it has received
  shown,   \* history: what it printed for its last command
  unsent,  \* messages that the sender of each link is about to write
  fifo,    \* messages in the FIFO
  buffer,  \* messages in the receiver's MessageBuffer
  starved, \* links whose receiver reads although its buffer may hold more
  pc,      \* where each service thread stands
  header,  \* the OperationMessage it serves
  elems,   \* the elements it has received
  tuple,   \* the tuple that it found or was passed
  records, \* the stored tuples
  waiting_threads_queue,
  server,  \* "up" or "terminated"
  issued,  \* commands typed so far
  served   \* history: the commands that have taken effect

clientVars == <<at, command, missing, got, shown>>
linkVars   == <<unsent, fifo, buffer, starved>>
threadVars == <<pc, header, elems, tuple>>
dbVars     == <<records, waiting_threads_queue>>
vars == <<clientVars, linkVars, threadVars, dbVars, server, issued, served>>

NothingShown == [kind |-> "nothing", tuple |-> << >>]

Init ==
  /\ at = [c \in Clients |-> "prompt"]
  /\ command = [c \in Clients |-> NoRequest]
  /\ missing = [c \in Clients |-> 0]
  /\ got = [c \in Clients |-> << >>]
  /\ shown = [c \in Clients |-> NothingShown]
  /\ unsent = [l \in Links |-> << >>]
  /\ fifo = [l \in Links |-> << >>]
  /\ buffer = [l \in Links |-> << >>]
  /\ starved = {}
  /\ pc = [c \in Clients |-> "main"]
  /\ header = [c \in Clients |-> OperationMessage(EXIT, 0)]
  /\ elems = [c \in Clients |-> << >>]
  /\ tuple = [c \in Clients |-> << >>]
  /\ records = << >>
  /\ waiting_threads_queue = << >>
  /\ server = "up"
  /\ issued = 0
  /\ served = {}

GoTo(c, from, to) ==
  /\ server = "up"
  /\ pc[c] = from
  /\ pc' = [pc EXCEPT ![c] = to]

-----------------------------------------------------------------------------
(* The two FIFOs of a client                                               *)

(* Whoever sends writes all its messages before it receives again.         *)
Receiving(c, d) ==
  IF d = "up"
  THEN server = "up" /\ pc[c] \in {"main", "receive"} /\ unsent[c, "down"] = << >>
  ELSE at[c] \in {"reply", "elements"} /\ unsent[c, "up"] = << >>

sendMessage(c, d) ==
  /\ d = "down" => server = "up"
  /\ unsent[c, d] # << >>
  /\ fifo' = [fifo EXCEPT ![<<c, d>>] = @ \o Pieces(Head(unsent[c, d]))]
  /\ unsent' = [unsent EXCEPT ![<<c, d>>] = Tail(@)]
  /\ UNCHANGED <<clientVars, buffer, starved, threadVars, dbVars, server, issued,
                 served>>

(* A command is far smaller than PIPE_READ_SIZE: a read takes what there is.*)
bufferedReadFromPipe(c, d) ==
  /\ Receiving(c, d)
  /\ buffer[c, d] = << >> \/ <<c, d>> \in starved
  /\ fifo[c, d] # << >>
  /\ buffer' = [buffer EXCEPT ![<<c, d>>] = @ \o fifo[c, d]]
  /\ fifo' = [fifo EXCEPT ![<<c, d>>] = << >>]
  /\ starved' = starved \ {<<c, d>>}
  /\ UNCHANGED <<clientVars, unsent, threadVars, dbVars, server, issued, served>>

(* readFromPipeUntilMessageFound goes back to read() after garbage, even   *)
(* if there are messages behind it in the buffer.                          *)
fetchGarbage(c, d) ==
  /\ Receiving(c, d) /\ <<c, d>> \notin starved
  /\ buffer[c, d] # << >> /\ Head(buffer[c, d]) = Garbage
  /\ buffer' = [buffer EXCEPT ![<<c, d>>] = Tail(@)]
  /\ starved' = starved \cup {<<c, d>>}
  /\ UNCHANGED <<clientVars, unsent, fifo, threadVars, dbVars, server, issued,
                 served>>

(* The receiver of a link gets message m.                                  *)
Receives(c, d, m) ==
  /\ Receiving(c, d) /\ <<c, d>> \notin starved
  /\ buffer[c, d] # << >> /\ m = Head(buffer[c, d])
  /\ m # Garbage
  /\ buffer' = [buffer EXCEPT ![<<c, d>>] = Tail(@)]
  /\ UNCHANGED <<unsent, fifo, starved>>

-----------------------------------------------------------------------------
(* Client::interact                                                        *)

(* A line is parsed and handleCommand begins to send it.                   *)
handleCommand(c) ==
  /\ at[c] = "prompt" /\ issued < MaxCommands
  /\ \E r \in Request :
       /\ r.op \in Commands
       /\ command' = [command EXCEPT ![c] = r]
       /\ unsent' = [unsent EXCEPT ![<<c, "up">>] = Sent(r.op, r.arg)]
  /\ at' = [at EXCEPT ![c] = "reply"]
  /\ issued' = issued + 1
  /\ UNCHANGED <<missing, got, shown, fifo, buffer, starved, threadVars, dbVars,
                 server, served>>

disconnect(c) ==
  /\ EXIT \in Commands
  /\ at[c] = "prompt"
  /\ at' = [at EXCEPT ![c] = "left"]
  /\ unsent' = [unsent EXCEPT ![<<c, "up">>] = <<ConnectionMessage(FALSE)>>]
  /\ UNCHANGED <<command, missing, got, shown, fifo, buffer, starved, threadVars,
                 dbVars, server, issued, served>>

(* The client prints an outcome and the prompt.                            *)
Shows(c, kind, t) ==
  /\ shown' = [shown EXCEPT ![c] = [kind |-> kind, tuple |-> t]]
  /\ at' = [at EXCEPT ![c] = "prompt"]
  /\ served' = served \ {c}

(* Seeded bug: the elements of a tuple are not waited for.                 *)
ReplyWithoutElements(c) ==
  /\ at[c] = "reply"
  /\ \E m \in ToSet(buffer[c, "down"]) : Receives(c, "down", m)
  /\ Shows(c, IF command[c].op = OP_LINDA_WRITE THEN "written" ELSE "tuple", << >>)
  /\ UNCHANGED <<command, missing, got, threadVars, dbVars, server, issued>>

(* What interact() does with the first message of a reply: a header that   *)
(* announces elements makes it wait for them, "Write successful", an empty *)
(* tuple and "Server error" are printed; it ignores other messages.        *)
receiveReply(c) ==
  /\ at[c] = "reply"
  /\ \E m \in ToSet(buffer[c, "down"]) :
       /\ Receives(c, "down", m)
       /\ IF m.type = "operation" /\ m.op_type = OP_RETURN_RESULT /\ m.tuple_size > 0
          THEN /\ at' = [at EXCEPT ![c] = "elements"]
               /\ missing' = [missing EXCEPT ![c] = m.tuple_size]
               /\ got' = [got EXCEPT ![c] = << >>]
               /\ UNCHANGED <<shown, served>>
          ELSE /\ Shows(c, IF m.type # "operation" THEN "nothing"
                           ELSE IF m.op_type # OP_RETURN_RESULT THEN "error"
                           ELSE IF command[c].op = OP_LINDA_WRITE THEN "written"
                           ELSE "tuple", << >>)
               /\ UNCHANGED <<missing, got>>
  /\ UNCHANGED <<command, threadVars, dbVars, server, issued>>

(* A turn of the loop of receiveTuple, whose exception interact() catches. *)
receiveTuple(c) ==
  /\ at[c] = "elements"
  /\ \E m \in ToSet(buffer[c, "down"]) :
       /\ Receives(c, "down", m)
       /\ LET all == IF m.type = "elem" THEN Append(got[c], m.elem) ELSE << >> IN
          /\ got' = [got EXCEPT ![c] = all]
          /\ missing' = [missing EXCEPT ![c] = @ - 1]
          /\ IF m.type # "elem" THEN Shows(c, "error", << >>)
             ELSE IF missing[c] = 1 THEN Shows(c, "tuple", all)
             ELSE UNCHANGED <<shown, at, served>>
  /\ UNCHANGED <<command, threadVars, dbVars, server, issued>>

(* The process is killed.  What it has not written is never written.       *)
Kill(c) ==
  /\ MayDie
  /\ at[c] \in {"prompt", "reply", "elements"} \/ unsent[c, "up"] # << >>
  /\ at' = [at EXCEPT ![c] = IF @ \in {"prompt", "left"} THEN "left" ELSE "killed"]
  /\ unsent' = [unsent EXCEPT ![<<c, "up">>] = << >>]
  /\ UNCHANGED <<command, missing, got, shown, fifo, buffer, starved, threadVars,
                 dbVars, server, issued, served>>

-----------------------------------------------------------------------------
(* ServiceThread                                                           *)

(* Where mainLoop goes with a message: handleConnectionMessage ends it     *)
(* when the client leaves, handleOperationMessage receives the elements of *)
(* an operation it knows, and the rest is ignored.                         *)
Dispatch(m) ==
  IF m.type = "connection" /\ ~m.connect THEN "ended"
  ELSE IF m.type = "operation" /\ m.op_type \in Ops THEN "receive"
  ELSE "main"

(* Seeded bug: a client that leaves is taken for one that connects again.  *)
LoopGoesOn(c) ==
  /\ \E m \in ToSet(buffer[c, "up"]) :
       /\ Receives(c, "up", m)
       /\ GoTo(c, "main", IF m.type = "operation" THEN "receive" ELSE "main")
       /\ header' = [header EXCEPT ![c] = IF m.type = "operation" THEN m ELSE @]
  /\ elems' = [elems EXCEPT ![c] = << >>]
  /\ UNCHANGED <<clientVars, tuple, dbVars, server, issued, served>>

mainLoop(c) ==
  /\ \E m \in ToSet(buffer[c, "up"]) :
       /\ Receives(c, "up", m)
       /\ GoTo(c, "main", Dispatch(m))
       /\ header' = [header EXCEPT ![c] = IF m.type = "operation" THEN m ELSE @]
  /\ elems' = [elems EXCEPT ![c] = << >>]
  /\ UNCHANGED <<clientVars, tuple, dbVars, server, issued, served>>

(* Seeded bug: the elements of a pattern are taken for those of a tuple.   *)
WantsElem(op) == "elem"

WantedType(op) == IF op = OP_LINDA_WRITE THEN "elem" ELSE "pattern"

(* A turn of the loop of receiveTuple in handleWrite, or of receivePattern *)
(* in handleRead and handleInput.                                          *)
receiveElem(c) ==
  LET op == header[c].op_type
      to == IF Len(elems[c]) + 1 < header[c].tuple_size THEN "receive"
            ELSE IF op = OP_LINDA_WRITE THEN "add" ELSE "find"
  IN  /\ GoTo(c, "receive", to)
      /\ \E m \in ToSet(buffer[c, "up"]) :
           /\ Receives(c, "up", m)
           /\ m.type = WantedType(op)
           /\ elems' = [elems EXCEPT ![c] = Append(@, m.elem)]
      /\ UNCHANGED <<clientVars, header, tuple, dbVars, server, issued, served>>

(* A message of another type: the exception leaves the thread's function.  *)
receiveThrows(c) ==
  /\ pc[c] = "receive"
  /\ \E m \in ToSet(buffer[c, "up"]) :
       Receives(c, "up", m) /\ m.type # WantedType(header[c].op_type)
  /\ server' = "terminated"
  /\ UNCHANGED <<clientVars, threadVars, dbVars, issued, served>>

(* The position of the first stored tuple that matches, or 0.              *)
Found(c) == SelectInSeq(records, LAMBDA t : isPatternEqualToTuple(elems[c], t))

(* findTuple and findTupleAndRemoveIt find a tuple.                        *)
findTuple(c) ==
  /\ GoTo(c, "find", "answer")
  /\ Found(c) # 0
  /\ tuple' = [tuple EXCEPT ![c] = records[Found(c)]]
  /\ records' = IF header[c].op_type = OP_LINDA_INPUT
                THEN RemoveAt(records, Found(c)) ELSE records
  /\ served' = served \cup {c}
  /\ UNCHANGED <<clientVars, linkVars, header, elems, waiting_threads_queue, server,
                 issued>>

findNothing(c) ==
  /\ GoTo(c, "find", "wait")
  /\ Found(c) = 0
  /\ UNCHANGED <<clientVars, linkVars, header, elems, tuple, dbVars, server, issued,
                 served>>

(* queue_mutex is held while a thread scans the queue.                     *)
QueueIsFree == \A c \in Clients : pc[c] # "scan"

waitForTuple(c) ==
  /\ QueueIsFree
  /\ GoTo(c, "wait", "blocked")
  /\ waiting_threads_queue' = Append(waiting_threads_queue, c)
  /\ UNCHANGED <<clientVars, linkVars, header, elems, tuple, records, server, issued,
                 served>>

addTupleToDB(c) ==
  /\ QueueIsFree
  /\ GoTo(c, "add", "scan")
  /\ served' = served \cup {c}
  /\ UNCHANGED <<clientVars, linkVars, header, elems, tuple, dbVars, server, issued>>

(* The position of the first waiter that the tuple of c matches, or 0.     *)
FirstWaiter(c) ==
  SelectInSeq(waiting_threads_queue, LAMBDA w : isPatternEqualToTuple(elems[w], elems[c]))

(* Seeded bug: the scan goes on after an input has been served.            *)
InformServesAll(c) ==
  /\ pc[c] = "scan" /\ FirstWaiter(c) # 0
  /\ LET w == waiting_threads_queue[FirstWaiter(c)] IN
     /\ server = "up"
     /\ tuple' = [tuple EXCEPT ![w] = elems[c]]
     /\ waiting_threads_queue' = RemoveAt(waiting_threads_queue, FirstWaiter(c))
     /\ pc' = [pc EXCEPT ![w] = "answer"]
     /\ served' = served \cup {w}
  /\ UNCHANGED <<clientVars, linkVars, header, elems, records, server, issued>>

(* The first waiter left that matches is passed the tuple; an input takes  *)
(* it, which ends the operation.                                           *)
informWaitingThreads(c) ==
  /\ pc[c] = "scan" /\ FirstWaiter(c) # 0
  /\ LET w == waiting_threads_queue[FirstWaiter(c)] IN
     /\ server = "up"
     /\ tuple' = [tuple EXCEPT ![w] = elems[c]]
     /\ waiting_threads_queue' = RemoveAt(waiting_threads_queue, FirstWaiter(c))
     /\ pc' = [pc EXCEPT ![w] = "answer",
                         ![c] = IF header[w].op_type = OP_LINDA_INPUT
                                THEN "answer" ELSE "scan"]
     /\ served' = served \cup {w}
  /\ UNCHANGED <<clientVars, linkVars, header, elems, records, server, issued>>

(* Seeded bug: the result of the last search is stored.                    *)
InsertsResult(c) ==
  /\ GoTo(c, "scan", "answer")
  /\ FirstWaiter(c) = 0
  /\ records' = IF Contains(records, tuple[c]) THEN records
                ELSE Append(records, tuple[c])
  /\ UNCHANGED <<clientVars, linkVars, header, elems, tuple, waiting_threads_queue,
                 server, issued, served>>

insertTuple(c) ==
  /\ GoTo(c, "scan", "answer")
  /\ FirstWaiter(c) = 0
  /\ records' = IF Contains(records, elems[c]) THEN records
                ELSE Append(records, elems[c])
  /\ UNCHANGED <<clientVars, linkVars, header, elems, tuple, waiting_threads_queue,
                 server, issued, served>>

(* Seeded bug: an output is not confirmed.                                 *)
AnswerSearchesOnly(c) ==
  /\ GoTo(c, "answer", "main")
  /\ unsent' = [unsent EXCEPT ![<<c, "down">>] =
                  IF header[c].op_type = OP_LINDA_WRITE THEN << >>
                  ELSE Sent(OP_RETURN_RESULT, tuple[c])]
  /\ UNCHANGED <<clientVars, fifo, buffer, starved, header, elems, tuple, dbVars,
                 server, issued, served>>

(* The end of handleRead, handleInput and handleWrite.                     *)
answer(c) ==
  /\ GoTo(c, "answer", "main")
  /\ unsent' = [unsent EXCEPT ![<<c, "down">>] =
                  IF header[c].op_type = OP_LINDA_WRITE
                  THEN <<OperationMessage(OP_RETURN_RESULT, 0)>>
                  ELSE Sent(OP_RETURN_RESULT, tuple[c])]
  /\ UNCHANGED <<clientVars, fifo, buffer, starved, header, elems, tuple, dbVars,
                 server, issued, served>>

-----------------------------------------------------------------------------
ClientStep(c) ==
  \/ sendMessage(c, "up")
  \/ bufferedReadFromPipe(c, "down")
  \/ fetchGarbage(c, "down")
  \/ receiveReply(c)
  \/ receiveTuple(c)

ThreadStep(c) ==
  \/ sendMessage(c, "down")
  \/ bufferedReadFromPipe(c, "up")
  \/ fetchGarbage(c, "up")
  \/ mainLoop(c)
  \/ receiveElem(c)
  \/ receiveThrows(c)
  \/ findTuple(c)
  \/ findNothing(c)
  \/ waitForTuple(c)
  \/ addTupleToDB(c)
  \/ informWaitingThreads(c)
  \/ insertTuple(c)
  \/ answer(c)

Next ==
  \E c \in Clients :
    \/ handleCommand(c)
    \/ disconnect(c)
    \/ Kill(c)
    \/ ClientStep(c)
    \/ ThreadStep(c)

Spec == Init /\ [][Next]_vars

(* Processes and threads that can run are run; nobody is obliged to type.  *)
FairSpec ==
  /\ Spec
  /\ \A c \in Clients : WF_vars(ClientStep(c)) /\ WF_vars(ThreadStep(c))

-----------------------------------------------------------------------------
Kinds == {"nothing", "written", "tuple", "error"}

(* Every variable keeps its type; a client never has more of a reply than  *)
(* was announced.                                                          *)
TypeOK ==
  /\ at \in [Clients -> {"prompt", "reply", "elements", "left", "killed"}]
  /\ command \in [Clients -> Request \cup {NoRequest}]
  /\ missing \in [Clients -> Nat]
  /\ got \in [Clients -> Seq(TupleElem)]
  /\ shown \in [Clients -> [kind : Kinds, tuple : Seq(TupleElem)]]
  /\ unsent \in [Links -> Seq(Message)]
  /\ fifo \in [Links -> Seq(Message)]
  /\ buffer \in [Links -> Seq(Message)]
  /\ starved \subseteq Links
  /\ pc \in [Clients -> {"main", "receive", "find", "wait", "blocked", "add", "scan",
                         "answer", "ended"}]
  /\ header \in [Clients -> Message]
  /\ \A c \in Clients : header[c].type = "operation"
  /\ elems \in [Clients -> Seq(TupleElem \cup Pattern)]
  /\ tuple \in [Clients -> Tuples \cup {<< >>}]
  /\ records \in Seq(Tuples)
  /\ waiting_threads_queue \in Seq(Clients)
  /\ server \in {"up", "terminated"}
  /\ issued \in 0..MaxCommands
  /\ served \subseteq Clients

(* What a client prints answers the command it typed: "Write successful"   *)
(* an output, and a whole tuple that matches the pattern a search -- never *)
(* the reply to an earlier command or to another client, and never an      *)
(* error, whatever is cut of the elements of commands on their way, as     *)
(* long as no piece of one is an element itself.                           *)
AnswersCommand ==
  \A c \in Clients : at[c] = "prompt" /\ command[c] # NoRequest =>
    \/ command[c].op = OP_LINDA_WRITE /\ shown[c].kind = "written"
    \/ /\ command[c].op # OP_LINDA_WRITE
       /\ shown[c].kind = "tuple" /\ shown[c].tuple \in Tuples
       /\ isPatternEqualToTuple(command[c].arg, shown[c].tuple)

(* When the prompt is back the exchange is over: nothing of it is under    *)
(* way, in either direction or in either buffer, and the thread waits for  *)
(* the next command.  ServerDB takes a command and its reply for one step  *)
(* each on the strength of this.                                           *)
ExchangeIsOver ==
  \A c \in Clients : at[c] = "prompt" =>
    /\ \A d \in {"up", "down"} :
         /\ unsent[c, d] = << >> /\ fifo[c, d] = << >> /\ buffer[c, d] = << >>
         /\ <<c, d>> \notin starved
    /\ pc[c] = "main"

(* What Session shows of a tuple space: the tuples that are stored and the *)
(* one that is being inserted, where the client stands in its exchange,    *)
(* and the tuple that the thread has for it.                               *)
spaceBar ==
  [v \in Tuples |-> Cardinality({c \in Clients : pc[c] = "scan" /\ elems[c] = v})
                      + IF Contains(records, v) THEN 1 ELSE 0]

phaseBar ==
  [c \in Clients |-> IF at[c] = "prompt" THEN "idle"
                     ELSE IF at[c] = "left" THEN "gone"
                     ELSE IF c \in served THEN "answered" ELSE "pending"]

resultBar ==
  [c \in Clients |-> IF c \in served /\ command[c].op # OP_LINDA_WRITE
                     THEN tuple[c] ELSE << >>]

Space == INSTANCE TupleSpace WITH
  Requests  <- Request,
  NoTuple   <- << >>,
  NoCommand <- NoRequest,
  space     <- spaceBar,
  phase     <- phaseBar,
  result    <- resultBar

(* Seen from the clients, also from those that are killed anywhere in an   *)
(* exchange or whose commands are damaged on their way, this is a tuple    *)
(* space: a command takes effect once, as a whole, or not at all.          *)
ImplementsTupleSpace == Space!Spec

(* Every output ends with the prompt, and so does every search that has    *)
(* been given a tuple: client and thread never wait for each other.        *)
CommandReturns ==
  \A c \in Clients :
    at[c] = "reply" /\ (command[c].op = OP_LINDA_WRITE \/ c \in served)
      ~> at[c] = "prompt"

(* The thread of a client that has left ends.                              *)
GoodbyeEndsThread == \A c \in Clients : at[c] = "left" ~> pc[c] = "ended"

(* The server ends only if an element of some command did not arrive as it *)
(* was sent: no command that arrives whole, and no client that is killed   *)
(* or leaves, makes a thread throw, its own or another one.                *)
ThrowsOnlyIfDamaged ==
  server = "terminated" =>
    \E c \in Clients : \E i \in DOMAIN command[c].arg :
      LET e == command[c].arg[i] IN Arrives(e) # <<ElemMessage(e)>>

=============================================================================
