------------------------- MODULE ServerDBRefinement -------------------------
(***************************************************************************)
(* ServerDB implements TupleSpace, for clients among which there are not   *)
(* both readers and inputters (see README.md for what the two together     *)
(* break).  An output takes effect when its thread starts to scan the      *)
(* queue, a search when it finds a tuple, and a wait when the notifier     *)
(* unlocks the waiter.                                                     *)
(***************************************************************************)
EXTENDS ServerDB

(* The notifier has unlocked an input: the tuple is the waiter's.          *)
HandedOver(t) ==
  pc[t] = "erase" /\ isInput[waiting_threads_queue[iter[t]]] = {TRUE}

(* The threads that hold a copy of v on its way into the database.         *)
Carriers(v) ==
  {t \in ServiceThreads :
     /\ request[t] = [op |-> OP_LINDA_WRITE, arg |-> v]
     /\ pc[t] \in {"scan", "unlock", "erase", "insert"}
     /\ ~HandedOver(t)}

Answered(t) ==
  \/ pc[t] \in {"scan", "unlock", "erase", "insert", "send", "woken"}
  \/ pc[t] = "blocked" /\ t \in unlocked

spaceBar ==
  [v \in Tuples |-> Cardinality(Carriers(v)) + IF Stored(v) THEN 1 ELSE 0]

phaseBar ==
  [t \in ServiceThreads |->
     IF pc[t] = "receive" THEN "idle"
     ELSE IF pc[t] = "ended" THEN "gone"
     ELSE IF Answered(t) THEN "answered" ELSE "pending"]

resultBar ==
  [t \in ServiceThreads |->
     IF ~Answered(t) \/ request[t].op = OP_LINDA_WRITE THEN EmptyTuple
     ELSE IF pc[t] = "send" THEN tuple[t] ELSE passed_tuple[t]]

Space == INSTANCE TupleSpace WITH
  Clients   <- ServiceThreads,
  Requests  <- Request,
  NoTuple   <- EmptyTuple,
  NoCommand <- NoRequest,
  space     <- spaceBar,
  phase     <- phaseBar,
  command   <- request,
  result    <- resultBar

(* Every step of the threads is a step of the tuple space or none: reads   *)
(* answer tuples that are in the space, inputs take one copy each, outputs *)
(* add one.                                                                *)
ImplementsTupleSpace == Space!Spec

-----------------------------------------------------------------------------
(* What the refinement rests on, next to the invariant of                  *)
(* ServerDBInvariant.                                                      *)

(* The clients it holds for: finitely many, who do not both read and       *)
(* input, of whom none leaves (isInput of a waiter that has gone may read  *)
(* as anything) and none outputs the empty tuple (which a search cannot    *)
(* tell from having found nothing).                                        *)
PureWorkload ==
  /\ IsFiniteSet(ServiceThreads)
  /\ ~({OP_LINDA_READ, OP_LINDA_INPUT} \subseteq Commands)
  /\ EXIT \notin Commands
  /\ EmptyTuple \notin Tuples

(* A thread serves commands that the clients type.                         *)
ServesCommands ==
  \A t \in ServiceThreads : request[t].op \in Commands \cup {EXIT}

(* The AwaitingParams of whoever is queued, or is about to be, say whether *)
(* the clients input, also when the waiter has been unlocked and serves    *)
(* its next command already.                                               *)
WaitsAreOfOneKind ==
  LET kind == IF OP_LINDA_INPUT \in Commands THEN {TRUE} ELSE {FALSE} IN
  /\ \A t \in ServiceThreads : pc[t] = "enqueue" => isInput[t] = kind
  /\ \A i \in DOMAIN waiting_threads_queue :
       isInput[waiting_threads_queue[i]] = kind

(* The waiter that a notifier is about to unlock holds its tuple.          *)
PassedOK ==
  \A t \in ServiceThreads :
    pc[t] = "unlock"
      => passed_tuple[waiting_threads_queue[iter[t]]] = request[t].arg

(* The outputs of a tuple that have not taken effect, and the inputs that  *)
(* have taken one and are not answered yet.                                *)
Announced(v) ==
  {t \in ServiceThreads :
     /\ phaseBar[t] = "pending"
     /\ request[t] = [op |-> OP_LINDA_WRITE, arg |-> v]}

Taking(v) ==
  {t \in ServiceThreads :
     /\ phaseBar[t] = "answered"
     /\ request[t].op = OP_LINDA_INPUT
     /\ resultBar[t] = v}

(* What is owed of a tuple is announced, in the space or taken.            *)
Accounting ==
  \A v \in Tuples :
    owed[v] = Cardinality(Announced(v)) + spaceBar[v] + Cardinality(Taking(v))

PureInv == ServesCommands /\ WaitsAreOfOneKind /\ PassedOK /\ Accounting
=============================================================================
