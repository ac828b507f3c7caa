------------------------------ MODULE ServerDB ------------------------------
(***************************************************************************)
(* The tuple space of the server: class ServerDB (src/server_db.cpp) and   *)
(* the service threads that call it (src/service_thread.cpp), one thread   *)
(* per connected client.                                                   *)
(*                                                                         *)
(* The grain of atomicity.  A critical section of db_mutex touches         *)
(* `records' and nothing else shared, so it is one action and the mutex    *)
(* needs no variable.  The critical section of queue_mutex in              *)
(* informWaitingThreads is several actions: in the middle of it the        *)
(* notifier wakes a waiter, and the waiter runs on while the notifier      *)
(* still reads the waiter's AwaitingParams.                                *)
(*                                                                         *)
(* The exchange of a command and its reply over the client's pair of FIFOs *)
(* is one action each (ReceiveOperation, SendReply): a client types its    *)
(* next command only after the reply to the previous one.                  *)
(***************************************************************************)
EXTENDS TupleMatch, FiniteSets, SequencesExt

CONSTANTS
  ServiceThreads, \* the service threads of the connected clients
  Tuples,         \* the tuples that clients output
  Patterns,       \* the patterns that clients read and input with
  Commands,       \* the commands that clients type
  MaxCommands,    \* bound: read, input and output commands of all clients
  NoThread        \* no holder of queue_mutex

OP_LINDA_READ  == "read"
OP_LINDA_INPUT == "input"
OP_LINDA_WRITE == "output"
EXIT           == "exit"

ASSUME ConstantsAssumption ==
  /\ NoThread \notin ServiceThreads
  /\ Tuples \subseteq Seq(TupleElem)
  /\ Patterns \subseteq Seq(Pattern)
  /\ Commands \subseteq {OP_LINDA_READ, OP_LINDA_INPUT, OP_LINDA_WRITE, EXIT}
  /\ MaxCommands \in Nat

(* What a search that found nothing returns -- and what a search that found *)
(* the empty tuple returns.                                                *)
EmptyTuple == << >>

Sizes == {Len(x) : x \in Tuples \cup Patterns}

Request ==
  [op : {OP_LINDA_WRITE}, arg : Tuples]
    \cup [op : {OP_LINDA_READ, OP_LINDA_INPUT}, arg : Patterns]

NoRequest == [op |-> EXIT, arg |-> EmptyTuple]

(* Where a service thread stands; the comments name the call it is about   *)
(* to make or the lock it waits for.                                       *)
Locations ==
  {"receive", \* readFromPipeUntilMessageFound
   "find",    \* findTuple or findTupleAndRemoveIt
   "prepare", \* tuple.empty(): fill awaiting_parameters
   "enqueue", \* waitForTuple: queue_mutex, then push_back
   "blocked", \* waitForTuple: awaiting_params.mutex.lock()
   "woken",   \* waitForTuple: return awaiting_params.passed_tuple
   "inform",  \* informWaitingThreads: queue_mutex
   "scan",    \* informWaitingThreads: the for loop
   "unlock",  \* informWaitingThreads: passed_tuple is set
   "erase",   \* informWaitingThreads: the waiter is unlocked
   "insert",  \* addTupleToDB: db_mutex
   "send",    \* sendTuple(OP_RETURN_RESULT, ...) or sendMessage
   "ended"}   \* after the loop of mainLoop

VARIABLES
  records,               \* tuple size -> row of stored tuples
  waiting_threads_queue, \* the AwaitingParams* of each thread, as the thread
  queue_mutex,           \* the thread that holds it, or NoThread
  tuple_pattern,         \* AwaitingParams::tuple_pattern of each thread
  isInput,               \* AwaitingParams::isInput, as the values a read of
                         \* it may yield: both while indeterminate
  passed_tuple,          \* AwaitingParams::passed_tuple
  unlocked,              \* the threads whose AwaitingParams::mutex is unlocked
  pc,                    \* location of each service thread
  request,               \* the command it is serving
  tuple,                 \* its local `tuple' in handleRead and handleInput
  iter,                  \* its position in waiting_threads_queue
  issued,                \* commands served so far
  owed                   \* history: outputs of a tuple minus inputs answered
                         \* with it minus outputs dropped as duplicates

dbVars      == <<records, waiting_threads_queue, queue_mutex>>
awaitVars   == <<tuple_pattern, isInput, passed_tuple, unlocked>>
threadVars  == <<pc, request, tuple, iter, issued>>
vars == <<dbVars, awaitVars, threadVars, owed>>

Init ==
  /\ records = [n \in Sizes |-> << >>]
  /\ waiting_threads_queue = << >>
  /\ queue_mutex = NoThread
  /\ tuple_pattern = [t \in ServiceThreads |-> << >>]
  /\ isInput = [t \in ServiceThreads |-> BOOLEAN]
  /\ passed_tuple = [t \in ServiceThreads |-> EmptyTuple]
  /\ unlocked = {}
  /\ pc = [t \in ServiceThreads |-> "receive"]
  /\ request = [t \in ServiceThreads |-> NoRequest]
  /\ tuple = [t \in ServiceThreads |-> EmptyTuple]
  /\ iter = [t \in ServiceThreads |-> 1]
  /\ issued = 0
  /\ owed = [v \in Tuples |-> 0]

GoTo(t, from, to) ==
  /\ pc[t] = from
  /\ pc' = [pc EXCEPT ![t] = to]

-----------------------------------------------------------------------------
(* ServiceThread::mainLoop                                                 *)

(* A command of the client arrives and handleOperationMessage dispatches   *)
(* it, down to the first call into the database.                           *)
ReceiveOperation(t) ==
  /\ issued < MaxCommands
  /\ \E r \in Request :
       /\ r.op \in Commands
       /\ request' = [request EXCEPT ![t] = r]
       /\ GoTo(t, "receive", IF r.op = OP_LINDA_WRITE THEN "inform" ELSE "find")
       /\ owed' = IF r.op = OP_LINDA_WRITE
                  THEN [owed EXCEPT ![r.arg] = @ + 1] ELSE owed
  /\ issued' = issued + 1
  /\ UNCHANGED <<dbVars, awaitVars, tuple, iter>>

(* The client sends ConnectionMessage(false): the loop ends and the thread *)
(* exits, which destroys its ServiceThread and the AwaitingParams in it.   *)
Disconnect(t) ==
  /\ EXIT \in Commands
  /\ GoTo(t, "receive", "ended")
  /\ isInput' = [isInput EXCEPT ![t] = BOOLEAN]
  /\ UNCHANGED <<dbVars, tuple_pattern, passed_tuple, unlocked, request, tuple,
                 iter, issued, owed>>

(* The end of handleRead, handleInput and handleWrite.                     *)
SendReply(t) ==
  /\ GoTo(t, "send", "receive")
  /\ owed' = IF request[t].op = OP_LINDA_INPUT
             THEN [owed EXCEPT ![tuple[t]] = @ - 1] ELSE owed
  /\ UNCHANGED <<dbVars, awaitVars, request, tuple, iter, issued>>

-----------------------------------------------------------------------------
(* ServiceThread::handleRead and handleInput                               *)

FirstMatching(row, pattern) ==
  {i \in DOMAIN row : /\ isPatternEqualToTuple(pattern, row[i])
                      /\ \A j \in 1..(i - 1) :
                           ~isPatternEqualToTuple(pattern, row[j])}

(* The thread goes on with the tuple the search returned; the test that    *)
(* decides whether anything was found is tuple.empty().                    *)
SearchReturns(t, result) ==
  /\ tuple' = [tuple EXCEPT ![t] = result]
  /\ GoTo(t, "find", IF result = EmptyTuple THEN "prepare" ELSE "send")

findTuple(t) ==
  LET row   == records[Len(request[t].arg)]
      found == FirstMatching(row, request[t].arg)
  IN  /\ pc[t] = "find" /\ request[t].op = OP_LINDA_READ
      /\ \/ \E i \in found : SearchReturns(t, row[i])
         \/ found = {} /\ SearchReturns(t, EmptyTuple)
      /\ UNCHANGED <<dbVars, awaitVars, request, iter, issued, owed>>

(* Seeded bug: the tuple found is not erased.                              *)
FindWithoutRemoval(t) ==
  LET row   == records[Len(request[t].arg)]
      found == FirstMatching(row, request[t].arg)
  IN  /\ pc[t] = "find" /\ request[t].op = OP_LINDA_INPUT
      /\ \/ \E i \in found : SearchReturns(t, row[i])
         \/ found = {} /\ SearchReturns(t, EmptyTuple)
      /\ UNCHANGED <<dbVars, awaitVars, request, iter, issued, owed>>

findTupleAndRemoveIt(t) ==
  LET n     == Len(request[t].arg)
      found == FirstMatching(records[n], request[t].arg)
  IN  /\ pc[t] = "find" /\ request[t].op = OP_LINDA_INPUT
      /\ \/ \E i \in found :
              /\ SearchReturns(t, records[n][i])
              /\ records' = [records EXCEPT ![n] = RemoveAt(@, i)]
         \/ /\ found = {}
            /\ SearchReturns(t, EmptyTuple)
            /\ UNCHANGED records
      /\ UNCHANGED <<waiting_threads_queue, queue_mutex, awaitVars, request,
                     iter, issued, owed>>

(* Seeded bug: the pattern of the thread's previous wait stays.            *)
PrepareWaitKeepsPattern(t) ==
  /\ GoTo(t, "prepare", "enqueue")
  /\ isInput' = [isInput EXCEPT ![t] = {request[t].op = OP_LINDA_INPUT}]
  /\ UNCHANGED <<dbVars, tuple_pattern, passed_tuple, unlocked, request, tuple,
                 iter, issued, owed>>

PrepareWait(t) ==
  /\ GoTo(t, "prepare", "enqueue")
  /\ tuple_pattern' = [tuple_pattern EXCEPT ![t] = request[t].arg]
  /\ isInput' = [isInput EXCEPT ![t] = {request[t].op = OP_LINDA_INPUT}]
  /\ UNCHANGED <<dbVars, passed_tuple, unlocked, request, tuple, iter, issued,
                 owed>>

(* The first half of waitForTuple.                                         *)
EnqueueWaiter(t) ==
  /\ queue_mutex = NoThread
  /\ GoTo(t, "enqueue", "blocked")
  /\ waiting_threads_queue' = Append(waiting_threads_queue, t)
  /\ UNCHANGED <<records, queue_mutex, awaitVars, request, tuple, iter, issued,
                 owed>>

(* Seeded bug: the mutex is not locked beforehand, so lock() returns.      *)
LockUnlockedMutex(t) ==
  /\ GoTo(t, "blocked", "woken")
  /\ unlocked' = unlocked \ {t}
  /\ UNCHANGED <<dbVars, tuple_pattern, isInput, passed_tuple, request, tuple,
                 iter, issued, owed>>

(* The second half: lock() returns once a notifier has unlocked the mutex, *)
(* which the constructor of ServiceThread left locked.  std::mutex is used *)
(* as a binary semaphore here.                                             *)
LockAwaitingMutex(t) ==
  /\ t \in unlocked
  /\ GoTo(t, "blocked", "woken")
  /\ unlocked' = unlocked \ {t}
  /\ UNCHANGED <<dbVars, tuple_pattern, isInput, passed_tuple, request, tuple,
                 iter, issued, owed>>

ReturnPassedTuple(t) ==
  /\ GoTo(t, "woken", "send")
  /\ tuple' = [tuple EXCEPT ![t] = passed_tuple[t]]
  /\ UNCHANGED <<dbVars, awaitVars, request, iter, issued, owed>>

-----------------------------------------------------------------------------
(* ServiceThread::handleWrite: addTupleToDB and informWaitingThreads       *)

BeginInform(t) ==
  /\ queue_mutex = NoThread
  /\ GoTo(t, "inform", "scan")
  /\ queue_mutex' = t
  /\ iter' = [iter EXCEPT ![t] = 1]
  /\ UNCHANGED <<records, waiting_threads_queue, awaitVars, request, tuple,
                 issued, owed>>

(* The positions from which the loop of a notifier still has a waiter to   *)
(* serve.                                                                  *)
Matching(t) ==
  {i \in iter[t]..Len(waiting_threads_queue) :
     isPatternEqualToTuple(tuple_pattern[waiting_threads_queue[i]],
                           request[t].arg)}

(* The loop advances to the next waiter whose pattern matches and hands it *)
(* the tuple.                                                              *)
PassTuple(t) ==
  /\ GoTo(t, "scan", "unlock")
  /\ \E i \in Matching(t) :
       /\ \A j \in Matching(t) : i <= j
       /\ iter' = [iter EXCEPT ![t] = i]
       /\ passed_tuple' = [passed_tuple EXCEPT
                             ![waiting_threads_queue[i]] = request[t].arg]
  /\ UNCHANGED <<dbVars, tuple_pattern, isInput, unlocked, request, tuple,
                 issued, owed>>

UnlockWaiter(t) ==
  /\ GoTo(t, "unlock", "erase")
  /\ unlocked' = unlocked \cup {waiting_threads_queue[iter[t]]}
  /\ UNCHANGED <<dbVars, tuple_pattern, isInput, passed_tuple, request, tuple,
                 iter, issued, owed>>

(* Seeded bugs of the step below, which differ in what is erased, where    *)
(* the iterator goes and what ends the loop or continues it.               *)
EraseVariant(t, erased, position, ends, continues) ==
  /\ waiting_threads_queue' = erased
  /\ iter' = [iter EXCEPT ![t] = position]
  /\ \/ ends      /\ GoTo(t, "erase", "send") /\ queue_mutex' = NoThread
     \/ continues /\ GoTo(t, "erase", "scan") /\ UNCHANGED queue_mutex
  /\ UNCHANGED <<records, awaitVars, request, tuple, issued, owed>>

MayBeInput(t) == TRUE \in isInput[waiting_threads_queue[iter[t]]]
MayBeRead(t) == FALSE \in isInput[waiting_threads_queue[iter[t]]]

EraseStepsBack(t) ==
  /\ pc[t] = "erase"
  /\ EraseVariant(t, RemoveAt(waiting_threads_queue, iter[t]), iter[t] - 1,
                  MayBeInput(t), MayBeRead(t))

EraseStepsOver(t) ==
  /\ pc[t] = "erase"
  /\ EraseVariant(t, RemoveAt(waiting_threads_queue, iter[t]),
                  IF iter[t] = Len(waiting_threads_queue) THEN iter[t] ELSE iter[t] + 1,
                  MayBeInput(t), MayBeRead(t))

EraseOldest(t) ==
  /\ pc[t] = "erase"
  /\ EraseVariant(t, Tail(waiting_threads_queue), iter[t],
                  MayBeInput(t), MayBeRead(t))

EraseNothing(t) ==
  /\ pc[t] = "erase"
  /\ EraseVariant(t, waiting_threads_queue, iter[t] + 1,
                  MayBeInput(t), MayBeRead(t))

EraseGoesOn(t) ==
  /\ pc[t] = "erase"
  /\ EraseVariant(t, RemoveAt(waiting_threads_queue, iter[t]), iter[t],
                  FALSE, TRUE)

EraseEnds(t) ==
  /\ pc[t] = "erase"
  /\ EraseVariant(t, RemoveAt(waiting_threads_queue, iter[t]), iter[t],
                  TRUE, FALSE)

(* The notifier reads isInput of the waiter it has already unlocked.  TRUE *)
(* ends informWaitingThreads and addTupleToDB; FALSE goes on with the      *)
(* waiter that moved into the erased position (erase, then --iter, ++iter).*)
EraseWaiter(t) ==
  LET waiter == waiting_threads_queue[iter[t]] IN
  /\ pc[t] = "erase"
  /\ waiting_threads_queue' = RemoveAt(waiting_threads_queue, iter[t])
  /\ \/ /\ TRUE \in isInput[waiter]
        /\ GoTo(t, "erase", "send")
        /\ queue_mutex' = NoThread
     \/ /\ FALSE \in isInput[waiter]
        /\ GoTo(t, "erase", "scan")
        /\ UNCHANGED queue_mutex
  /\ UNCHANGED <<records, awaitVars, request, tuple, iter, issued, owed>>

(* Seeded bug: queue_mutex is not released.                                *)
EndInformKeepsMutex(t) ==
  /\ GoTo(t, "scan", "insert")
  /\ Matching(t) = {}
  /\ UNCHANGED <<dbVars, awaitVars, request, tuple, iter, issued, owed>>

EndInform(t) ==
  /\ GoTo(t, "scan", "insert")
  /\ Matching(t) = {}
  /\ queue_mutex' = NoThread
  /\ UNCHANGED <<records, waiting_threads_queue, awaitVars, request, tuple, iter,
                 issued, owed>>

(* Seeded bug: the rows are not searched for the tuple.                    *)
InsertAnyway(t) ==
  LET new == request[t].arg IN
  /\ GoTo(t, "insert", "send")
  /\ records' = [records EXCEPT ![Len(new)] = Append(@, new)]
  /\ UNCHANGED <<waiting_threads_queue, queue_mutex, awaitVars, request, tuple,
                 iter, issued, owed>>

(* The critical section of db_mutex in addTupleToDB, whose result          *)
(* handleWrite ignores.                                                    *)
InsertTuple(t) ==
  LET new == request[t].arg
      row == records[Len(new)]
      duplicate == \E i \in DOMAIN row : isTupleAlreadyInDatabase(row[i], new)
  IN  /\ GoTo(t, "insert", "send")
      /\ \/ /\ duplicate
            /\ owed' = [owed EXCEPT ![new] = @ - 1]
            /\ UNCHANGED records
         \/ /\ ~duplicate
            /\ records' = [records EXCEPT ![Len(new)] = Append(@, new)]
            /\ UNCHANGED owed
      /\ UNCHANGED <<waiting_threads_queue, queue_mutex, awaitVars, request,
                     tuple, iter, issued>>

-----------------------------------------------------------------------------
(* The steps a service thread takes by itself, without a command.          *)
ThreadStep(t) ==
  \/ findTuple(t)
  \/ findTupleAndRemoveIt(t)
  \/ PrepareWait(t)
  \/ EnqueueWaiter(t)
  \/ LockAwaitingMutex(t)
  \/ ReturnPassedTuple(t)
  \/ BeginInform(t)
  \/ PassTuple(t)
  \/ UnlockWaiter(t)
  \/ EraseWaiter(t)
  \/ EndInform(t)
  \/ InsertTuple(t)
  \/ SendReply(t)

Next ==
  \E t \in ServiceThreads :
    \/ ReceiveOperation(t)
    \/ Disconnect(t)
    \/ ThreadStep(t)

Spec == Init /\ [][Next]_vars

(* The operating system runs every thread that can run; no user is obliged *)
(* to type anything.                                                       *)
FairSpec == Spec /\ \A t \in ServiceThreads : WF_vars(ThreadStep(t))

-----------------------------------------------------------------------------
(* What the threads of the tuple space rely on.                            *)

(* Every variable keeps its type; a row holds only tuples of its size      *)
(* (std::unordered_map<int, ...> records, keyed by size).                  *)
TypeOK ==
  /\ records \in [Sizes -> Seq(Tuples)]
  /\ \A n \in Sizes : records[n] \in Seq({v \in Tuples : Len(v) = n})
  /\ waiting_threads_queue \in Seq(ServiceThreads)
  /\ queue_mutex \in ServiceThreads \cup {NoThread}
  /\ tuple_pattern \in [ServiceThreads -> Patterns \cup {<< >>}]
  /\ isInput \in [ServiceThreads -> (SUBSET BOOLEAN) \ {{}}]
  /\ passed_tuple \in [ServiceThreads -> Tuples \cup {EmptyTuple}]
  /\ unlocked \subseteq ServiceThreads
  /\ pc \in [ServiceThreads -> Locations]
  /\ request \in [ServiceThreads -> Request \cup {NoRequest}]
  /\ tuple \in [ServiceThreads -> Tuples \cup {EmptyTuple}]
  /\ iter \in [ServiceThreads -> Nat \ {0}]
  /\ issued \in 0..MaxCommands
  /\ owed \in [Tuples -> Int]

(* The reply to a read or an input holds a tuple that matches the pattern  *)
(* of that very command, whether the search found it or a notifier passed  *)
(* it through AwaitingParams, and whatever the other threads did between.  *)
ReplyMatchesRequest ==
  \A t \in ServiceThreads :
    pc[t] = "send" /\ request[t].op # OP_LINDA_WRITE
      => isPatternEqualToTuple(request[t].arg, tuple[t])

(* A thread blocked in waitForTuple is in the queue, where a later output  *)
(* can find it, until it is unlocked: no erase removes the wrong waiter.   *)
BlockedWaiterIsQueued ==
  \A t \in ServiceThreads :
    pc[t] = "blocked" /\ t \notin unlocked => t \in ToSet(waiting_threads_queue)

(* The waiter that a notifier is about to hand a tuple is blocked, is not  *)
(* yet unlocked and is queued once: informWaitingThreads never writes the  *)
(* AwaitingParams of a running or finished thread, and never unlocks a     *)
(* mutex twice.                                                            *)
OnlyBlockedWaitersNotified ==
  \A t \in ServiceThreads :
    pc[t] \in {"scan", "unlock"} =>
      \A i \in DOMAIN waiting_threads_queue :
        LET waiter == waiting_threads_queue[i] IN
        /\ pc[waiter] = "blocked"
        /\ waiter \notin unlocked
        /\ \A j \in DOMAIN waiting_threads_queue :
             waiting_threads_queue[j] = waiter => j = i

(* The loop of informWaitingThreads, which erases while it iterates, has   *)
(* left no waiter behind it that the tuple matches: waiters are served     *)
(* oldest first and none is skipped.                                       *)
NoWaiterPassedOver ==
  \A t \in ServiceThreads :
    pc[t] \in {"scan", "unlock", "erase"} =>
      \A i \in 1..(iter[t] - 1) :
        ~isPatternEqualToTuple(tuple_pattern[waiting_threads_queue[i]],
                               request[t].arg)

(* "This tuple is already on the server": outputs of equal tuples, also    *)
(* concurrent ones, leave one copy in the database.                        *)
NoDuplicateTuples ==
  \A n \in Sizes : \A i, j \in DOMAIN records[n] :
    records[n][i] = records[n][j] => i = j

(* Nothing is under way: every thread waits for a command or for a tuple.  *)
AtRest ==
  \A t \in ServiceThreads :
    \/ pc[t] \in {"receive", "ended"}
    \/ pc[t] = "blocked" /\ t \notin unlocked

Stored(v) == \E i \in DOMAIN records[Len(v)] : records[Len(v)][i] = v

(* At rest the outputs of a tuple are all accounted for: each was answered *)
(* to one input, was dropped as a duplicate or is in the database.  So no  *)
(* tuple is lost and none is taken twice.                                  *)
Conservation ==
  AtRest => \A v \in Tuples : owed[v] = IF Stored(v) THEN 1 ELSE 0

(* No tuple is answered to more inputs than it was output times.           *)
InputRemoves == \A v \in Tuples : owed[v] >= 0

(* At rest no thread waits for a tuple that is in the database.            *)
NoStrandedWaiter ==
  AtRest =>
    \A t \in ServiceThreads : pc[t] = "blocked" =>
      ~ \E v \in Tuples :
          Stored(v) /\ isPatternEqualToTuple(request[t].arg, v)

(* An output always completes: the queue scan ends and gives up the mutex. *)
OutputCompletes ==
  \A t \in ServiceThreads : pc[t] = "inform" ~> pc[t] = "receive"

(* A reader that already waits when a matching output starts is answered,  *)
(* if nobody inputs: the scan serves every matching reader, not the first. *)
WaitingReaderIsServed ==
  \A t \in ServiceThreads :
    /\ pc[t] = "blocked" /\ t \notin unlocked /\ request[t].op = OP_LINDA_READ
    /\ \E u \in ServiceThreads :
         /\ pc[u] = "inform"
         /\ isPatternEqualToTuple(tuple_pattern[t], request[u].arg)
    ~> pc[t] = "send"

=============================================================================
