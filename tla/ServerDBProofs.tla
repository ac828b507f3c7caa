--------------------------- MODULE ServerDBProofs ---------------------------
(***************************************************************************)
(* The safety properties of ServerDB, for every set of threads, tuples,    *)
(* patterns and commands.  The argument is the inductive invariant IInv of *)
(* ServerDBInvariant: one lemma per conjunct shows that a step of a thread *)
(* keeps it, one step of the lemma per action.  The second part is the     *)
(* refinement of TupleSpace.                                               *)
(***************************************************************************)
EXTENDS ServerDBRefinement, ServerDBInvariant, SequenceLemmas, FiniteSetTheorems

-----------------------------------------------------------------------------
(* The argument of the command that a thread serves is of the command's    *)
(* kind, and there is a row for its size.                                  *)
LEMMA ServedRequest ==
  ASSUME TypeOK, ControlOK, NEW t \in ServiceThreads
  PROVE  /\ pc[t] \in {"inform", "scan", "unlock", "erase", "insert"}
              => request[t].arg \in Tuples /\ Len(request[t].arg) \in Sizes
         /\ pc[t] \in {"find", "prepare", "enqueue", "blocked", "woken"}
              => request[t].arg \in Patterns /\ Len(request[t].arg) \in Sizes
<1>1. request[t] \in Request \cup {NoRequest}
  BY DEF TypeOK
<1>2. request[t].op = OP_LINDA_WRITE => request[t].arg \in Tuples
  BY <1>1 DEF Request, NoRequest, OP_LINDA_WRITE, OP_LINDA_READ,
     OP_LINDA_INPUT, EXIT
<1>3. request[t].op \in {OP_LINDA_READ, OP_LINDA_INPUT}
        => request[t].arg \in Patterns
  BY <1>1 DEF Request, NoRequest, OP_LINDA_WRITE, OP_LINDA_READ,
     OP_LINDA_INPUT, EXIT
<1> QED
  BY <1>2, <1>3 DEF ControlOK, Sizes

(* A step of any thread keeps the types of the variables.                  *)
LEMMA TypeStep ==
  ASSUME TypeOK, ControlOK, [Next]_vars
  PROVE  TypeOK'
<1> USE ConstantsAssumption
<1>1. ASSUME NEW t \in ServiceThreads, ReceiveOperation(t)
      PROVE  TypeOK'
  BY <1>1 DEF TypeOK, ReceiveOperation, GoTo, Locations, Request, dbVars,
     awaitVars, OP_LINDA_WRITE, OP_LINDA_READ, OP_LINDA_INPUT
<1>2. ASSUME NEW t \in ServiceThreads, Disconnect(t)
      PROVE  TypeOK'
  <2>1. isInput' \in [ServiceThreads -> (SUBSET BOOLEAN) \ {{}}]
    BY <1>2 DEF TypeOK, Disconnect
  <2> QED
    BY <1>2, <2>1 DEF TypeOK, Disconnect, GoTo, Locations, dbVars
<1>3. ASSUME NEW t \in ServiceThreads, findTuple(t)
      PROVE  TypeOK'
  <2>1. Len(request[t].arg) \in Sizes
    BY <1>3, ServedRequest DEF findTuple
  <2>2. PICK result \in Tuples \cup {EmptyTuple} : SearchReturns(t, result)
    BY <1>3, <2>1 DEF TypeOK, findTuple, FirstMatching
  <2> QED
    BY <1>3, <2>2 DEF TypeOK, findTuple, SearchReturns, GoTo, Locations,
       dbVars, awaitVars
<1>4. ASSUME NEW t \in ServiceThreads, findTupleAndRemoveIt(t)
      PROVE  TypeOK'
  <2> DEFINE n == Len(request[t].arg)
  <2>1. n \in Sizes
    BY <1>4, ServedRequest DEF findTupleAndRemoveIt
  <2>2. CASE \E i \in DOMAIN records[n] :
               /\ SearchReturns(t, records[n][i])
               /\ records' = [records EXCEPT ![n] = RemoveAt(@, i)]
    <3>1. PICK i \in DOMAIN records[n] :
            /\ SearchReturns(t, records[n][i])
            /\ records' = [records EXCEPT ![n] = RemoveAt(@, i)]
      BY <2>2
    <3>2. records[n] \in Seq(Tuples) /\ i \in 1..Len(records[n])
      BY <2>1, <3>1 DEF TypeOK
    <3>3. /\ RemoveAt(records[n], i) \in Seq(Tuples)
          /\ RemoveAt(records[n], i) \in Seq({v \in Tuples : Len(v) = n})
      <4> DEFINE row == records[n]
                 Row == {v \in Tuples : Len(v) = n}
      <4>1. row \in Seq(Tuples) /\ row \in Seq(Row) /\ i \in 1..Len(row)
        BY <2>1, <3>2 DEF TypeOK
      <4> HIDE DEF row, Row
      <4>2. RemoveAt(row, i) \in Seq(Tuples) /\ RemoveAt(row, i) \in Seq(Row)
        BY <4>1, RemoveAtProperties
      <4> QED
        BY <4>2 DEF row, Row
    <3>4. /\ records' \in [Sizes -> Seq(Tuples)]
          /\ \A m \in Sizes : records'[m] \in Seq({v \in Tuples : Len(v) = m})
      BY <2>1, <3>1, <3>3 DEF TypeOK
    <3>5. tuple' \in [ServiceThreads -> Tuples \cup {EmptyTuple}]
      BY <3>1, <3>2 DEF TypeOK, SearchReturns
    <3>6. pc' \in [ServiceThreads -> Locations]
      BY <3>1 DEF TypeOK, SearchReturns, GoTo, Locations
    <3> QED
      BY <1>4, <3>4, <3>5, <3>6 DEF TypeOK, findTupleAndRemoveIt, awaitVars
  <2>3. CASE SearchReturns(t, EmptyTuple) /\ UNCHANGED records
    BY <1>4, <2>3 DEF TypeOK, findTupleAndRemoveIt, SearchReturns, GoTo,
       Locations, awaitVars
  <2> QED
    BY <1>4, <2>2, <2>3 DEF findTupleAndRemoveIt, FirstMatching
<1>5. ASSUME NEW t \in ServiceThreads, PrepareWait(t)
      PROVE  TypeOK'
  <2>1. request[t].arg \in Patterns
    BY <1>5, ServedRequest DEF PrepareWait, GoTo
  <2>2. isInput' \in [ServiceThreads -> (SUBSET BOOLEAN) \ {{}}]
    BY <1>5 DEF TypeOK, PrepareWait
  <2> QED
    BY <1>5, <2>1, <2>2 DEF TypeOK, PrepareWait, GoTo, Locations, dbVars
<1>6. ASSUME NEW t \in ServiceThreads, EnqueueWaiter(t)
      PROVE  TypeOK'
  BY <1>6 DEF TypeOK, EnqueueWaiter, GoTo, Locations, awaitVars
<1>7. ASSUME NEW t \in ServiceThreads, LockAwaitingMutex(t)
      PROVE  TypeOK'
  BY <1>7 DEF TypeOK, LockAwaitingMutex, GoTo, Locations, dbVars
<1>8. ASSUME NEW t \in ServiceThreads, ReturnPassedTuple(t)
      PROVE  TypeOK'
  BY <1>8 DEF TypeOK, ReturnPassedTuple, GoTo, Locations, dbVars, awaitVars
<1>9. ASSUME NEW t \in ServiceThreads, BeginInform(t)
      PROVE  TypeOK'
  BY <1>9 DEF TypeOK, BeginInform, GoTo, Locations, awaitVars
<1>10. ASSUME NEW t \in ServiceThreads, PassTuple(t)
      PROVE  TypeOK'
  <2>1. request[t].arg \in Tuples
    BY <1>10, ServedRequest DEF PassTuple, GoTo
  <2>2. PICK i \in Matching(t) :
          /\ iter' = [iter EXCEPT ![t] = i]
          /\ passed_tuple' = [passed_tuple EXCEPT
                                ![waiting_threads_queue[i]] = request[t].arg]
    BY <1>10 DEF PassTuple
  <2>3. i \in Nat \ {0}
    BY DEF TypeOK, Matching
  <2>4. /\ iter' \in [ServiceThreads -> Nat \ {0}]
        /\ passed_tuple' \in [ServiceThreads -> Tuples \cup {EmptyTuple}]
    BY <2>1, <2>2, <2>3 DEF TypeOK
  <2> QED
    BY <1>10, <2>4 DEF TypeOK, PassTuple, GoTo, Locations, dbVars
<1>11. ASSUME NEW t \in ServiceThreads, UnlockWaiter(t)
      PROVE  TypeOK'
  BY <1>11 DEF TypeOK, ControlOK, UnlockWaiter, GoTo, Locations, dbVars
<1>12. ASSUME NEW t \in ServiceThreads, EraseWaiter(t)
      PROVE  TypeOK'
  <2>1. waiting_threads_queue' \in Seq(ServiceThreads)
    BY <1>12, RemoveAtProperties DEF TypeOK, ControlOK, EraseWaiter
  <2>2. pc' \in [ServiceThreads -> Locations]
    BY <1>12 DEF TypeOK, EraseWaiter, GoTo, Locations
  <2>3. queue_mutex' \in ServiceThreads \cup {NoThread}
    BY <1>12 DEF TypeOK, EraseWaiter
  <2> QED
    BY <1>12, <2>1, <2>2, <2>3 DEF TypeOK, EraseWaiter, awaitVars
<1>13. ASSUME NEW t \in ServiceThreads, EndInform(t)
      PROVE  TypeOK'
  BY <1>13 DEF TypeOK, EndInform, GoTo, Locations, awaitVars
<1>14. ASSUME NEW t \in ServiceThreads, InsertTuple(t)
      PROVE  TypeOK'
  <2> DEFINE new == request[t].arg
  <2>1. new \in Tuples /\ Len(new) \in Sizes
    BY <1>14, ServedRequest DEF InsertTuple, GoTo
  <2>2. owed' \in [Tuples -> Int]
    BY <1>14, <2>1 DEF TypeOK, InsertTuple
  <2>3. CASE records' = [records EXCEPT ![Len(new)] = Append(@, new)]
    <3> DEFINE Row(n) == {v \in Tuples : Len(v) = n}
    <3>1. records[Len(new)] \in Seq(Tuples) /\ records[Len(new)] \in Seq(Row(Len(new)))
      BY <2>1 DEF TypeOK
    <3>2. /\ Append(records[Len(new)], new) \in Seq(Tuples)
          /\ Append(records[Len(new)], new) \in Seq(Row(Len(new)))
      BY <2>1, <3>1
    <3>3. /\ records' \in [Sizes -> Seq(Tuples)]
          /\ \A n \in Sizes : records'[n] \in Seq(Row(n))
      BY <2>1, <2>3, <3>2 DEF TypeOK
    <3> QED
      BY <1>14, <2>2, <3>3 DEF TypeOK, InsertTuple, GoTo, Locations, awaitVars
  <2>4. CASE UNCHANGED records
    BY <1>14, <2>2, <2>4 DEF TypeOK, InsertTuple, GoTo, Locations, awaitVars
  <2> QED
    BY <1>14, <2>3, <2>4 DEF InsertTuple
<1>15. ASSUME NEW t \in ServiceThreads, SendReply(t)
      PROVE  TypeOK'
  <2>1. owed' \in [Tuples -> Int]
    <3>1. CASE owed' = owed
      BY <3>1 DEF TypeOK
    <3>2. CASE owed' = [owed EXCEPT ![tuple[t]] = @ - 1]
      <4>1. CASE tuple[t] \in Tuples
        BY <3>2, <4>1 DEF TypeOK
      <4>2. CASE tuple[t] \notin Tuples
        <5>1. owed' = owed
          BY <3>2, <4>2 DEF TypeOK
        <5> QED
          BY <5>1 DEF TypeOK
      <4> QED
        BY <4>1, <4>2
    <3> QED
      BY <1>15, <3>1, <3>2 DEF SendReply
  <2> QED
    BY <1>15, <2>1 DEF TypeOK, SendReply, GoTo, Locations, dbVars, awaitVars
<1>16. CASE UNCHANGED vars
  BY <1>16 DEF TypeOK, vars, dbVars, awaitVars, threadVars
<1> QED
  BY <1>1, <1>2, <1>3, <1>4, <1>5, <1>6, <1>7, <1>8, <1>9, <1>10, <1>11,
     <1>12, <1>13, <1>14, <1>15, <1>16 DEF Next, ThreadStep

(* A step of any thread keeps it serving the right kind of command, and    *)
(* queue_mutex with the thread that is inside informWaitingThreads.        *)
LEMMA ControlStep ==
  ASSUME TypeOK, ControlOK, [Next]_vars
  PROVE  ControlOK'
<1> USE ConstantsAssumption
<1>1. ASSUME NEW t \in ServiceThreads, ReceiveOperation(t)
      PROVE  ControlOK'
  BY <1>1 DEF TypeOK, ControlOK, ReceiveOperation, GoTo, dbVars,
     awaitVars, Request, OP_LINDA_WRITE, OP_LINDA_READ, OP_LINDA_INPUT
<1>2. ASSUME NEW t \in ServiceThreads, Disconnect(t)
      PROVE  ControlOK'
  BY <1>2 DEF TypeOK, ControlOK, Disconnect, GoTo, dbVars, awaitVars,
     Request, OP_LINDA_WRITE, OP_LINDA_READ, OP_LINDA_INPUT
<1>3. ASSUME NEW t \in ServiceThreads, findTuple(t)
      PROVE  ControlOK'
  BY <1>3 DEF TypeOK, ControlOK, findTuple, GoTo, SearchReturns, dbVars,
     awaitVars, Request, OP_LINDA_WRITE, OP_LINDA_READ, OP_LINDA_INPUT
<1>4. ASSUME NEW t \in ServiceThreads, findTupleAndRemoveIt(t)
      PROVE  ControlOK'
  BY <1>4 DEF TypeOK, ControlOK, findTupleAndRemoveIt, GoTo,
     SearchReturns, dbVars, awaitVars, Request, OP_LINDA_WRITE,
     OP_LINDA_READ, OP_LINDA_INPUT
<1>5. ASSUME NEW t \in ServiceThreads, PrepareWait(t)
      PROVE  ControlOK'
  BY <1>5 DEF TypeOK, ControlOK, PrepareWait, GoTo, dbVars, awaitVars,
     Request, OP_LINDA_WRITE, OP_LINDA_READ, OP_LINDA_INPUT
<1>6. ASSUME NEW t \in ServiceThreads, EnqueueWaiter(t)
      PROVE  ControlOK'
  BY <1>6 DEF TypeOK, ControlOK, EnqueueWaiter, GoTo, dbVars, awaitVars,
     Request, OP_LINDA_WRITE, OP_LINDA_READ, OP_LINDA_INPUT
<1>7. ASSUME NEW t \in ServiceThreads, LockAwaitingMutex(t)
      PROVE  ControlOK'
  BY <1>7 DEF TypeOK, ControlOK, LockAwaitingMutex, GoTo, dbVars,
     awaitVars, Request, OP_LINDA_WRITE, OP_LINDA_READ, OP_LINDA_INPUT
<1>8. ASSUME NEW t \in ServiceThreads, ReturnPassedTuple(t)
      PROVE  ControlOK'
  BY <1>8 DEF TypeOK, ControlOK, ReturnPassedTuple, GoTo, dbVars,
     awaitVars, Request, OP_LINDA_WRITE, OP_LINDA_READ, OP_LINDA_INPUT
<1>9. ASSUME NEW t \in ServiceThreads, BeginInform(t)
      PROVE  ControlOK'
  BY <1>9 DEF TypeOK, ControlOK, BeginInform, GoTo, dbVars, awaitVars,
     Request, OP_LINDA_WRITE, OP_LINDA_READ, OP_LINDA_INPUT
<1>10. ASSUME NEW t \in ServiceThreads, PassTuple(t)
      PROVE  ControlOK'
  <2>1. PICK i \in Matching(t) : iter' = [iter EXCEPT ![t] = i]
    BY <1>10 DEF PassTuple
  <2>2. i \in DOMAIN waiting_threads_queue
    BY DEF TypeOK, Matching
  <2>3. iter'[t] \in DOMAIN waiting_threads_queue
    BY <2>1, <2>2 DEF TypeOK
  <2> QED
    BY <1>10, <2>1, <2>3 DEF TypeOK, ControlOK, PassTuple, GoTo, dbVars
<1>11. ASSUME NEW t \in ServiceThreads, UnlockWaiter(t)
      PROVE  ControlOK'
  BY <1>11 DEF TypeOK, ControlOK, UnlockWaiter, GoTo, dbVars, awaitVars,
     Request, OP_LINDA_WRITE, OP_LINDA_READ, OP_LINDA_INPUT
<1>12. ASSUME NEW t \in ServiceThreads, EraseWaiter(t)
      PROVE  ControlOK'
  <2>1. /\ Len(waiting_threads_queue) \in Nat
        /\ iter[t] \in 1..Len(waiting_threads_queue)
        /\ Len(waiting_threads_queue') = Len(waiting_threads_queue) - 1
    BY <1>12, RemoveAtProperties DEF TypeOK, ControlOK, EraseWaiter
  <2>2. iter'[t] \in 1..(Len(waiting_threads_queue') + 1)
    BY <1>12, <2>1 DEF EraseWaiter
  <2>3. \A u \in ServiceThreads \ {t} : pc[u] \notin {"scan", "unlock", "erase"}
    BY <1>12 DEF ControlOK, EraseWaiter
  <2> QED
    BY <1>12, <2>2, <2>3 DEF TypeOK, ControlOK, EraseWaiter, GoTo
<1>13. ASSUME NEW t \in ServiceThreads, EndInform(t)
      PROVE  ControlOK'
  BY <1>13 DEF TypeOK, ControlOK, EndInform, GoTo, dbVars, awaitVars,
     Request, OP_LINDA_WRITE, OP_LINDA_READ, OP_LINDA_INPUT
<1>14. ASSUME NEW t \in ServiceThreads, InsertTuple(t)
      PROVE  ControlOK'
  BY <1>14 DEF TypeOK, ControlOK, InsertTuple, GoTo, dbVars, awaitVars,
     Request, OP_LINDA_WRITE, OP_LINDA_READ, OP_LINDA_INPUT
<1>15. ASSUME NEW t \in ServiceThreads, SendReply(t)
      PROVE  ControlOK'
  BY <1>15 DEF TypeOK, ControlOK, SendReply, GoTo, dbVars, awaitVars,
     Request, OP_LINDA_WRITE, OP_LINDA_READ, OP_LINDA_INPUT
<1>16. CASE UNCHANGED vars
  BY <1>16 DEF TypeOK, ControlOK, vars, dbVars, awaitVars, threadVars
<1> QED
  BY <1>1, <1>2, <1>3, <1>4, <1>5, <1>6, <1>7, <1>8, <1>9, <1>10, <1>11,
     <1>12, <1>13, <1>14, <1>15, <1>16 DEF Next, ThreadStep

(* A step of any thread keeps the blocked threads, and no other, queued    *)
(* once each.                                                              *)
LEMMA QueueStep ==
  ASSUME TypeOK, ControlOK, QueueOK, HandoverOK, [Next]_vars
  PROVE  QueueOK'
<1> USE ConstantsAssumption
<1>1. ASSUME NEW t \in ServiceThreads, ReceiveOperation(t)
      PROVE  QueueOK'
  BY <1>1 DEF TypeOK, ControlOK, QueueOK, HandoverOK, Blocked, Leaving,
     ReceiveOperation, GoTo, dbVars, awaitVars
<1>2. ASSUME NEW t \in ServiceThreads, Disconnect(t)
      PROVE  QueueOK'
  BY <1>2 DEF TypeOK, ControlOK, QueueOK, HandoverOK, Blocked, Leaving,
     Disconnect, GoTo, dbVars, awaitVars
<1>3. ASSUME NEW t \in ServiceThreads, findTuple(t)
      PROVE  QueueOK'
  <2>1. /\ pc[t] = "find"
        /\ \E to \in {"prepare", "send"} : pc' = [pc EXCEPT ![t] = to]
    BY <1>3 DEF findTuple, SearchReturns, GoTo
  <2>2. /\ \A u \in ServiceThreads : Blocked(u)' <=> Blocked(u)
        /\ \A i \in Nat : Leaving(i)' <=> Leaving(i)
    BY <1>3, <2>1 DEF TypeOK, Blocked, Leaving, findTuple, awaitVars
  <2>3. UNCHANGED waiting_threads_queue
    BY <1>3 DEF findTuple, dbVars
  <2> QED
    BY <2>2, <2>3 DEF TypeOK, QueueOK
<1>4. ASSUME NEW t \in ServiceThreads, findTupleAndRemoveIt(t)
      PROVE  QueueOK'
  <2>1. /\ pc[t] = "find"
        /\ \E to \in {"prepare", "send"} : pc' = [pc EXCEPT ![t] = to]
    BY <1>4 DEF findTupleAndRemoveIt, SearchReturns, GoTo
  <2>2. /\ \A u \in ServiceThreads : Blocked(u)' <=> Blocked(u)
        /\ \A i \in Nat : Leaving(i)' <=> Leaving(i)
    BY <1>4, <2>1 DEF TypeOK, Blocked, Leaving, findTupleAndRemoveIt, awaitVars
  <2>3. UNCHANGED waiting_threads_queue
    BY <1>4 DEF findTupleAndRemoveIt, dbVars
  <2> QED
    BY <2>2, <2>3 DEF TypeOK, QueueOK
<1>5. ASSUME NEW t \in ServiceThreads, PrepareWait(t)
      PROVE  QueueOK'
  BY <1>5 DEF TypeOK, ControlOK, QueueOK, HandoverOK, Blocked, Leaving,
     PrepareWait, GoTo, dbVars, awaitVars
<1>6. ASSUME NEW t \in ServiceThreads, EnqueueWaiter(t)
      PROVE  QueueOK'
  <2>1. \A i \in DOMAIN waiting_threads_queue :
          ~Leaving(i) /\ Blocked(waiting_threads_queue[i])
    BY <1>6 DEF ControlOK, QueueOK, Leaving, EnqueueWaiter
  <2>2. \A i \in DOMAIN waiting_threads_queue : waiting_threads_queue[i] # t
    BY <1>6, <2>1 DEF Blocked, EnqueueWaiter, GoTo
  <2>3. t \notin unlocked /\ Blocked(t)'
    BY <1>6 DEF TypeOK, HandoverOK, Blocked, EnqueueWaiter, GoTo, awaitVars
  <2>4. \A i \in Nat : ~Leaving(i)'
    BY <1>6 DEF TypeOK, ControlOK, Leaving, EnqueueWaiter, GoTo
  <2>5. \A u \in ServiceThreads : Blocked(u) => Blocked(u)'
    BY <1>6 DEF TypeOK, Blocked, EnqueueWaiter, GoTo, awaitVars
  <2> DEFINE n == Len(waiting_threads_queue)
  <2>6. /\ n \in Nat
        /\ waiting_threads_queue \in Seq(ServiceThreads)
        /\ DOMAIN waiting_threads_queue = 1..n
        /\ DOMAIN waiting_threads_queue' = 1..(n + 1)
        /\ waiting_threads_queue'[n + 1] = t
        /\ \A i \in 1..n : waiting_threads_queue'[i] = waiting_threads_queue[i]
    BY <1>6 DEF TypeOK, EnqueueWaiter
  <2> HIDE DEF n
  <2> QED
    BY <2>1, <2>2, <2>3, <2>4, <2>5, <2>6 DEF QueueOK
<1>7. ASSUME NEW t \in ServiceThreads, LockAwaitingMutex(t)
      PROVE  QueueOK'
  BY <1>7 DEF TypeOK, ControlOK, QueueOK, HandoverOK, Blocked, Leaving,
     LockAwaitingMutex, GoTo, dbVars, awaitVars
<1>8. ASSUME NEW t \in ServiceThreads, ReturnPassedTuple(t)
      PROVE  QueueOK'
  BY <1>8 DEF TypeOK, ControlOK, QueueOK, HandoverOK, Blocked, Leaving,
     ReturnPassedTuple, GoTo, dbVars, awaitVars
<1>9. ASSUME NEW t \in ServiceThreads, BeginInform(t)
      PROVE  QueueOK'
  BY <1>9 DEF TypeOK, ControlOK, QueueOK, HandoverOK, Blocked, Leaving,
     BeginInform, GoTo, dbVars, awaitVars
<1>10. ASSUME NEW t \in ServiceThreads, PassTuple(t)
      PROVE  QueueOK'
  BY <1>10 DEF TypeOK, ControlOK, QueueOK, HandoverOK, Blocked, Leaving,
     PassTuple, GoTo, dbVars, awaitVars
<1>11. ASSUME NEW t \in ServiceThreads, UnlockWaiter(t)
      PROVE  QueueOK'
  <2> DEFINE waiter == waiting_threads_queue[iter[t]]
  <2>1. iter[t] \in DOMAIN waiting_threads_queue
    BY <1>11 DEF ControlOK, UnlockWaiter, GoTo
  <2>2. \A i \in Nat : ~Leaving(i) /\ (Leaving(i)' <=> i = iter[t])
    BY <1>11 DEF TypeOK, ControlOK, Leaving, UnlockWaiter, GoTo
  <2>3. waiter # t
    BY <1>11, <2>1, <2>2 DEF TypeOK, QueueOK, Blocked, UnlockWaiter, GoTo
  <2>4. \A u \in ServiceThreads : Blocked(u)' <=> Blocked(u) /\ u # waiter
    BY <1>11 DEF TypeOK, Blocked, UnlockWaiter, GoTo
  <2>5. /\ DOMAIN waiting_threads_queue \subseteq Nat
        /\ \A i \in DOMAIN waiting_threads_queue :
             waiting_threads_queue[i] \in ServiceThreads
    BY DEF TypeOK
  <2> QED
    BY <1>11, <2>1, <2>2, <2>4, <2>5 DEF QueueOK, UnlockWaiter, dbVars
<1>12. ASSUME NEW t \in ServiceThreads, EraseWaiter(t)
      PROVE  QueueOK'
  <2> DEFINE i == iter[t]
             n == Len(waiting_threads_queue)
  <2>1. /\ waiting_threads_queue \in Seq(ServiceThreads)
        /\ n \in Nat
        /\ i \in 1..n
    BY <1>12 DEF TypeOK, ControlOK, EraseWaiter
  <2>2. \A j \in Nat : (Leaving(j) <=> j = i) /\ ~Leaving(j)'
    BY <1>12 DEF TypeOK, ControlOK, Leaving, EraseWaiter, GoTo
  <2>3. \A u \in ServiceThreads : Blocked(u)' <=> Blocked(u)
    BY <1>12 DEF TypeOK, Blocked, EraseWaiter, GoTo, awaitVars
  <2>4. waiting_threads_queue' = RemoveAt(waiting_threads_queue, i)
    BY <1>12 DEF EraseWaiter
  <2>5. QueueOK
    OBVIOUS
  <2> HIDE DEF i, n
  <2>6. DOMAIN waiting_threads_queue' = 1..(n - 1)
    BY <2>1, <2>4, RemoveAtProperties DEF n
  <2>7. \A j \in 1..(n - 1) : \E k \in 1..n :
          /\ k # i
          /\ k = IF j < i THEN j ELSE j + 1
          /\ waiting_threads_queue'[j] = waiting_threads_queue[k]
    BY <2>1, <2>4, RemoveAtOrigin DEF n
  <2>8. DOMAIN waiting_threads_queue = 1..n
    BY <2>1 DEF n
  <2>9. ASSUME NEW j \in 1..(n - 1), NEW k \in 1..(n - 1),
               waiting_threads_queue'[j] = waiting_threads_queue'[k]
        PROVE  j = k
    <3>1. PICK p \in 1..n : /\ p = IF j < i THEN j ELSE j + 1
                            /\ waiting_threads_queue'[j] = waiting_threads_queue[p]
      BY <2>7
    <3>2. PICK q \in 1..n : /\ q = IF k < i THEN k ELSE k + 1
                            /\ waiting_threads_queue'[k] = waiting_threads_queue[q]
      BY <2>7
    <3>3. p = q
      BY <2>5, <2>8, <2>9, <3>1, <3>2 DEF QueueOK
    <3> QED
      BY <2>1, <3>1, <3>2, <3>3
  <2>10. ASSUME NEW j \in 1..(n - 1)
         PROVE  Blocked(waiting_threads_queue[j])'
    <3>1. PICK k \in 1..n : /\ k # i
                            /\ waiting_threads_queue'[j] = waiting_threads_queue[k]
      BY <2>7
    <3>2. Blocked(waiting_threads_queue[k])
      BY <2>2, <2>5, <2>8, <3>1 DEF QueueOK
    <3> QED
      BY <2>1, <2>3, <2>8, <3>1, <3>2
  <2> QED
    BY <2>2, <2>6, <2>9, <2>10 DEF QueueOK
<1>13. ASSUME NEW t \in ServiceThreads, EndInform(t)
      PROVE  QueueOK'
  BY <1>13 DEF TypeOK, ControlOK, QueueOK, HandoverOK, Blocked, Leaving,
     EndInform, GoTo, dbVars, awaitVars
<1>14. ASSUME NEW t \in ServiceThreads, InsertTuple(t)
      PROVE  QueueOK'
  BY <1>14 DEF TypeOK, ControlOK, QueueOK, HandoverOK, Blocked, Leaving,
     InsertTuple, GoTo, dbVars, awaitVars
<1>15. ASSUME NEW t \in ServiceThreads, SendReply(t)
      PROVE  QueueOK'
  BY <1>15 DEF TypeOK, ControlOK, QueueOK, HandoverOK, Blocked, Leaving,
     SendReply, GoTo, dbVars, awaitVars
<1>16. CASE UNCHANGED vars
  BY <1>16 DEF TypeOK, ControlOK, QueueOK, HandoverOK, Blocked, Leaving, vars, dbVars, awaitVars, threadVars
<1> QED
  BY <1>1, <1>2, <1>3, <1>4, <1>5, <1>6, <1>7, <1>8, <1>9, <1>10, <1>11,
     <1>12, <1>13, <1>14, <1>15, <1>16 DEF Next, ThreadStep

(* A step of any thread keeps the tuple that is handed to a waiter one that *)
(* the waiter's pattern matches.                                           *)
LEMMA HandoverStep ==
  ASSUME TypeOK, ControlOK, QueueOK, HandoverOK, [Next]_vars
  PROVE  HandoverOK'
<1> USE ConstantsAssumption
<1>1. ASSUME NEW t \in ServiceThreads, ReceiveOperation(t)
      PROVE  HandoverOK'
  BY <1>1 DEF TypeOK, HandoverOK, ReceiveOperation, GoTo, dbVars,
     awaitVars
<1>2. ASSUME NEW t \in ServiceThreads, Disconnect(t)
      PROVE  HandoverOK'
  BY <1>2 DEF TypeOK, HandoverOK, Disconnect, GoTo, dbVars, awaitVars
<1>3. ASSUME NEW t \in ServiceThreads, findTuple(t)
      PROVE  HandoverOK'
  BY <1>3 DEF TypeOK, HandoverOK, findTuple, GoTo, SearchReturns, dbVars,
     awaitVars
<1>4. ASSUME NEW t \in ServiceThreads, findTupleAndRemoveIt(t)
      PROVE  HandoverOK'
  BY <1>4 DEF TypeOK, HandoverOK, findTupleAndRemoveIt, GoTo,
     SearchReturns, dbVars, awaitVars
<1>5. ASSUME NEW t \in ServiceThreads, PrepareWait(t)
      PROVE  HandoverOK'
  <2>1. ASSUME NEW u \in ServiceThreads, pc[u] = "unlock"
        PROVE  waiting_threads_queue[iter[u]] # t
    <3>1. iter[u] \in DOMAIN waiting_threads_queue /\ ~Leaving(iter[u])
      BY <2>1 DEF ControlOK, Leaving
    <3> QED
      BY <1>5, <3>1 DEF QueueOK, Blocked, PrepareWait, GoTo
  <2> QED
    BY <1>5, <2>1 DEF TypeOK, HandoverOK, PrepareWait, GoTo, dbVars
<1>6. ASSUME NEW t \in ServiceThreads, EnqueueWaiter(t)
      PROVE  HandoverOK'
  <2>1. \A u \in ServiceThreads : pc'[u] # "unlock"
    BY <1>6 DEF TypeOK, ControlOK, EnqueueWaiter, GoTo
  <2> QED
    BY <1>6, <2>1 DEF TypeOK, HandoverOK, EnqueueWaiter, GoTo, awaitVars
<1>7. ASSUME NEW t \in ServiceThreads, LockAwaitingMutex(t)
      PROVE  HandoverOK'
  BY <1>7 DEF TypeOK, HandoverOK, LockAwaitingMutex, GoTo, dbVars,
     awaitVars
<1>8. ASSUME NEW t \in ServiceThreads, ReturnPassedTuple(t)
      PROVE  HandoverOK'
  BY <1>8 DEF TypeOK, HandoverOK, ReturnPassedTuple, GoTo, dbVars,
     awaitVars
<1>9. ASSUME NEW t \in ServiceThreads, BeginInform(t)
      PROVE  HandoverOK'
  BY <1>9 DEF TypeOK, HandoverOK, BeginInform, GoTo, dbVars, awaitVars
<1>10. ASSUME NEW t \in ServiceThreads, PassTuple(t)
      PROVE  HandoverOK'
  <2>1. PICK i \in Matching(t) :
          /\ iter' = [iter EXCEPT ![t] = i]
          /\ passed_tuple' = [passed_tuple EXCEPT
                                ![waiting_threads_queue[i]] = request[t].arg]
    BY <1>10 DEF PassTuple
  <2> DEFINE waiter == waiting_threads_queue[i]
  <2>2. /\ i \in DOMAIN waiting_threads_queue
        /\ waiter \in ServiceThreads
        /\ isPatternEqualToTuple(tuple_pattern[waiter], request[t].arg)
    BY DEF TypeOK, Matching
  <2>3. ~Leaving(i) /\ Blocked(waiter)
    BY <1>10, <2>2 DEF ControlOK, QueueOK, Leaving, PassTuple, GoTo
  <2>4. \A u \in ServiceThreads : pc[u] # "unlock"
    BY <1>10 DEF ControlOK, PassTuple, GoTo
  <2>5. \A u \in ServiceThreads :
          pc'[u] = "unlock" => u = t /\ waiting_threads_queue'[iter'[u]] = waiter
    BY <1>10, <2>1, <2>4 DEF TypeOK, PassTuple, GoTo, dbVars
  <2>6. /\ passed_tuple'[waiter] = request[t].arg
        /\ \A u \in ServiceThreads \ {waiter} : passed_tuple'[u] = passed_tuple[u]
    BY <2>1, <2>2 DEF TypeOK
  <2>7. /\ UNCHANGED <<tuple_pattern, request, unlocked>>
        /\ \A u \in ServiceThreads \ {t} : pc'[u] = pc[u]
        /\ pc'[t] = "unlock" /\ t # waiter
    BY <1>10, <2>3 DEF TypeOK, Blocked, PassTuple, GoTo
  <2> HIDE DEF waiter
  <2>8. waiter \notin unlocked /\ pc[waiter] = "blocked"
    BY <2>3 DEF Blocked
  <2> QED
    BY <1>10, <2>2, <2>5, <2>6, <2>7, <2>8 DEF HandoverOK, PassTuple, GoTo
<1>11. ASSUME NEW t \in ServiceThreads, UnlockWaiter(t)
      PROVE  HandoverOK'
  <2> DEFINE waiter == waiting_threads_queue[iter[t]]
  <2>1. /\ iter[t] \in DOMAIN waiting_threads_queue
        /\ waiter \in ServiceThreads
        /\ ~Leaving(iter[t])
    BY <1>11 DEF TypeOK, ControlOK, Leaving, UnlockWaiter, GoTo
  <2>2. pc[waiter] = "blocked"
    BY <2>1 DEF QueueOK, Blocked
  <2>3. isPatternEqualToTuple(tuple_pattern[waiter], passed_tuple[waiter])
    BY <1>11 DEF HandoverOK, UnlockWaiter, GoTo
  <2> QED
    BY <1>11, <2>1, <2>2, <2>3
    DEF TypeOK, HandoverOK, UnlockWaiter, GoTo, dbVars
<1>12. ASSUME NEW t \in ServiceThreads, EraseWaiter(t)
      PROVE  HandoverOK'
  <2>1. \A u \in ServiceThreads : pc'[u] # "unlock"
    BY <1>12 DEF TypeOK, ControlOK, EraseWaiter, GoTo
  <2> QED
    BY <1>12, <2>1 DEF TypeOK, HandoverOK, EraseWaiter, GoTo, awaitVars
<1>13. ASSUME NEW t \in ServiceThreads, EndInform(t)
      PROVE  HandoverOK'
  BY <1>13 DEF TypeOK, HandoverOK, EndInform, GoTo, dbVars, awaitVars
<1>14. ASSUME NEW t \in ServiceThreads, InsertTuple(t)
      PROVE  HandoverOK'
  BY <1>14 DEF TypeOK, HandoverOK, InsertTuple, GoTo, dbVars, awaitVars
<1>15. ASSUME NEW t \in ServiceThreads, SendReply(t)
      PROVE  HandoverOK'
  BY <1>15 DEF TypeOK, HandoverOK, SendReply, GoTo, dbVars, awaitVars
<1>16. CASE UNCHANGED vars
  BY <1>16 DEF TypeOK, HandoverOK, vars, dbVars, awaitVars, threadVars
<1> QED
  BY <1>1, <1>2, <1>3, <1>4, <1>5, <1>6, <1>7, <1>8, <1>9, <1>10, <1>11,
     <1>12, <1>13, <1>14, <1>15, <1>16 DEF Next, ThreadStep

(* A step of any thread keeps every reply that is ready one that matches    *)
(* the pattern of its command.                                              *)
LEMMA ReplyStep ==
  ASSUME TypeOK, ControlOK, HandoverOK, ReplyMatchesRequest, [Next]_vars
  PROVE  ReplyMatchesRequest'
<1> USE ConstantsAssumption
<1>1. ASSUME NEW t \in ServiceThreads, ReceiveOperation(t)
      PROVE  ReplyMatchesRequest'
  BY <1>1 DEF TypeOK, ControlOK, HandoverOK, ReplyMatchesRequest,
     ReceiveOperation, GoTo, dbVars, awaitVars, OP_LINDA_WRITE
<1>2. ASSUME NEW t \in ServiceThreads, Disconnect(t)
      PROVE  ReplyMatchesRequest'
  BY <1>2 DEF TypeOK, ControlOK, HandoverOK, ReplyMatchesRequest,
     Disconnect, GoTo, dbVars, awaitVars, OP_LINDA_WRITE
<1>3. ASSUME NEW t \in ServiceThreads, findTuple(t)
      PROVE  ReplyMatchesRequest'
  <2>1. pc[t] = "find" /\ request'[t] = request[t]
    BY <1>3 DEF findTuple
  <2>2. ASSUME pc'[t] = "send"
        PROVE  isPatternEqualToTuple(request[t].arg, tuple'[t])
    <3>1. ~SearchReturns(t, EmptyTuple)
      BY <1>3, <2>2 DEF TypeOK, findTuple, SearchReturns, GoTo
    <3>2. PICK i \in FirstMatching(records[Len(request[t].arg)], request[t].arg) :
            SearchReturns(t, records[Len(request[t].arg)][i])
      BY <1>3, <3>1 DEF findTuple
    <3> QED
      BY <3>2 DEF TypeOK, SearchReturns, FirstMatching
  <2>3. \A u \in ServiceThreads \ {t} : pc'[u] = pc[u] /\ tuple'[u] = tuple[u]
    BY <1>3 DEF TypeOK, findTuple, SearchReturns, GoTo
  <2> QED
    BY <1>3, <2>1, <2>2, <2>3 DEF ReplyMatchesRequest, findTuple
<1>4. ASSUME NEW t \in ServiceThreads, findTupleAndRemoveIt(t)
      PROVE  ReplyMatchesRequest'
  <2>1. pc[t] = "find" /\ request'[t] = request[t]
    BY <1>4 DEF findTupleAndRemoveIt
  <2>2. ASSUME pc'[t] = "send"
        PROVE  isPatternEqualToTuple(request[t].arg, tuple'[t])
    <3>1. ~SearchReturns(t, EmptyTuple)
      BY <1>4, <2>2 DEF TypeOK, findTupleAndRemoveIt, SearchReturns, GoTo
    <3>2. PICK i \in FirstMatching(records[Len(request[t].arg)], request[t].arg) :
            SearchReturns(t, records[Len(request[t].arg)][i])
      BY <1>4, <3>1 DEF findTupleAndRemoveIt
    <3> QED
      BY <3>2 DEF TypeOK, SearchReturns, FirstMatching
  <2>3. \A u \in ServiceThreads \ {t} : pc'[u] = pc[u] /\ tuple'[u] = tuple[u]
    BY <1>4 DEF TypeOK, findTupleAndRemoveIt, SearchReturns, GoTo
  <2> QED
    BY <1>4, <2>1, <2>2, <2>3 DEF ReplyMatchesRequest, findTupleAndRemoveIt
<1>5. ASSUME NEW t \in ServiceThreads, PrepareWait(t)
      PROVE  ReplyMatchesRequest'
  BY <1>5 DEF TypeOK, ControlOK, HandoverOK, ReplyMatchesRequest,
     PrepareWait, GoTo, dbVars, awaitVars, OP_LINDA_WRITE
<1>6. ASSUME NEW t \in ServiceThreads, EnqueueWaiter(t)
      PROVE  ReplyMatchesRequest'
  BY <1>6 DEF TypeOK, ControlOK, HandoverOK, ReplyMatchesRequest,
     EnqueueWaiter, GoTo, dbVars, awaitVars, OP_LINDA_WRITE
<1>7. ASSUME NEW t \in ServiceThreads, LockAwaitingMutex(t)
      PROVE  ReplyMatchesRequest'
  BY <1>7 DEF TypeOK, ControlOK, HandoverOK, ReplyMatchesRequest,
     LockAwaitingMutex, GoTo, dbVars, awaitVars, OP_LINDA_WRITE
<1>8. ASSUME NEW t \in ServiceThreads, ReturnPassedTuple(t)
      PROVE  ReplyMatchesRequest'
  BY <1>8 DEF TypeOK, ControlOK, HandoverOK, ReplyMatchesRequest,
     ReturnPassedTuple, GoTo, dbVars, awaitVars, OP_LINDA_WRITE
<1>9. ASSUME NEW t \in ServiceThreads, BeginInform(t)
      PROVE  ReplyMatchesRequest'
  BY <1>9 DEF TypeOK, ControlOK, HandoverOK, ReplyMatchesRequest,
     BeginInform, GoTo, dbVars, awaitVars, OP_LINDA_WRITE
<1>10. ASSUME NEW t \in ServiceThreads, PassTuple(t)
      PROVE  ReplyMatchesRequest'
  BY <1>10 DEF TypeOK, ControlOK, HandoverOK, ReplyMatchesRequest,
     PassTuple, GoTo, dbVars, awaitVars, OP_LINDA_WRITE
<1>11. ASSUME NEW t \in ServiceThreads, UnlockWaiter(t)
      PROVE  ReplyMatchesRequest'
  BY <1>11 DEF TypeOK, ControlOK, HandoverOK, ReplyMatchesRequest,
     UnlockWaiter, GoTo, dbVars, awaitVars, OP_LINDA_WRITE
<1>12. ASSUME NEW t \in ServiceThreads, EraseWaiter(t)
      PROVE  ReplyMatchesRequest'
  BY <1>12 DEF TypeOK, ControlOK, HandoverOK, ReplyMatchesRequest,
     EraseWaiter, GoTo, dbVars, awaitVars, OP_LINDA_WRITE
<1>13. ASSUME NEW t \in ServiceThreads, EndInform(t)
      PROVE  ReplyMatchesRequest'
  BY <1>13 DEF TypeOK, ControlOK, HandoverOK, ReplyMatchesRequest,
     EndInform, GoTo, dbVars, awaitVars, OP_LINDA_WRITE
<1>14. ASSUME NEW t \in ServiceThreads, InsertTuple(t)
      PROVE  ReplyMatchesRequest'
  BY <1>14 DEF TypeOK, ControlOK, HandoverOK, ReplyMatchesRequest,
     InsertTuple, GoTo, dbVars, awaitVars, OP_LINDA_WRITE
<1>15. ASSUME NEW t \in ServiceThreads, SendReply(t)
      PROVE  ReplyMatchesRequest'
  BY <1>15 DEF TypeOK, ControlOK, HandoverOK, ReplyMatchesRequest,
     SendReply, GoTo, dbVars, awaitVars, OP_LINDA_WRITE
<1>16. CASE UNCHANGED vars
  BY <1>16 DEF TypeOK, ControlOK, HandoverOK, ReplyMatchesRequest, vars, dbVars, awaitVars, threadVars
<1> QED
  BY <1>1, <1>2, <1>3, <1>4, <1>5, <1>6, <1>7, <1>8, <1>9, <1>10, <1>11,
     <1>12, <1>13, <1>14, <1>15, <1>16 DEF Next, ThreadStep

(* A step of any thread keeps every blocked thread queued.                  *)
LEMMA BlockedStep ==
  ASSUME TypeOK, ControlOK, QueueOK, BlockedWaiterIsQueued, [Next]_vars
  PROVE  BlockedWaiterIsQueued'
<1> USE ConstantsAssumption
<1>1. ASSUME NEW t \in ServiceThreads, ReceiveOperation(t)
      PROVE  BlockedWaiterIsQueued'
  BY <1>1 DEF TypeOK, BlockedWaiterIsQueued, ReceiveOperation, GoTo,
     dbVars, awaitVars
<1>2. ASSUME NEW t \in ServiceThreads, Disconnect(t)
      PROVE  BlockedWaiterIsQueued'
  BY <1>2 DEF TypeOK, BlockedWaiterIsQueued, Disconnect, GoTo, dbVars,
     awaitVars
<1>3. ASSUME NEW t \in ServiceThreads, findTuple(t)
      PROVE  BlockedWaiterIsQueued'
  BY <1>3 DEF TypeOK, BlockedWaiterIsQueued, findTuple, GoTo,
     SearchReturns, dbVars, awaitVars
<1>4. ASSUME NEW t \in ServiceThreads, findTupleAndRemoveIt(t)
      PROVE  BlockedWaiterIsQueued'
  BY <1>4 DEF TypeOK, BlockedWaiterIsQueued, findTupleAndRemoveIt, GoTo,
     SearchReturns, dbVars, awaitVars
<1>5. ASSUME NEW t \in ServiceThreads, PrepareWait(t)
      PROVE  BlockedWaiterIsQueued'
  BY <1>5 DEF TypeOK, BlockedWaiterIsQueued, PrepareWait, GoTo, dbVars,
     awaitVars
<1>6. ASSUME NEW t \in ServiceThreads, EnqueueWaiter(t)
      PROVE  BlockedWaiterIsQueued'
  <2> DEFINE n == Len(waiting_threads_queue)
  <2>1. /\ n \in Nat
        /\ DOMAIN waiting_threads_queue = 1..n
        /\ DOMAIN waiting_threads_queue' = 1..(n + 1)
        /\ waiting_threads_queue'[n + 1] = t
        /\ \A i \in 1..n : waiting_threads_queue'[i] = waiting_threads_queue[i]
    BY <1>6 DEF TypeOK, EnqueueWaiter
  <2> HIDE DEF n
  <2>2. n + 1 \in 1..(n + 1) /\ 1..n \subseteq 1..(n + 1)
    BY <2>1
  <2>3. ToSet(waiting_threads_queue) \cup {t} \subseteq ToSet(waiting_threads_queue')
    BY <2>1, <2>2 DEF ToSet
  <2> QED
    BY <1>6, <2>3
    DEF TypeOK, BlockedWaiterIsQueued, EnqueueWaiter, GoTo, awaitVars
<1>7. ASSUME NEW t \in ServiceThreads, LockAwaitingMutex(t)
      PROVE  BlockedWaiterIsQueued'
  BY <1>7 DEF TypeOK, BlockedWaiterIsQueued, LockAwaitingMutex, GoTo,
     dbVars, awaitVars
<1>8. ASSUME NEW t \in ServiceThreads, ReturnPassedTuple(t)
      PROVE  BlockedWaiterIsQueued'
  BY <1>8 DEF TypeOK, BlockedWaiterIsQueued, ReturnPassedTuple, GoTo,
     dbVars, awaitVars
<1>9. ASSUME NEW t \in ServiceThreads, BeginInform(t)
      PROVE  BlockedWaiterIsQueued'
  BY <1>9 DEF TypeOK, BlockedWaiterIsQueued, BeginInform, GoTo, dbVars,
     awaitVars
<1>10. ASSUME NEW t \in ServiceThreads, PassTuple(t)
      PROVE  BlockedWaiterIsQueued'
  BY <1>10 DEF TypeOK, BlockedWaiterIsQueued, PassTuple, GoTo, dbVars,
     awaitVars
<1>11. ASSUME NEW t \in ServiceThreads, UnlockWaiter(t)
      PROVE  BlockedWaiterIsQueued'
  BY <1>11 DEF TypeOK, BlockedWaiterIsQueued, UnlockWaiter, GoTo, dbVars,
     awaitVars
<1>12. ASSUME NEW t \in ServiceThreads, EraseWaiter(t)
      PROVE  BlockedWaiterIsQueued'
  <2> DEFINE i == iter[t]
             n == Len(waiting_threads_queue)
  <2>1. /\ waiting_threads_queue \in Seq(ServiceThreads)
        /\ n \in Nat
        /\ i \in 1..n
    BY <1>12 DEF TypeOK, ControlOK, EraseWaiter
  <2>2. ~Blocked(waiting_threads_queue[i])
    BY <1>12, <2>1 DEF QueueOK, Leaving, EraseWaiter
  <2>3. waiting_threads_queue' = RemoveAt(waiting_threads_queue, i)
    BY <1>12 DEF EraseWaiter
  <2> HIDE DEF i, n
  <2>4. /\ DOMAIN waiting_threads_queue' = 1..(n - 1)
        /\ \A j \in 1..(n - 1) : waiting_threads_queue'[j] =
             IF j < i THEN waiting_threads_queue[j]
                      ELSE waiting_threads_queue[j + 1]
    BY <2>1, <2>3, RemoveAtProperties DEF n
  <2>5. ASSUME NEW k \in 1..n, k # i
        PROVE  waiting_threads_queue[k] \in ToSet(waiting_threads_queue')
    <3>1. CASE k < i
      <4>1. k \in 1..(n - 1) /\ waiting_threads_queue'[k] = waiting_threads_queue[k]
        BY <2>1, <2>4, <3>1
      <4> QED
        BY <2>4, <4>1 DEF ToSet
    <3>2. CASE ~(k < i)
      <4>1. /\ k - 1 \in 1..(n - 1) /\ ~(k - 1 < i) /\ (k - 1) + 1 = k
        BY <2>1, <2>5, <3>2
      <4>2. waiting_threads_queue'[k - 1] = waiting_threads_queue[k]
        BY <2>4, <4>1
      <4> QED
        BY <2>4, <4>1, <4>2 DEF ToSet
    <3> QED
      BY <3>1, <3>2
  <2>6. \A u \in ServiceThreads : Blocked(u)' => Blocked(u)
    BY <1>12 DEF TypeOK, Blocked, EraseWaiter, GoTo, awaitVars
  <2>7. DOMAIN waiting_threads_queue = 1..n
    BY <2>1 DEF n
  <2> QED
    BY <2>2, <2>5, <2>6, <2>7 DEF BlockedWaiterIsQueued, Blocked, ToSet
<1>13. ASSUME NEW t \in ServiceThreads, EndInform(t)
      PROVE  BlockedWaiterIsQueued'
  BY <1>13 DEF TypeOK, BlockedWaiterIsQueued, EndInform, GoTo, dbVars,
     awaitVars
<1>14. ASSUME NEW t \in ServiceThreads, InsertTuple(t)
      PROVE  BlockedWaiterIsQueued'
  BY <1>14 DEF TypeOK, BlockedWaiterIsQueued, InsertTuple, GoTo, dbVars,
     awaitVars
<1>15. ASSUME NEW t \in ServiceThreads, SendReply(t)
      PROVE  BlockedWaiterIsQueued'
  BY <1>15 DEF TypeOK, BlockedWaiterIsQueued, SendReply, GoTo, dbVars,
     awaitVars
<1>16. CASE UNCHANGED vars
  BY <1>16 DEF TypeOK, BlockedWaiterIsQueued, vars, dbVars, awaitVars, threadVars
<1> QED
  BY <1>1, <1>2, <1>3, <1>4, <1>5, <1>6, <1>7, <1>8, <1>9, <1>10, <1>11,
     <1>12, <1>13, <1>14, <1>15, <1>16 DEF Next, ThreadStep

(* A step of any thread keeps the waiters behind a notifier's iterator ones *)
(* that do not want its tuple.                                             *)
LEMMA PassedOverStep ==
  ASSUME TypeOK, ControlOK, QueueOK, NoWaiterPassedOver, [Next]_vars
  PROVE  NoWaiterPassedOver'
<1> USE ConstantsAssumption
<1>1. ASSUME NEW t \in ServiceThreads, ReceiveOperation(t)
      PROVE  NoWaiterPassedOver'
  BY <1>1 DEF TypeOK, NoWaiterPassedOver, ReceiveOperation, GoTo, dbVars,
     awaitVars
<1>2. ASSUME NEW t \in ServiceThreads, Disconnect(t)
      PROVE  NoWaiterPassedOver'
  BY <1>2 DEF TypeOK, NoWaiterPassedOver, Disconnect, GoTo, dbVars,
     awaitVars
<1>3. ASSUME NEW t \in ServiceThreads, findTuple(t)
      PROVE  NoWaiterPassedOver'
  BY <1>3 DEF TypeOK, NoWaiterPassedOver, findTuple, GoTo, SearchReturns,
     dbVars, awaitVars
<1>4. ASSUME NEW t \in ServiceThreads, findTupleAndRemoveIt(t)
      PROVE  NoWaiterPassedOver'
  BY <1>4 DEF TypeOK, NoWaiterPassedOver, findTupleAndRemoveIt, GoTo,
     SearchReturns, dbVars, awaitVars
<1>5. ASSUME NEW t \in ServiceThreads, PrepareWait(t)
      PROVE  NoWaiterPassedOver'
  <2>1. ASSUME NEW u \in ServiceThreads, pc[u] \in {"scan", "unlock", "erase"},
               NEW i \in 1..(iter[u] - 1)
        PROVE  waiting_threads_queue[i] # t
    <3>1. /\ i \in DOMAIN waiting_threads_queue
          /\ i # iter[u]
      BY <2>1 DEF TypeOK, ControlOK
    <3>2. ~Leaving(i)
      BY <2>1, <3>1 DEF ControlOK, Leaving
    <3> QED
      BY <1>5, <3>1, <3>2 DEF QueueOK, Blocked, PrepareWait, GoTo
  <2>2. \A u \in ServiceThreads : pc'[u] \in {"scan", "unlock", "erase"} =>
          /\ pc[u] \in {"scan", "unlock", "erase"}
          /\ iter'[u] = iter[u] /\ request'[u] = request[u]
    BY <1>5 DEF TypeOK, PrepareWait, GoTo
  <2>3. /\ UNCHANGED waiting_threads_queue
        /\ \A v : v # t => tuple_pattern'[v] = tuple_pattern[v]
    BY <1>5 DEF TypeOK, PrepareWait, dbVars
  <2> QED
    BY <1>5, <2>1, <2>2, <2>3 DEF NoWaiterPassedOver, PrepareWait
<1>6. ASSUME NEW t \in ServiceThreads, EnqueueWaiter(t)
      PROVE  NoWaiterPassedOver'
  <2>1. \A u \in ServiceThreads : pc'[u] \notin {"scan", "unlock", "erase"}
    BY <1>6 DEF TypeOK, ControlOK, EnqueueWaiter, GoTo
  <2> QED
    BY <2>1 DEF NoWaiterPassedOver
<1>7. ASSUME NEW t \in ServiceThreads, LockAwaitingMutex(t)
      PROVE  NoWaiterPassedOver'
  BY <1>7 DEF TypeOK, NoWaiterPassedOver, LockAwaitingMutex, GoTo, dbVars,
     awaitVars
<1>8. ASSUME NEW t \in ServiceThreads, ReturnPassedTuple(t)
      PROVE  NoWaiterPassedOver'
  BY <1>8 DEF TypeOK, NoWaiterPassedOver, ReturnPassedTuple, GoTo, dbVars,
     awaitVars
<1>9. ASSUME NEW t \in ServiceThreads, BeginInform(t)
      PROVE  NoWaiterPassedOver'
  <2>1. \A u \in ServiceThreads \ {t} : pc'[u] \notin {"scan", "unlock", "erase"}
    BY <1>9 DEF TypeOK, ControlOK, BeginInform, GoTo
  <2>2. iter'[t] = 1
    BY <1>9 DEF TypeOK, BeginInform
  <2> QED
    BY <2>1, <2>2 DEF NoWaiterPassedOver
<1>10. ASSUME NEW t \in ServiceThreads, PassTuple(t)
      PROVE  NoWaiterPassedOver'
  <2>1. PICK i \in Matching(t) : /\ \A j \in Matching(t) : i <= j
                                /\ iter' = [iter EXCEPT ![t] = i]
    BY <1>10 DEF PassTuple
  <2>2. /\ i \in iter[t]..Len(waiting_threads_queue)
        /\ iter[t] \in Nat \ {0} /\ Len(waiting_threads_queue) \in Nat
        /\ iter'[t] = i
    BY <2>1 DEF TypeOK, Matching
  <2>3. ASSUME NEW j \in 1..(i - 1)
        PROVE  ~isPatternEqualToTuple(tuple_pattern[waiting_threads_queue[j]],
                                      request[t].arg)
    <3>1. CASE j < iter[t]
      <4>1. j \in 1..(iter[t] - 1)
        BY <2>2, <3>1
      <4> QED
        BY <1>10, <4>1 DEF NoWaiterPassedOver, PassTuple, GoTo
    <3>2. CASE ~(j < iter[t])
      <4>1. j \in iter[t]..Len(waiting_threads_queue) /\ ~(i <= j)
        BY <2>2, <3>2
      <4> QED
        BY <2>1, <4>1 DEF Matching
    <3> QED
      BY <3>1, <3>2
  <2>4. \A u \in ServiceThreads \ {t} : pc'[u] \notin {"scan", "unlock", "erase"}
    BY <1>10 DEF TypeOK, ControlOK, PassTuple, GoTo
  <2>5. UNCHANGED <<tuple_pattern, waiting_threads_queue, request>>
    BY <1>10 DEF PassTuple, dbVars
  <2> QED
    BY <2>2, <2>3, <2>4, <2>5 DEF NoWaiterPassedOver
<1>11. ASSUME NEW t \in ServiceThreads, UnlockWaiter(t)
      PROVE  NoWaiterPassedOver'
  BY <1>11 DEF TypeOK, NoWaiterPassedOver, UnlockWaiter, GoTo, dbVars,
     awaitVars
<1>12. ASSUME NEW t \in ServiceThreads, EraseWaiter(t)
      PROVE  NoWaiterPassedOver'
  <2> DEFINE i == iter[t]
             n == Len(waiting_threads_queue)
  <2>1. /\ waiting_threads_queue \in Seq(ServiceThreads)
        /\ n \in Nat
        /\ i \in 1..n
    BY <1>12 DEF TypeOK, ControlOK, EraseWaiter
  <2>2. waiting_threads_queue' = RemoveAt(waiting_threads_queue, i)
    BY <1>12 DEF EraseWaiter
  <2>3. \A j \in 1..(i - 1) :
          ~isPatternEqualToTuple(tuple_pattern[waiting_threads_queue[j]],
                                 request[t].arg)
    BY <1>12 DEF NoWaiterPassedOver, EraseWaiter
  <2>4. iter'[t] = i /\ UNCHANGED <<tuple_pattern, request>>
    BY <1>12 DEF EraseWaiter, awaitVars
  <2> HIDE DEF i, n
  <2>5. \A j \in 1..(i - 1) : waiting_threads_queue'[j] = waiting_threads_queue[j]
    BY <2>1, <2>2, RemoveAtProperties DEF n
  <2>6. \A u \in ServiceThreads \ {t} : pc'[u] \notin {"scan", "unlock", "erase"}
    BY <1>12 DEF TypeOK, ControlOK, EraseWaiter, GoTo
  <2> QED
    BY <2>3, <2>4, <2>5, <2>6 DEF NoWaiterPassedOver
<1>13. ASSUME NEW t \in ServiceThreads, EndInform(t)
      PROVE  NoWaiterPassedOver'
  BY <1>13 DEF TypeOK, NoWaiterPassedOver, EndInform, GoTo, dbVars,
     awaitVars
<1>14. ASSUME NEW t \in ServiceThreads, InsertTuple(t)
      PROVE  NoWaiterPassedOver'
  BY <1>14 DEF TypeOK, NoWaiterPassedOver, InsertTuple, GoTo, dbVars,
     awaitVars
<1>15. ASSUME NEW t \in ServiceThreads, SendReply(t)
      PROVE  NoWaiterPassedOver'
  BY <1>15 DEF TypeOK, NoWaiterPassedOver, SendReply, GoTo, dbVars,
     awaitVars
<1>16. CASE UNCHANGED vars
  BY <1>16 DEF TypeOK, NoWaiterPassedOver, vars, dbVars, awaitVars, threadVars
<1> QED
  BY <1>1, <1>2, <1>3, <1>4, <1>5, <1>6, <1>7, <1>8, <1>9, <1>10, <1>11,
     <1>12, <1>13, <1>14, <1>15, <1>16 DEF Next, ThreadStep

(* A step of any thread keeps the rows free of duplicates.                  *)
LEMMA DuplicateStep ==
  ASSUME TypeOK, ControlOK, NoDuplicateTuples, [Next]_vars
  PROVE  NoDuplicateTuples'
<1> USE ConstantsAssumption
<1>1. ASSUME NEW t \in ServiceThreads, ReceiveOperation(t)
      PROVE  NoDuplicateTuples'
  BY <1>1 DEF NoDuplicateTuples, ReceiveOperation, GoTo, dbVars, awaitVars
<1>2. ASSUME NEW t \in ServiceThreads, Disconnect(t)
      PROVE  NoDuplicateTuples'
  BY <1>2 DEF NoDuplicateTuples, Disconnect, GoTo, dbVars, awaitVars
<1>3. ASSUME NEW t \in ServiceThreads, findTuple(t)
      PROVE  NoDuplicateTuples'
  BY <1>3 DEF NoDuplicateTuples, findTuple, GoTo, SearchReturns, dbVars,
     awaitVars
<1>4. ASSUME NEW t \in ServiceThreads, findTupleAndRemoveIt(t)
      PROVE  NoDuplicateTuples'
  <2> DEFINE n == Len(request[t].arg)
  <2>1. n \in Sizes
    BY <1>4, ServedRequest DEF findTupleAndRemoveIt
  <2>2. CASE UNCHANGED records
    BY <2>2 DEF NoDuplicateTuples
  <2>3. CASE \E i \in DOMAIN records[n] :
               records' = [records EXCEPT ![n] = RemoveAt(@, i)]
    <3> DEFINE row == records[n]
    <3>1. PICK i \in DOMAIN row : records' = [records EXCEPT ![n] = RemoveAt(@, i)]
      BY <2>3
    <3>2. /\ row \in Seq(Tuples)
          /\ \A j, k \in DOMAIN row : row[j] = row[k] => j = k
      BY <2>1 DEF TypeOK, NoDuplicateTuples
    <3>3. /\ records'[n] = RemoveAt(row, i)
          /\ \A m \in Sizes \ {n} : records'[m] = records[m]
      BY <2>1, <3>1 DEF TypeOK
    <3> HIDE DEF n, row
    <3>4. /\ row \in Seq(Tuples)
          /\ Len(row) \in Nat
          /\ DOMAIN row = 1..Len(row)
          /\ i \in 1..Len(row)
      BY <3>1, <3>2
    <3>5. \A j, k \in 1..(Len(row) - 1) :
            RemoveAt(row, i)[j] = RemoveAt(row, i)[k] => j = k
      <4>1. \A j, k \in 1..Len(row) : row[j] = row[k] => j = k
        BY <3>2, <3>4
      <4> QED
        BY <3>4, <4>1, RemoveAtDistinct
    <3>6. DOMAIN RemoveAt(row, i) = 1..(Len(row) - 1)
      BY <3>2, <3>4, RemoveAtProperties
    <3> QED
      BY <3>3, <3>5, <3>6 DEF NoDuplicateTuples
  <2> QED
    BY <1>4, <2>2, <2>3 DEF findTupleAndRemoveIt, FirstMatching
<1>5. ASSUME NEW t \in ServiceThreads, PrepareWait(t)
      PROVE  NoDuplicateTuples'
  BY <1>5 DEF NoDuplicateTuples, PrepareWait, GoTo, dbVars, awaitVars
<1>6. ASSUME NEW t \in ServiceThreads, EnqueueWaiter(t)
      PROVE  NoDuplicateTuples'
  BY <1>6 DEF NoDuplicateTuples, EnqueueWaiter, GoTo, dbVars, awaitVars
<1>7. ASSUME NEW t \in ServiceThreads, LockAwaitingMutex(t)
      PROVE  NoDuplicateTuples'
  BY <1>7 DEF NoDuplicateTuples, LockAwaitingMutex, GoTo, dbVars,
     awaitVars
<1>8. ASSUME NEW t \in ServiceThreads, ReturnPassedTuple(t)
      PROVE  NoDuplicateTuples'
  BY <1>8 DEF NoDuplicateTuples, ReturnPassedTuple, GoTo, dbVars,
     awaitVars
<1>9. ASSUME NEW t \in ServiceThreads, BeginInform(t)
      PROVE  NoDuplicateTuples'
  BY <1>9 DEF NoDuplicateTuples, BeginInform, GoTo, dbVars, awaitVars
<1>10. ASSUME NEW t \in ServiceThreads, PassTuple(t)
      PROVE  NoDuplicateTuples'
  BY <1>10 DEF NoDuplicateTuples, PassTuple, GoTo, dbVars, awaitVars
<1>11. ASSUME NEW t \in ServiceThreads, UnlockWaiter(t)
      PROVE  NoDuplicateTuples'
  BY <1>11 DEF NoDuplicateTuples, UnlockWaiter, GoTo, dbVars, awaitVars
<1>12. ASSUME NEW t \in ServiceThreads, EraseWaiter(t)
      PROVE  NoDuplicateTuples'
  BY <1>12 DEF NoDuplicateTuples, EraseWaiter, GoTo, dbVars, awaitVars
<1>13. ASSUME NEW t \in ServiceThreads, EndInform(t)
      PROVE  NoDuplicateTuples'
  BY <1>13 DEF NoDuplicateTuples, EndInform, GoTo, dbVars, awaitVars
<1>14. ASSUME NEW t \in ServiceThreads, InsertTuple(t)
      PROVE  NoDuplicateTuples'
  <2> DEFINE new == request[t].arg
             row == records[Len(new)]
  <2>1. new \in Tuples /\ Len(new) \in Sizes
    BY <1>14, ServedRequest DEF InsertTuple, GoTo
  <2>2. CASE UNCHANGED records
    BY <2>2 DEF NoDuplicateTuples
  <2>3. CASE /\ \A i \in DOMAIN row : ~isTupleAlreadyInDatabase(row[i], new)
             /\ records' = [records EXCEPT ![Len(new)] = Append(@, new)]
    <3>1. \A i \in DOMAIN row : row[i] # new
      BY <2>3 DEF isTupleAlreadyInDatabase
    <3>2. /\ row \in Seq(Tuples)
          /\ \A j, k \in DOMAIN row : row[j] = row[k] => j = k
      BY <2>1 DEF TypeOK, NoDuplicateTuples
    <3>3. /\ records'[Len(new)] = Append(row, new)
          /\ \A m \in Sizes \ {Len(new)} : records'[m] = records[m]
      BY <2>1, <2>3 DEF TypeOK
    <3> HIDE DEF new, row
    <3>4. Len(row) \in Nat /\ DOMAIN row = 1..Len(row)
      BY <3>2
    <3>5. /\ DOMAIN Append(row, new) = 1..(Len(row) + 1)
          /\ Append(row, new)[Len(row) + 1] = new
          /\ \A j \in 1..Len(row) : Append(row, new)[j] = row[j]
      BY <2>1, <3>2, <3>4
    <3>6. ASSUME NEW j \in 1..(Len(row) + 1), NEW k \in 1..(Len(row) + 1),
                 Append(row, new)[j] = Append(row, new)[k]
          PROVE  j = k
      BY <3>1, <3>2, <3>5, <3>6, <3>4
    <3> QED
      BY <3>3, <3>5, <3>6 DEF NoDuplicateTuples
  <2> QED
    BY <1>14, <2>2, <2>3 DEF InsertTuple
<1>15. ASSUME NEW t \in ServiceThreads, SendReply(t)
      PROVE  NoDuplicateTuples'
  BY <1>15 DEF NoDuplicateTuples, SendReply, GoTo, dbVars, awaitVars
<1>16. CASE UNCHANGED vars
  BY <1>16 DEF NoDuplicateTuples, vars, dbVars, awaitVars, threadVars
<1> QED
  BY <1>1, <1>2, <1>3, <1>4, <1>5, <1>6, <1>7, <1>8, <1>9, <1>10, <1>11,
     <1>12, <1>13, <1>14, <1>15, <1>16 DEF Next, ThreadStep

-----------------------------------------------------------------------------
(* The server starts with an empty database and no waiter.                 *)
LEMMA InitialIInv == Init => IInv
<1> SUFFICES ASSUME Init PROVE IInv
  OBVIOUS
<1> USE ConstantsAssumption
<1>1. TypeOK
  <2>1. /\ records \in [Sizes -> Seq(Tuples)]
        /\ \A n \in Sizes : records[n] \in Seq({v \in Tuples : Len(v) = n})
    BY DEF Init
  <2>2. isInput \in [ServiceThreads -> (SUBSET BOOLEAN) \ {{}}]
    BY DEF Init
  <2>3. /\ waiting_threads_queue \in Seq(ServiceThreads)
        /\ unlocked \subseteq ServiceThreads
        /\ issued \in 0..MaxCommands
        /\ owed \in [Tuples -> Int]
    BY DEF Init
  <2> QED
    BY <2>1, <2>2, <2>3 DEF Init, TypeOK, Locations
<1>2. ControlOK /\ HandoverOK /\ ReplyMatchesRequest
  BY DEF Init, ControlOK, HandoverOK, ReplyMatchesRequest
<1>3. QueueOK /\ NoWaiterPassedOver /\ BlockedWaiterIsQueued
  BY DEF Init, QueueOK, NoWaiterPassedOver, BlockedWaiterIsQueued
<1>4. NoDuplicateTuples
  BY DEF Init, NoDuplicateTuples
<1> QED
  BY <1>1, <1>2, <1>3, <1>4 DEF IInv

(* No step of any thread breaks the invariant.                             *)
LEMMA InductiveIInv == IInv /\ [Next]_vars => IInv'
<1> SUFFICES ASSUME IInv, [Next]_vars PROVE IInv'
  OBVIOUS
<1>1. TypeOK' /\ ControlOK' /\ QueueOK' /\ HandoverOK'
  BY TypeStep, ControlStep, QueueStep, HandoverStep DEF IInv
<1>2. ReplyMatchesRequest' /\ BlockedWaiterIsQueued'
  BY ReplyStep, BlockedStep DEF IInv
<1>3. NoWaiterPassedOver' /\ NoDuplicateTuples'
  BY PassedOverStep, DuplicateStep DEF IInv
<1> QED
  BY <1>1, <1>2, <1>3 DEF IInv

(* The invariant holds in every state the threads reach.                   *)
LEMMA InvariantIInv == Spec => []IInv
BY InitialIInv, InductiveIInv, PTL DEF Spec

(* While a notifier is inside the scan, before it has unlocked a waiter,   *)
(* nobody is leaving the queue: every waiter in it is blocked.             *)
LEMMA NotifiedAreBlocked == IInv => OnlyBlockedWaitersNotified
<1> SUFFICES ASSUME IInv,
                    NEW t \in ServiceThreads, pc[t] \in {"scan", "unlock"},
                    NEW i \in DOMAIN waiting_threads_queue
             PROVE  /\ Blocked(waiting_threads_queue[i])
                    /\ \A j \in DOMAIN waiting_threads_queue :
                         waiting_threads_queue[j] = waiting_threads_queue[i]
                           => j = i
  BY DEF OnlyBlockedWaitersNotified, Blocked
<1>1. ~Leaving(i)
  BY DEF IInv, ControlOK, Leaving
<1> QED
  BY <1>1 DEF IInv, QueueOK

-----------------------------------------------------------------------------
(* The variables keep their types, for any set of threads, tuples, patterns *)
(* and commands.                                                           *)
THEOREM TypeCorrectness == Spec => []TypeOK
<1>1. IInv => TypeOK
  BY DEF IInv
<1> QED
  BY <1>1, InvariantIInv, PTL

(* handleRead and handleInput answer a tuple that matches the pattern they *)
(* were asked for, found or handed over.                                   *)
THEOREM RepliesMatchRequests == Spec => []ReplyMatchesRequest
<1>1. IInv => ReplyMatchesRequest
  BY DEF IInv
<1> QED
  BY <1>1, InvariantIInv, PTL

(* A thread that is blocked in waitForTuple stays in the queue until it is *)
(* unlocked.                                                               *)
THEOREM BlockedWaitersAreQueued == Spec => []BlockedWaiterIsQueued
<1>1. IInv => BlockedWaiterIsQueued
  BY DEF IInv
<1> QED
  BY <1>1, InvariantIInv, PTL

(* informWaitingThreads writes the AwaitingParams of blocked threads only  *)
(* and unlocks no mutex that is not locked.                                *)
THEOREM NotifiersTouchBlockedThreadsOnly == Spec => []OnlyBlockedWaitersNotified
BY NotifiedAreBlocked, InvariantIInv, PTL

(* The loop of informWaitingThreads skips no waiter although it erases     *)
(* while it iterates.                                                      *)
THEOREM WaitersAreServedOldestFirst == Spec => []NoWaiterPassedOver
<1>1. IInv => NoWaiterPassedOver
  BY DEF IInv
<1> QED
  BY <1>1, InvariantIInv, PTL

(* Concurrent outputs of equal tuples leave one copy in the database.      *)
THEOREM DatabaseIsASet == Spec => []NoDuplicateTuples
<1>1. IInv => NoDuplicateTuples
  BY DEF IInv
<1> QED
  BY <1>1, InvariantIInv, PTL

-----------------------------------------------------------------------------
(***************************************************************************)
(* The server keeps what it promises its clients: under PureWorkload every *)
(* step of the service threads is a step of TupleSpace or none, and the    *)
(* outputs and inputs of each tuple balance.  For every such set of        *)
(* threads, tuples, patterns and commands.                                 *)
(*                                                                         *)
(* The argument: the invariant IInv, strengthened by the kind of command   *)
(* that waits, gives for each action of ServerDB the step of the space it  *)
(* is (lemma Simulation).  The ledger is kept by the steps of the space,   *)
(* whatever action took them (lemma LedgerStep).                           *)
(***************************************************************************)

(* What the refinement needs of a state besides the ledger.                *)
SpaceInv ==
  /\ PureWorkload
  /\ IInv
  /\ ServesCommands
  /\ WaitsAreOfOneKind
  /\ PassedOK

-----------------------------------------------------------------------------
(* Two sets of threads that differ at most in one thread.                  *)
LEMMA OneMember ==
  ASSUME NEW S, IsFiniteSet(S), NEW A \in SUBSET S, NEW B \in SUBSET S,
         NEW t \in S, \A u \in S \ {t} : u \in A <=> u \in B
  PROVE  /\ Cardinality(A) \in Nat
         /\ Cardinality(B) \in Nat
         /\ t \in A => Cardinality(A) > 0
         /\ (t \in A <=> t \in B) => B = A
         /\ t \notin A /\ t \in B => Cardinality(B) = Cardinality(A) + 1
         /\ t \in A /\ t \notin B => Cardinality(B) = Cardinality(A) - 1
<1>1. IsFiniteSet(A) /\ IsFiniteSet(B)
  BY FS_Subset
<1>2. Cardinality(A) \in Nat /\ Cardinality(B) \in Nat
  BY <1>1, FS_CardinalityType
<1>3. t \in A => Cardinality(A) > 0
  <2>1. Cardinality(A) = 0 => A = {}
    BY <1>1, FS_EmptySet
  <2> QED
    BY <1>2, <2>1
<1>4. (t \in A <=> t \in B) => B = A
  OBVIOUS
<1>5. ASSUME t \notin A, t \in B
      PROVE  Cardinality(B) = Cardinality(A) + 1
  <2>1. B = A \cup {t}
    BY <1>5
  <2> QED
    BY <1>1, <1>5, <2>1, FS_AddElement
<1>6. ASSUME t \in A, t \notin B
      PROVE  Cardinality(B) = Cardinality(A) - 1
  <2>1. B = A \ {t}
    BY <1>6
  <2> QED
    BY <1>1, <1>6, <2>1, FS_RemoveElement
<1> QED
  BY <1>2, <1>3, <1>4, <1>5, <1>6

(* With one kind of search, a thread holds its tuple until it inserts it,  *)
(* and where the clients input until it has unlocked a waiter.             *)
Holding ==
  {"scan", "unlock", "insert"}
    \cup (IF OP_LINDA_INPUT \in Commands THEN {} ELSE {"erase"})

Output(v) == [op |-> OP_LINDA_WRITE, arg |-> v]

LEMMA CarriersByLocation ==
  SpaceInv =>
    \A v \in Tuples :
      Carriers(v) = {t \in ServiceThreads : request[t] = Output(v) /\ pc[t] \in Holding}
<1> SUFFICES ASSUME SpaceInv, NEW v \in Tuples, NEW t \in ServiceThreads
             PROVE  /\ pc[t] \in {"scan", "unlock", "erase", "insert"}
                    /\ ~HandedOver(t)
                    <=> pc[t] \in Holding
  BY DEF Carriers, Output, Holding
<1>1. CASE pc[t] = "erase"
  <2>1. iter[t] \in DOMAIN waiting_threads_queue
    BY <1>1 DEF SpaceInv, IInv, ControlOK
  <2>2. isInput[waiting_threads_queue[iter[t]]]
          = IF OP_LINDA_INPUT \in Commands THEN {TRUE} ELSE {FALSE}
    BY <2>1 DEF SpaceInv, WaitsAreOfOneKind
  <2>3. HandedOver(t) <=> OP_LINDA_INPUT \in Commands
    BY <1>1, <2>2 DEF HandedOver
  <2> QED
    BY <1>1, <2>3 DEF Holding
<1>2. CASE pc[t] # "erase"
  BY <1>2 DEF HandedOver, Holding
<1> QED
  BY <1>1, <1>2

LEMMA CarriersByLocationNext ==
  SpaceInv' =>
    \A v \in Tuples :
      Carriers(v)' = {t \in ServiceThreads : request'[t] = Output(v) /\ pc'[t] \in Holding}
<1>1. (SpaceInv =>
        \A v \in Tuples :
          Carriers(v) = {t \in ServiceThreads : request[t] = Output(v) /\ pc[t] \in Holding})'
  BY CarriersByLocation, PTL
<1> QED
  BY <1>1 DEF Holding, Output

(* What a step of one thread does to the space: nothing, unless the thread *)
(* takes or gives up a tuple or the database changes.                      *)
LEMMA SpaceChange ==
  ASSUME SpaceInv, SpaceInv', NEW t \in ServiceThreads,
         \A u \in ServiceThreads \ {t} : pc'[u] = pc[u] /\ request'[u] = request[u],
         NEW v \in Tuples
  PROVE  LET held == request[t] = Output(v) /\ pc[t] \in Holding
             holds == request'[t] = Output(v) /\ pc'[t] \in Holding
             change == Cardinality(Carriers(v))' - Cardinality(Carriers(v))
         IN  /\ Cardinality(Carriers(v)) \in Nat
             /\ Cardinality(Carriers(v))' \in Nat
             /\ held => Cardinality(Carriers(v)) > 0
             /\ (held <=> holds) => change = 0
             /\ ~held /\ holds => change = 1
             /\ held /\ ~holds => change = -1
<1> DEFINE A == {u \in ServiceThreads : request[u] = Output(v) /\ pc[u] \in Holding}
           B == {u \in ServiceThreads : request'[u] = Output(v) /\ pc'[u] \in Holding}
<1>1. Carriers(v) = A /\ Carriers(v)' = B
  BY CarriersByLocation, CarriersByLocationNext
<1>2. \A u \in ServiceThreads \ {t} : u \in A <=> u \in B
  OBVIOUS
<1>3. /\ t \in A <=> request[t] = Output(v) /\ pc[t] \in Holding
      /\ t \in B <=> request'[t] = Output(v) /\ pc'[t] \in Holding
  OBVIOUS
<1>4. IsFiniteSet(ServiceThreads) /\ A \in SUBSET ServiceThreads /\ B \in SUBSET ServiceThreads
  BY DEF SpaceInv, PureWorkload
<1> HIDE DEF A, B
<1>5. /\ Cardinality(A) \in Nat
      /\ Cardinality(B) \in Nat
      /\ t \in A => Cardinality(A) > 0
      /\ (t \in A <=> t \in B) => B = A
      /\ t \notin A /\ t \in B => Cardinality(B) = Cardinality(A) + 1
      /\ t \in A /\ t \notin B => Cardinality(B) = Cardinality(A) - 1
  BY <1>2, <1>4, OneMember
<1>6. Cardinality(Carriers(v))' = Cardinality(B)
  BY <1>1
<1> QED
  BY <1>1, <1>3, <1>5, <1>6

-----------------------------------------------------------------------------
(* No step makes a thread serve a command of another kind.                 *)
LEMMA ServesStep ==
  ASSUME SpaceInv, [Next]_vars
  PROVE  ServesCommands'
<1>1. ASSUME NEW t \in ServiceThreads, ReceiveOperation(t)
      PROVE  ServesCommands'
  BY <1>1 DEF SpaceInv, IInv, TypeOK, ServesCommands, ReceiveOperation
<1>2. CASE UNCHANGED request
  BY <1>2 DEF SpaceInv, ServesCommands
<1> QED
  BY <1>1, <1>2 DEF Next, ThreadStep, vars, dbVars, awaitVars, threadVars,
     Disconnect, findTuple, findTupleAndRemoveIt, PrepareWait, EnqueueWaiter,
     LockAwaitingMutex, ReturnPassedTuple, BeginInform, PassTuple, UnlockWaiter,
     EraseWaiter, EndInform, InsertTuple, SendReply

(* What a waiting thread's AwaitingParams say of its kind, under a pure    *)
(* workload: the same for every thread that waits.                         *)
LEMMA KindOfWait ==
  ASSUME SpaceInv, NEW t \in ServiceThreads, pc[t] = "prepare"
  PROVE  {request[t].op = OP_LINDA_INPUT}
           = IF OP_LINDA_INPUT \in Commands THEN {TRUE} ELSE {FALSE}
<1>1. /\ request[t].op \in {OP_LINDA_READ, OP_LINDA_INPUT}
      /\ request[t].op \in Commands \cup {EXIT}
  BY DEF SpaceInv, IInv, ControlOK, ServesCommands
<1>2. request[t].op \in Commands
  BY <1>1 DEF OP_LINDA_READ, OP_LINDA_INPUT, EXIT
<1>3. CASE request[t].op = OP_LINDA_INPUT
  BY <1>2, <1>3
<1>4. CASE request[t].op # OP_LINDA_INPUT
  <2>1. OP_LINDA_INPUT \notin Commands
    BY <1>1, <1>2, <1>4 DEF SpaceInv, PureWorkload
  <2> QED
    BY <1>4, <2>1
<1> QED
  BY <1>3, <1>4

(* A step keeps the waits of one kind: a thread that is unlocked and waits *)
(* again, before the notifier has read its isInput, writes the same value. *)
LEMMA KindStep ==
  ASSUME SpaceInv, [Next]_vars
  PROVE  WaitsAreOfOneKind'
<1> DEFINE kind == IF OP_LINDA_INPUT \in Commands THEN {TRUE} ELSE {FALSE}
<1>1. /\ \A t \in ServiceThreads : pc[t] = "enqueue" => isInput[t] = kind
      /\ \A i \in DOMAIN waiting_threads_queue :
           isInput[waiting_threads_queue[i]] = kind
  BY DEF SpaceInv, WaitsAreOfOneKind
<1>2. SUFFICES
        /\ \A t \in ServiceThreads : pc'[t] = "enqueue" => isInput'[t] = kind
        /\ \A i \in DOMAIN waiting_threads_queue' :
             isInput'[waiting_threads_queue'[i]] = kind
  BY DEF WaitsAreOfOneKind
<1>3. TypeOK
  BY DEF SpaceInv, IInv
<1>4. \A t \in ServiceThreads : PrepareWait(t) => isInput' = [isInput EXCEPT ![t] = kind]
  <2> SUFFICES ASSUME NEW t \in ServiceThreads, PrepareWait(t)
               PROVE  isInput' = [isInput EXCEPT ![t] = kind]
    OBVIOUS
  <2>1. pc[t] = "prepare"
    BY DEF PrepareWait, GoTo
  <2> QED
    BY <2>1, KindOfWait DEF PrepareWait
<1> HIDE DEF kind
<1>5. ASSUME NEW t \in ServiceThreads, PrepareWait(t)
      PROVE  <1>2!1
  <2>1. /\ isInput' = [isInput EXCEPT ![t] = kind]
        /\ pc' = [pc EXCEPT ![t] = "enqueue"]
        /\ UNCHANGED waiting_threads_queue
    BY <1>4, <1>5 DEF PrepareWait, GoTo, dbVars
  <2>2. \A u \in ServiceThreads :
          isInput'[u] = IF u = t THEN kind ELSE isInput[u]
    BY <1>3, <2>1 DEF TypeOK
  <2> QED
    BY <1>1, <1>3, <2>1, <2>2 DEF TypeOK
<1>6. ASSUME NEW t \in ServiceThreads, EnqueueWaiter(t)
      PROVE  <1>2!1
  <2>1. pc[t] = "enqueue" /\ isInput[t] = kind
    BY <1>1, <1>6 DEF EnqueueWaiter, GoTo
  <2>2. \A i \in DOMAIN waiting_threads_queue' :
          \/ waiting_threads_queue'[i] = t
          \/ /\ i \in DOMAIN waiting_threads_queue
             /\ waiting_threads_queue'[i] = waiting_threads_queue[i]
    BY <1>3, <1>6 DEF TypeOK, EnqueueWaiter
  <2> QED
    BY <1>1, <1>3, <1>6, <2>1, <2>2 DEF TypeOK, EnqueueWaiter, GoTo, awaitVars
<1>7. ASSUME NEW t \in ServiceThreads, EraseWaiter(t)
      PROVE  <1>2!1
  <2>1. /\ waiting_threads_queue \in Seq(ServiceThreads)
        /\ iter[t] \in 1..Len(waiting_threads_queue)
        /\ waiting_threads_queue' = RemoveAt(waiting_threads_queue, iter[t])
    BY <1>7 DEF SpaceInv, IInv, TypeOK, ControlOK, EraseWaiter
  <2>2. /\ DOMAIN waiting_threads_queue' = 1..(Len(waiting_threads_queue) - 1)
        /\ \A j \in 1..(Len(waiting_threads_queue) - 1) :
             \E k \in 1..Len(waiting_threads_queue) :
               waiting_threads_queue'[j] = waiting_threads_queue[k]
    BY <2>1, RemoveAtProperties, RemoveAtOrigin
  <2>3. \A j \in DOMAIN waiting_threads_queue' :
          isInput[waiting_threads_queue'[j]] = kind
    BY <1>1, <2>1, <2>2
  <2> QED
    BY <1>1, <1>3, <1>7, <2>3 DEF TypeOK, EraseWaiter, GoTo, awaitVars
<1>8. CASE /\ UNCHANGED <<isInput, waiting_threads_queue>>
           /\ \A t \in ServiceThreads : pc'[t] = "enqueue" => pc[t] = "enqueue"
  BY <1>1, <1>8
<1>9. \A t \in ServiceThreads : ~Disconnect(t)
  BY DEF SpaceInv, PureWorkload, Disconnect
<1>10. CASE UNCHANGED vars
  BY <1>8, <1>10 DEF vars, dbVars, awaitVars, threadVars
<1>11. ASSUME NEW t \in ServiceThreads, Next, ~PrepareWait(t), ~EnqueueWaiter(t),
              ~EraseWaiter(t), ReceiveOperation(t) \/ ThreadStep(t)
       PROVE  <1>2!1
  <2>1. /\ UNCHANGED <<isInput, waiting_threads_queue>>
        /\ \E to \in Locations \ {"enqueue"} : pc' = [pc EXCEPT ![t] = to]
    BY <1>11 DEF ThreadStep, dbVars, awaitVars, GoTo, SearchReturns, Locations,
     ReceiveOperation, findTuple, findTupleAndRemoveIt, LockAwaitingMutex,
     ReturnPassedTuple, BeginInform, PassTuple, UnlockWaiter, EndInform,
     InsertTuple, SendReply
  <2> QED
    BY <1>3, <1>8, <2>1 DEF TypeOK
<1> QED
  BY <1>5, <1>6, <1>7, <1>9, <1>10, <1>11 DEF Next

(* The tuple that a notifier has passed is not overwritten before the      *)
(* waiter is unlocked.                                                     *)
LEMMA PassedStep ==
  ASSUME SpaceInv, [Next]_vars
  PROVE  PassedOK'
<1>1. TypeOK /\ ControlOK /\ PassedOK
  BY DEF SpaceInv, IInv
<1>2. ASSUME NEW t \in ServiceThreads, PassTuple(t)
      PROVE  PassedOK'
  <2>1. PICK i \in Matching(t) :
          /\ iter' = [iter EXCEPT ![t] = i]
          /\ passed_tuple' = [passed_tuple EXCEPT
                                ![waiting_threads_queue[i]] = request[t].arg]
    BY <1>2 DEF PassTuple
  <2>2. waiting_threads_queue[i] \in ServiceThreads
    BY <1>1 DEF TypeOK, Matching
  <2>3. \A u \in ServiceThreads : pc'[u] = "unlock" => u = t
    BY <1>1, <1>2 DEF TypeOK, ControlOK, PassTuple, GoTo
  <2> QED
    BY <1>1, <1>2, <2>1, <2>2, <2>3 DEF TypeOK, PassedOK, PassTuple, dbVars
<1>3. ASSUME NEW t \in ServiceThreads, EraseWaiter(t) \/ BeginInform(t) \/ EnqueueWaiter(t)
      PROVE  PassedOK'
  <2>1. CASE EraseWaiter(t)
    BY <1>1, <2>1 DEF TypeOK, ControlOK, PassedOK, EraseWaiter, GoTo
  <2>2. CASE BeginInform(t)
    BY <1>1, <2>2, ConstantsAssumption
    DEF TypeOK, ControlOK, PassedOK, BeginInform, GoTo
  <2>3. CASE EnqueueWaiter(t)
    BY <1>1, <2>3, ConstantsAssumption
    DEF TypeOK, ControlOK, PassedOK, EnqueueWaiter, GoTo
  <2> QED
    BY <1>3, <2>1, <2>2, <2>3
<1>4. ASSUME NEW t \in ServiceThreads, ReceiveOperation(t)
      PROVE  PassedOK'
  BY <1>1, <1>4 DEF TypeOK, PassedOK, ReceiveOperation, GoTo, dbVars, awaitVars
<1>5. CASE /\ UNCHANGED <<passed_tuple, waiting_threads_queue, request, iter>>
           /\ \A u \in ServiceThreads : pc'[u] = "unlock" => pc[u] = "unlock"
  BY <1>1, <1>5 DEF PassedOK
<1>6. CASE UNCHANGED vars
  BY <1>5, <1>6 DEF vars, dbVars, awaitVars, threadVars
<1>7. ASSUME NEW t \in ServiceThreads, ~PassTuple(t), ~EraseWaiter(t),
             ~BeginInform(t), ~EnqueueWaiter(t), Disconnect(t) \/ ThreadStep(t)
      PROVE  PassedOK'
  <2>1. /\ UNCHANGED <<passed_tuple, waiting_threads_queue, request, iter>>
        /\ \E to \in Locations \ {"unlock"} : pc' = [pc EXCEPT ![t] = to]
    BY <1>7 DEF ThreadStep, dbVars, awaitVars, GoTo, SearchReturns, Locations,
       Disconnect, PrepareWait, findTuple, findTupleAndRemoveIt,
       LockAwaitingMutex, ReturnPassedTuple, UnlockWaiter, EndInform,
       InsertTuple, SendReply
  <2> QED
    BY <1>1, <1>5, <2>1 DEF TypeOK
<1> QED
  BY <1>2, <1>3, <1>4, <1>6, <1>7 DEF Next

(* The strengthened invariant is inductive.                                *)
LEMMA InductiveSpaceInv == SpaceInv /\ [Next]_vars => SpaceInv'
<1> SUFFICES ASSUME SpaceInv, [Next]_vars PROVE SpaceInv'
  OBVIOUS
<1>1. IInv'
  BY InductiveIInv DEF SpaceInv
<1>2. PureWorkload'
  BY DEF SpaceInv, PureWorkload, EmptyTuple, OP_LINDA_READ, OP_LINDA_INPUT, EXIT
<1> QED
  BY <1>1, <1>2, ServesStep, KindStep, PassedStep DEF SpaceInv

LEMMA InitialSpaceInv == PureWorkload /\ Init => SpaceInv
<1> SUFFICES ASSUME PureWorkload, Init PROVE SpaceInv
  OBVIOUS
<1>1. IInv
  BY InitialIInv
<1>2. ServesCommands /\ WaitsAreOfOneKind /\ PassedOK
  BY DEF Init, ServesCommands, WaitsAreOfOneKind, PassedOK, NoRequest
<1> QED
  BY <1>1, <1>2 DEF SpaceInv

-----------------------------------------------------------------------------
(* The clients of the space see of a thread only its location, its command *)
(* and its result.                                                         *)
LEMMA BarsChange ==
  ASSUME NEW t \in ServiceThreads,
         \A u \in ServiceThreads \ {t} :
           /\ pc'[u] = pc[u]
           /\ request'[u] = request[u]
           /\ tuple'[u] = tuple[u]
           /\ u \in unlocked' <=> u \in unlocked
           /\ passed_tuple'[u] = passed_tuple[u] \/ ~Answered(u)
  PROVE  /\ phaseBar' = [phaseBar EXCEPT ![t] = phaseBar'[t]]
         /\ resultBar' = [resultBar EXCEPT ![t] = resultBar'[t]]
         /\ phaseBar'[t] = phaseBar[t] => phaseBar' = phaseBar
         /\ resultBar'[t] = resultBar[t] => resultBar' = resultBar
<1>1. \A u \in ServiceThreads \ {t} : Answered(u)' <=> Answered(u)
  BY DEF Answered
<1>2. \A u \in ServiceThreads \ {t} :
        phaseBar'[u] = phaseBar[u] /\ resultBar'[u] = resultBar[u]
  BY <1>1 DEF phaseBar, resultBar
<1>3. /\ phaseBar = [u \in ServiceThreads |-> phaseBar[u]]
      /\ phaseBar' = [u \in ServiceThreads |-> phaseBar'[u]]
      /\ resultBar = [u \in ServiceThreads |-> resultBar[u]]
      /\ resultBar' = [u \in ServiceThreads |-> resultBar'[u]]
  BY DEF phaseBar, resultBar
<1> HIDE DEF phaseBar, resultBar
<1> QED
  BY <1>2, <1>3

(* The space stays as it is when the thread that steps holds before and    *)
(* after what it held, and the database does not change.                   *)
LEMMA SpaceStays ==
  ASSUME SpaceInv, SpaceInv', NEW t \in ServiceThreads,
         \A u \in ServiceThreads \ {t} : pc'[u] = pc[u] /\ request'[u] = request[u],
         \/ pc[t] \notin Holding /\ pc'[t] \notin Holding
         \/ pc[t] \in Holding /\ pc'[t] \in Holding /\ request'[t] = request[t],
         UNCHANGED records
  PROVE  spaceBar' = spaceBar
<1> SUFFICES ASSUME NEW v \in Tuples PROVE spaceBar'[v] = spaceBar[v]
  BY DEF spaceBar
<1>1. Cardinality(Carriers(v))' - Cardinality(Carriers(v)) = 0
  BY SpaceChange
<1>2. Cardinality(Carriers(v)) \in Nat /\ Cardinality(Carriers(v))' \in Nat
  BY SpaceChange
<1>3. Cardinality(Carriers(v))' = Cardinality(Carriers(v))
  BY <1>1, <1>2
<1>4. Stored(v)' <=> Stored(v)
  BY DEF Stored
<1> QED
  BY <1>3, <1>4 DEF spaceBar

(* A tuple that is stored or held is in the space.                         *)
LEMMA InSpace ==
  ASSUME SpaceInv, NEW v \in Tuples,
         \/ Stored(v)
         \/ \E t \in ServiceThreads : request[t] = Output(v) /\ pc[t] \in Holding
  PROVE  spaceBar[v] > 0
<1> DEFINE A == {t \in ServiceThreads : request[t] = Output(v) /\ pc[t] \in Holding}
<1>1. spaceBar[v] = Cardinality(A) + IF Stored(v) THEN 1 ELSE 0
  BY CarriersByLocation DEF spaceBar
<1>2. IsFiniteSet(A)
  BY FS_Subset DEF SpaceInv, PureWorkload
<1>3. Cardinality(A) \in Nat /\ (A # {} => Cardinality(A) # 0)
  BY <1>2, FS_CardinalityType, FS_EmptySet
<1>4. CASE Stored(v)
  BY <1>1, <1>3, <1>4
<1>5. CASE A # {}
  BY <1>1, <1>3, <1>5
<1> QED
  BY <1>4, <1>5

(* A bag counts whole copies.                                              *)
LEMMA CarriersType ==
  ASSUME SpaceInv, NEW v \in Tuples
  PROVE  Cardinality(Carriers(v)) \in Nat
<1>1. Carriers(v) \in SUBSET ServiceThreads /\ IsFiniteSet(ServiceThreads)
  BY DEF Carriers, SpaceInv, PureWorkload
<1> QED
  BY <1>1, FS_Subset, FS_CardinalityType

LEMMA SpaceType == SpaceInv => spaceBar \in [Tuples -> Nat]
BY CarriersType DEF spaceBar

-----------------------------------------------------------------------------
(* What an action of ServerDB is to the clients of the space, and to the   *)
(* history variable owed.                                                  *)
Silent == UNCHANGED <<spaceBar, phaseBar, request, resultBar, owed>>

Issues(t) ==
  /\ Space!Issue(t)
  /\ request'[t] \in Request
  /\ owed' = IF request'[t].op = OP_LINDA_WRITE
             THEN [owed EXCEPT ![request'[t].arg] = @ + 1] ELSE owed

TakesEffect(t) ==
  /\ Space!Output(t) \/ Space!Read(t) \/ Space!Input(t)
  /\ UNCHANGED owed

Returns(t) ==
  /\ Space!Return(t)
  /\ owed' = IF request[t].op = OP_LINDA_INPUT
             THEN [owed EXCEPT ![resultBar[t]] = @ - 1] ELSE owed

(* The space and the server compare tuples and patterns alike.             *)
LEMMA SameMatch ==
  \A pattern, v : Space!isPatternEqualToTuple(pattern, v) <=> isPatternEqualToTuple(pattern, v)
BY DEF Space!isPatternEqualToTuple, isPatternEqualToTuple, Space!matches, matches,
   Space!Compare, Compare

Merges(v) == Space!Merge(v) /\ owed' = [owed EXCEPT ![v] = @ - 1]

(* A command is typed.                                                     *)
LEMMA ReceiveIssues ==
  ASSUME SpaceInv, SpaceInv', NEW t \in ServiceThreads, ReceiveOperation(t)
  PROVE  Issues(t)
<1>1. TypeOK
  BY DEF SpaceInv, IInv
<1>2. PICK r \in Request :
        /\ request' = [request EXCEPT ![t] = r]
        /\ pc[t] = "receive"
        /\ pc' = [pc EXCEPT ![t] = IF r.op = OP_LINDA_WRITE THEN "inform" ELSE "find"]
        /\ owed' = IF r.op = OP_LINDA_WRITE THEN [owed EXCEPT ![r.arg] = @ + 1] ELSE owed
  BY DEF ReceiveOperation, GoTo
<1>3. UNCHANGED <<records, tuple, passed_tuple, unlocked>>
  BY DEF ReceiveOperation, dbVars, awaitVars
<1>4. request'[t] = r /\ pc'[t] \in {"inform", "find"}
  BY <1>1, <1>2 DEF TypeOK
<1>5. \A u \in ServiceThreads \ {t} : pc'[u] = pc[u] /\ request'[u] = request[u]
  BY <1>1, <1>2 DEF TypeOK
<1>6. spaceBar' = spaceBar
  BY <1>2, <1>3, <1>4, <1>5, SpaceStays DEF Holding
<1>7. t \notin unlocked
  BY <1>2 DEF SpaceInv, IInv, HandoverOK
<1>8. /\ phaseBar[t] = "idle" /\ phaseBar'[t] = "pending"
      /\ resultBar[t] = EmptyTuple /\ resultBar'[t] = EmptyTuple
  BY <1>2, <1>3, <1>4, <1>7 DEF phaseBar, resultBar, Answered
<1>9. phaseBar' = [phaseBar EXCEPT ![t] = phaseBar'[t]] /\ resultBar' = resultBar
  BY <1>3, <1>5, <1>8, BarsChange
<1> QED
  BY <1>2, <1>4, <1>6, <1>8, <1>9 DEF Issues, Space!Issue, Space!Step

(* A search finds nothing, or its tuple.                                   *)
LEMMA FindReads ==
  ASSUME SpaceInv, SpaceInv', NEW t \in ServiceThreads, findTuple(t)
  PROVE  Silent \/ TakesEffect(t)
<1> DEFINE row == records[Len(request[t].arg)]
<1>1. TypeOK /\ ControlOK
  BY DEF SpaceInv, IInv
<1>2. /\ pc[t] = "find" /\ request[t].op = OP_LINDA_READ
      /\ UNCHANGED <<records, passed_tuple, unlocked, request, owed>>
  BY DEF findTuple, dbVars, awaitVars
<1>3. request[t].arg \in Patterns /\ Len(request[t].arg) \in Sizes
  BY <1>1, <1>2, ServedRequest
<1>4. PICK v \in Tuples \cup {EmptyTuple} :
        /\ SearchReturns(t, v)
        /\ v # EmptyTuple => /\ v \in Tuples /\ Stored(v)
                             /\ isPatternEqualToTuple(request[t].arg, v)
  <2>1. CASE SearchReturns(t, EmptyTuple)
    BY <2>1
  <2>2. CASE \E i \in FirstMatching(row, request[t].arg) : SearchReturns(t, row[i])
    <3>1. PICK i \in DOMAIN row : /\ isPatternEqualToTuple(request[t].arg, row[i])
                                  /\ SearchReturns(t, row[i])
      BY <2>2 DEF FirstMatching
    <3>2. row \in Seq(Tuples) /\ row \in Seq({w \in Tuples : Len(w) = Len(request[t].arg)})
      BY <1>1, <1>3 DEF TypeOK
    <3> HIDE DEF row
    <3>3. row[i] \in Tuples /\ Len(row[i]) = Len(request[t].arg)
      BY <3>1, <3>2
    <3>4. Stored(row[i])
      BY <3>1, <3>3 DEF Stored, row
    <3> QED
      BY <3>1, <3>3, <3>4
  <2> QED
    BY <2>1, <2>2 DEF findTuple
<1>5. /\ pc' = [pc EXCEPT ![t] = IF v = EmptyTuple THEN "prepare" ELSE "send"]
      /\ tuple' = [tuple EXCEPT ![t] = v]
  BY <1>4 DEF SearchReturns, GoTo
<1>6. /\ pc'[t] = (IF v = EmptyTuple THEN "prepare" ELSE "send")
      /\ tuple'[t] = v
      /\ \A u \in ServiceThreads \ {t} : pc'[u] = pc[u] /\ tuple'[u] = tuple[u]
  BY <1>1, <1>5 DEF TypeOK
<1>7. spaceBar' = spaceBar
  BY <1>2, <1>6, SpaceStays DEF Holding
<1>8. t \notin unlocked
  BY <1>2 DEF SpaceInv, IInv, HandoverOK
<1>9. phaseBar[t] = "pending" /\ resultBar[t] = EmptyTuple
  BY <1>2, <1>8 DEF phaseBar, resultBar, Answered
<1>10. /\ phaseBar' = [phaseBar EXCEPT ![t] = phaseBar'[t]]
       /\ resultBar' = [resultBar EXCEPT ![t] = resultBar'[t]]
       /\ phaseBar'[t] = phaseBar[t] => phaseBar' = phaseBar
       /\ resultBar'[t] = resultBar[t] => resultBar' = resultBar
  BY <1>2, <1>6, BarsChange
<1>11. CASE v = EmptyTuple
  <2>1. phaseBar'[t] = "pending" /\ resultBar'[t] = EmptyTuple
    BY <1>2, <1>6, <1>8, <1>11 DEF phaseBar, resultBar, Answered
  <2> QED
    BY <1>2, <1>7, <1>9, <1>10, <2>1 DEF Silent
<1>12. CASE v # EmptyTuple
  <2>1. phaseBar'[t] = "answered" /\ resultBar'[t] = v
    BY <1>2, <1>6, <1>12
    DEF phaseBar, resultBar, Answered, OP_LINDA_READ, OP_LINDA_WRITE
  <2>2. v \in Tuples /\ spaceBar[v] > 0
    BY <1>4, <1>12, InSpace
  <2>3. Space!Answer(t, v)
    BY <1>2, <1>4, <1>9, <1>10, <1>12, <2>1, <2>2, SameMatch
    DEF Space!Answer, Space!Step
  <2>4. Space!Read(t)
    BY <1>2, <1>7, <2>2, <2>3 DEF Space!Read, OP_LINDA_READ
  <2> QED
    BY <1>2, <2>4 DEF TakesEffect
<1> QED
  BY <1>11, <1>12

(* A search that removes finds nothing, or takes its tuple out of the      *)
(* space.                                                                  *)
LEMMA FindInputs ==
  ASSUME SpaceInv, SpaceInv', NEW t \in ServiceThreads, findTupleAndRemoveIt(t)
  PROVE  Silent \/ TakesEffect(t)
<1> DEFINE n == Len(request[t].arg)
           row == records[n]
<1>1. TypeOK /\ ControlOK /\ NoDuplicateTuples
  BY DEF SpaceInv, IInv
<1>2. /\ pc[t] = "find" /\ request[t].op = OP_LINDA_INPUT
      /\ UNCHANGED <<passed_tuple, unlocked, request, owed>>
  BY DEF findTupleAndRemoveIt, awaitVars
<1>3. request[t].arg \in Patterns /\ n \in Sizes
  BY <1>1, <1>2, ServedRequest
<1>4. t \notin unlocked
  BY <1>2 DEF SpaceInv, IInv, HandoverOK
<1>5. phaseBar[t] = "pending" /\ resultBar[t] = EmptyTuple
  BY <1>2, <1>4 DEF phaseBar, resultBar, Answered
<1>6. ASSUME NEW v, SearchReturns(t, v)
      PROVE  /\ pc'[t] = (IF v = EmptyTuple THEN "prepare" ELSE "send")
             /\ tuple'[t] = v
             /\ \A u \in ServiceThreads \ {t} : pc'[u] = pc[u] /\ tuple'[u] = tuple[u]
  BY <1>1, <1>6 DEF TypeOK, SearchReturns, GoTo
<1>7. ASSUME NEW v, SearchReturns(t, v)
      PROVE  /\ phaseBar' = [phaseBar EXCEPT ![t] = phaseBar'[t]]
             /\ resultBar' = [resultBar EXCEPT ![t] = resultBar'[t]]
             /\ phaseBar'[t] = phaseBar[t] => phaseBar' = phaseBar
             /\ resultBar'[t] = resultBar[t] => resultBar' = resultBar
  BY <1>2, <1>6, <1>7, BarsChange
<1>8. CASE SearchReturns(t, EmptyTuple) /\ UNCHANGED records
  <2>1. /\ pc'[t] = "prepare"
        /\ \A u \in ServiceThreads \ {t} : pc'[u] = pc[u]
    BY <1>6, <1>8
  <2>2. spaceBar' = spaceBar
    BY <1>2, <1>8, <2>1, SpaceStays DEF Holding
  <2>3. phaseBar'[t] = "pending" /\ resultBar'[t] = EmptyTuple
    BY <1>2, <1>4, <2>1 DEF phaseBar, resultBar, Answered
  <2> QED
    BY <1>2, <1>5, <1>7, <1>8, <2>2, <2>3 DEF Silent
<1>9. CASE \E i \in FirstMatching(row, request[t].arg) :
             /\ SearchReturns(t, row[i])
             /\ records' = [records EXCEPT ![n] = RemoveAt(@, i)]
  <2>1. PICK i \in DOMAIN row :
          /\ isPatternEqualToTuple(request[t].arg, row[i])
          /\ SearchReturns(t, row[i])
          /\ records' = [records EXCEPT ![n] = RemoveAt(@, i)]
    BY <1>9 DEF FirstMatching
  <2> DEFINE v == row[i]
  <2>2. /\ row \in Seq(Tuples) /\ i \in 1..Len(row)
        /\ \A j, k \in 1..Len(row) : row[j] = row[k] => j = k
        /\ v \in Tuples /\ Len(v) = n
    <3>1. row \in Seq(Tuples) /\ row \in Seq({w \in Tuples : Len(w) = n})
      BY <1>1, <1>3 DEF TypeOK
    <3>2. \A j, k \in DOMAIN row : row[j] = row[k] => j = k
      BY <1>1, <1>3 DEF NoDuplicateTuples
    <3> HIDE DEF n, row
    <3> QED
      BY <2>1, <3>1, <3>2
  <2>3. /\ records'[n] = RemoveAt(row, i)
        /\ \A m \in Sizes \ {n} : records'[m] = records[m]
    BY <1>1, <1>3, <2>1 DEF TypeOK
  <2>4. v # EmptyTuple
    BY <2>2 DEF SpaceInv, PureWorkload
  <2>5. Stored(v)
    BY <2>2 DEF Stored
  <2> HIDE DEF n, row
  <2>6. \A w : (\E j \in DOMAIN RemoveAt(row, i) : RemoveAt(row, i)[j] = w)
                  <=> w # row[i] /\ \E k \in DOMAIN row : row[k] = w
    <3> HIDE DEF v
    <3> QED
      BY <2>2, RemoveAtElements
  <2>7. \A w \in Tuples : Stored(w)' <=> w # v /\ Stored(w)
    <3> SUFFICES ASSUME NEW w \in Tuples
                 PROVE  Stored(w)' <=> w # v /\ Stored(w)
      OBVIOUS
    <3>1. CASE Len(w) = n
      <4>1. (\E j \in DOMAIN RemoveAt(row, i) : RemoveAt(row, i)[j] = w)
              <=> w # row[i] /\ \E k \in DOMAIN row : row[k] = w
        BY <2>6
      <4> QED
        BY <2>3, <3>1, <4>1 DEF Stored, row
    <3>2. CASE Len(w) # n
      <4>1. records'[Len(w)] = records[Len(w)] /\ w # v
        BY <2>2, <2>3, <3>2 DEF Sizes
      <4> QED
        BY <4>1 DEF Stored
    <3> QED
      BY <3>1, <3>2
  <2>8. /\ pc'[t] = "send" /\ tuple'[t] = v
        /\ \A u \in ServiceThreads \ {t} : pc'[u] = pc[u]
    BY <1>6, <2>1, <2>4
  <2>9. phaseBar'[t] = "answered" /\ resultBar'[t] = v
    BY <1>2, <2>8 DEF phaseBar, resultBar, Answered, OP_LINDA_INPUT, OP_LINDA_WRITE
  <2>10. \A w \in Tuples : Cardinality(Carriers(w))' = Cardinality(Carriers(w))
    <3> SUFFICES ASSUME NEW w \in Tuples
                 PROVE  Cardinality(Carriers(w))' = Cardinality(Carriers(w))
      OBVIOUS
    <3>1. /\ Cardinality(Carriers(w)) \in Nat /\ Cardinality(Carriers(w))' \in Nat
          /\ Cardinality(Carriers(w))' - Cardinality(Carriers(w)) = 0
      BY <1>2, <2>8, SpaceChange DEF Holding
    <3> QED
      BY <3>1
  <2>11. spaceBar' = [spaceBar EXCEPT ![v] = @ - 1]
    <3>1. \A w \in Tuples :
            spaceBar'[w] = IF w = v THEN spaceBar[w] - 1 ELSE spaceBar[w]
      <4> SUFFICES ASSUME NEW w \in Tuples
                   PROVE  spaceBar'[w] = IF w = v THEN spaceBar[w] - 1 ELSE spaceBar[w]
        OBVIOUS
      <4>1. Cardinality(Carriers(w)) \in Nat
        BY CarriersType
      <4>2. /\ spaceBar[w] = Cardinality(Carriers(w)) + IF Stored(w) THEN 1 ELSE 0
            /\ spaceBar'[w] = Cardinality(Carriers(w))' + IF Stored(w)' THEN 1 ELSE 0
        BY DEF spaceBar
      <4> QED
        BY <2>5, <2>7, <2>10, <4>1, <4>2
    <3> QED
      BY <3>1, SpaceType DEF spaceBar
  <2>12. spaceBar[v] > 0
    BY <2>2, <2>5, InSpace
  <2>13. Space!Answer(t, v)
    BY <1>2, <1>5, <1>7, <2>1, <2>9, <2>12, SameMatch DEF Space!Answer, Space!Step
  <2>14. Space!Input(t)
    BY <1>2, <2>2, <2>11, <2>13 DEF Space!Input, OP_LINDA_INPUT
  <2> QED
    BY <1>2, <2>14 DEF TakesEffect
<1> QED
  BY <1>8, <1>9 DEF findTupleAndRemoveIt

(* A thread prepares to wait, queues, wakes and takes over its tuple: the  *)
(* client sees nothing of it.                                              *)
LEMMA WaitingIsSilent ==
  ASSUME SpaceInv, SpaceInv', NEW t \in ServiceThreads,
         \/ PrepareWait(t)
         \/ EnqueueWaiter(t)
         \/ LockAwaitingMutex(t)
         \/ ReturnPassedTuple(t)
  PROVE  Silent
<1>1. TypeOK /\ ControlOK /\ HandoverOK
  BY DEF SpaceInv, IInv
<1>2. UNCHANGED <<records, request, passed_tuple, owed>>
  BY DEF PrepareWait, EnqueueWaiter, LockAwaitingMutex, ReturnPassedTuple,
     dbVars, awaitVars
<1>3. /\ pc[t] \in {"prepare", "enqueue", "blocked", "woken"}
      /\ \E to \in {"enqueue", "blocked", "woken", "send"} : pc' = [pc EXCEPT ![t] = to]
  BY DEF PrepareWait, EnqueueWaiter, LockAwaitingMutex, ReturnPassedTuple, GoTo
<1>4. /\ pc'[t] \in {"enqueue", "blocked", "woken", "send"}
      /\ \A u \in ServiceThreads \ {t} : pc'[u] = pc[u]
  BY <1>1, <1>3 DEF TypeOK
<1>5. \A u \in ServiceThreads \ {t} :
        tuple'[u] = tuple[u] /\ (u \in unlocked' <=> u \in unlocked)
  BY <1>1 DEF TypeOK, PrepareWait, EnqueueWaiter, LockAwaitingMutex,
     ReturnPassedTuple, awaitVars
<1>6. spaceBar' = spaceBar
  BY <1>2, <1>3, <1>4, SpaceStays DEF Holding
<1>7. request[t].op # OP_LINDA_WRITE
  BY <1>1, <1>3 DEF ControlOK, OP_LINDA_READ, OP_LINDA_INPUT, OP_LINDA_WRITE
<1>8. phaseBar'[t] = phaseBar[t] /\ resultBar'[t] = resultBar[t]
  <2>1. CASE PrepareWait(t)
    BY <1>1, <1>2, <1>7, <2>1
    DEF TypeOK, HandoverOK, PrepareWait, GoTo, phaseBar, resultBar, Answered
  <2>2. CASE EnqueueWaiter(t)
    BY <1>1, <1>2, <1>7, <2>2
    DEF TypeOK, HandoverOK, EnqueueWaiter, GoTo, awaitVars, phaseBar, resultBar, Answered
  <2>3. CASE LockAwaitingMutex(t)
    BY <1>1, <1>2, <1>7, <2>3
    DEF TypeOK, HandoverOK, LockAwaitingMutex, GoTo, phaseBar, resultBar, Answered
  <2>4. CASE ReturnPassedTuple(t)
    BY <1>1, <1>2, <1>7, <2>4
    DEF TypeOK, HandoverOK, ReturnPassedTuple, GoTo, phaseBar, resultBar, Answered
  <2> QED
    BY <2>1, <2>2, <2>3, <2>4
<1>9. phaseBar' = phaseBar /\ resultBar' = resultBar
  BY <1>2, <1>4, <1>5, <1>8, BarsChange
<1> QED
  BY <1>2, <1>6, <1>9 DEF Silent

(* A notifier advances, erases a waiter it has unlocked and ends its scan: *)
(* it holds its tuple before and after, or gave it up when it unlocked.    *)
LEMMA ScanningIsSilent ==
  ASSUME SpaceInv, SpaceInv', NEW t \in ServiceThreads,
         PassTuple(t) \/ EraseWaiter(t) \/ EndInform(t)
  PROVE  Silent
<1>1. TypeOK /\ ControlOK /\ QueueOK
  BY DEF SpaceInv, IInv
<1>2. UNCHANGED <<records, request, tuple, unlocked, owed>>
  BY DEF PassTuple, EraseWaiter, EndInform, dbVars, awaitVars
<1>3. /\ pc[t] \in {"scan", "erase"}
      /\ \E to \in {"scan", "unlock", "send", "insert"} : pc' = [pc EXCEPT ![t] = to]
  BY DEF PassTuple, EraseWaiter, EndInform, GoTo
<1>4. /\ pc'[t] \in {"scan", "unlock", "send", "insert"}
      /\ \A u \in ServiceThreads \ {t} : pc'[u] = pc[u]
  BY <1>1, <1>3 DEF TypeOK
<1>5. pc[t] \in Holding <=> pc'[t] \in Holding
  <2>1. CASE PassTuple(t) \/ EndInform(t)
    BY <1>1, <2>1 DEF TypeOK, PassTuple, EndInform, GoTo, Holding
  <2>2. CASE EraseWaiter(t)
    <3>1. iter[t] \in DOMAIN waiting_threads_queue
      BY <1>1, <2>2 DEF ControlOK, EraseWaiter
    <3>2. isInput[waiting_threads_queue[iter[t]]]
            = IF OP_LINDA_INPUT \in Commands THEN {TRUE} ELSE {FALSE}
      BY <3>1 DEF SpaceInv, WaitsAreOfOneKind
    <3>3. pc[t] = "erase"
          /\ pc'[t] = IF OP_LINDA_INPUT \in Commands THEN "send" ELSE "scan"
      BY <1>1, <2>2, <3>2 DEF TypeOK, EraseWaiter, GoTo
    <3> QED
      BY <3>3 DEF Holding
  <2> QED
    BY <2>1, <2>2
<1>6. spaceBar' = spaceBar
  BY <1>2, <1>4, <1>5, SpaceStays
<1>7. request[t].op = OP_LINDA_WRITE
  BY <1>1, <1>3 DEF ControlOK
<1>8. phaseBar'[t] = phaseBar[t] /\ resultBar'[t] = resultBar[t]
  BY <1>2, <1>3, <1>4, <1>7 DEF phaseBar, resultBar, Answered
<1>9. \A u \in ServiceThreads : passed_tuple'[u] = passed_tuple[u] \/ ~Answered(u)
  <2>1. CASE PassTuple(t)
    <3>1. PICK i \in Matching(t) :
            passed_tuple' = [passed_tuple EXCEPT
                               ![waiting_threads_queue[i]] = request[t].arg]
      BY <2>1 DEF PassTuple
    <3>2. i \in DOMAIN waiting_threads_queue /\ waiting_threads_queue[i] \in ServiceThreads
      BY <1>1 DEF TypeOK, Matching
    <3>3. ~Leaving(i)
      BY <1>1, <2>1, <3>2 DEF ControlOK, Leaving, PassTuple, GoTo
    <3>4. ~Answered(waiting_threads_queue[i])
      BY <1>1, <3>2, <3>3 DEF QueueOK, Blocked, Answered
    <3> QED
      BY <1>1, <3>1, <3>2, <3>4 DEF TypeOK
  <2>2. CASE EraseWaiter(t) \/ EndInform(t)
    BY <2>2 DEF EraseWaiter, EndInform, awaitVars
  <2> QED
    BY <2>1, <2>2
<1>10. phaseBar' = phaseBar /\ resultBar' = resultBar
  BY <1>2, <1>4, <1>8, <1>9, BarsChange
<1> QED
  BY <1>2, <1>6, <1>10 DEF Silent

(* A thread starts to scan the queue: its output takes effect.             *)
LEMMA BeginOutputs ==
  ASSUME SpaceInv, SpaceInv', NEW t \in ServiceThreads, BeginInform(t)
  PROVE  TakesEffect(t)
<1>1. TypeOK /\ ControlOK
  BY DEF SpaceInv, IInv
<1>2. /\ pc[t] = "inform" /\ pc' = [pc EXCEPT ![t] = "scan"]
      /\ UNCHANGED <<records, request, tuple, passed_tuple, unlocked, owed>>
  BY DEF BeginInform, GoTo, awaitVars
<1>3. /\ pc'[t] = "scan"
      /\ \A u \in ServiceThreads \ {t} : pc'[u] = pc[u]
  BY <1>1, <1>2 DEF TypeOK
<1>4. request[t].op = OP_LINDA_WRITE
  BY <1>1, <1>2 DEF ControlOK
<1>5. request[t].arg \in Tuples
  BY <1>1, <1>2, ServedRequest
<1>6. request[t] = Output(request[t].arg)
  BY <1>1, <1>4 DEF TypeOK, Request, NoRequest, Output, EXIT, OP_LINDA_WRITE,
     OP_LINDA_READ, OP_LINDA_INPUT
<1>7. \A v \in Tuples : request[t] = Output(v) <=> v = request[t].arg
  BY <1>6 DEF Output
<1>8. /\ phaseBar[t] = "pending" /\ phaseBar'[t] = "answered"
      /\ resultBar'[t] = resultBar[t]
  BY <1>2, <1>3, <1>4 DEF SpaceInv, IInv, HandoverOK, phaseBar, resultBar, Answered
<1>9. phaseBar' = [phaseBar EXCEPT ![t] = "answered"] /\ resultBar' = resultBar
  BY <1>2, <1>3, <1>8, BarsChange
<1>10. \A v \in Tuples :
         spaceBar'[v] = IF v = request[t].arg THEN spaceBar[v] + 1 ELSE spaceBar[v]
  <2> SUFFICES ASSUME NEW v \in Tuples
               PROVE  spaceBar'[v] = IF v = request[t].arg THEN spaceBar[v] + 1
                                                         ELSE spaceBar[v]
    OBVIOUS
  <2>1. Cardinality(Carriers(v))' - Cardinality(Carriers(v))
          = IF v = request[t].arg THEN 1 ELSE 0
    BY <1>2, <1>3, <1>7, SpaceChange DEF Holding
  <2>2. Cardinality(Carriers(v)) \in Nat /\ Cardinality(Carriers(v))' \in Nat
    BY <1>2, <1>3, SpaceChange
  <2>3. /\ spaceBar[v] = Cardinality(Carriers(v)) + IF Stored(v) THEN 1 ELSE 0
        /\ spaceBar'[v] = Cardinality(Carriers(v))' + IF Stored(v)' THEN 1 ELSE 0
    BY DEF spaceBar
  <2>4. Stored(v)' <=> Stored(v)
    BY <1>2 DEF Stored
  <2> QED
    BY <2>1, <2>2, <2>3, <2>4
<1>11. spaceBar' = [spaceBar EXCEPT ![request[t].arg] = @ + 1]
  BY <1>5, <1>10 DEF spaceBar
<1>12. Space!Output(t)
  BY <1>2, <1>4, <1>8, <1>9, <1>11 DEF Space!Output, Space!Step, OP_LINDA_WRITE
<1> QED
  BY <1>2, <1>12 DEF TakesEffect

(* A notifier unlocks a waiter: the waiter's read or input takes effect,   *)
(* and with an input the tuple passes from the notifier to the waiter.     *)
LEMMA UnlockAnswers ==
  ASSUME SpaceInv, SpaceInv', NEW t \in ServiceThreads, UnlockWaiter(t)
  PROVE  \E w \in ServiceThreads : TakesEffect(w)
<1> DEFINE w == waiting_threads_queue[iter[t]]
           v == request[t].arg
           taken == OP_LINDA_INPUT \in Commands
<1>1. TypeOK /\ ControlOK /\ QueueOK /\ HandoverOK
  BY DEF SpaceInv, IInv
<1>2. /\ pc[t] = "unlock" /\ pc' = [pc EXCEPT ![t] = "erase"]
      /\ unlocked' = unlocked \cup {w}
      /\ UNCHANGED <<records, request, tuple, passed_tuple, owed>>
  BY DEF UnlockWaiter, GoTo, dbVars
<1>3. iter[t] \in DOMAIN waiting_threads_queue /\ w \in ServiceThreads
  BY <1>1, <1>2 DEF TypeOK, ControlOK
<1>4. ~Leaving(iter[t])
  BY <1>1, <1>2 DEF ControlOK, Leaving
<1>5. pc[w] = "blocked" /\ w \notin unlocked
  BY <1>1, <1>3, <1>4 DEF QueueOK, Blocked
<1>6. passed_tuple[w] = v /\ v \in Tuples
  BY <1>1, <1>2, ServedRequest DEF SpaceInv, PassedOK
<1>7. isPatternEqualToTuple(request[w].arg, v)
  BY <1>1, <1>2, <1>3, <1>5, <1>6 DEF HandoverOK
<1>8. request[w].op = IF taken THEN OP_LINDA_INPUT ELSE OP_LINDA_READ
  <2>1. /\ request[w].op \in {OP_LINDA_READ, OP_LINDA_INPUT}
        /\ request[w].op \in Commands
    BY <1>1, <1>3, <1>5
    DEF ControlOK, SpaceInv, ServesCommands, OP_LINDA_READ, OP_LINDA_INPUT, EXIT
  <2> QED
    BY <2>1 DEF SpaceInv, PureWorkload
<1>9. /\ pc'[t] = "erase"
      /\ \A u \in ServiceThreads \ {t} : pc'[u] = pc[u]
  BY <1>1, <1>2 DEF TypeOK
<1>10. request[t].op = OP_LINDA_WRITE
  BY <1>1, <1>2 DEF ControlOK
<1>11. request[t] = Output(v)
  BY <1>1, <1>10 DEF TypeOK, Request, NoRequest, Output, EXIT, OP_LINDA_WRITE,
     OP_LINDA_READ, OP_LINDA_INPUT
<1>12. \A u \in Tuples : request[t] = Output(u) <=> u = v
  BY <1>11 DEF Output
<1> HIDE DEF w, v
<1>13. w # t
  BY <1>2, <1>5
<1>14. \A u \in ServiceThreads \ {w} :
         phaseBar'[u] = phaseBar[u] /\ resultBar'[u] = resultBar[u]
  <2>1. ASSUME NEW u \in ServiceThreads \ {w, t}
        PROVE  phaseBar'[u] = phaseBar[u] /\ resultBar'[u] = resultBar[u]
    BY <1>2, <1>9 DEF phaseBar, resultBar, Answered
  <2>2. phaseBar'[t] = phaseBar[t] /\ resultBar'[t] = resultBar[t]
    BY <1>2, <1>9, <1>10 DEF phaseBar, resultBar, Answered
  <2> QED
    BY <2>1, <2>2
<1>15. /\ phaseBar[w] = "pending" /\ phaseBar'[w] = "answered"
       /\ resultBar'[w] = v
  <2>1. request'[w].op # OP_LINDA_WRITE
    BY <1>2, <1>8 DEF OP_LINDA_READ, OP_LINDA_INPUT, OP_LINDA_WRITE
  <2>2. pc'[w] = "blocked" /\ w \in unlocked' /\ passed_tuple'[w] = v
    BY <1>2, <1>3, <1>5, <1>6, <1>9, <1>13
  <2> QED
    BY <1>3, <1>5, <2>1, <2>2 DEF phaseBar, resultBar, Answered
<1>16. /\ phaseBar' = [phaseBar EXCEPT ![w] = "answered"]
       /\ resultBar' = [resultBar EXCEPT ![w] = v]
  BY <1>3, <1>14, <1>15 DEF phaseBar, resultBar
<1>17. spaceBar[v] > 0
  BY <1>2, <1>6, <1>11, InSpace DEF Holding
<1>18. Space!Answer(w, v)
  BY <1>2, <1>7, <1>15, <1>16, <1>17, SameMatch DEF Space!Answer, Space!Step
<1>19. \A u \in Tuples :
         spaceBar'[u] = IF taken /\ u = v THEN spaceBar[u] - 1 ELSE spaceBar[u]
  <2> SUFFICES ASSUME NEW u \in Tuples
               PROVE  spaceBar'[u] = IF taken /\ u = v THEN spaceBar[u] - 1
                                                       ELSE spaceBar[u]
    OBVIOUS
  <2>1. Cardinality(Carriers(u))' - Cardinality(Carriers(u))
          = IF taken /\ u = v THEN -1 ELSE 0
    BY <1>2, <1>9, <1>12, SpaceChange DEF Holding
  <2>2. Cardinality(Carriers(u)) \in Nat /\ Cardinality(Carriers(u))' \in Nat
    BY <1>2, <1>9, SpaceChange
  <2>3. /\ spaceBar[u] = Cardinality(Carriers(u)) + IF Stored(u) THEN 1 ELSE 0
        /\ spaceBar'[u] = Cardinality(Carriers(u))' + IF Stored(u)' THEN 1 ELSE 0
    BY DEF spaceBar
  <2>4. Stored(u)' <=> Stored(u)
    BY <1>2 DEF Stored
  <2> HIDE DEF taken
  <2> QED
    BY <2>1, <2>2, <2>3, <2>4
<1>20. CASE taken
  <2>1. spaceBar' = [spaceBar EXCEPT ![v] = @ - 1]
    BY <1>6, <1>19, <1>20 DEF spaceBar
  <2>2. Space!Input(w)
    BY <1>6, <1>8, <1>18, <1>20, <2>1 DEF Space!Input, OP_LINDA_INPUT
  <2> QED
    BY <1>2, <1>3, <2>2 DEF TakesEffect
<1>21. CASE ~taken
  <2>1. spaceBar' = spaceBar
    BY <1>19, <1>21 DEF spaceBar
  <2>2. Space!Read(w)
    BY <1>6, <1>8, <1>18, <1>21, <2>1 DEF Space!Read, OP_LINDA_READ
  <2> QED
    BY <1>2, <1>3, <2>2 DEF TakesEffect
<1> QED
  BY <1>20, <1>21

(* Two tuples of one size that isTupleAlreadyInDatabase takes for the same *)
(* are the same.                                                           *)
LEMMA SameTuple ==
  ASSUME NEW left \in Tuples, NEW right \in Tuples, Len(left) = Len(right)
  PROVE  isTupleAlreadyInDatabase(left, right) <=> left = right
<1>1. left \in Seq(TupleElem) /\ right \in Seq(TupleElem)
  BY ConstantsAssumption
<1>2. ASSUME isTupleAlreadyInDatabase(left, right)
      PROVE  left = right
  <2>1. DOMAIN left = 1..Len(left) /\ DOMAIN right = 1..Len(left)
    BY <1>1
  <2>2. ASSUME NEW i \in 1..Len(left)
        PROVE  left[i] = right[i]
    <3>1. left[i] \in TupleElem /\ right[i] \in TupleElem
      BY <1>1, <2>2
    <3>2. left[i].type = right[i].type /\ left[i].value = right[i].value
      BY <1>2, <2>1 DEF isTupleAlreadyInDatabase
    <3> QED
      BY <3>1, <3>2 DEF TupleElem
  <2> QED
    BY <1>1, <2>1, <2>2
<1> QED
  BY <1>2 DEF isTupleAlreadyInDatabase

(* A tuple goes from its thread into the database, or merges with the copy *)
(* that is there.                                                          *)
LEMMA InsertMerges ==
  ASSUME SpaceInv, SpaceInv', NEW t \in ServiceThreads, InsertTuple(t)
  PROVE  Silent \/ \E v \in Tuples : Merges(v)
<1> DEFINE new == request[t].arg
           row == records[Len(new)]
           duplicate == \E i \in DOMAIN row : isTupleAlreadyInDatabase(row[i], new)
<1>1. TypeOK /\ ControlOK
  BY DEF SpaceInv, IInv
<1>2. /\ pc[t] = "insert" /\ pc' = [pc EXCEPT ![t] = "send"]
      /\ UNCHANGED <<request, tuple, passed_tuple, unlocked>>
  BY DEF InsertTuple, GoTo, awaitVars
<1>3. \/ /\ duplicate
         /\ owed' = [owed EXCEPT ![new] = @ - 1]
         /\ UNCHANGED records
      \/ /\ ~duplicate
         /\ records' = [records EXCEPT ![Len(new)] = Append(@, new)]
         /\ UNCHANGED owed
  BY DEF InsertTuple
<1>4. new \in Tuples /\ Len(new) \in Sizes
  BY <1>1, <1>2, ServedRequest
<1>5. row \in Seq(Tuples) /\ row \in Seq({w \in Tuples : Len(w) = Len(new)})
  BY <1>1, <1>4 DEF TypeOK
<1>6. duplicate <=> Stored(new)
  <2>1. \A i \in DOMAIN row : row[i] \in Tuples /\ Len(row[i]) = Len(new)
    <3> HIDE DEF row, new
    <3> QED
      BY <1>5
  <2>2. \A i \in DOMAIN row : isTupleAlreadyInDatabase(row[i], new) <=> row[i] = new
    BY <1>4, <2>1, SameTuple
  <2> QED
    BY <2>2 DEF Stored
<1>7. /\ pc'[t] = "send"
      /\ \A u \in ServiceThreads \ {t} : pc'[u] = pc[u]
  BY <1>1, <1>2 DEF TypeOK
<1>8. request[t].op = OP_LINDA_WRITE
  BY <1>1, <1>2 DEF ControlOK
<1>9. request[t] = Output(new)
  BY <1>1, <1>8 DEF TypeOK, Request, NoRequest, Output, EXIT, OP_LINDA_WRITE,
     OP_LINDA_READ, OP_LINDA_INPUT
<1>10. \A v \in Tuples : request[t] = Output(v) <=> v = new
  BY <1>9 DEF Output
<1>11. phaseBar'[t] = phaseBar[t] /\ resultBar'[t] = resultBar[t]
  BY <1>2, <1>7, <1>8 DEF phaseBar, resultBar, Answered
<1>12. phaseBar' = phaseBar /\ resultBar' = resultBar
  BY <1>2, <1>7, <1>11, BarsChange
<1>13. ASSUME NEW v \in Tuples
       PROVE  /\ Cardinality(Carriers(v)) \in Nat
              /\ Cardinality(Carriers(v))' \in Nat
              /\ v = new => Cardinality(Carriers(v)) > 0
              /\ Cardinality(Carriers(v))' - Cardinality(Carriers(v))
                   = IF v = new THEN -1 ELSE 0
  <2>1. /\ Cardinality(Carriers(v)) \in Nat
        /\ Cardinality(Carriers(v))' \in Nat
        /\ v = new => Cardinality(Carriers(v)) > 0
    BY <1>2, <1>7, <1>10, SpaceChange DEF Holding
  <2>2. Cardinality(Carriers(v))' - Cardinality(Carriers(v))
          = IF v = new THEN -1 ELSE 0
    BY <1>2, <1>7, <1>10, SpaceChange DEF Holding
  <2> QED
    BY <2>1, <2>2
<1>14. \A v \in Tuples :
         /\ spaceBar[v] = Cardinality(Carriers(v)) + IF Stored(v) THEN 1 ELSE 0
         /\ spaceBar'[v] = Cardinality(Carriers(v))' + IF Stored(v)' THEN 1 ELSE 0
  BY DEF spaceBar
<1>15. CASE duplicate
  <2>1. UNCHANGED records /\ owed' = [owed EXCEPT ![new] = @ - 1]
    BY <1>3, <1>15
  <2>2. \A v \in Tuples : Stored(v)' <=> Stored(v)
    BY <2>1 DEF Stored
  <2>3. \A v \in Tuples :
          spaceBar'[v] = IF v = new THEN spaceBar[v] - 1 ELSE spaceBar[v]
    <3> HIDE DEF new, duplicate
    <3> QED
      BY <1>13, <1>14, <2>2
  <2>4. spaceBar' = [spaceBar EXCEPT ![new] = @ - 1]
    BY <1>4, <2>3 DEF spaceBar
  <2>5. spaceBar[new] > 1
    <3>1. Stored(new) /\ Cardinality(Carriers(new)) \in Nat /\ Cardinality(Carriers(new)) > 0
      BY <1>4, <1>6, <1>13, <1>15
    <3>2. spaceBar[new] = Cardinality(Carriers(new)) + 1
      BY <1>4, <1>14, <3>1
    <3> QED
      BY <3>1, <3>2
  <2> QED
    BY <1>2, <1>4, <1>12, <2>1, <2>4, <2>5 DEF Merges, Space!Merge
<1>16. CASE ~duplicate
  <2>1. UNCHANGED owed /\ records' = [records EXCEPT ![Len(new)] = Append(@, new)]
    BY <1>3, <1>16
  <2>2. /\ records'[Len(new)] = Append(row, new)
        /\ \A m \in Sizes \ {Len(new)} : records'[m] = records[m]
    BY <1>1, <1>4, <2>1 DEF TypeOK
  <2>3. \A v \in Tuples : Stored(v)' <=> Stored(v) \/ v = new
    <3> SUFFICES ASSUME NEW v \in Tuples
                 PROVE  Stored(v)' <=> Stored(v) \/ v = new
      OBVIOUS
    <3>1. CASE Len(v) = Len(new)
      <4>1. (\E i \in DOMAIN Append(row, new) : Append(row, new)[i] = v)
              <=> v = new \/ \E i \in DOMAIN row : row[i] = v
        <5>1. /\ DOMAIN row = 1..Len(row) /\ Len(row) \in Nat
              /\ DOMAIN Append(row, new) = 1..(Len(row) + 1)
              /\ Append(row, new)[Len(row) + 1] = new
              /\ \A i \in 1..Len(row) : Append(row, new)[i] = row[i]
          <6> HIDE DEF new, row
          <6> QED
            BY <1>4, <1>5
        <5> HIDE DEF new, row
        <5> QED
          BY <5>1
      <4> QED
        BY <2>2, <3>1, <4>1 DEF Stored
    <3>2. CASE Len(v) # Len(new)
      <4>1. records'[Len(v)] = records[Len(v)] /\ v # new
        BY <2>2, <3>2 DEF Sizes
      <4> QED
        BY <4>1 DEF Stored
    <3> QED
      BY <3>1, <3>2
  <2>4. ~Stored(new)
    BY <1>6, <1>16
  <2>5. \A v \in Tuples : spaceBar'[v] = spaceBar[v]
    <3> HIDE DEF new, duplicate
    <3> QED
      BY <1>13, <1>14, <2>3, <2>4
  <2>6. spaceBar' = spaceBar
    BY <2>5 DEF spaceBar
  <2> QED
    BY <1>2, <1>12, <2>1, <2>6 DEF Silent
<1> QED
  BY <1>15, <1>16

(* The reply goes to the client.                                           *)
LEMMA SendReturns ==
  ASSUME SpaceInv, SpaceInv', NEW t \in ServiceThreads, SendReply(t)
  PROVE  Returns(t)
<1>1. TypeOK /\ HandoverOK
  BY DEF SpaceInv, IInv
<1>2. /\ pc[t] = "send" /\ pc' = [pc EXCEPT ![t] = "receive"]
      /\ UNCHANGED <<records, request, tuple, passed_tuple, unlocked>>
      /\ owed' = IF request[t].op = OP_LINDA_INPUT
                 THEN [owed EXCEPT ![tuple[t]] = @ - 1] ELSE owed
  BY DEF SendReply, GoTo, dbVars, awaitVars
<1>3. /\ pc'[t] = "receive"
      /\ \A u \in ServiceThreads \ {t} : pc'[u] = pc[u]
  BY <1>1, <1>2 DEF TypeOK
<1>4. spaceBar' = spaceBar
  BY <1>2, <1>3, SpaceStays DEF Holding
<1>5. /\ phaseBar[t] = "answered" /\ phaseBar'[t] = "idle"
      /\ resultBar'[t] = EmptyTuple
      /\ request[t].op # OP_LINDA_WRITE => resultBar[t] = tuple[t]
  BY <1>1, <1>2, <1>3 DEF HandoverOK, phaseBar, resultBar, Answered
<1>6. /\ phaseBar' = [phaseBar EXCEPT ![t] = "idle"]
      /\ resultBar' = [resultBar EXCEPT ![t] = EmptyTuple]
  BY <1>2, <1>3, <1>5, BarsChange
<1>7. Space!Return(t)
  BY <1>2, <1>4, <1>5, <1>6 DEF Space!Return, Space!Step
<1> QED
  BY <1>2, <1>5, <1>7 DEF Returns, OP_LINDA_INPUT, OP_LINDA_WRITE

(* What the steps of the threads are to the clients of the space.          *)
LEMMA Simulation ==
  ASSUME SpaceInv, SpaceInv', [Next]_vars
  PROVE  \/ Silent
         \/ \E t \in ServiceThreads : Issues(t) \/ TakesEffect(t) \/ Returns(t)
         \/ \E v \in Tuples : Merges(v)
<1>1. CASE UNCHANGED vars
  BY <1>1 DEF vars, dbVars, awaitVars, threadVars, Silent, spaceBar, phaseBar,
     resultBar, Carriers, HandedOver, Stored, Answered
<1>2. \A t \in ServiceThreads : ~Disconnect(t)
  BY DEF SpaceInv, PureWorkload, Disconnect
<1> QED
  BY <1>1, <1>2, ReceiveIssues, FindReads, FindInputs, WaitingIsSilent,
     ScanningIsSilent, BeginOutputs, UnlockAnswers, InsertMerges, SendReturns
  DEF Next, ThreadStep

-----------------------------------------------------------------------------
(* What a step of one client does to the outputs announced and the inputs  *)
(* taking a tuple.                                                         *)
LEMMA LedgerChange ==
  ASSUME SpaceInv, NEW t \in ServiceThreads,
         \A u \in ServiceThreads \ {t} :
           /\ phaseBar'[u] = phaseBar[u]
           /\ request'[u] = request[u]
           /\ resultBar'[u] = resultBar[u],
         NEW v \in Tuples
  PROVE  LET a == phaseBar[t] = "pending" /\ request[t] = Output(v)
             b == phaseBar'[t] = "pending" /\ request'[t] = Output(v)
             c == /\ phaseBar[t] = "answered" /\ request[t].op = OP_LINDA_INPUT
                  /\ resultBar[t] = v
             d == /\ phaseBar'[t] = "answered" /\ request'[t].op = OP_LINDA_INPUT
                  /\ resultBar'[t] = v
         IN  /\ Cardinality(Announced(v)) \in Nat
             /\ (a <=> b) => Cardinality(Announced(v))' = Cardinality(Announced(v))
             /\ ~a /\ b => Cardinality(Announced(v))' = Cardinality(Announced(v)) + 1
             /\ a /\ ~b => Cardinality(Announced(v))' = Cardinality(Announced(v)) - 1
             /\ Cardinality(Taking(v)) \in Nat
             /\ (c <=> d) => Cardinality(Taking(v))' = Cardinality(Taking(v))
             /\ ~c /\ d => Cardinality(Taking(v))' = Cardinality(Taking(v)) + 1
             /\ c /\ ~d => Cardinality(Taking(v))' = Cardinality(Taking(v)) - 1
<1> DEFINE A == {u \in ServiceThreads : phaseBar[u] = "pending" /\ request[u] = Output(v)}
           B == {u \in ServiceThreads : phaseBar'[u] = "pending" /\ request'[u] = Output(v)}
           C == {u \in ServiceThreads : /\ phaseBar[u] = "answered"
                                        /\ request[u].op = OP_LINDA_INPUT
                                        /\ resultBar[u] = v}
           D == {u \in ServiceThreads : /\ phaseBar'[u] = "answered"
                                        /\ request'[u].op = OP_LINDA_INPUT
                                        /\ resultBar'[u] = v}
<1>1. /\ Announced(v) = A /\ Cardinality(Announced(v))' = Cardinality(B)
      /\ Taking(v) = C /\ Cardinality(Taking(v))' = Cardinality(D)
  BY DEF Announced, Taking, Output
<1>2. IsFiniteSet(ServiceThreads)
  BY DEF SpaceInv, PureWorkload
<1>3. \A u \in ServiceThreads \ {t} : u \in A <=> u \in B
  OBVIOUS
<1>4. \A u \in ServiceThreads \ {t} : u \in C <=> u \in D
  OBVIOUS
<1>5. A \in SUBSET ServiceThreads /\ B \in SUBSET ServiceThreads
  OBVIOUS
<1>6. C \in SUBSET ServiceThreads /\ D \in SUBSET ServiceThreads
  OBVIOUS
<1>7. /\ t \in A <=> phaseBar[t] = "pending" /\ request[t] = Output(v)
      /\ t \in B <=> phaseBar'[t] = "pending" /\ request'[t] = Output(v)
      /\ t \in C <=> /\ phaseBar[t] = "answered" /\ request[t].op = OP_LINDA_INPUT
                     /\ resultBar[t] = v
      /\ t \in D <=> /\ phaseBar'[t] = "answered" /\ request'[t].op = OP_LINDA_INPUT
                     /\ resultBar'[t] = v
  OBVIOUS
<1> HIDE DEF A, B, C, D
<1>8. /\ Cardinality(A) \in Nat
      /\ (t \in A <=> t \in B) => B = A
      /\ t \notin A /\ t \in B => Cardinality(B) = Cardinality(A) + 1
      /\ t \in A /\ t \notin B => Cardinality(B) = Cardinality(A) - 1
  BY <1>2, <1>3, <1>5, OneMember
<1>9. /\ Cardinality(C) \in Nat
      /\ (t \in C <=> t \in D) => D = C
      /\ t \notin C /\ t \in D => Cardinality(D) = Cardinality(C) + 1
      /\ t \in C /\ t \notin D => Cardinality(D) = Cardinality(C) - 1
  BY <1>2, <1>4, <1>6, OneMember
<1> QED
  BY <1>1, <1>7, <1>8, <1>9

(* The books balance after every step of the space: what an output adds it *)
(* had announced, what an input takes out it is answered, and what merges  *)
(* is written off.                                                         *)
LEMMA LedgerStep ==
  ASSUME SpaceInv, SpaceInv', Accounting, [Next]_vars
  PROVE  Accounting'
<1> DEFINE announced(v) == Cardinality(Announced(v))
           taking(v) == Cardinality(Taking(v))
<1>1. /\ phaseBar = [u \in ServiceThreads |-> phaseBar[u]]
      /\ resultBar = [u \in ServiceThreads |-> resultBar[u]]
  BY DEF phaseBar, resultBar
<1>2. spaceBar \in [Tuples -> Nat] /\ owed \in [Tuples -> Int]
  BY SpaceType DEF SpaceInv, IInv, TypeOK
<1>3. request \in [ServiceThreads -> Request \cup {NoRequest}]
  BY DEF SpaceInv, IInv, TypeOK
<1>4. \A v \in Tuples : owed[v] = announced(v) + spaceBar[v] + taking(v)
  BY DEF Accounting
<1>5. SUFFICES ASSUME NEW v \in Tuples
               PROVE  owed'[v] = announced(v)' + spaceBar'[v] + taking(v)'
  BY DEF Accounting
<1>6. announced(v) \in Nat /\ taking(v) \in Nat
  <2>1. /\ IsFiniteSet(ServiceThreads)
        /\ Announced(v) \in SUBSET ServiceThreads /\ Taking(v) \in SUBSET ServiceThreads
    BY DEF SpaceInv, PureWorkload, Announced, Taking
  <2> QED
    BY <2>1, FS_Subset, FS_CardinalityType
<1>7. CASE Silent
  <2>1. Announced(v)' = Announced(v) /\ Taking(v)' = Taking(v)
    BY <1>7 DEF Silent, Announced, Taking
  <2> QED
    BY <1>4, <1>7, <2>1 DEF Silent
<1>8. ASSUME NEW t \in ServiceThreads, Issues(t)
      PROVE  owed'[v] = announced(v)' + spaceBar'[v] + taking(v)'
  <2>1. PICK r \in Request :
          /\ phaseBar[t] = "idle" /\ phaseBar' = [phaseBar EXCEPT ![t] = "pending"]
          /\ request' = [request EXCEPT ![t] = r]
          /\ UNCHANGED <<spaceBar, resultBar>>
          /\ owed' = IF r.op = OP_LINDA_WRITE
                     THEN [owed EXCEPT ![r.arg] = @ + 1] ELSE owed
    BY <1>3, <1>8 DEF Issues, Space!Issue, Space!Step
  <2>2. /\ phaseBar'[t] = "pending" /\ request'[t] = r
        /\ \A u \in ServiceThreads \ {t} :
             phaseBar'[u] = phaseBar[u] /\ request'[u] = request[u]
    BY <1>1, <1>3, <2>1
  <2>3. r = Output(v) <=> r.op = OP_LINDA_WRITE /\ r.arg = v
    BY DEF Request, Output, OP_LINDA_WRITE, OP_LINDA_READ, OP_LINDA_INPUT
  <2>4. /\ announced(v)' = announced(v) + IF r = Output(v) THEN 1 ELSE 0
        /\ taking(v)' = taking(v)
    BY <1>6, <2>1, <2>2, LedgerChange
  <2>5. owed'[v] = owed[v] + IF r = Output(v) THEN 1 ELSE 0
    BY <1>2, <2>1, <2>3
  <2> QED
    BY <1>2, <1>4, <1>6, <2>1, <2>4, <2>5
<1>9. ASSUME NEW t \in ServiceThreads, Space!Output(t), UNCHANGED owed
      PROVE  owed'[v] = announced(v)' + spaceBar'[v] + taking(v)'
  <2>1. /\ request[t].op = OP_LINDA_WRITE
        /\ phaseBar[t] = "pending" /\ phaseBar' = [phaseBar EXCEPT ![t] = "answered"]
        /\ spaceBar' = [spaceBar EXCEPT ![request[t].arg] = @ + 1]
        /\ UNCHANGED <<request, resultBar>>
    BY <1>9 DEF Space!Output, Space!Step, OP_LINDA_WRITE
  <2>2. /\ phaseBar'[t] = "answered"
        /\ \A u \in ServiceThreads \ {t} : phaseBar'[u] = phaseBar[u]
    BY <1>1, <2>1
  <2>3. request[t] = Output(v) <=> request[t].arg = v
    BY <1>3, <2>1 DEF Request, NoRequest, Output, OP_LINDA_WRITE, OP_LINDA_READ,
       OP_LINDA_INPUT, EXIT
  <2>4. announced(v)' = announced(v) - IF request[t] = Output(v) THEN 1 ELSE 0
    BY <1>6, <2>1, <2>2, LedgerChange
  <2>5. taking(v)' = taking(v)
    BY <2>1, <2>2, LedgerChange DEF OP_LINDA_WRITE, OP_LINDA_INPUT
  <2>6. spaceBar'[v] = spaceBar[v] + IF request[t] = Output(v) THEN 1 ELSE 0
    BY <1>2, <2>1, <2>3
  <2> QED
    BY <1>2, <1>4, <1>6, <1>9, <2>4, <2>5, <2>6
<1>10. ASSUME NEW t \in ServiceThreads, Space!Read(t), UNCHANGED owed
       PROVE  owed'[v] = announced(v)' + spaceBar'[v] + taking(v)'
  <2>1. /\ request[t].op = OP_LINDA_READ
        /\ phaseBar[t] = "pending" /\ phaseBar' = [phaseBar EXCEPT ![t] = "answered"]
        /\ \E w : resultBar' = [resultBar EXCEPT ![t] = w]
        /\ UNCHANGED <<request, spaceBar>>
    BY <1>10 DEF Space!Read, Space!Answer, Space!Step, OP_LINDA_READ
  <2>2. \A u \in ServiceThreads \ {t} :
          phaseBar'[u] = phaseBar[u] /\ resultBar'[u] = resultBar[u]
    BY <1>1, <2>1
  <2>3. request[t].op # OP_LINDA_INPUT /\ request[t] # Output(v)
    BY <2>1 DEF Output, OP_LINDA_WRITE, OP_LINDA_READ, OP_LINDA_INPUT
  <2>4. announced(v)' = announced(v) /\ taking(v)' = taking(v)
    BY <2>1, <2>2, <2>3, LedgerChange
  <2> QED
    BY <1>4, <1>10, <2>1, <2>4
<1>11. ASSUME NEW t \in ServiceThreads, Space!Input(t), UNCHANGED owed
       PROVE  owed'[v] = announced(v)' + spaceBar'[v] + taking(v)'
  <2>1. PICK w \in Tuples :
          /\ request[t].op = OP_LINDA_INPUT
          /\ phaseBar[t] = "pending" /\ phaseBar' = [phaseBar EXCEPT ![t] = "answered"]
          /\ resultBar' = [resultBar EXCEPT ![t] = w]
          /\ spaceBar' = [spaceBar EXCEPT ![w] = @ - 1]
          /\ UNCHANGED request
    BY <1>11 DEF Space!Input, Space!Answer, Space!Step, OP_LINDA_INPUT
  <2>2. /\ phaseBar'[t] = "answered" /\ resultBar'[t] = w
        /\ \A u \in ServiceThreads \ {t} :
             phaseBar'[u] = phaseBar[u] /\ resultBar'[u] = resultBar[u]
    BY <1>1, <2>1
  <2>3. request[t] # Output(v)
    BY <2>1 DEF Output, OP_LINDA_WRITE, OP_LINDA_INPUT
  <2>4. /\ announced(v)' = announced(v)
        /\ taking(v)' = taking(v) + IF w = v THEN 1 ELSE 0
    BY <1>6, <2>1, <2>2, <2>3, LedgerChange
  <2>5. spaceBar'[v] = spaceBar[v] - IF w = v THEN 1 ELSE 0
    BY <1>2, <2>1
  <2> QED
    BY <1>2, <1>4, <1>6, <1>11, <2>4, <2>5
<1>12. ASSUME NEW t \in ServiceThreads, Returns(t)
       PROVE  owed'[v] = announced(v)' + spaceBar'[v] + taking(v)'
  <2>1. /\ phaseBar[t] = "answered" /\ phaseBar' = [phaseBar EXCEPT ![t] = "idle"]
        /\ resultBar' = [resultBar EXCEPT ![t] = EmptyTuple]
        /\ UNCHANGED <<request, spaceBar>>
        /\ owed' = IF request[t].op = OP_LINDA_INPUT
                   THEN [owed EXCEPT ![resultBar[t]] = @ - 1] ELSE owed
    BY <1>12 DEF Returns, Space!Return, Space!Step
  <2>2. /\ phaseBar'[t] = "idle"
        /\ \A u \in ServiceThreads \ {t} :
             phaseBar'[u] = phaseBar[u] /\ resultBar'[u] = resultBar[u]
    BY <1>1, <2>1
  <2> DEFINE taken == request[t].op = OP_LINDA_INPUT /\ resultBar[t] = v
  <2>3. /\ announced(v)' = announced(v)
        /\ taking(v)' = taking(v) - IF taken THEN 1 ELSE 0
    BY <1>6, <2>1, <2>2, LedgerChange
  <2>4. owed'[v] = owed[v] - IF taken THEN 1 ELSE 0
    BY <1>2, <2>1
  <2> QED
    BY <1>2, <1>4, <1>6, <2>1, <2>3, <2>4
<1>13. ASSUME NEW w \in Tuples, Merges(w)
       PROVE  owed'[v] = announced(v)' + spaceBar'[v] + taking(v)'
  <2>1. /\ spaceBar' = [spaceBar EXCEPT ![w] = @ - 1]
        /\ owed' = [owed EXCEPT ![w] = @ - 1]
        /\ UNCHANGED <<phaseBar, request, resultBar>>
    BY <1>13 DEF Merges, Space!Merge
  <2>2. Announced(v)' = Announced(v) /\ Taking(v)' = Taking(v)
    BY <2>1 DEF Announced, Taking
  <2>3. /\ spaceBar'[v] = spaceBar[v] - IF w = v THEN 1 ELSE 0
        /\ owed'[v] = owed[v] - IF w = v THEN 1 ELSE 0
    BY <1>2, <2>1
  <2> QED
    BY <1>2, <1>4, <1>6, <2>2, <2>3
<1> HIDE DEF announced, taking
<1> QED
  BY <1>7, <1>8, <1>9, <1>10, <1>11, <1>12, <1>13, Simulation DEF TakesEffect

(* The books of an empty server balance.                                   *)
LEMMA InitialLedger == PureWorkload /\ Init => Accounting
<1> SUFFICES ASSUME PureWorkload, Init, NEW v \in Tuples
             PROVE  owed[v] = Cardinality(Announced(v)) + spaceBar[v]
                                + Cardinality(Taking(v))
  BY DEF Accounting
<1>1. \A t \in ServiceThreads : phaseBar[t] = "idle"
  BY DEF Init, phaseBar
<1>2. Announced(v) = {} /\ Taking(v) = {}
  BY <1>1 DEF Announced, Taking
<1>3. Carriers(v) = {} /\ ~Stored(v)
  BY DEF Init, Carriers, Stored, Sizes
<1>4. owed[v] = 0 /\ spaceBar[v] = Cardinality(Carriers(v)) + 0
  BY <1>3 DEF Init, spaceBar
<1> QED
  BY <1>2, <1>3, <1>4, FS_EmptySet

(* The invariant with the ledger holds in every state the threads reach.   *)
LEMMA InvariantPureInv == PureWorkload /\ Spec => [](SpaceInv /\ Accounting)
<1>1. SpaceInv /\ Accounting /\ [Next]_vars => (SpaceInv /\ Accounting)'
  BY InductiveSpaceInv, LedgerStep
<1> QED
  BY <1>1, InitialSpaceInv, InitialLedger, PTL DEF Spec

-----------------------------------------------------------------------------
(* The service threads implement the tuple space: what a client sees of    *)
(* the server, each read, input and output does in one indivisible step.   *)
THEOREM ServerImplementsTupleSpace == PureWorkload /\ Spec => ImplementsTupleSpace
<1>1. PureWorkload /\ Init => Space!Init
  <2> SUFFICES ASSUME PureWorkload, Init PROVE Space!Init
    OBVIOUS
  <2>1. \A v \in Tuples : Carriers(v) = {} /\ ~Stored(v)
    BY DEF Init, Carriers, Stored, Sizes
  <2>2. spaceBar = [v \in Tuples |-> 0]
    BY <2>1, FS_EmptySet DEF spaceBar
  <2>3. /\ phaseBar = [t \in ServiceThreads |-> "idle"]
        /\ resultBar = [t \in ServiceThreads |-> EmptyTuple]
    BY DEF Init, phaseBar, resultBar, Answered
  <2> QED
    BY <2>2, <2>3 DEF Init, Space!Init
<1>2. SpaceInv /\ SpaceInv' /\ [Next]_vars => [Space!Next]_(Space!vars)
  <2> SUFFICES ASSUME SpaceInv, SpaceInv', [Next]_vars
               PROVE  Space!Next \/ UNCHANGED Space!vars
    OBVIOUS
  <2>1. CASE Silent
    BY <2>1 DEF Silent, Space!vars
  <2>2. ASSUME NEW t \in ServiceThreads, Issues(t) \/ TakesEffect(t) \/ Returns(t)
        PROVE  Space!Next
    BY <2>2 DEF Issues, TakesEffect, Returns, Space!Next
  <2>3. ASSUME NEW v \in Tuples, Merges(v)
        PROVE  Space!Next
    BY <2>3 DEF Merges, Space!Next
  <2> QED
    BY <2>1, <2>2, <2>3, Simulation
<1> QED
  BY <1>1, <1>2, InvariantPureInv, PTL DEF Spec, ImplementsTupleSpace, Space!Spec

(* No tuple is lost and none is taken twice: whenever no command is under  *)
(* way, what was output of a tuple and not input or dropped is in the      *)
(* database.                                                               *)
THEOREM TuplesAreConserved == PureWorkload /\ Spec => []Conservation
<1>1. SpaceInv /\ Accounting => Conservation
  <2> SUFFICES ASSUME SpaceInv, Accounting, AtRest, NEW v \in Tuples
               PROVE  owed[v] = IF Stored(v) THEN 1 ELSE 0
    BY DEF Conservation
  <2>1. ControlOK
    BY DEF SpaceInv, IInv
  <2>2. Carriers(v) = {}
    BY DEF AtRest, Carriers
  <2>3. Announced(v) = {}
    BY <2>1 DEF AtRest, ControlOK, Announced, phaseBar, OP_LINDA_WRITE,
       OP_LINDA_READ, OP_LINDA_INPUT
  <2>4. Taking(v) = {}
    BY DEF AtRest, Taking, phaseBar, Answered
  <2> QED
    BY <2>2, <2>3, <2>4, FS_EmptySet DEF Accounting, spaceBar
<1> QED
  BY <1>1, InvariantPureInv, PTL

(* No tuple is answered to more inputs than it was output times.           *)
THEOREM InputsTakeWhatIsThere == PureWorkload /\ Spec => []InputRemoves
<1>1. SpaceInv /\ Accounting => InputRemoves
  <2> SUFFICES ASSUME SpaceInv, Accounting, NEW v \in Tuples
               PROVE  owed[v] >= 0
    BY DEF InputRemoves
  <2>1. /\ IsFiniteSet(ServiceThreads)
        /\ Announced(v) \in SUBSET ServiceThreads /\ Taking(v) \in SUBSET ServiceThreads
    BY DEF SpaceInv, PureWorkload, Announced, Taking
  <2>2. Cardinality(Announced(v)) \in Nat /\ Cardinality(Taking(v)) \in Nat
    BY <2>1, FS_Subset, FS_CardinalityType
  <2>3. spaceBar[v] \in Nat
    BY SpaceType
  <2> QED
    BY <2>2, <2>3 DEF Accounting
<1> QED
  BY <1>1, InvariantPureInv, PTL

=============================================================================
