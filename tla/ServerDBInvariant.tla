------------------------- MODULE ServerDBInvariant -------------------------
(***************************************************************************)
(* The inductive invariant behind the safety properties of ServerDB.       *)
(***************************************************************************)
EXTENDS ServerDB

(* A thread serves the kind of command its location belongs to, and the    *)
(* threads inside informWaitingThreads are the one that holds queue_mutex, *)
(* with its iterator at a waiter whenever it uses the waiter.              *)
ControlOK ==
  \A t \in ServiceThreads :
    /\ pc[t] \in {"inform", "scan", "unlock", "erase", "insert"}
         => request[t].op = OP_LINDA_WRITE
    /\ pc[t] \in {"find", "prepare", "enqueue", "blocked", "woken"}
         => request[t].op \in {OP_LINDA_READ, OP_LINDA_INPUT}
    /\ pc[t] \in {"scan", "unlock", "erase"} <=> queue_mutex = t
    /\ pc[t] \in {"unlock", "erase"} => iter[t] \in DOMAIN waiting_threads_queue
    /\ pc[t] = "scan" => iter[t] \in 1..(Len(waiting_threads_queue) + 1)

(* Position i holds the waiter that a notifier has just unlocked and is    *)
(* about to erase: its thread runs.                                        *)
Leaving(i) == \E t \in ServiceThreads : pc[t] = "erase" /\ iter[t] = i

Blocked(t) == pc[t] = "blocked" /\ t \notin unlocked

(* No thread is queued twice, and exactly the blocked threads are queued   *)
(* but for the one that is leaving.                                        *)
QueueOK ==
  /\ \A i, j \in DOMAIN waiting_threads_queue :
       waiting_threads_queue[i] = waiting_threads_queue[j] => i = j
  /\ \A i \in DOMAIN waiting_threads_queue :
       Blocked(waiting_threads_queue[i]) <=> ~Leaving(i)

(* From the push onto the queue until the thread wakes its AwaitingParams  *)
(* hold the pattern of its command, and from the moment the notifier has   *)
(* passed a tuple, a tuple that matches it.                                *)
HandoverOK ==
  \A t \in ServiceThreads :
    /\ t \in unlocked => pc[t] = "blocked"
    /\ pc[t] \in {"enqueue", "blocked", "woken"}
         => tuple_pattern[t] = request[t].arg
    /\ t \in unlocked \/ pc[t] = "woken"
         => isPatternEqualToTuple(tuple_pattern[t], passed_tuple[t])
    /\ pc[t] = "unlock" =>
         LET waiter == waiting_threads_queue[iter[t]]
         IN  isPatternEqualToTuple(tuple_pattern[waiter], passed_tuple[waiter])

(* The conjunction is inductive: it holds initially and every step of a    *)
(* thread keeps it.  Run db_mixed checks it, ServerDBProofs proves it.     *)
IInv ==
  /\ TypeOK
  /\ ControlOK
  /\ QueueOK
  /\ HandoverOK
  /\ ReplyMatchesRequest
  /\ BlockedWaiterIsQueued
  /\ NoWaiterPassedOver
  /\ NoDuplicateTuples
=============================================================================
