---------------------------- MODULE BusInvariant ----------------------------
(***************************************************************************)
(* An inductive invariant of Bus, from which its safety properties follow. *)
(***************************************************************************)
EXTENDS Bus

Serving == {"poll", "fill", "create"}

(* What is known of the server where it stands.                            *)
ServerOK ==
  /\ server # "down" => starts # 0
  /\ server = "starting" => ~new_connection
  /\ server \in Serving => bus # 0
  /\ server \in {"fill", "create"} => made # 0

(* Semaphores and FIFOs are numbered by starts that have been; who is past *)
(* sem_open has one.                                                       *)
NamesOK ==
  /\ sem_name <= starts /\ fifo_name <= starts
  /\ \A c \in Clients : /\ sem[c] <= starts
                        /\ pc[c] \in Holding \cup {"wait"} => sem[c] # 0

(* A client that holds a semaphore does so alone, and its value is 0.      *)
HolderOK ==
  \A c \in Clients : pc[c] \in Holding =>
    /\ bus_sem[sem[c]] = 0
    /\ \A d \in Clients : pc[d] \in Holding /\ sem[d] = sem[c] => d = c

(* The clients that may have sent a request; each sends no more than one.  *)
Requested == {c \in Clients : pc[c] \in {"response", "post", "connected", "gone"}}

RequestsOK == \A g \in Starts : linda_bus_write[g] <= Cardinality(Requested)

(* A pair that was made is in one response or told to one client.          *)
PairsOK ==
  /\ \A g \in Starts : \A i \in DOMAIN linda_bus_read[g] :
       /\ linda_bus_read[g][i] <= made
       /\ \A h \in Starts : \A j \in DOMAIN linda_bus_read[h] :
            linda_bus_read[h][j] = linda_bus_read[g][i] => h = g /\ j = i
       /\ \A c \in Clients : pair[c] # linda_bus_read[g][i]
  /\ \A c \in Clients : pair[c] <= made
  /\ PairsAreOwn

(* As long as the first FIFOs are not made nothing has gone through them.  *)
UnopenedOK ==
  starts = 0 \/ (sem_name = 1 /\ fifo_name = 0) =>
    /\ server \notin Serving /\ ~new_connection
    /\ linda_bus_write[1] = 0 /\ linda_bus_read[1] = << >>
    /\ \A c \in Clients : fd_read[c] = 0 /\ fd_write[c] = 0

(* What is under way on the first bus.                                     *)
Flagged == IF new_connection /\ server = "poll" THEN 1 ELSE 0

Busy == linda_bus_write[1] + Flagged + Len(linda_bus_read[1])

(* On the first bus there is one exchange at a time: nothing is under way  *)
(* when its semaphore is free, nor when the holder has not sent its request*)
(* or has read the response.                                               *)
SerialOK ==
  /\ sem_name = 1 => \A c \in Clients : sem[c] <= 1
  /\ OneSemaphore =>
       /\ server \in Serving => bus = 1
       /\ \A c \in Clients : fd_read[c] <= 1 /\ fd_write[c] <= 1
       /\ Busy <= 1
       /\ bus_sem[1] = 1 => Busy = 0
       /\ \A c \in Clients : pc[c] \in Holding \ {"response"} => Busy = 0

IInv ==
  /\ TypeOK
  /\ ServerOK
  /\ NamesOK
  /\ HolderOK
  /\ RequestsOK
  /\ PairsOK
  /\ UnopenedOK
  /\ SerialOK

-----------------------------------------------------------------------------
(* The threads of the first server.                                        *)

(* A client that has read its response was told a pair.                    *)
ToldOK == \A c \in Clients : pc[c] \in {"post", "connected"} => pair[c] # NoPair

(* The pair the server is making has no thread yet.                        *)
Current(p) == server \in {"fill", "create"} /\ p = made

(* Until a pair has a thread that copied its argument nobody serves it; as *)
(* long as no argument was overwritten each thread has its own pair, and   *)
(* params keeps the number of the one that has not copied it.              *)
ThreadsOK ==
  /\ \A p \in Pairs : threads[p].at # "serving" =>
       threads[p].read_path = NoPair /\ threads[p].write_path = NoPair
  /\ \A p \in Pairs : p > made \/ Current(p) => threads[p].at = "none"
  /\ starts = 0 \/ (starts = 1 /\ server = "starting") => made = 0
  /\ starts = 1 /\ server \in Serving => \A p \in Pairs :
       /\ threads[p].at = "none" => p > made \/ Current(p)
       /\ ~overtaken /\ threads[p].at = "created" =>
            /\ server # "create"
            /\ params.read_path = {p} /\ params.write_path = {p}
       /\ ~overtaken /\ threads[p].at = "serving" =>
            threads[p].read_path = p /\ threads[p].write_path = p

ServedInv == IInv /\ ToldOK /\ ThreadsOK
=============================================================================
