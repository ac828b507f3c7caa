--------------------------------- MODULE Bus ---------------------------------
(***************************************************************************)
(* How a client gets a service thread of its own: Client::connect          *)
(* (src/client.cpp), Server::Server, sigHandler, mainLoop and sendPaths    *)
(* (src/server.cpp) and the start of ServiceThread::mainLoop.              *)
(*                                                                         *)
(* Clients and server meet on two FIFOs, linda_bus_write for requests and  *)
(* linda_bus_read for responses, under the named semaphore /bus_mutex.     *)
(* Names outlive processes: SIGINT unlinks them, any other end of the      *)
(* server leaves them behind.  What a name refers to is identified by the  *)
(* start of the server that created it, 1, 2, ...; 0 is no object (no      *)
(* name, or a descriptor of a failed open).                                *)
(*                                                                         *)
(* A FIFO pair made for a client is identified by a number that stands for *)
(* its UUID.  Both path strings of a pair carry the UUID.                  *)
(***************************************************************************)
EXTENDS Integers, Sequences, FiniteSets

CONSTANTS
  Clients,
  MaxPairs,   \* bound: FIFO pairs the server makes
  MaxStarts,  \* bound: starts of the server
  Faults      \* what may go wrong, a subset of AllFaults

AllFaults ==
  {"client_crash", \* a client is killed or interrupted
   "server_crash", \* the server is killed, not by SIGINT
   "sigint"}       \* the server is interrupted: sigHandler

(* All responses that can be pending fit into one read of PIPE_READ_SIZE:  *)
(* 512 bytes, about 120 bytes each.                                        *)
ASSUME BusAssumption ==
  /\ IsFiniteSet(Clients)
  /\ MaxPairs \in 1..4
  /\ MaxStarts \in Nat \ {0}
  /\ Faults \subseteq AllFaults

Pairs  == 1..MaxPairs
NoPair == 0
Torn   == -1 \* a path made of parts of two others: names nothing

Starts == 1..MaxStarts

(* Where a client stands in connect().                                     *)
ClientLocations ==
  {"start",     \* sem_open
   "wait",      \* sem_wait
   "open_read", \* openFIFO(linda_bus_read, O_RDONLY)
   "open_write", \* openFIFO(linda_bus_write, O_WRONLY)
   "request",   \* sendMessage(ConnectionMessage(true))
   "response",  \* readBytes
   "post",      \* sem_post
   "connected", \* interact
   "gone"}      \* the process has ended

ServerLocations ==
  {"down",      \* no server process
   "starting",  \* makeFIFO, openFIFO
   "poll",      \* mainLoop: poll
   "fill",      \* the response is sent; constructor of params
   "create"}    \* pthread_create

VARIABLES
  sem_name,        \* the semaphore that /bus_mutex names
  fifo_name,       \* the FIFOs that the two bus paths name
  bus_sem,         \* value of each semaphore
  linda_bus_write, \* number of requests in each
  linda_bus_read,  \* responses in each: the pairs they announce
  starts,          \* starts of the server so far
  server,          \* location of the server
  bus,             \* the bus FIFOs it has open
  new_connection,  \* Server::mainLoop
  made,            \* pairs made so far
  params,          \* what a read of the stack variable params may yield
  threads,         \* the service thread started for each pair
  overtaken,       \* history: whether params was ever filled again before
                   \* a thread had copied it
  pc,              \* location of each client
  sem,             \* the semaphore it opened
  fd_read,         \* the linda_bus_read it opened
  fd_write,        \* the linda_bus_write it opened
  pair             \* the pair it was told to use

names == <<sem_name, fifo_name>>
bytes == <<linda_bus_write, linda_bus_read>>
serverVars == <<starts, server, bus, new_connection, made, params, threads, overtaken>>
clientVars == <<pc, sem, fd_read, fd_write, pair>>
vars == <<names, bus_sem, bytes, serverVars, clientVars>>

NoThread == [at |-> "none", read_path |-> NoPair, write_path |-> NoPair]

Init ==
  /\ sem_name = 0 /\ fifo_name = 0
  /\ bus_sem = [g \in Starts |-> 0]
  /\ linda_bus_write = [g \in Starts |-> 0]
  /\ linda_bus_read = [g \in Starts |-> << >>]
  /\ starts = 0 /\ server = "down" /\ bus = 0
  /\ new_connection = FALSE
  /\ made = 0
  /\ params = [field \in {"read_path", "write_path"} |-> {}]
  /\ threads = [p \in Pairs |-> NoThread]
  /\ overtaken = FALSE
  /\ pc = [c \in Clients |-> "start"]
  /\ sem = [c \in Clients |-> 0]
  /\ fd_read = [c \in Clients |-> 0]
  /\ fd_write = [c \in Clients |-> 0]
  /\ pair = [c \in Clients |-> NoPair]

-----------------------------------------------------------------------------
(* The FIFOs of the operating system.                                      *)

(* The server has both ends of FIFO g open (O_RDWR).                       *)
ServerHas(g) == server \in {"poll", "fill", "create"} /\ bus = g

(* A FIFO that no process has open any more forgets its bytes; holders are *)
(* the clients whose descriptors stay open, servers the FIFOs a server has.*)
ForgetBytes(holders, servers) ==
  /\ linda_bus_write' =
       [g \in Starts |-> IF g \in servers \/ \E c \in holders : fd_write[c] = g
                         THEN linda_bus_write[g] ELSE 0]
  /\ linda_bus_read' =
       [g \in Starts |-> IF g \in servers \/ \E c \in holders : fd_read[c] = g
                         THEN linda_bus_read[g] ELSE << >>]

-----------------------------------------------------------------------------
(* Client::connect                                                         *)

GoTo(c, from, to) ==
  /\ pc[c] = from
  /\ pc' = [pc EXCEPT ![c] = to]

(* The process ends, by exit or by an exception or signal that nothing     *)
(* catches on the way: its descriptors are closed, the semaphore is not    *)
(* posted.                                                                 *)
End(c) ==
  /\ pc' = [pc EXCEPT ![c] = "gone"]
  /\ fd_read' = [fd_read EXCEPT ![c] = 0]
  /\ fd_write' = [fd_write EXCEPT ![c] = 0]
  /\ ForgetBytes(Clients \ {c}, {g \in Starts : ServerHas(g)})
  /\ UNCHANGED <<names, bus_sem, serverVars, sem, pair>>

(* Without the semaphore sem_open returns SEM_FAILED, and sem_wait on it   *)
(* is a segmentation fault.                                                *)
OpenSemaphore(c) ==
  /\ pc[c] = "start"
  /\ \/ /\ sem_name # 0
        /\ GoTo(c, "start", "wait")
        /\ sem' = [sem EXCEPT ![c] = sem_name]
        /\ UNCHANGED <<names, bus_sem, bytes, serverVars, fd_read, fd_write, pair>>
     \/ sem_name = 0 /\ starts > 0 /\ End(c)

(* Seeded bug: the semaphore is tried, not taken.                          *)
WaitKeepsValue(c) ==
  /\ GoTo(c, "wait", "open_read")
  /\ bus_sem[sem[c]] > 0
  /\ UNCHANGED <<names, bus_sem, bytes, serverVars, sem, fd_read, fd_write, pair>>

WaitSemaphore(c) ==
  /\ GoTo(c, "wait", "open_read")
  /\ bus_sem[sem[c]] > 0
  /\ bus_sem' = [bus_sem EXCEPT ![sem[c]] = @ - 1]
  /\ UNCHANGED <<names, bytes, serverVars, sem, fd_read, fd_write, pair>>

(* Each of the two opens blocks until the server has the other end; it     *)
(* fails at once, which is only logged, when there is no such FIFO.        *)
CanOpen(g) == g = 0 \/ ServerHas(g)

OpenBusRead(c) ==
  /\ GoTo(c, "open_read", "open_write")
  /\ CanOpen(fifo_name)
  /\ fd_read' = [fd_read EXCEPT ![c] = fifo_name]
  /\ UNCHANGED <<names, bus_sem, bytes, serverVars, sem, fd_write, pair>>

OpenBusWrite(c) ==
  /\ GoTo(c, "open_write", "request")
  /\ CanOpen(fifo_name)
  /\ fd_write' = [fd_write EXCEPT ![c] = fifo_name]
  /\ UNCHANGED <<names, bus_sem, bytes, serverVars, sem, fd_read, pair>>

(* Without a reader of the FIFO the write raises SIGPIPE, without a FIFO   *)
(* sendBytes throws a string, which nothing catches.                       *)
SendRequest(c) ==
  /\ pc[c] = "request"
  /\ \/ /\ ServerHas(fd_write[c])
        /\ GoTo(c, "request", "response")
        /\ linda_bus_write' = [linda_bus_write EXCEPT ![fd_write[c]] = @ + 1]
        /\ UNCHANGED <<names, bus_sem, linda_bus_read, serverVars, sem, fd_read,
                       fd_write, pair>>
     \/ ~ServerHas(fd_write[c]) /\ End(c)

(* One read takes all the responses there are, and the first one counts.   *)
(* Without a writer of the FIFO the read returns nothing, which is not a   *)
(* message, and without a FIFO it fails: both throw out of connect().      *)
ReceiveResponse(c) ==
  LET g == fd_read[c] IN
  /\ pc[c] = "response"
  /\ \/ /\ g # 0 /\ linda_bus_read[g] # << >>
        /\ GoTo(c, "response", "post")
        /\ pair' = [pair EXCEPT ![c] = Head(linda_bus_read[g])]
        /\ linda_bus_read' = [linda_bus_read EXCEPT ![g] = << >>]
        /\ UNCHANGED <<names, bus_sem, linda_bus_write, serverVars, sem, fd_read,
                       fd_write>>
     \/ /\ g # 0 => linda_bus_read[g] = << >> /\ ~ServerHas(g)
        /\ End(c)

(* Seeded bugs: two posts, and none.                                       *)
PostTwice(c) ==
  /\ GoTo(c, "post", "connected")
  /\ bus_sem' = [bus_sem EXCEPT ![sem[c]] = @ + 2]
  /\ UNCHANGED <<names, bytes, serverVars, sem, fd_read, fd_write, pair>>

PostNothing(c) ==
  /\ GoTo(c, "post", "connected")
  /\ UNCHANGED <<names, bus_sem, bytes, serverVars, sem, fd_read, fd_write, pair>>

(* sem_post, sem_close, and the client opens the FIFOs of its pair, which  *)
(* exist: the server makes them before it responds and nobody unlinks them.*)
PostSemaphore(c) ==
  /\ GoTo(c, "post", "connected")
  /\ bus_sem' = [bus_sem EXCEPT ![sem[c]] = @ + 1]
  /\ UNCHANGED <<names, bytes, serverVars, sem, fd_read, fd_write, pair>>

(* interact() ends, the bus FIFOs are closed and the process exits.        *)
Leave(c) == pc[c] = "connected" /\ End(c)

Crash(c) ==
  /\ "client_crash" \in Faults
  /\ pc[c] \notin {"start", "gone"}
  /\ End(c)

-----------------------------------------------------------------------------
(* Server and the start of ServiceThread::mainLoop                         *)

(* Seeded bug: a restart frees a semaphore that it finds.                  *)
StartResetsSemaphore ==
  /\ server = "down" /\ starts < MaxStarts
  /\ server' = "starting"
  /\ starts' = starts + 1
  /\ sem_name' = IF sem_name = 0 THEN starts' ELSE sem_name
  /\ bus_sem' = [bus_sem EXCEPT ![sem_name'] = 1]
  /\ new_connection' = FALSE
  /\ UNCHANGED <<fifo_name, bytes, bus, made, params, threads, overtaken, clientVars>>

(* sem_open(O_CREAT): the value is set only if the semaphore is new.       *)
Start ==
  /\ server = "down" /\ starts < MaxStarts
  /\ server' = "starting"
  /\ starts' = starts + 1
  /\ \/ /\ sem_name = 0
        /\ sem_name' = starts'
        /\ bus_sem' = [bus_sem EXCEPT ![starts'] = 1]
     \/ sem_name # 0 /\ UNCHANGED <<sem_name, bus_sem>>
  /\ new_connection' = FALSE
  /\ UNCHANGED <<fifo_name, bytes, bus, made, params, threads, overtaken, clientVars>>

(* makeFIFO and openFIFO(O_RDWR), which never blocks.                      *)
OpenBus ==
  /\ server = "starting"
  /\ server' = "poll"
  /\ fifo_name' = IF fifo_name = 0 THEN starts ELSE fifo_name
  /\ bus' = fifo_name'
  /\ UNCHANGED <<sem_name, bus_sem, bytes, starts, new_connection, made, params,
                 threads, overtaken, clientVars>>

(* The branch of mainLoop for POLLIN: one read takes every request there   *)
(* is, the messages are taken out of the buffer and set the one flag.      *)
ReadRequests ==
  /\ server = "poll" /\ linda_bus_write[bus] > 0
  /\ linda_bus_write' = [linda_bus_write EXCEPT ![bus] = 0]
  /\ new_connection' = TRUE
  /\ UNCHANGED <<names, bus_sem, linda_bus_read, starts, server, bus, made,
                 params, threads, overtaken, clientVars>>

(* Seeded bug: the pair is announced before it is made, under the last one's *)
(* number.                                                                 *)
SendPreviousPaths ==
  /\ server = "poll" /\ linda_bus_write[bus] = 0 /\ new_connection
  /\ made < MaxPairs
  /\ server' = "fill"
  /\ made' = made + 1
  /\ linda_bus_read' = [linda_bus_read EXCEPT
                          ![bus] = Append(@, IF made = 0 THEN 1 ELSE made)]
  /\ UNCHANGED <<names, bus_sem, linda_bus_write, starts, bus, new_connection,
                 params, threads, overtaken, clientVars>>

(* The other branch, as far as sendPaths: the FIFOs of a new pair are made *)
(* and the client is told.                                                 *)
SendPaths ==
  /\ server = "poll" /\ linda_bus_write[bus] = 0 /\ new_connection
  /\ made < MaxPairs
  /\ server' = "fill"
  /\ made' = made + 1
  /\ linda_bus_read' = [linda_bus_read EXCEPT ![bus] = Append(@, made')]
  /\ UNCHANGED <<names, bus_sem, linda_bus_write, starts, bus, new_connection,
                 params, threads, overtaken, clientVars>>

(* The constructor of params writes over the slot of the connection before.*)
FillParams ==
  /\ server = "fill"
  /\ server' = "create"
  /\ params' = [field \in {"read_path", "write_path"} |->
                  params[field] \cup {made, Torn}]
  /\ overtaken' = (overtaken \/ \E p \in Pairs : threads[p].at = "created")
  /\ UNCHANGED <<names, bus_sem, bytes, starts, bus, new_connection, made, threads,
                 clientVars>>

(* Seeded bug: the thread is created while params is being filled.         *)
CreateThreadEarly ==
  /\ server = "create"
  /\ server' = "poll"
  /\ threads' = [threads EXCEPT ![made].at = "created"]
  /\ new_connection' = FALSE
  /\ UNCHANGED <<names, bus_sem, bytes, starts, bus, made, params, overtaken, clientVars>>

(* The thread gets the address of params, whose block ends right after.    *)
CreateThread ==
  /\ server = "create"
  /\ server' = "poll"
  /\ params' = [field \in {"read_path", "write_path"} |-> {made}]
  /\ threads' = [threads EXCEPT ![made].at = "created"]
  /\ new_connection' = FALSE
  /\ UNCHANGED <<names, bus_sem, bytes, starts, bus, made, overtaken, clientVars>>

(* The thread copies *arg and opens the FIFOs, which are made by now.      *)
CopyParams(p) ==
  /\ threads[p].at = "created"
  /\ \E r \in params.read_path, w \in params.write_path :
       threads' = [threads EXCEPT
                     ![p] = [at |-> "serving", read_path |-> r, write_path |-> w]]
  /\ UNCHANGED <<names, bus_sem, bytes, starts, server, bus, new_connection, made,
                 params, overtaken, clientVars>>

(* The server process ends and takes its threads with it.                  *)
ServerEnds ==
  /\ server' = "down" /\ bus' = 0
  /\ threads' = [p \in Pairs |-> NoThread]
  /\ ForgetBytes(Clients, {})
  /\ UNCHANGED <<bus_sem, starts, new_connection, made, params, overtaken, clientVars>>

(* A thread that could not open a path reads from descriptor -1, which     *)
(* throws, or writes to it, which throws too; nothing catches it.          *)
ThreadFails(p) ==
  /\ Torn \in {threads[p].read_path, threads[p].write_path}
  /\ ServerEnds
  /\ UNCHANGED names

ServerCrash ==
  /\ "server_crash" \in Faults /\ server # "down"
  /\ ServerEnds
  /\ UNCHANGED names

(* sigHandler unlinks the three names and exits.                           *)
SigHandler ==
  /\ "sigint" \in Faults /\ server # "down"
  /\ ServerEnds
  /\ sem_name' = 0 /\ fifo_name' = 0

-----------------------------------------------------------------------------
ClientStep(c) ==
  \/ OpenSemaphore(c)
  \/ WaitSemaphore(c)
  \/ OpenBusRead(c)
  \/ OpenBusWrite(c)
  \/ SendRequest(c)
  \/ ReceiveResponse(c)
  \/ PostSemaphore(c)

MainLoop == Start \/ OpenBus \/ ReadRequests \/ SendPaths \/ FillParams \/ CreateThread

ThreadStep(p) == CopyParams(p) \/ ThreadFails(p)

Next ==
  \/ \E c \in Clients : ClientStep(c) \/ Leave(c) \/ Crash(c)
  \/ MainLoop
  \/ \E p \in Pairs : ThreadStep(p)
  \/ ServerCrash
  \/ SigHandler

Spec == Init /\ [][Next]_vars

(* Every process that can run is run.  Users need not leave, and a fault   *)
(* need not happen.                                                        *)
FairSpec ==
  /\ Spec
  /\ WF_vars(MainLoop)
  /\ \A c \in Clients : WF_vars(ClientStep(c))
  /\ \A p \in Pairs : WF_vars(ThreadStep(p))

-----------------------------------------------------------------------------
(* Every variable keeps its type; a semaphore is 0 or 1, and no client has *)
(* more than one request in a FIFO.                                        *)
TypeOK ==
  /\ sem_name \in 0..MaxStarts /\ fifo_name \in 0..MaxStarts
  /\ bus_sem \in [Starts -> 0..1]
  /\ linda_bus_write \in [Starts -> 0..Cardinality(Clients)]
  /\ linda_bus_read \in [Starts -> Seq(Pairs)]
  /\ starts \in 0..MaxStarts /\ server \in ServerLocations
  /\ bus \in 0..MaxStarts
  /\ new_connection \in BOOLEAN
  /\ made \in 0..MaxPairs
  /\ params \in [{"read_path", "write_path"} -> SUBSET (Pairs \cup {Torn})]
  /\ threads \in [Pairs -> [at : {"none", "created", "serving"},
                            read_path : Pairs \cup {NoPair, Torn},
                            write_path : Pairs \cup {NoPair, Torn}]]
  /\ overtaken \in BOOLEAN
  /\ pc \in [Clients -> ClientLocations]
  /\ sem \in [Clients -> 0..MaxStarts]
  /\ fd_read \in [Clients -> 0..MaxStarts]
  /\ fd_write \in [Clients -> 0..MaxStarts]
  /\ pair \in [Clients -> Pairs \cup {NoPair}]

Holding == {"open_read", "open_write", "request", "response", "post"}

(* /bus_mutex is a mutex: of the clients that opened one semaphore, at most*)
(* one is between its sem_wait and its sem_post, and while it is nobody    *)
(* else can pass.                                                          *)
BusMutex ==
  \A g \in Starts :
    bus_sem[g] + Cardinality({c \in Clients : pc[c] \in Holding /\ sem[c] = g}) <= 1

(* No two clients are told the same FIFO pair, whatever crashes or starts  *)
(* again.                                                                  *)
PairsAreOwn ==
  \A c, d \in Clients : pair[c] = pair[d] /\ pair[c] # NoPair => c = d

Unanswered ==
  linda_bus_write[bus] + IF new_connection /\ server = "poll" THEN 1 ELSE 0

(* One semaphore has guarded the bus so far: no SIGINT has unlinked it.    *)
OneSemaphore == sem_name = 1 /\ fifo_name = 1

(* The exchanges on the bus are serial, although the request of a client   *)
(* is only a flag in the server and a response does not say whom it is     *)
(* for: there is one exchange at a time, and a client that is about to     *)
(* begin one finds nothing of an earlier exchange in the FIFOs -- also     *)
(* when the server was killed and has been started again.                  *)
ExchangesAreSerial ==
  OneSemaphore /\ server \in {"poll", "fill", "create"} =>
    /\ Unanswered + Len(linda_bus_read[bus]) <= 1
    /\ (\E c \in Clients : pc[c] \in {"open_read", "open_write", "request"})
         => Unanswered + Len(linda_bus_read[bus]) = 0

(* Every thread that the server created has copied its argument.           *)
Settled == server = "poll" /\ \A p \in Pairs : threads[p].at # "created"

(* One thread, and only one, reads the commands of a connected client, and *)
(* the same one, and only it, writes the replies to it -- until the server *)
(* is started again, and unless a thread took longer to copy its argument  *)
(* than the server to accept another connection.                           *)
ServedByOwnThread ==
  Settled /\ ~overtaken /\ starts = 1 => \A c \in Clients :
    pc[c] = "connected" => \E p \in Pairs :
      /\ {q \in Pairs : threads[q].read_path = pair[c]} = {p}
      /\ {q \in Pairs : threads[q].write_path = pair[c]} = {p}

(* A client that waits for the bus is connected in the end, unless some    *)
(* client ended before it was connected or a thread was overtaken: its     *)
(* request is not lost between the FIFO, the flag and the response, and    *)
(* the semaphore comes round.                                              *)
ClientConnects ==
  []((\A c \in Clients : pc[c] = "gone" => pair[c] # NoPair) /\ ~overtaken)
    => \A c \in Clients : pc[c] = "wait" ~> pc[c] = "connected"

=============================================================================
