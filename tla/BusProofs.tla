------------------------------ MODULE BusProofs ------------------------------
(***************************************************************************)
(* The safety properties of Bus, for every finite set of clients, any      *)
(* number of starts of the server and all faults, from the inductive       *)
(* invariant IInv of BusInvariant: one lemma per conjunct, and in it one   *)
(* step per action.                                                        *)
(***************************************************************************)
EXTENDS BusInvariant, FiniteSetTheorems, TLAPS

(* The steps of a client that do not end it.                               *)
Opens(c) ==
  /\ sem_name # 0
  /\ GoTo(c, "start", "wait")
  /\ sem' = [sem EXCEPT ![c] = sem_name]
  /\ UNCHANGED <<names, bus_sem, bytes, serverVars, fd_read, fd_write, pair>>

Sends(c) ==
  /\ ServerHas(fd_write[c])
  /\ GoTo(c, "request", "response")
  /\ linda_bus_write' = [linda_bus_write EXCEPT ![fd_write[c]] = @ + 1]
  /\ UNCHANGED <<names, bus_sem, linda_bus_read, serverVars, sem, fd_read,
                 fd_write, pair>>

Receives(c) ==
  LET g == fd_read[c] IN
  /\ g # 0 /\ linda_bus_read[g] # << >>
  /\ GoTo(c, "response", "post")
  /\ pair' = [pair EXCEPT ![c] = Head(linda_bus_read[g])]
  /\ linda_bus_read' = [linda_bus_read EXCEPT ![g] = << >>]
  /\ UNCHANGED <<names, bus_sem, linda_bus_write, serverVars, sem, fd_read, fd_write>>

ClientActs(c) ==
  \/ End(c)
  \/ Opens(c)
  \/ WaitSemaphore(c)
  \/ OpenBusRead(c)
  \/ OpenBusWrite(c)
  \/ Sends(c)
  \/ Receives(c)
  \/ PostSemaphore(c)

(* The end of the server, with the names or without.                       *)
Stops ==
  /\ ServerEnds
  /\ UNCHANGED names \/ (server # "down" /\ sem_name' = 0 /\ fifo_name' = 0)

(* What a client does in a step is one of these.                           *)
LEMMA ClientCases ==
  ASSUME NEW c \in Clients, ClientStep(c) \/ Leave(c) \/ Crash(c)
  PROVE  ClientActs(c)
<1>1. CASE OpenSemaphore(c)
  BY <1>1 DEF OpenSemaphore, Opens, ClientActs
<1>2. CASE SendRequest(c)
  BY <1>2 DEF SendRequest, Sends, ClientActs
<1>3. CASE ReceiveResponse(c)
  BY <1>3 DEF ReceiveResponse, Receives, ClientActs
<1>4. CASE Leave(c) \/ Crash(c)
  BY <1>4 DEF Leave, Crash, ClientActs
<1> QED
  BY <1>1, <1>2, <1>3, <1>4 DEF ClientStep, ClientActs

(* And so is what happens otherwise.                                       *)
LEMMA StepCases ==
  ASSUME [Next]_vars
  PROVE  \/ UNCHANGED vars
         \/ \E c \in Clients : ClientActs(c)
         \/ MainLoop
         \/ \E p \in Pairs : CopyParams(p)
         \/ Stops
<1>1. CASE \E c \in Clients : ClientStep(c) \/ Leave(c) \/ Crash(c)
  BY <1>1, ClientCases
<1>2. CASE \E p \in Pairs : ThreadStep(p)
  BY <1>2 DEF ThreadStep, ThreadFails, Stops
<1>3. CASE ServerCrash \/ SigHandler
  BY <1>3 DEF ServerCrash, SigHandler, Stops
<1> QED
  BY <1>1, <1>2, <1>3 DEF Next

(* A function that is changed at one argument keeps its type.              *)
LEMMA ExceptType ==
  ASSUME NEW S, NEW T, NEW f \in [S -> T], NEW k, NEW v \in T
  PROVE  [f EXCEPT ![k] = v] \in [S -> T]
OBVIOUS

(* A FIFO keeps its bytes or loses all of them.                            *)
LEMMA BytesForgotten ==
  ASSUME TypeOK, NEW H, NEW S, ForgetBytes(H, S)
  PROVE  /\ linda_bus_write' \in [Starts -> 0..Cardinality(Clients)]
         /\ linda_bus_read' \in [Starts -> Seq(Pairs)]
         /\ \A g \in Starts : linda_bus_write'[g] \in {linda_bus_write[g], 0}
         /\ \A g \in Starts : linda_bus_read'[g] \in {linda_bus_read[g], << >>}
<1>1. Cardinality(Clients) \in Nat
  BY BusAssumption, FS_CardinalityType
<1>2. << >> \in Seq(Pairs)
  OBVIOUS
<1> QED
  BY <1>1, <1>2 DEF TypeOK, ForgetBytes

-----------------------------------------------------------------------------
(* Every step of a client keeps the types.                                 *)
LEMMA TypeClientStep ==
  ASSUME IInv, NEW c \in Clients, ClientActs(c)
  PROVE  TypeOK'
<1> USE DEF TypeOK, names, serverVars, bytes, GoTo, Holding
<1>1. 0 \in 0..MaxStarts /\ Starts \subseteq 0..MaxStarts
  BY BusAssumption DEF Starts
<1>2. Cardinality(Clients) \in Nat
  BY BusAssumption, FS_CardinalityType
<1>3. {"start", "wait", "open_read", "open_write", "request", "response", "post",
       "connected", "gone"} = ClientLocations
  BY DEF ClientLocations
<1>4. CASE End(c)
  BY <1>1, <1>3, <1>4, BytesForgotten DEF IInv, End
<1>5. CASE Opens(c)
  BY <1>3, <1>5 DEF IInv, Opens
<1>6. CASE WaitSemaphore(c)
  <2>1. sem[c] \in Starts
    BY <1>6 DEF IInv, NamesOK, WaitSemaphore, Starts
  <2>2. bus_sem[sem[c]] = 1
    BY <1>6, <2>1 DEF IInv, WaitSemaphore
  <2>3. bus_sem' \in [Starts -> 0..1]
    BY <1>6, <2>1, <2>2 DEF IInv, WaitSemaphore
  <2> QED
    BY <1>3, <1>6, <2>3 DEF IInv, WaitSemaphore
<1>7. CASE OpenBusRead(c)
  BY <1>3, <1>7 DEF IInv, OpenBusRead
<1>8. CASE OpenBusWrite(c)
  BY <1>3, <1>8 DEF IInv, OpenBusWrite
<1>9. CASE Sends(c)
  <2>1. \A g \in Starts : linda_bus_write[g] + 1 <= Cardinality(Clients)
    <3>1. Requested \subseteq Clients \ {c} /\ IsFiniteSet(Clients \ {c})
      BY <1>9, BusAssumption, FS_RemoveElement DEF Requested, Sends
    <3>2. /\ Cardinality(Requested) <= Cardinality(Clients \ {c})
          /\ Cardinality(Requested) \in Nat
      BY <3>1, FS_Subset, FS_CardinalityType
    <3>3. Cardinality(Clients \ {c}) = Cardinality(Clients) - 1
      BY BusAssumption, FS_RemoveElement
    <3> QED
      BY <1>2, <3>2, <3>3 DEF IInv, RequestsOK
  <2>2. linda_bus_write' \in [Starts -> 0..Cardinality(Clients)]
    <3>1. fd_write[c] \in Starts
      BY <1>9 DEF IInv, ServerOK, Serving, Sends, ServerHas, Starts
    <3>2. linda_bus_write[fd_write[c]] + 1 \in 0..Cardinality(Clients)
      BY <1>2, <2>1, <3>1 DEF IInv
    <3> QED
      BY <1>9, <3>2, ExceptType DEF IInv, Sends
  <2> QED
    BY <1>3, <1>9, <2>2 DEF IInv, Sends
<1>10. CASE Receives(c)
  <2>1. fd_read[c] \in Starts
    BY <1>10 DEF IInv, Receives, Starts
  <2>2. Head(linda_bus_read[fd_read[c]]) \in Pairs
    BY <1>10, <2>1 DEF IInv, Receives
  <2>3. linda_bus_read' \in [Starts -> Seq(Pairs)]
    <3>1. << >> \in Seq(Pairs)
      OBVIOUS
    <3> QED
      BY <1>10, <3>1, ExceptType DEF IInv, Receives
  <2> QED
    BY <1>3, <1>10, <2>2, <2>3 DEF IInv, Receives
<1>11. CASE PostSemaphore(c)
  <2>1. sem[c] \in Starts /\ bus_sem[sem[c]] = 0
    BY <1>11 DEF IInv, NamesOK, HolderOK, PostSemaphore, Starts
  <2>2. bus_sem' \in [Starts -> 0..1]
    BY <1>11, <2>1 DEF IInv, PostSemaphore
  <2> QED
    BY <1>3, <1>11, <2>2 DEF IInv, PostSemaphore
<1> QED
  BY <1>4, <1>5, <1>6, <1>7, <1>8, <1>9, <1>10, <1>11 DEF ClientActs

(* And so does every other step.                                           *)
LEMMA TypeStep == IInv /\ [Next]_vars => TypeOK'
<1> SUFFICES ASSUME IInv, [Next]_vars
             PROVE  TypeOK'
  OBVIOUS
<1> USE DEF TypeOK, names, serverVars, clientVars, bytes
<1>1. {"down", "starting", "poll", "fill", "create"} = ServerLocations
  BY DEF ServerLocations
<1>2. Starts \subseteq 0..MaxStarts /\ MaxStarts \in Nat
  BY BusAssumption DEF Starts
<1>3. CASE UNCHANGED vars
  BY <1>3 DEF IInv, vars
<1>4. ASSUME NEW c \in Clients, ClientActs(c)
      PROVE  TypeOK'
  BY <1>4, TypeClientStep
<1>5. CASE Start
  <2>1. starts + 1 \in Starts /\ starts' = starts + 1
    BY <1>2, <1>5 DEF IInv, Start, Starts
  <2>2. bus_sem' \in [Starts -> 0..1]
    <3>1. 1 \in 0..1
      OBVIOUS
    <3>2. CASE sem_name = 0
      BY <1>5, <3>1, <3>2, ExceptType DEF IInv, Start
    <3>3. CASE sem_name # 0
      BY <1>5, <3>3 DEF IInv, Start
    <3> QED
      BY <3>2, <3>3
  <2>3. sem_name' \in 0..MaxStarts /\ starts' \in 0..MaxStarts
    BY <1>2, <1>5, <2>1 DEF IInv, Start
  <2> QED
    BY <1>1, <1>5, <2>2, <2>3 DEF IInv, Start
<1>6. CASE OpenBus
  BY <1>1, <1>2, <1>6 DEF IInv, OpenBus
<1>7. CASE ReadRequests
  <2>1. linda_bus_write' \in [Starts -> 0..Cardinality(Clients)]
    <3>1. 0 \in 0..Cardinality(Clients)
      BY BusAssumption, FS_CardinalityType
    <3> QED
      BY <1>7, <3>1, ExceptType DEF IInv, ReadRequests
  <2> QED
    BY <1>7, <2>1 DEF IInv, ReadRequests
<1>8. CASE SendPaths
  <2>1. made + 1 \in Pairs /\ made + 1 \in 0..MaxPairs
    BY <1>8, BusAssumption DEF IInv, SendPaths, Pairs
  <2>2. linda_bus_read' \in [Starts -> Seq(Pairs)]
    <3>1. bus \in Starts
      BY <1>8 DEF IInv, ServerOK, Serving, SendPaths, Starts
    <3>2. Append(linda_bus_read[bus], made') \in Seq(Pairs)
      BY <1>8, <2>1, <3>1 DEF IInv, SendPaths
    <3> QED
      BY <1>8, <3>2, ExceptType DEF IInv, SendPaths
  <2> QED
    BY <1>1, <1>8, <2>1, <2>2 DEF IInv, SendPaths
<1>9. CASE FillParams
  <2>1. made \in Pairs
    BY <1>9 DEF IInv, ServerOK, FillParams, Pairs
  <2>2. params' \in [{"read_path", "write_path"} -> SUBSET (Pairs \cup {Torn})]
    BY <1>9, <2>1 DEF IInv, FillParams
  <2> QED
    BY <1>1, <1>9, <2>2 DEF IInv, FillParams
<1>10. CASE CreateThread
  <2>1. made \in Pairs
    BY <1>10 DEF IInv, ServerOK, CreateThread, Pairs
  <2>2. params' \in [{"read_path", "write_path"} -> SUBSET (Pairs \cup {Torn})]
    BY <1>10, <2>1 DEF IInv, CreateThread
  <2>3. threads' \in [Pairs -> [at : {"none", "created", "serving"},
                                read_path : Pairs \cup {NoPair, Torn},
                                write_path : Pairs \cup {NoPair, Torn}]]
    <3> DEFINE Thread == [at : {"none", "created", "serving"},
                          read_path : Pairs \cup {NoPair, Torn},
                          write_path : Pairs \cup {NoPair, Torn}]
    <3>1. threads[made] \in Thread
      BY <2>1 DEF IInv
    <3>2. [threads[made] EXCEPT !.at = "created"] \in Thread
      BY <3>1
    <3>3. threads' = [threads EXCEPT ![made] = [threads[made] EXCEPT !.at = "created"]]
      BY <1>10 DEF CreateThread
    <3>4. threads \in [Pairs -> Thread]
      BY DEF IInv
    <3> HIDE DEF Thread
    <3>5. threads' \in [Pairs -> Thread]
      BY <3>2, <3>3, <3>4, ExceptType
    <3> QED
      BY <3>5 DEF Thread
  <2> QED
    BY <1>1, <1>10, <2>2, <2>3 DEF IInv, CreateThread
<1>11. ASSUME NEW p \in Pairs, CopyParams(p)
       PROVE  TypeOK'
  BY <1>11 DEF IInv, CopyParams
<1>12. CASE Stops
  <2>1. threads' \in [Pairs -> [at : {"none", "created", "serving"},
                                read_path : Pairs \cup {NoPair, Torn},
                                write_path : Pairs \cup {NoPair, Torn}]]
    BY <1>12 DEF Stops, ServerEnds, NoThread
  <2>2. /\ linda_bus_write' \in [Starts -> 0..Cardinality(Clients)]
        /\ linda_bus_read' \in [Starts -> Seq(Pairs)]
    <3>1. ForgetBytes(Clients, {})
      BY <1>12 DEF Stops, ServerEnds
    <3> QED
      BY <3>1, BytesForgotten DEF IInv
  <2>3. server' \in ServerLocations /\ bus' \in 0..MaxStarts
    BY <1>1, <1>2, <1>12 DEF Stops, ServerEnds
  <2>4. sem_name' \in 0..MaxStarts /\ fifo_name' \in 0..MaxStarts
    BY <1>2, <1>12 DEF IInv, Stops
  <2> QED
    BY <1>12, <2>1, <2>2, <2>3, <2>4 DEF IInv, Stops, ServerEnds
<1> QED
  BY <1>3, <1>4, <1>5, <1>6, <1>7, <1>8, <1>9, <1>10, <1>11, <1>12, StepCases
     DEF MainLoop

(* What is known of the server's locations and of the names stays true.    *)
LEMMA ServerStep == IInv /\ [Next]_vars => ServerOK'
<1> SUFFICES ASSUME IInv, [Next]_vars
             PROVE  ServerOK'
  OBVIOUS
<1> USE DEF ServerOK, Serving, serverVars, names
<1>1. CASE UNCHANGED vars
  BY <1>1 DEF IInv, vars
<1>2. ASSUME NEW c \in Clients, ClientActs(c)
      PROVE  ServerOK'
  BY <1>2 DEF IInv, ClientActs, End, Opens, WaitSemaphore, OpenBusRead,
     OpenBusWrite, Sends, Receives, PostSemaphore
<1>3. CASE Start
  BY <1>3 DEF IInv, TypeOK, Start
<1>4. CASE OpenBus
  BY <1>4 DEF IInv, TypeOK, OpenBus
<1>5. CASE ReadRequests \/ SendPaths \/ FillParams \/ CreateThread
  BY <1>5 DEF IInv, TypeOK, ReadRequests, SendPaths, FillParams, CreateThread
<1>6. ASSUME NEW p \in Pairs, CopyParams(p)
      PROVE  ServerOK'
  BY <1>6 DEF IInv, CopyParams
<1>7. CASE Stops
  BY <1>7 DEF IInv, Stops, ServerEnds
<1> QED
  BY <1>1, <1>2, <1>3, <1>4, <1>5, <1>6, <1>7, StepCases DEF MainLoop

LEMMA NamesStep == IInv /\ [Next]_vars => NamesOK'
<1> SUFFICES ASSUME IInv, [Next]_vars
             PROVE  NamesOK'
  OBVIOUS
<1> USE DEF NamesOK, Holding, serverVars, clientVars, names, GoTo
<1>1. CASE UNCHANGED vars
  BY <1>1 DEF IInv, vars
<1>2. ASSUME NEW c \in Clients, ClientActs(c)
      PROVE  NamesOK'
  BY <1>2 DEF IInv, TypeOK, ClientActs, End, Opens, WaitSemaphore, OpenBusRead,
     OpenBusWrite, Sends, Receives, PostSemaphore
<1>3. CASE Start
  BY <1>3 DEF IInv, TypeOK, Start
<1>4. CASE OpenBus
  BY <1>4 DEF IInv, TypeOK, OpenBus
<1>5. CASE ReadRequests \/ SendPaths \/ FillParams \/ CreateThread
  BY <1>5 DEF IInv, TypeOK, ReadRequests, SendPaths, FillParams, CreateThread
<1>6. ASSUME NEW p \in Pairs, CopyParams(p)
      PROVE  NamesOK'
  BY <1>6 DEF IInv, CopyParams
<1>7. CASE Stops
  BY <1>7 DEF IInv, TypeOK, Stops, ServerEnds
<1> QED
  BY <1>1, <1>2, <1>3, <1>4, <1>5, <1>6, <1>7, StepCases DEF MainLoop

(* /bus_mutex stays a mutex.                                               *)
LEMMA HolderStep == IInv /\ [Next]_vars => HolderOK'
<1> SUFFICES ASSUME IInv, [Next]_vars
             PROVE  HolderOK'
  OBVIOUS
<1> USE DEF HolderOK, Holding, clientVars, names
<1>1. CASE UNCHANGED vars
  BY <1>1 DEF IInv, vars
<1>2. ASSUME NEW c \in Clients, ClientActs(c)
      PROVE  HolderOK'
  <2> USE DEF IInv, TypeOK, GoTo
  <2>1. CASE End(c)
    BY <2>1 DEF End
  <2>2. CASE Opens(c)
    BY <2>2 DEF Opens
  <2>3. CASE WaitSemaphore(c)
    <3>1. sem[c] \in Starts
      BY <2>3 DEF NamesOK, WaitSemaphore, Starts
    <3>2. bus_sem'[sem[c]] = 0 /\ bus_sem[sem[c]] # 0
      BY <2>3, <3>1 DEF WaitSemaphore
    <3>3. \A d \in Clients : pc[d] \in Holding => sem[d] # sem[c]
      BY <3>2
    <3> QED
      BY <2>3, <3>1, <3>2, <3>3 DEF WaitSemaphore
  <2>4. CASE OpenBusRead(c) \/ OpenBusWrite(c) \/ Sends(c) \/ Receives(c)
    BY <2>4 DEF OpenBusRead, OpenBusWrite, Sends, Receives
  <2>5. CASE PostSemaphore(c)
    <3>1. \A d \in Clients \ {c} : pc[d] \in Holding => sem[d] # sem[c]
      BY <2>5 DEF PostSemaphore
    <3> QED
      BY <2>5, <3>1 DEF PostSemaphore
  <2> QED
    BY <1>2, <2>1, <2>2, <2>3, <2>4, <2>5 DEF ClientActs
<1>3. CASE Start
  <2>1. \A c \in Clients : pc[c] \in Holding => sem[c] \in Starts /\ sem[c] # starts + 1
    BY DEF IInv, TypeOK, NamesOK, Starts
  <2>2. \A c \in Clients : pc[c] \in Holding => bus_sem'[sem[c]] = bus_sem[sem[c]]
    BY <1>3, <2>1 DEF IInv, TypeOK, Start
  <2> QED
    BY <1>3, <2>2 DEF IInv, Start
<1>4. CASE OpenBus \/ ReadRequests \/ SendPaths \/ FillParams \/ CreateThread
  BY <1>4 DEF IInv, OpenBus, ReadRequests, SendPaths, FillParams, CreateThread
<1>5. ASSUME NEW p \in Pairs, CopyParams(p)
      PROVE  HolderOK'
  BY <1>5 DEF IInv, CopyParams
<1>6. CASE Stops
  BY <1>6 DEF IInv, Stops, ServerEnds
<1> QED
  BY <1>1, <1>2, <1>3, <1>4, <1>5, <1>6, StepCases DEF MainLoop

-----------------------------------------------------------------------------
(* A client that has sent a request never sends another one.               *)
LEMMA RequestedGrows ==
  ASSUME IInv, [Next]_vars
  PROVE  /\ Cardinality(Requested) \in Nat /\ Cardinality(Requested') \in Nat
         /\ Cardinality(Requested) <= Cardinality(Requested')
<1>1. Requested \subseteq Requested'
  <2>1. CASE UNCHANGED vars
    BY <2>1 DEF vars, clientVars, Requested
  <2>2. ASSUME NEW c \in Clients, ClientActs(c)
        PROVE  Requested \subseteq Requested'
    BY <2>2 DEF IInv, TypeOK, Requested, ClientActs, End, Opens, WaitSemaphore, OpenBusRead,
       OpenBusWrite, Sends, Receives, PostSemaphore, GoTo
  <2>3. CASE MainLoop
    BY <2>3 DEF Requested, clientVars, MainLoop, Start, OpenBus, ReadRequests, SendPaths,
       FillParams, CreateThread
  <2>4. ASSUME NEW p \in Pairs, CopyParams(p)
        PROVE  Requested \subseteq Requested'
    BY <2>4 DEF Requested, clientVars, CopyParams
  <2>5. CASE Stops
    BY <2>5 DEF Requested, clientVars, Stops, ServerEnds
  <2> QED
    BY <2>1, <2>2, <2>3, <2>4, <2>5, StepCases
<1>2. IsFiniteSet(Clients) /\ Requested' \subseteq Clients
  BY BusAssumption DEF Requested
<1>3. IsFiniteSet(Requested')
  BY <1>2, FS_Subset
<1> QED
  BY <1>1, <1>3, FS_Subset, FS_CardinalityType

(* No FIFO holds more requests than clients may have sent.                 *)
LEMMA RequestsStep == IInv /\ [Next]_vars => RequestsOK'
<1> SUFFICES ASSUME IInv, [Next]_vars
             PROVE  RequestsOK'
  OBVIOUS
<1>1. /\ Cardinality(Requested) \in Nat /\ Cardinality(Requested') \in Nat
      /\ Cardinality(Requested) <= Cardinality(Requested')
  BY RequestedGrows
<1>2. Cardinality(Clients) \in Nat
  BY BusAssumption, FS_CardinalityType
<1>3. \A g \in Starts : /\ linda_bus_write[g] \in Nat
                        /\ linda_bus_write[g] <= Cardinality(Requested)
  BY <1>2 DEF IInv, TypeOK, RequestsOK
<1>4. SUFFICES ASSUME NEW g \in Starts, linda_bus_write'[g] \notin {0, linda_bus_write[g]}
               PROVE  linda_bus_write'[g] <= Cardinality(Requested')
  BY <1>1, <1>3 DEF RequestsOK
<1>5. CASE UNCHANGED vars
  BY <1>4, <1>5 DEF vars, bytes
<1>6. ASSUME NEW c \in Clients, ClientActs(c)
      PROVE  linda_bus_write'[g] <= Cardinality(Requested')
  <2>1. CASE Sends(c)
    <3>1. linda_bus_write'[g] = linda_bus_write[g] + 1
      BY <1>4, <2>1 DEF IInv, TypeOK, Sends
    <3>2. Requested' = Requested \cup {c} /\ c \notin Requested
      BY <2>1 DEF IInv, TypeOK, Sends, GoTo, Requested
    <3>3. IsFiniteSet(Requested)
      BY BusAssumption, FS_Subset DEF Requested
    <3>4. Cardinality(Requested') = Cardinality(Requested) + 1
      BY <3>2, <3>3, FS_AddElement
    <3> QED
      BY <1>1, <1>3, <3>1, <3>4
  <2>2. CASE ~Sends(c)
    <3>1. CASE End(c)
      BY <1>4, <3>1, BytesForgotten DEF IInv, End
    <3>2. CASE ~End(c)
      BY <1>4, <1>6, <2>2, <3>2 DEF ClientActs, Opens, WaitSemaphore, OpenBusRead,
         OpenBusWrite, Receives, PostSemaphore, bytes
    <3> QED
      BY <3>1, <3>2
  <2> QED
    BY <2>1, <2>2
<1>7. CASE MainLoop
  BY <1>4, <1>7 DEF IInv, TypeOK, MainLoop, Start, OpenBus, ReadRequests, SendPaths,
     FillParams, CreateThread, bytes
<1>8. ASSUME NEW p \in Pairs, CopyParams(p)
      PROVE  linda_bus_write'[g] <= Cardinality(Requested')
  BY <1>4, <1>8 DEF CopyParams, bytes
<1>9. CASE Stops
  <2>1. ForgetBytes(Clients, {})
    BY <1>9 DEF Stops, ServerEnds
  <2> QED
    BY <1>4, <2>1, BytesForgotten DEF IInv
<1> QED
  BY <1>5, <1>6, <1>7, <1>8, <1>9, StepCases

-----------------------------------------------------------------------------
(* Pairs stay where they are while responses are lost.                     *)
LEMMA PairsKept ==
  ASSUME IInv, UNCHANGED <<made, pair>>,
         \A g \in Starts : linda_bus_read'[g] \in {linda_bus_read[g], << >>}
  PROVE  PairsOK'
<1>1. \A g \in Starts : \A i \in DOMAIN linda_bus_read'[g] :
        i \in DOMAIN linda_bus_read[g] /\ linda_bus_read'[g][i] = linda_bus_read[g][i]
  OBVIOUS
<1> QED
  BY <1>1 DEF IInv, PairsOK, PairsAreOwn

(* A pair is announced when it is made, and told when the response is read.*)
LEMMA PairsStep == IInv /\ [Next]_vars => PairsOK'
<1> SUFFICES ASSUME IInv, [Next]_vars
             PROVE  PairsOK'
  OBVIOUS
<1>1. CASE UNCHANGED <<made, pair, linda_bus_read>>
  BY <1>1, PairsKept
<1>2. ASSUME NEW c \in Clients, ClientActs(c)
      PROVE  PairsOK'
  <2>1. CASE End(c)
    BY <2>1, BytesForgotten, PairsKept DEF IInv, End, serverVars
  <2>2. CASE Receives(c)
    <3> DEFINE g == fd_read[c]
               p == linda_bus_read[g][1]
    <3>1. g \in Starts /\ linda_bus_read[g] # << >>
      BY <2>2 DEF IInv, TypeOK, Receives, Starts
    <3>2. linda_bus_read[g] \in Seq(Pairs)
      BY <3>1 DEF IInv, TypeOK
    <3>3. 1 \in DOMAIN linda_bus_read[g] /\ p = Head(linda_bus_read[g])
      BY <3>1, <3>2
    <3>4. p \in Pairs /\ p <= made
      BY <3>1, <3>2, <3>3 DEF IInv, PairsOK
    <3>5. /\ pair' = [pair EXCEPT ![c] = p] /\ made' = made
          /\ linda_bus_read' = [linda_bus_read EXCEPT ![g] = << >>]
      BY <2>2, <3>3 DEF Receives, serverVars
    <3>6. \A h \in Starts : \A i \in DOMAIN linda_bus_read'[h] :
            /\ h # g /\ i \in DOMAIN linda_bus_read[h]
            /\ linda_bus_read'[h][i] = linda_bus_read[h][i]
      BY <3>1, <3>5 DEF IInv, TypeOK
    <3>7. \A h \in Starts : \A i \in DOMAIN linda_bus_read'[h] :
            linda_bus_read'[h][i] # p
      BY <3>1, <3>3, <3>6 DEF IInv, PairsOK
    <3>8. \A d \in Clients : pair[d] # p
      BY <3>1, <3>3 DEF IInv, PairsOK
    <3>9. \A d \in Clients : pair'[d] = IF d = c THEN p ELSE pair[d]
      BY <3>5 DEF IInv, TypeOK
    <3> HIDE DEF g, p
    <3>10. PairsAreOwn'
      BY <3>8, <3>9 DEF IInv, PairsOK, PairsAreOwn
    <3>11. \A h \in Starts : \A i \in DOMAIN linda_bus_read'[h] :
            /\ linda_bus_read'[h][i] <= made'
            /\ \A d \in Clients : pair'[d] # linda_bus_read'[h][i]
      BY <3>5, <3>6, <3>7, <3>9 DEF IInv, PairsOK
    <3>12. \A h, k \in Starts : \A i \in DOMAIN linda_bus_read'[h],
             j \in DOMAIN linda_bus_read'[k] :
               linda_bus_read'[k][j] = linda_bus_read'[h][i] => k = h /\ j = i
      BY <3>6 DEF IInv, PairsOK
    <3>13. \A d \in Clients : pair'[d] <= made'
      BY <3>4, <3>5, <3>9 DEF IInv, PairsOK
    <3> QED
      BY <3>10, <3>11, <3>12, <3>13 DEF PairsOK
  <2>3. CASE ~End(c) /\ ~Receives(c)
    BY <1>1, <1>2, <2>3 DEF ClientActs, Opens, WaitSemaphore, OpenBusRead,
       OpenBusWrite, Sends, PostSemaphore, bytes, serverVars
  <2> QED
    BY <2>1, <2>2, <2>3
<1>3. CASE SendPaths
  <2>1. bus \in Starts /\ linda_bus_read[bus] \in Seq(Pairs)
    <3>1. bus \in Starts
      BY <1>3 DEF IInv, TypeOK, ServerOK, Serving, SendPaths, Starts
    <3> QED
      BY <3>1 DEF IInv, TypeOK
  <2>2. made \in Nat /\ made' = made + 1 /\ pair' = pair
    BY <1>3 DEF IInv, TypeOK, SendPaths, clientVars
  <2>3. /\ linda_bus_read'[bus] = Append(linda_bus_read[bus], made + 1)
        /\ \A h \in Starts \ {bus} : linda_bus_read'[h] = linda_bus_read[h]
    BY <1>3, <2>1, <2>2 DEF IInv, TypeOK, SendPaths
  <2> DEFINE New(h, i) == h = bus /\ i = Len(linda_bus_read[bus]) + 1
  <2>4. \A h \in Starts : \A i \in DOMAIN linda_bus_read'[h] :
          \/ New(h, i) /\ linda_bus_read'[h][i] = made + 1
          \/ /\ i \in DOMAIN linda_bus_read[h]
             /\ linda_bus_read'[h][i] = linda_bus_read[h][i]
    BY <2>1, <2>3
  <2>5. \A h \in Starts : \A i \in DOMAIN linda_bus_read[h] :
          linda_bus_read[h][i] \in Nat /\ linda_bus_read[h][i] <= made
    <3>1. \A h \in Starts : linda_bus_read[h] \in Seq(Pairs) /\ Pairs \subseteq Nat
      BY BusAssumption DEF IInv, TypeOK, Pairs
    <3>2. \A h \in Starts : \A i \in DOMAIN linda_bus_read[h] : linda_bus_read[h][i] \in Nat
      BY <3>1
    <3> QED
      BY <3>2 DEF IInv, PairsOK
  <2>6. \A d \in Clients : pair[d] \in Nat /\ pair[d] <= made
    BY BusAssumption DEF IInv, TypeOK, Pairs, NoPair, PairsOK
  <2>7. \A h \in Starts : \A i \in DOMAIN linda_bus_read'[h] :
          /\ linda_bus_read'[h][i] <= made'
          /\ \A d \in Clients : pair'[d] # linda_bus_read'[h][i]
    BY <2>2, <2>4, <2>5, <2>6 DEF IInv, PairsOK
  <2>8. \A h, k \in Starts : \A i \in DOMAIN linda_bus_read'[h],
           j \in DOMAIN linda_bus_read'[k] :
             linda_bus_read'[k][j] = linda_bus_read'[h][i] => k = h /\ j = i
    BY <2>2, <2>4, <2>5 DEF IInv, PairsOK
  <2> QED
    BY <2>2, <2>6, <2>7, <2>8 DEF IInv, PairsOK, PairsAreOwn
<1>4. CASE Start \/ OpenBus \/ ReadRequests \/ FillParams \/ CreateThread
  BY <1>1, <1>4 DEF Start, OpenBus, ReadRequests, FillParams, CreateThread, bytes, clientVars
<1>5. ASSUME NEW p \in Pairs, CopyParams(p)
      PROVE  PairsOK'
  BY <1>1, <1>5 DEF CopyParams, bytes, clientVars
<1>6. CASE Stops
  <2>1. ForgetBytes(Clients, {}) /\ UNCHANGED <<made, pair>>
    BY <1>6 DEF Stops, ServerEnds, clientVars
  <2> QED
    BY <2>1, BytesForgotten, PairsKept DEF IInv
<1>7. CASE UNCHANGED vars
  BY <1>1, <1>7 DEF vars, bytes, serverVars, clientVars
<1> QED
  BY <1>2, <1>3, <1>4, <1>5, <1>6, <1>7, StepCases DEF MainLoop

-----------------------------------------------------------------------------
(* Before the FIFOs are made nothing can go through them.                  *)
LEMMA UnopenedStep == IInv /\ [Next]_vars => UnopenedOK'
<1> SUFFICES ASSUME IInv, [Next]_vars, starts' = 0 \/ (sem_name' = 1 /\ fifo_name' = 0)
             PROVE  /\ server' \notin Serving /\ ~new_connection'
                    /\ linda_bus_write'[1] = 0 /\ linda_bus_read'[1] = << >>
                    /\ \A c \in Clients : fd_read'[c] = 0 /\ fd_write'[c] = 0
  BY DEF UnopenedOK
<1>1. 1 \in Starts
  BY BusAssumption DEF Starts
<1> USE DEF names, serverVars, clientVars, bytes
<1> DEFINE Unopened ==
      /\ fifo_name = 0
      /\ server \notin Serving /\ ~new_connection
      /\ linda_bus_write[1] = 0 /\ linda_bus_read[1] = << >>
      /\ \A c \in Clients : fd_read[c] = 0 /\ fd_write[c] = 0
<1>2. ASSUME UNCHANGED <<names, starts>>
      PROVE  Unopened
  BY <1>2 DEF IInv, UnopenedOK, NamesOK, TypeOK
<1>3. CASE UNCHANGED vars
  BY <1>2, <1>3 DEF vars
<1>4. ASSUME NEW c \in Clients, ClientActs(c)
      PROVE  /\ server' \notin Serving /\ ~new_connection'
             /\ linda_bus_write'[1] = 0 /\ linda_bus_read'[1] = << >>
             /\ \A d \in Clients : fd_read'[d] = 0 /\ fd_write'[d] = 0
  <2>1. Unopened
    BY <1>2, <1>4 DEF ClientActs, End, Opens, WaitSemaphore, OpenBusRead,
       OpenBusWrite, Sends, Receives, PostSemaphore
  <2>2. CASE End(c)
    BY <1>1, <2>1, <2>2, BytesForgotten DEF IInv, TypeOK, End
  <2>3. CASE OpenBusRead(c) \/ OpenBusWrite(c)
    BY <2>1, <2>3 DEF IInv, TypeOK, OpenBusRead, OpenBusWrite
  <2>4. CASE Opens(c) \/ WaitSemaphore(c) \/ PostSemaphore(c)
    BY <2>1, <2>4 DEF Opens, WaitSemaphore, PostSemaphore
  <2>5. ~Sends(c) /\ ~Receives(c)
    BY <2>1 DEF Sends, Receives, ServerHas, Serving
  <2> QED
    BY <1>4, <2>2, <2>3, <2>4, <2>5 DEF ClientActs
<1>5. CASE Start
  <2>1. starts = 0 \/ (sem_name = 1 /\ fifo_name = 0)
    BY <1>5 DEF IInv, TypeOK, Start
  <2> QED
    BY <1>5, <2>1 DEF IInv, UnopenedOK, Start, Serving
<1>6. ~OpenBus
  BY DEF IInv, TypeOK, ServerOK, OpenBus
<1>7. CASE ReadRequests \/ SendPaths \/ FillParams \/ CreateThread
  BY <1>2, <1>7 DEF ReadRequests, SendPaths, FillParams, CreateThread, Serving
<1>8. ASSUME NEW p \in Pairs, CopyParams(p)
      PROVE  /\ server' \notin Serving /\ ~new_connection'
             /\ linda_bus_write'[1] = 0 /\ linda_bus_read'[1] = << >>
             /\ \A c \in Clients : fd_read'[c] = 0 /\ fd_write'[c] = 0
  BY <1>2, <1>8 DEF CopyParams
<1>9. CASE Stops
  <2>1. UNCHANGED <<names, starts>>
    BY <1>9 DEF Stops, ServerEnds, IInv, TypeOK, ServerOK
  <2>2. ForgetBytes(Clients, {})
    BY <1>9 DEF Stops, ServerEnds
  <2> QED
    BY <1>1, <1>2, <1>9, <2>1, <2>2, BytesForgotten
       DEF IInv, Stops, ServerEnds, Serving
<1> QED
  BY <1>3, <1>4, <1>5, <1>6, <1>7, <1>8, <1>9, StepCases DEF MainLoop

-----------------------------------------------------------------------------
(* What Busy counts are numbers.                                           *)
LEMMA BusyType ==
  ASSUME TypeOK
  PROVE  /\ 1 \in Starts
         /\ linda_bus_write[1] \in Nat /\ Flagged \in {0, 1}
         /\ linda_bus_read[1] \in Seq(Pairs) /\ Len(linda_bus_read[1]) \in Nat
         /\ Busy \in Nat
<1>1. 1 \in Starts
  BY BusAssumption DEF Starts
<1>2. linda_bus_write[1] \in Nat
  BY <1>1, BusAssumption, FS_CardinalityType DEF TypeOK
<1>3. linda_bus_read[1] \in Seq(Pairs)
  BY <1>1 DEF TypeOK
<1>4. Len(linda_bus_read[1]) \in Nat
  BY <1>3
<1>5. Flagged \in {0, 1}
  BY DEF Flagged
<1> QED
  BY <1>1, <1>2, <1>3, <1>4, <1>5 DEF Busy

LEMMA BusyTypeNext ==
  ASSUME TypeOK'
  PROVE  Busy' \in Nat
<1>1. 1 \in Starts
  BY BusAssumption DEF Starts
<1>2. linda_bus_write'[1] \in Nat
  BY <1>1, BusAssumption, FS_CardinalityType DEF TypeOK
<1>3. linda_bus_read'[1] \in Seq(Pairs)
  BY <1>1 DEF TypeOK
<1>4. Len(linda_bus_read'[1]) \in Nat
  BY <1>3
<1>5. Flagged' \in {0, 1}
  BY DEF Flagged
<1> QED
  BY <1>2, <1>4, <1>5 DEF Busy

(* The exchanges stay serial in a step that starts none and opens no FIFO. *)
LEMMA SerialKept ==
  ASSUME IInv, Busy' \in Nat, UNCHANGED names,
         \A c \in Clients : sem'[c] \in {sem[c], sem_name},
         OneSemaphore =>
           /\ server' \in Serving => server \in Serving /\ bus' = bus
           /\ \A c \in Clients : /\ fd_read'[c] \in {fd_read[c], fifo_name, 0}
                                 /\ fd_write'[c] \in {fd_write[c], fifo_name, 0}
           /\ Busy' <= Busy
           /\ bus_sem'[1] = 1 => bus_sem[1] = 1 \/ Busy' = 0
           /\ \A c \in Clients : pc'[c] \in Holding \ {"response"} =>
                pc[c] \in Holding \ {"response"} \/ Busy' = 0
  PROVE  SerialOK'
<1>1. /\ SerialOK /\ Busy \in Nat /\ sem_name' = sem_name
      /\ OneSemaphore' <=> OneSemaphore
  BY BusyType DEF IInv, OneSemaphore, names
<1>2. sem_name = 1 => \A c \in Clients : sem'[c] <= 1
  BY <1>1 DEF SerialOK
<1>3. ASSUME OneSemaphore
      PROVE  /\ server' \in Serving => bus' = 1
             /\ \A c \in Clients : fd_read'[c] <= 1 /\ fd_write'[c] <= 1
             /\ Busy' <= 1
             /\ bus_sem'[1] = 1 => Busy' = 0
             /\ \A c \in Clients : pc'[c] \in Holding \ {"response"} => Busy' = 0
  <2>1. \A c \in Clients : fd_read'[c] <= 1 /\ fd_write'[c] <= 1
    BY <1>1, <1>3 DEF SerialOK, OneSemaphore
  <2>2. Busy = 0 => Busy' = 0
    BY <1>1, <1>3
  <2> QED
    BY <1>1, <1>3, <2>1, <2>2 DEF SerialOK
<1>4. Serving' = Serving /\ Holding' = Holding
  BY DEF Serving, Holding
<1> QED
  BY <1>1, <1>2, <1>3, <1>4 DEF SerialOK

(* A step of a client: only Sends makes the bus busy, when it is not.      *)
LEMMA SerialClientStep ==
  ASSUME IInv, TypeOK', NEW c \in Clients, ClientActs(c)
  PROVE  SerialOK'
<1> USE DEF names, serverVars, bytes
<1>1. /\ TypeOK /\ 1 \in Starts /\ Busy \in Nat /\ Busy' \in Nat
      /\ linda_bus_write[1] \in Nat /\ Flagged \in {0, 1}
      /\ linda_bus_read[1] \in Seq(Pairs) /\ Len(linda_bus_read[1]) \in Nat
  BY BusyType, BusyTypeNext DEF IInv
<1>2. CASE End(c)
  <2>1. /\ linda_bus_write'[1] \in {linda_bus_write[1], 0}
        /\ linda_bus_read'[1] \in {linda_bus_read[1], << >>}
    BY <1>1, <1>2, BytesForgotten DEF End
  <2>2. Flagged' = Flagged /\ Busy' <= Busy
    <3>1. Flagged' = Flagged
      BY <1>2 DEF End, Flagged
    <3>2. linda_bus_write'[1] <= linda_bus_write[1]
      BY <1>1, <2>1
    <3>3. Len(linda_bus_read'[1]) \in {Len(linda_bus_read[1]), 0}
      BY <2>1
    <3> QED
      BY ONLY <1>1, <2>1, <3>1, <3>2, <3>3 DEF Busy
  <2> QED
    BY <1>1, <1>2, <2>2, SerialKept DEF TypeOK, End, Holding
<1>3. CASE Opens(c) \/ OpenBusRead(c) \/ OpenBusWrite(c)
  <2>1. Busy' = Busy
    BY <1>3 DEF Opens, OpenBusRead, OpenBusWrite, Flagged, Busy
  <2>2. \A d \in Clients : /\ sem'[d] \in {sem[d], sem_name}
                           /\ fd_read'[d] \in {fd_read[d], fifo_name, 0}
                           /\ fd_write'[d] \in {fd_write[d], fifo_name, 0}
    BY <1>1, <1>3 DEF TypeOK, Opens, OpenBusRead, OpenBusWrite
  <2>3. \A d \in Clients : pc'[d] \in Holding \ {"response"} =>
          pc[d] \in Holding \ {"response"}
    BY <1>1, <1>3 DEF TypeOK, Opens, OpenBusRead, OpenBusWrite, GoTo, Holding
  <2>4. server' = server /\ bus' = bus /\ bus_sem' = bus_sem /\ UNCHANGED names
    BY <1>3 DEF Opens, OpenBusRead, OpenBusWrite
  <2> QED
    BY <1>1, <2>1, <2>2, <2>3, <2>4, SerialKept
<1>4. CASE WaitSemaphore(c)
  <2>1. Busy' = Busy
    BY <1>4 DEF WaitSemaphore, Flagged, Busy
  <2>2. OneSemaphore => sem[c] = 1
    BY <1>1, <1>4 DEF IInv, TypeOK, NamesOK, SerialOK, OneSemaphore, WaitSemaphore, GoTo
  <2>3. OneSemaphore => Busy = 0 /\ bus_sem'[1] # 1
    BY <1>1, <1>4, <2>2 DEF IInv, TypeOK, SerialOK, WaitSemaphore
  <2> QED
    BY <1>1, <1>4, <2>1, <2>3, SerialKept DEF WaitSemaphore
<1>5. CASE Sends(c)
  <2>1. Flagged' = Flagged /\ UNCHANGED <<bus_sem, sem, fd_read, fd_write, bus, server>>
    BY <1>5 DEF Sends, Flagged
  <2>2. pc' = [pc EXCEPT ![c] = "response"] /\ pc[c] = "request"
    BY <1>5 DEF Sends, GoTo
  <2>3. ASSUME OneSemaphore
        PROVE  /\ Busy = 0 /\ Busy' <= 1 /\ bus_sem[1] = 0
               /\ \A d \in Clients : pc'[d] \in Holding => d = c
    <3>1. Busy = 0
      BY <2>2, <2>3 DEF IInv, SerialOK, Holding
    <3>2. \A d \in Clients : pc[d] \in Holding => sem[d] = 1
      <4>1. \A d \in Clients : sem[d] \in Nat /\ sem[d] <= 1
        BY <1>1, <2>3, BusAssumption DEF IInv, TypeOK, SerialOK, OneSemaphore
      <4> QED
        BY <4>1 DEF IInv, NamesOK
    <3>3. bus_sem[1] = 0 /\ \A d \in Clients : pc[d] \in Holding => d = c
      BY <2>2, <3>2 DEF IInv, HolderOK, Holding
    <3>4. linda_bus_write'[1] <= linda_bus_write[1] + 1 /\ linda_bus_write'[1] \in Nat
      BY <1>1, <1>5 DEF TypeOK, Sends
    <3>5. Len(linda_bus_read'[1]) = Len(linda_bus_read[1])
      BY <1>5 DEF Sends
    <3>6. Busy' <= 1
      BY <1>1, <2>1, <3>1, <3>4, <3>5 DEF Busy
    <3>7. \A d \in Clients : pc'[d] \in Holding => d = c
      BY <1>1, <2>2, <3>3 DEF TypeOK
    <3> QED
      BY <3>1, <3>3, <3>6, <3>7
  <2>4. pc'[c] = "response"
    BY <1>1, <2>2 DEF TypeOK
  <2>5. OneSemaphore' = OneSemaphore /\ sem_name' = sem_name
    BY <1>5 DEF Sends, OneSemaphore
  <2> QED
    BY <2>1, <2>3, <2>4, <2>5 DEF IInv, SerialOK, Holding, Serving
<1>6. CASE Receives(c)
  <2>1. /\ fd_read[c] # 0 /\ linda_bus_read[fd_read[c]] # << >>
        /\ linda_bus_read' = [linda_bus_read EXCEPT ![fd_read[c]] = << >>]
        /\ linda_bus_write' = linda_bus_write /\ Flagged' = Flagged
    BY <1>6 DEF Receives, Flagged
  <2>2. ASSUME OneSemaphore
        PROVE  Busy' = 0 /\ Busy' <= Busy
    <3>1. fd_read[c] = 1
      <4>1. fd_read[c] \in Nat
        BY <1>1, BusAssumption DEF TypeOK
      <4>2. fd_read[c] <= 1
        BY <2>2 DEF IInv, SerialOK
      <4> QED
        BY <2>1, <4>1, <4>2
    <3>2. Len(linda_bus_read[1]) # 0 /\ linda_bus_read'[1] = << >>
      BY <1>1, <2>1, <3>1 DEF TypeOK
    <3>3. Len(linda_bus_read'[1]) = 0
      BY <3>2
    <3>4. Busy <= 1
      BY <2>2 DEF IInv, SerialOK
    <3> QED
      BY <1>1, <2>1, <3>2, <3>3, <3>4 DEF Busy
  <2> QED
    BY <1>1, <1>6, <2>2, SerialKept DEF Receives
<1>7. CASE PostSemaphore(c)
  <2>1. Busy' = Busy
    BY <1>7 DEF PostSemaphore, Flagged, Busy
  <2>2. OneSemaphore => Busy = 0
    BY <1>7 DEF IInv, SerialOK, PostSemaphore, GoTo, Holding
  <2> QED
    BY <1>1, <1>7, <2>1, <2>2, SerialKept DEF PostSemaphore
<1> QED
  BY <1>2, <1>3, <1>4, <1>5, <1>6, <1>7 DEF ClientActs

(* An exchange moves from the FIFO to the flag, and from there to the other*)
(* FIFO, without being doubled.                                            *)
LEMMA SerialStep == IInv /\ [Next]_vars => SerialOK'
<1> SUFFICES ASSUME IInv, [Next]_vars
             PROVE  SerialOK'
  OBVIOUS
<1> USE DEF names, serverVars, clientVars, bytes
<1>1. /\ TypeOK /\ 1 \in Starts /\ Busy \in Nat /\ Busy' \in Nat
      /\ linda_bus_write[1] \in Nat /\ Flagged \in {0, 1}
      /\ linda_bus_read[1] \in Seq(Pairs) /\ Len(linda_bus_read[1]) \in Nat
  BY BusyType, BusyTypeNext, TypeStep DEF IInv
<1>2. CASE UNCHANGED vars
  BY <1>2 DEF IInv, vars, SerialOK, OneSemaphore, Busy, Flagged, Serving, Holding
<1>3. ASSUME NEW c \in Clients, ClientActs(c)
      PROVE  SerialOK'
  BY <1>3, TypeStep, SerialClientStep
<1>4. CASE Start
  <2>1. CASE sem_name = 0
    <3>1. sem_name' = starts + 1 /\ fifo_name' = fifo_name /\ sem' = sem
      BY <1>4, <2>1 DEF Start
    <3>2. fifo_name <= starts /\ \A c \in Clients : sem[c] <= starts
      BY DEF IInv, NamesOK
    <3>3. sem_name' = 1 => starts = 0
      BY <1>1, <3>1 DEF TypeOK
    <3>4. sem_name' = 1 => fifo_name' = 0
      BY <1>1, <3>1, <3>2, <3>3 DEF TypeOK
    <3>5. sem_name' = 1 => \A c \in Clients : sem'[c] <= 1
      BY <1>1, <3>1, <3>2, <3>3 DEF TypeOK
    <3>6. ~OneSemaphore'
      BY <3>4 DEF OneSemaphore
    <3> QED
      BY <3>5, <3>6 DEF SerialOK
  <2>2. CASE sem_name # 0
    <3>1. Flagged' = 0
      BY <1>4 DEF Start, Flagged
    <3>2. Busy' <= Busy
      BY <1>1, <1>4, <3>1 DEF Start, Busy
    <3> QED
      BY <1>1, <1>4, <2>2, <3>2, SerialKept DEF Start, Serving
  <2> QED
    BY <2>1, <2>2
<1>5. CASE OpenBus
  <2>1. Flagged' = 0
    BY <1>5 DEF IInv, ServerOK, OpenBus, Flagged
  <2>2. Busy' <= Busy
    BY <1>1, <1>5, <2>1 DEF OpenBus, Busy
  <2>3. sem_name' = 1 => \A c \in Clients : sem'[c] <= 1
    BY <1>5 DEF IInv, SerialOK, OpenBus
  <2>4. OneSemaphore' => bus' = 1
    BY <1>5 DEF OneSemaphore, OpenBus
  <2>5. ASSUME OneSemaphore', fifo_name = 0
        PROVE  Busy' = 0 /\ \A c \in Clients : fd_read'[c] <= 1 /\ fd_write'[c] <= 1
    <3>1. /\ linda_bus_write[1] = 0 /\ linda_bus_read[1] = << >>
          /\ \A c \in Clients : fd_read[c] = 0 /\ fd_write[c] = 0
      BY <1>5, <2>5 DEF IInv, UnopenedOK, OneSemaphore, OpenBus
    <3> QED
      BY <1>5, <2>1, <3>1 DEF OpenBus, Busy
  <2>6. CASE fifo_name = 0
    BY <2>3, <2>4, <2>5, <2>6 DEF SerialOK
  <2>7. ASSUME OneSemaphore', fifo_name # 0
        PROVE  OneSemaphore
    BY <1>5, <2>7 DEF OneSemaphore, OpenBus
  <2>8. CASE fifo_name # 0
    <3>1. ASSUME OneSemaphore'
          PROVE  /\ \A c \in Clients : fd_read'[c] <= 1 /\ fd_write'[c] <= 1
                 /\ Busy <= 1
                 /\ bus_sem'[1] = 1 => Busy = 0
                 /\ \A c \in Clients : pc'[c] \in Holding \ {"response"} => Busy = 0
      BY <1>5, <2>7, <2>8, <3>1 DEF IInv, SerialOK, OpenBus
    <3>2. Busy = 0 => Busy' = 0
      BY <1>1, <2>2
    <3> QED
      BY <1>1, <2>2, <2>3, <2>4, <3>1, <3>2 DEF SerialOK, Holding
  <2> QED
    BY <2>6, <2>8
<1>6. ASSUME ReadRequests \/ SendPaths \/ FillParams \/ CreateThread
      PROVE  SerialOK'
  <2>1. /\ server \in Serving /\ server' \in Serving
        /\ UNCHANGED <<sem_name, fifo_name, bus, bus_sem, pc, sem, fd_read, fd_write>>
    BY <1>6 DEF ReadRequests, SendPaths, FillParams, CreateThread, Serving
  <2>2. ASSUME OneSemaphore
        PROVE  Busy' <= Busy
    <3>1. bus = 1 /\ linda_bus_write[1] \in {0, 1} /\ Busy <= 1
      BY <1>1, <2>1, <2>2 DEF IInv, SerialOK, Busy
    <3>2. CASE ReadRequests
      <4>1. /\ linda_bus_write[1] = 1 /\ linda_bus_write'[1] = 0
            /\ linda_bus_read' = linda_bus_read
        BY <1>1, <3>1, <3>2 DEF TypeOK, ReadRequests
      <4>2. Flagged' \in 0..1
        BY DEF Flagged
      <4> QED
        <5>1. Len(linda_bus_read'[1]) = Len(linda_bus_read[1])
          BY <4>1
        <5>2. Busy' = Flagged' + Len(linda_bus_read[1])
          BY <1>1, <4>1, <4>2, <5>1 DEF Busy
        <5>3. Busy = 1 + Flagged + Len(linda_bus_read[1])
          BY <4>1 DEF Busy
        <5>4. Flagged \in 0..1 /\ Flagged' \in 0..1
          BY DEF Flagged
        <5>5. \A f, g \in 0..1, l \in Nat : g + l <= 1 + f + l
          OBVIOUS
        <5> QED
          BY <1>1, <5>2, <5>3, <5>4, <5>5
    <3>3. CASE SendPaths
      <4>1. Flagged = 1 /\ Flagged' = 0 /\ linda_bus_write' = linda_bus_write
        BY <3>3 DEF SendPaths, Flagged
      <4>2. linda_bus_read'[1] = Append(linda_bus_read[1], made')
        BY <1>1, <3>1, <3>3 DEF TypeOK, SendPaths
      <4>3. Len(linda_bus_read'[1]) = Len(linda_bus_read[1]) + 1
        BY <1>1, <4>2
      <4> QED
        BY <1>1, <4>1, <4>3 DEF Busy
    <3>4. CASE FillParams \/ CreateThread
      <4>1. Flagged' = 0 /\ UNCHANGED <<linda_bus_write, linda_bus_read>>
        BY <3>4 DEF FillParams, CreateThread, Flagged
      <4> QED
        BY <1>1, <4>1 DEF Busy
    <3> QED
      BY <1>6, <3>2, <3>3, <3>4
  <2> QED
    BY <1>1, <2>1, <2>2, SerialKept
<1>7. ASSUME NEW p \in Pairs, CopyParams(p)
      PROVE  SerialOK'
  <2>1. Busy' = Busy
    BY <1>7 DEF CopyParams, Busy, Flagged
  <2> QED
    BY <1>1, <1>7, <2>1, SerialKept DEF CopyParams
<1>8. CASE Stops
  <2>1. CASE sem_name' = 0
    BY <2>1 DEF SerialOK, OneSemaphore
  <2>2. CASE UNCHANGED names
    <3>1. ForgetBytes(Clients, {})
      BY <1>8 DEF Stops, ServerEnds
    <3>2. /\ linda_bus_write'[1] \in {linda_bus_write[1], 0}
          /\ linda_bus_read'[1] \in {linda_bus_read[1], << >>}
      BY <1>1, <3>1, BytesForgotten
    <3>3. Flagged' = 0
      BY <1>8 DEF Stops, ServerEnds, Flagged
    <3>4. linda_bus_write'[1] <= linda_bus_write[1] /\ linda_bus_write'[1] \in Nat
      BY <1>1, <3>2
    <3>5. Len(linda_bus_read'[1]) <= Len(linda_bus_read[1])
      BY <1>1, <3>2
    <3>6. Len(linda_bus_read'[1]) \in Nat
      BY <1>1, <3>2
    <3>7. Busy' <= Busy
      BY <1>1, <3>3, <3>4, <3>5, <3>6 DEF Busy
    <3> QED
      BY <1>1, <1>8, <2>2, <3>7, SerialKept DEF Stops, ServerEnds, Serving
  <2> QED
    BY <1>8, <2>1, <2>2 DEF Stops
<1> QED
  BY <1>2, <1>3, <1>4, <1>5, <1>6, <1>7, <1>8, StepCases DEF MainLoop

-----------------------------------------------------------------------------
(* Before the first start all of it holds.                                 *)
LEMMA InitialIInv == Init => IInv
<1> SUFFICES ASSUME Init
             PROVE  IInv
  OBVIOUS
<1> USE DEF Init
<1>1. Cardinality(Clients) \in Nat /\ Cardinality(Requested) \in Nat
  <2>1. IsFiniteSet(Requested)
    BY BusAssumption, FS_Subset DEF Requested
  <2> QED
    BY <2>1, BusAssumption, FS_CardinalityType
<1>2. 1 \in Starts /\ \A g \in Starts : linda_bus_read[g] = << >>
  BY BusAssumption DEF Starts
<1>3. TypeOK
  <2>1. /\ bus_sem \in [Starts -> 0..1]
        /\ linda_bus_write \in [Starts -> 0..Cardinality(Clients)]
    BY <1>1
  <2>2. linda_bus_read \in [Starts -> Seq(Pairs)]
    OBVIOUS
  <2>3. threads \in [Pairs -> [at : {"none", "created", "serving"},
                               read_path : Pairs \cup {NoPair, Torn},
                               write_path : Pairs \cup {NoPair, Torn}]]
    BY DEF NoThread
  <2>4. params \in [{"read_path", "write_path"} -> SUBSET (Pairs \cup {Torn})]
    OBVIOUS
  <2>5. 0 \in 0..MaxStarts /\ 0 \in 0..MaxPairs
    BY BusAssumption
  <2>6. pc \in [Clients -> ClientLocations] /\ server \in ServerLocations
    BY DEF ClientLocations, ServerLocations
  <2> QED
    BY <2>1, <2>2, <2>3, <2>4, <2>5, <2>6 DEF TypeOK
<1>4. ServerOK /\ NamesOK /\ HolderOK
  BY DEF ServerOK, Serving, NamesOK, HolderOK, Holding
<1>5. RequestsOK
  BY <1>1 DEF RequestsOK
<1>6. PairsOK
  BY <1>2 DEF PairsOK, PairsAreOwn, NoPair
<1>7. UnopenedOK /\ SerialOK
  BY <1>2 DEF UnopenedOK, SerialOK, Serving, OneSemaphore
<1> QED
  BY <1>3, <1>4, <1>5, <1>6, <1>7 DEF IInv

(* And every step keeps all of it.                                         *)
LEMMA InductiveIInv == IInv /\ [Next]_vars => IInv'
BY TypeStep, ServerStep, NamesStep, HolderStep, RequestsStep, PairsStep,
   UnopenedStep, SerialStep DEF IInv

LEMMA InvariantIInv == Spec => []IInv
<1>1. Init => IInv
  BY InitialIInv
<1>2. IInv /\ [Next]_vars => IInv'
  BY InductiveIInv
<1> QED
  BY <1>1, <1>2, PTL DEF Spec

-----------------------------------------------------------------------------
(* Every variable keeps its type: in particular no semaphore is posted     *)
(* above 1 and no client sends a second request into a FIFO, however often *)
(* server and clients end between two steps of Client::connect.            *)
THEOREM BusTypeCorrectness == Spec => []TypeOK
<1>1. IInv => TypeOK
  BY DEF IInv
<1> QED
  BY <1>1, InvariantIInv, PTL

(* /bus_mutex is a mutex, whatever faults happen and however many servers  *)
(* find it made: sem_open with O_CREAT in Server::Server leaves its value  *)
(* alone, and Client::connect posts it only after its own sem_wait.        *)
THEOREM BusIsAMutex == Spec => []BusMutex
<1>1. ASSUME IInv, NEW g \in Starts
      PROVE  bus_sem[g] + Cardinality({c \in Clients : pc[c] \in Holding /\ sem[c] = g}) <= 1
  <2> DEFINE Holders == {c \in Clients : pc[c] \in Holding /\ sem[c] = g}
  <2>1. bus_sem[g] \in 0..1
    BY <1>1 DEF IInv, TypeOK
  <2>2. CASE Holders = {}
    <3>1. Cardinality(Holders) = 0
      BY <2>2, FS_EmptySet
    <3> QED
      BY <2>1, <3>1
  <2>3. CASE Holders # {}
    <3>1. PICK c \in Holders : TRUE
      BY <2>3
    <3>2. bus_sem[g] = 0 /\ Holders = {c}
      BY <1>1, <3>1 DEF IInv, HolderOK
    <3>3. Cardinality(Holders) = 1
      BY <3>2, FS_Singleton
    <3> QED
      BY <3>2, <3>3
  <2> QED
    BY <2>2, <2>3
<1>2. IInv => BusMutex
  BY <1>1 DEF BusMutex
<1> QED
  BY <1>2, InvariantIInv, PTL

(* No two clients are told the paths of one FIFO pair, although a response *)
(* of Server::sendPaths does not say whom it is for.                       *)
THEOREM PairsAreNeverShared == Spec => []PairsAreOwn
<1>1. IInv => PairsAreOwn
  BY DEF IInv, PairsOK
<1> QED
  BY <1>1, InvariantIInv, PTL

(* As long as sigHandler has not unlinked the semaphore, the requests and  *)
(* responses on the bus are one exchange at a time, and a client that      *)
(* begins one finds nothing left over -- after any crashes and restarts.   *)
THEOREM ExchangesOnTheBusAreSerial == Spec => []ExchangesAreSerial
<1>1. ASSUME IInv, OneSemaphore, server \in Serving
      PROVE  /\ Unanswered + Len(linda_bus_read[bus]) = Busy
             /\ Busy <= 1
             /\ \A c \in Clients : pc[c] \in {"open_read", "open_write", "request"}
                                     => Busy = 0
  BY <1>1 DEF IInv, SerialOK, Unanswered, Busy, Flagged, Holding
<1>2. IInv => ExchangesAreSerial
  BY <1>1 DEF ExchangesAreSerial, Serving
<1> QED
  BY <1>2, InvariantIInv, PTL

-----------------------------------------------------------------------------
(* The pair that a client was told stays told.                             *)
LEMMA ToldStep == IInv /\ ToldOK /\ [Next]_vars => ToldOK'
<1> SUFFICES ASSUME IInv, ToldOK, [Next]_vars
             PROVE  ToldOK'
  OBVIOUS
<1>1. CASE UNCHANGED <<pc, pair>>
  BY <1>1 DEF ToldOK
<1>2. ASSUME NEW c \in Clients, ClientActs(c)
      PROVE  ToldOK'
  <2>1. CASE Receives(c)
    <3> DEFINE g == fd_read[c]
    <3>1. g \in Starts /\ linda_bus_read[g] # << >>
      BY <2>1 DEF IInv, TypeOK, Receives, Starts
    <3>2. linda_bus_read[g] \in Seq(Pairs)
      BY <3>1 DEF IInv, TypeOK
    <3>3. Head(linda_bus_read[g]) \in Pairs
      BY <3>1, <3>2
    <3>4. Head(linda_bus_read[g]) # NoPair
      BY <3>3, BusAssumption DEF Pairs, NoPair
    <3> QED
      BY <2>1, <3>4 DEF IInv, TypeOK, ToldOK, Receives, GoTo
  <2>2. CASE ~Receives(c)
    <3>1. /\ UNCHANGED pair
          /\ \A d \in Clients : pc'[d] \in {"post", "connected"}
                                  => pc[d] \in {"post", "connected"}
      BY <1>2, <2>2 DEF IInv, TypeOK, ClientActs, GoTo, End, Opens,
         WaitSemaphore, OpenBusRead, OpenBusWrite, Sends, PostSemaphore
    <3> QED
      BY <3>1 DEF ToldOK
  <2> QED
    BY <2>1, <2>2
<1>3. CASE MainLoop \/ (\E p \in Pairs : CopyParams(p)) \/ Stops \/ UNCHANGED vars
  BY <1>1, <1>3 DEF MainLoop, Start, OpenBus, ReadRequests, SendPaths, FillParams,
     CreateThread, CopyParams, Stops, ServerEnds, clientVars, vars
<1> QED
  BY <1>2, <1>3, StepCases

(* Each thread of the first server keeps to its own pair.                  *)
LEMMA ThreadsStep == IInv /\ ThreadsOK /\ [Next]_vars => ThreadsOK'
<1> SUFFICES ASSUME IInv, ThreadsOK, [Next]_vars
             PROVE  ThreadsOK'
  OBVIOUS
<1>1. CASE UNCHANGED <<starts, server, made, params, threads, overtaken>>
  BY <1>1 DEF ThreadsOK, Serving, Current
<1>2. ASSUME NEW c \in Clients, ClientActs(c)
      PROVE  ThreadsOK'
  BY <1>1, <1>2 DEF ClientActs, End, Opens, WaitSemaphore, OpenBusRead,
     OpenBusWrite, Sends, Receives, PostSemaphore, serverVars
<1>3. TypeOK /\ Pairs \subseteq Nat /\ made \in Nat
  BY BusAssumption DEF IInv, TypeOK, Pairs
<1>4. CASE Start
  <2>1. /\ server' = "starting" /\ starts' = starts + 1
        /\ UNCHANGED <<made, params, threads, overtaken>>
    BY <1>4 DEF Start
  <2>2. starts \in Nat
    BY BusAssumption DEF IInv, TypeOK
  <2> QED
    BY <2>1, <2>2 DEF ThreadsOK, Serving, Current
<1>5. CASE OpenBus
  <2>1. /\ server = "starting" /\ server' = "poll" /\ starts # 0
        /\ UNCHANGED <<starts, made, params, threads, overtaken>>
    BY <1>5 DEF OpenBus, IInv, ServerOK
  <2>2. starts = 1 => \A p \in Pairs : p > made
    BY <2>1, BusAssumption DEF ThreadsOK, Pairs
  <2>3. \A p \in Pairs : p > made => threads[p].at = "none"
    BY DEF ThreadsOK
  <2>4. \A p \in Pairs : Current(p)' <=> FALSE
    BY <2>1 DEF Current
  <2>5. \A p \in Pairs : threads[p].at # "serving" =>
          threads[p].read_path = NoPair /\ threads[p].write_path = NoPair
    BY DEF ThreadsOK
  <2> QED
    BY <2>1, <2>2, <2>3, <2>4, <2>5 DEF ThreadsOK
<1>6. CASE ReadRequests
  BY <1>1, <1>6 DEF ReadRequests
<1>7. CASE SendPaths
  <2>1. /\ server = "poll" /\ server' = "fill" /\ made' = made + 1
        /\ UNCHANGED <<starts, params, threads, overtaken>>
    BY <1>7 DEF SendPaths
  <2>2. starts # 0
    BY <2>1 DEF IInv, ServerOK
  <2>3. \A p \in Pairs : (p > made' \/ p = made') <=> p > made
    BY <1>3, <2>1
  <2> QED
    BY <2>1, <2>2, <2>3 DEF ThreadsOK, Serving, Current
<1>8. CASE FillParams
  <2>1. /\ server = "fill" /\ server' = "create"
        /\ overtaken' = (overtaken \/ \E p \in Pairs : threads[p].at = "created")
        /\ UNCHANGED <<starts, made, threads>>
    BY <1>8 DEF FillParams
  <2>2. ~overtaken' => ~overtaken /\ \A p \in Pairs : threads[p].at # "created"
    BY <2>1
  <2>3. starts # 0
    BY <2>1 DEF IInv, ServerOK
  <2> QED
    BY <2>1, <2>2, <2>3 DEF ThreadsOK, Serving, Current
<1>9. CASE CreateThread
  <2>1. /\ server = "create" /\ server' = "poll"
        /\ params' = [field \in {"read_path", "write_path"} |-> {made}]
        /\ threads' = [threads EXCEPT ![made] = [threads[made] EXCEPT !.at = "created"]]
        /\ UNCHANGED <<starts, made, overtaken>>
    BY <1>9 DEF CreateThread
  <2>2. made \in Pairs /\ starts # 0
    BY <2>1 DEF IInv, TypeOK, ServerOK, Pairs
  <2>3. /\ threads'[made].at = "created"
        /\ threads'[made].read_path = threads[made].read_path
        /\ threads'[made].write_path = threads[made].write_path
        /\ \A p \in Pairs \ {made} : threads'[p] = threads[p]
    BY <1>3, <2>1, <2>2 DEF TypeOK
  <2>4. params'.read_path = {made} /\ params'.write_path = {made}
    BY <2>1
  <2>5. threads[made].at = "none"
    BY <2>1, <2>2 DEF ThreadsOK, Current
  <2>6. starts = 1 /\ ~overtaken => \A p \in Pairs : threads[p].at # "created"
    BY <2>1 DEF ThreadsOK, Serving
  <2>7. ASSUME NEW p \in Pairs, threads'[p].at # "serving"
        PROVE  threads'[p].read_path = NoPair /\ threads'[p].write_path = NoPair
    <3>1. CASE p = made
      BY <2>2, <2>3, <2>5, <3>1 DEF ThreadsOK
    <3>2. CASE p # made
      BY <2>3, <2>7, <3>2 DEF ThreadsOK
    <3> QED
      BY <3>1, <3>2
  <2>8. starts' = 1 /\ server' \in Serving => \A p \in Pairs :
          /\ threads'[p].at = "none" => p > made
          /\ ~overtaken /\ threads'[p].at = "created" => p = made
          /\ ~overtaken /\ threads'[p].at = "serving" =>
               threads'[p].read_path = p /\ threads'[p].write_path = p
    BY <1>3, <2>1, <2>2, <2>3, <2>5, <2>6 DEF ThreadsOK, Serving, Current
  <2>9. \A p \in Pairs : p > made => threads'[p].at = "none"
    BY <1>3, <2>2, <2>3 DEF ThreadsOK
  <2> QED
    BY <2>1, <2>2, <2>4, <2>7, <2>8, <2>9 DEF ThreadsOK, Serving, Current
<1>10. ASSUME NEW q \in Pairs, CopyParams(q)
       PROVE  ThreadsOK'
  <2>1. PICK r \in params.read_path, w \in params.write_path :
          threads' = [threads EXCEPT
                        ![q] = [at |-> "serving", read_path |-> r, write_path |-> w]]
    BY <1>10 DEF CopyParams
  <2>2. /\ threads[q].at = "created"
        /\ UNCHANGED <<starts, server, made, params, overtaken>>
    BY <1>10 DEF CopyParams
  <2>3. /\ threads'[q].at = "serving"
        /\ threads'[q].read_path = r /\ threads'[q].write_path = w
        /\ \A p \in Pairs \ {q} : threads'[p] = threads[p]
    BY <1>3, <2>1 DEF TypeOK
  <2>4. starts = 1 /\ server \in Serving /\ ~overtaken => r = q /\ w = q
    BY <2>1, <2>2 DEF ThreadsOK
  <2> QED
    BY <2>2, <2>3, <2>4 DEF ThreadsOK, Serving, Current
<1>11. CASE Stops
  <2>1. /\ server' = "down" /\ UNCHANGED <<starts, made>>
        /\ threads' = [p \in Pairs |-> NoThread]
    BY <1>11 DEF Stops, ServerEnds
  <2> QED
    BY <2>1 DEF ThreadsOK, Serving, NoThread
<1>12. CASE UNCHANGED vars
  BY <1>1, <1>12 DEF vars, serverVars
<1> QED
  BY <1>2, <1>4, <1>5, <1>6, <1>7, <1>8, <1>9, <1>10, <1>11, <1>12, StepCases
  DEF MainLoop

(* As long as the server runs that was started first, and no thread was    *)
(* overtaken, a connected client has one service thread, which reads and   *)
(* writes the FIFOs of the client's pair and no others.                    *)
THEOREM ClientsAreServedByTheirOwnThread == Spec => []ServedByOwnThread
<1>1. Init => ServedInv
  <2>1. Init => ToldOK /\ ThreadsOK
    BY DEF Init, ToldOK, ThreadsOK, NoThread, Serving
  <2> QED
    BY <2>1, InitialIInv DEF ServedInv
<1>2. ServedInv /\ [Next]_vars => ServedInv'
  BY InductiveIInv, ToldStep, ThreadsStep DEF ServedInv
<1>3. ServedInv => ServedByOwnThread
  <2> SUFFICES ASSUME ServedInv, Settled, ~overtaken, starts = 1,
                      NEW c \in Clients, pc[c] = "connected"
               PROVE  \E p \in Pairs :
                        /\ {q \in Pairs : threads[q].read_path = pair[c]} = {p}
                        /\ {q \in Pairs : threads[q].write_path = pair[c]} = {p}
    BY DEF ServedByOwnThread
  <2>1. Pairs \subseteq Nat /\ made \in Nat
    BY BusAssumption DEF ServedInv, IInv, TypeOK, Pairs
  <2>2. pair[c] \in Pairs /\ pair[c] <= made /\ pair[c] # NoPair
    BY DEF ServedInv, IInv, TypeOK, PairsOK, ToldOK
  <2>3. \A q \in Pairs :
          /\ q <= made => threads[q].read_path = q /\ threads[q].write_path = q
          /\ ~(q <= made) => threads[q].read_path = NoPair /\ threads[q].write_path = NoPair
    <3> SUFFICES ASSUME NEW q \in Pairs
                 PROVE  /\ q <= made => threads[q].read_path = q /\ threads[q].write_path = q
                        /\ ~(q <= made) => /\ threads[q].read_path = NoPair
                                           /\ threads[q].write_path = NoPair
      OBVIOUS
    <3>1. threads[q].at \in {"none", "created", "serving"}
      BY DEF ServedInv, IInv, TypeOK
    <3>2. threads[q].at = "none" <=> ~(q <= made)
      BY <2>1 DEF ServedInv, ThreadsOK, Settled, Serving, Current
    <3>3. threads[q].at # "created"
      BY DEF Settled
    <3> QED
      BY <3>1, <3>2, <3>3 DEF ServedInv, ThreadsOK, Settled, Serving
  <2>4. /\ {q \in Pairs : threads[q].read_path = pair[c]} = {pair[c]}
        /\ {q \in Pairs : threads[q].write_path = pair[c]} = {pair[c]}
    BY <2>2, <2>3
  <2> QED
    BY <2>2, <2>4
<1> QED
  BY <1>1, <1>2, <1>3, PTL DEF Spec

=============================================================================
