---------------------------- MODULE LoggingProofs ----------------------------
(***************************************************************************)
(* Theorems about Logging for TLAPS, for all threads, signals and numbers  *)
(* of lines.  Every action replaces the running call, replaces it and      *)
(* calls, returns, or puts a call on top; the lemmas in front say what     *)
(* each of these does to a stack, and the step lemmas only name the form.  *)
(***************************************************************************)
EXTENDS LoggingInvariant, SequenceTheorems, FiniteSetTheorems, TLAPS

-----------------------------------------------------------------------------
(* A stack that is not empty is the calls that wait and the running one.   *)
LEMMA StackParts ==
  ASSUME NEW s \in Seq(Frames), s # << >>
  PROVE  /\ Front(s) \in Seq(Frames) /\ Last(s) \in Frames
         /\ Len(s) \in Nat \ {0} /\ Len(s) \in 1..Len(s) /\ Last(s) = s[Len(s)]
         /\ Len(Front(s)) = Len(s) - 1
         /\ \A i \in 1..(Len(s) - 1) : Front(s)[i] = s[i] /\ i \in 1..Len(s)
         /\ s = Append(Front(s), Last(s))
  <1> DEFINE n == Len(s) - 1
  <1>1. Len(s) \in Nat \ {0} /\ n \in Nat /\ Len(s) \in 1..Len(s)
    BY EmptySeq
  <1>2. \A i \in 1..Len(s) : s[i] \in Frames
    BY ElementOfSeq
  <1>3. \A i \in 1..n : i \in 1..Len(s)
    BY <1>1
  <1>4. /\ Front(s) \in Seq(Frames) /\ Len(Front(s)) = n
        /\ \A i \in 1..n : Front(s)[i] = s[i]
    <2> HIDE DEF n
    <2>1. /\ SubSeq(s, 1, n) \in Seq(Frames)
          /\ Len(SubSeq(s, 1, n)) = IF 1 <= n THEN n - 1 + 1 ELSE 0
          /\ \A i \in 1..(n - 1 + 1) : SubSeq(s, 1, n)[i] = s[1 + i - 1]
      BY <1>1, <1>2, <1>3, SubSeqProperties
    <2>2. Front(s) = SubSeq(s, 1, n)
      BY DEF Front, n
    <2> QED  BY <1>1, <2>1, <2>2
  <1>5. Last(s) = s[Len(s)] /\ Last(s) \in Frames
    BY <1>1, <1>2 DEF Last
  <1>6. /\ Append(Front(s), Last(s)) \in Seq(Frames)
        /\ Len(Append(Front(s), Last(s))) = n + 1
        /\ \A i \in 1..n : Append(Front(s), Last(s))[i] = Front(s)[i]
        /\ Append(Front(s), Last(s))[n + 1] = Last(s)
    BY <1>4, <1>5, AppendProperties
  <1>7. ASSUME NEW i \in 1..Len(s) PROVE s[i] = Append(Front(s), Last(s))[i]
    <2>1. CASE i = n + 1
      BY <1>1, <1>5, <1>6, <2>1
    <2>2. CASE i # n + 1
      <3>1. i \in 1..n
        BY <1>1, <2>2
      <3> QED  BY <1>4, <1>6, <3>1
    <2> QED  BY <2>1, <2>2
  <1>8. s = Append(Front(s), Last(s))
    <2>1. Len(s) = Len(Append(Front(s), Last(s)))
      BY <1>1, <1>6
    <2> QED  BY <1>6, <1>7, <2>1, SeqEqual
  <1> QED
    BY <1>1, <1>3, <1>4, <1>5, <1>8

(* How often a stack holds the mutex.                                      *)
LEMMA HeldAppend ==
  ASSUME NEW s \in Seq(Frames), NEW f \in Frames
  PROVE  /\ Held(s) \in Nat
         /\ Held(Append(s, f)) = Held(s) + (IF Locks(f) THEN 1 ELSE 0)
  <1> DEFINE n == Len(s)
             H == {i \in DOMAIN s : Locks(s[i])}
             r == Append(s, f)
  <1>1. /\ n \in Nat /\ DOMAIN s = 1..n
        /\ r \in Seq(Frames) /\ Len(r) = n + 1 /\ DOMAIN r = 1..(n + 1)
        /\ r[n + 1] = f /\ \A i \in 1..n : r[i] = s[i]
    BY AppendProperties, LenProperties
  <1>2. IsFiniteSet(H)
    <2>1. IsFiniteSet(1..n) /\ H \subseteq 1..n
      BY <1>1, FS_Interval
    <2> QED  BY <2>1, FS_Subset
  <1>3. Cardinality(H) \in Nat /\ n + 1 \notin H
    BY <1>1, <1>2, FS_CardinalityType
  <1>4. {i \in DOMAIN r : Locks(r[i])} = IF Locks(f) THEN H \cup {n + 1} ELSE H
    <2> HIDE DEF r, n
    <2>1. \A i \in 1..(n + 1) : i \in 1..n \/ i = n + 1
      BY <1>1
    <2>2. \A i \in 1..n : i \in 1..(n + 1) /\ i # n + 1
      BY <1>1
    <2>3. n + 1 \in 1..(n + 1)
      BY <1>1
    <2> QED  BY <1>1, <2>1, <2>2, <2>3
  <1>5. Cardinality(H \cup {n + 1}) = Cardinality(H) + 1
    BY <1>2, <1>3, FS_AddElement
  <1>6. Held(s) = Cardinality(H) /\ Held(r) = Cardinality({i \in DOMAIN r : Locks(r[i])})
    BY DEF Held
  <1> HIDE DEF H, r
  <1>7. Held(r) = IF Locks(f) THEN Cardinality(H \cup {n + 1}) ELSE Cardinality(H)
    BY <1>4, <1>6
  <1>8. Held(r) = Held(s) + (IF Locks(f) THEN 1 ELSE 0)
    BY <1>3, <1>5, <1>6, <1>7
  <1> QED
    BY <1>3, <1>6, <1>8 DEF r

LEMMA HeldParts ==
  ASSUME NEW s \in Seq(Frames), s # << >>
  PROVE  /\ Held(s) \in Nat /\ Held(Front(s)) \in Nat
         /\ Held(s) = Held(Front(s)) + (IF Locks(Last(s)) THEN 1 ELSE 0)
  <1> DEFINE a == Front(s)
             b == Last(s)
  <1>1. a \in Seq(Frames) /\ b \in Frames /\ s = Append(a, b)
    BY StackParts
  <1> HIDE DEF a, b
  <1>2. Held(a) \in Nat /\ Held(Append(a, b)) = Held(a) + (IF Locks(b) THEN 1 ELSE 0)
    BY <1>1, HeldAppend
  <1>3. Held(s) \in Nat
    BY HeldAppend, <1>1
  <1> QED
    BY <1>1, <1>2, <1>3 DEF a, b

(* The calls that actions make are calls.                                  *)
LEMMA NewCalls ==
  ASSUME NEW t \in Threads
  PROVE  /\ StackTrace(t) \in Frames /\ Flush \in Frames
         /\ Call("on_atexit", "begin", NoLine) \in Frames
         /\ \A n \in Nat, text \in Texts : Log(t, text, n) \in Frames
         /\ \A proc \in Procs, text \in Texts, at \in Places :
              Call(proc, at, Line(t, text, 0, Verbosity_FATAL)) \in Frames
         /\ \A proc \in Procs, at \in Places, l \in Lines : Call(proc, at, l) \in Frames
  <1>1. Verbosity_FATAL \in Int /\ Verbosity_ERROR \in Int /\ Verbosity_INFO \in Int
    BY DEF Verbosity_FATAL, Verbosity_ERROR, Verbosity_INFO
  <1>2. \A by \in Threads \cup {Nobody}, text \in Texts, n \in Nat, v \in Int :
          Line(by, text, n, v) \in Lines
    BY DEF Line, Lines
  <1>3. \A proc \in Procs, at \in Places, l \in Lines : Call(proc, at, l) \in Frames
    BY DEF Call, Frames
  <1>4. "begin" \in Places /\ "lock" \in Places
    BY DEF Places
  <1>5. NoLine \in Lines
    <2>1. 0 \in Nat /\ 0 \in Int /\ "nothing" \in Texts /\ Nobody \in Threads \cup {Nobody}
      BY DEF Texts
    <2> QED  BY <1>2, <2>1 DEF NoLine
  <1>6. StackTrace(t) \in Frames
    BY <1>1, <1>2, <1>3, <1>4 DEF StackTrace, Procs, Texts
  <1>7. Flush \in Frames /\ Call("on_atexit", "begin", NoLine) \in Frames
    BY <1>3, <1>4, <1>5 DEF Flush, Procs
  <1>8. \A n \in Nat, text \in Texts : Log(t, text, n) \in Frames
    BY <1>1, <1>2, <1>3, <1>4 DEF Log, Procs, Texts
  <1>9. \A proc \in Procs, text \in Texts, at \in Places :
          Call(proc, at, Line(t, text, 0, Verbosity_FATAL)) \in Frames
    BY <1>1, <1>2, <1>3
  <1> QED
    BY <1>3, <1>6, <1>7, <1>8, <1>9

(* The running call goes on at another place.                              *)
LEMMA GoesOn ==
  ASSUME TypeOK, NEW t \in Threads, stack[t] # << >>, NEW at \in Places
  PROVE  LET f == Last(stack[t])
             g == [f EXCEPT !.at = at]
         IN  /\ stack[t] \in Seq(Frames) /\ f \in Frames /\ line(t) \in Lines
             /\ g \in Frames /\ g.proc = f.proc /\ g.line = f.line /\ g.at = at
             /\ Front(stack[t]) \in Seq(Frames)
             /\ GoTo(t, at) = Append(Front(stack[t]), g)
             /\ GoTo(t, at) \in Seq(Frames)
  <1> DEFINE f == Last(stack[t])
             g == [f EXCEPT !.at = at]
  <1>1. stack[t] \in Seq(Frames)
    BY DEF TypeOK
  <1>2. f \in Frames /\ Front(stack[t]) \in Seq(Frames)
    BY <1>1, StackParts
  <1>3. g \in Frames /\ g.proc = f.proc /\ g.line = f.line /\ g.at = at
    BY <1>2 DEF Frames
  <1>4. Append(Front(stack[t]), g) = Front(stack[t]) \o <<g>>
    BY <1>2, <1>3, AppendIsConcat
  <1>5. Append(Front(stack[t]), g) \in Seq(Frames)
    BY <1>2, <1>3, AppendProperties
  <1> QED
    BY <1>1, <1>2, <1>3, <1>4, <1>5 DEF GoTo, line, Frames

-----------------------------------------------------------------------------
(* Types, and who holds the mutex how often.                               *)
MutexOK ==
  /\ stack \in [Threads -> Seq(Frames)]
  /\ mutex \in [owner : Threads \cup {Nobody}, depth : Nat]
  /\ mutex.owner = Nobody <=> mutex.depth = 0
  /\ \A t \in Threads : Held(stack[t]) = IF mutex.owner = t THEN mutex.depth ELSE 0

LEMMA NobodyIsNoThread == Nobody \notin Threads
  BY LoggingAssumption DEF LoggingAssumption, Nobody

LEMMA MutexKept ==
  ASSUME TypeOK, NEW t \in Threads, NEW s \in Seq(Frames),
         stack' = [stack EXCEPT ![t] = s], Held(s) = Held(stack[t]), mutex' = mutex
  PROVE  MutexOK'
  BY DEF TypeOK, MutexOK

LEMMA MutexTaken ==
  ASSUME TypeOK, NEW t \in Threads, NEW s \in Seq(Frames),
         stack' = [stack EXCEPT ![t] = s], Held(s) = Held(stack[t]) + 1,
         MutexIsFree(t), Lock(t)
  PROVE  MutexOK'
  <1>1. /\ mutex' = [owner |-> t, depth |-> mutex.depth + 1] /\ mutex.depth \in Nat
        /\ mutex.owner \in {Nobody, t}
    BY DEF TypeOK, Lock, MutexIsFree
  <1>2. mutex' \in [owner : Threads \cup {Nobody}, depth : Nat]
    BY <1>1
  <1>3. mutex'.owner = t /\ mutex'.depth = mutex.depth + 1 /\ mutex'.depth # 0
    BY <1>1
  <1>4. Held(stack[t]) = mutex.depth
    BY <1>1, NobodyIsNoThread DEF TypeOK
  <1>5. ASSUME NEW u \in Threads
        PROVE  Held(stack'[u]) = IF mutex'.owner = u THEN mutex'.depth ELSE 0
    <2>1. CASE u = t
      BY <1>3, <1>4, <2>1 DEF TypeOK
    <2>2. CASE u # t
      BY <1>1, <1>3, <2>2 DEF TypeOK
    <2> QED  BY <2>1, <2>2
  <1> QED
    BY <1>2, <1>3, <1>5, NobodyIsNoThread DEF TypeOK, MutexOK

LEMMA MutexGivenBack ==
  ASSUME TypeOK, NEW t \in Threads, NEW s \in Seq(Frames),
         stack' = [stack EXCEPT ![t] = s], Held(s) \in Nat,
         Held(stack[t]) = Held(s) + 1, Unlock
  PROVE  MutexOK'
  <1>1. mutex.owner = t /\ mutex.depth = Held(s) + 1
    BY DEF TypeOK
  <1>2. CASE mutex.depth = 1
    <2>1. mutex' = Free /\ Held(s) = 0
      BY <1>1, <1>2 DEF Unlock
    <2>2. mutex'.owner = Nobody /\ mutex'.depth = 0
      BY <2>1 DEF Free
    <2>3. \A u \in Threads : Held(stack'[u]) = 0
      BY <1>1, <2>1 DEF TypeOK
    <2>4. mutex' \in [owner : Threads \cup {Nobody}, depth : Nat]
      BY <2>1 DEF Free
    <2> QED  BY <2>2, <2>3, <2>4 DEF TypeOK, MutexOK
  <1>3. CASE mutex.depth # 1
    <2>1. mutex' = [mutex EXCEPT !.depth = mutex.depth - 1]
      BY <1>3 DEF Unlock
    <2>2. /\ mutex'.owner = t /\ mutex'.depth = Held(s) /\ mutex'.depth # 0
          /\ mutex' \in [owner : Threads \cup {Nobody}, depth : Nat]
      <3>1. mutex \in [owner : Threads \cup {Nobody}, depth : Nat]
        BY DEF TypeOK
      <3>2. mutex.depth - 1 = Held(s) /\ Held(s) # 0
        BY <1>1, <1>3
      <3>3. mutex' = [mutex EXCEPT !.depth = Held(s)]
        BY <2>1, <3>2
      <3> QED  BY <1>1, <3>1, <3>2, <3>3
    <2>3. \A u \in Threads : u # t => Held(stack'[u]) = 0
      BY <1>1 DEF TypeOK
    <2>4. Held(stack'[t]) = mutex'.depth
      BY <2>2 DEF TypeOK
    <2> QED  BY <2>2, <2>3, <2>4, NobodyIsNoThread DEF TypeOK, MutexOK
  <1> QED
    BY <1>2, <1>3

(* The forms of a step.                                                    *)
LEMMA ContinueHeld ==
  ASSUME TypeOK, NEW t \in Threads, stack[t] # << >>, NEW at \in Places
  PROVE  /\ GoTo(t, at) \in Seq(Frames)
         /\ Held(stack[t]) \in Nat /\ Held(GoTo(t, at)) \in Nat
         /\ Last(stack[t]).proc # "log" => Held(GoTo(t, at)) = Held(stack[t])
         /\ Last(stack[t]).proc = "log" =>
              Held(GoTo(t, at)) + (IF Locks(Last(stack[t])) THEN 1 ELSE 0) =
              Held(stack[t]) + (IF at \in {"stderr", "file", "flush", "return"} THEN 1 ELSE 0)
  <1> DEFINE s == stack[t]
             F == Front(s)
             g == [Last(s) EXCEPT !.at = at]
  <1>1. /\ s \in Seq(Frames) /\ F \in Seq(Frames) /\ g \in Frames
        /\ g.proc = Last(s).proc /\ g.at = at
        /\ GoTo(t, at) = Append(F, g) /\ GoTo(t, at) \in Seq(Frames)
    BY GoesOn
  <1>2. /\ Held(s) \in Nat /\ Held(F) \in Nat
        /\ Held(s) = Held(F) + (IF Locks(Last(s)) THEN 1 ELSE 0)
    BY <1>1, HeldParts
  <1> HIDE DEF s, F, g
  <1>3. Held(GoTo(t, at)) = Held(F) + (IF Locks(g) THEN 1 ELSE 0)
    BY <1>1, HeldAppend
  <1>4. Last(s).proc # "log" => ~Locks(g) /\ ~Locks(Last(s))
    BY <1>1 DEF Locks
  <1>5. Last(s).proc = "log" => (Locks(g) <=> at \in {"stderr", "file", "flush", "return"})
    BY <1>1 DEF Locks
  <1>6. Held(GoTo(t, at)) \in Nat
    BY <1>2, <1>3
  <1>7. Last(s).proc # "log" => Held(GoTo(t, at)) = Held(s)
    BY <1>2, <1>3, <1>4
  <1>8. Last(s).proc = "log" =>
              Held(GoTo(t, at)) + (IF Locks(Last(s)) THEN 1 ELSE 0) =
              Held(s) + (IF at \in {"stderr", "file", "flush", "return"} THEN 1 ELSE 0)
    BY <1>2, <1>3, <1>5
  <1> QED
    BY <1>1, <1>2, <1>6, <1>7, <1>8 DEF s

LEMMA CallHeld ==
  ASSUME NEW s \in Seq(Frames), NEW h \in Frames, h.at \in {"begin", "lock"}
  PROVE  Append(s, h) \in Seq(Frames) /\ Held(Append(s, h)) = Held(s)
  <1>1. ~Locks(h)
    BY DEF Locks
  <1>2. Held(s) \in Nat /\ Held(Append(s, h)) = Held(s) + 0
    BY <1>1, HeldAppend
  <1> QED
    BY <1>2, AppendProperties


(* Steps that leave the mutex alone.                                       *)
LEMMA ContinueKeeps ==
  ASSUME TypeOK, NEW t \in Threads, stack[t] # << >>, NEW at \in Places,
         Continue(t, at), mutex' = mutex,
         \/ Last(stack[t]).proc # "log"
         \/ Locks(Last(stack[t])) <=> at \in {"stderr", "file", "flush", "return"}
  PROVE  MutexOK'
  <1>1. /\ GoTo(t, at) \in Seq(Frames) /\ Held(stack[t]) \in Nat /\ Held(GoTo(t, at)) \in Nat
        /\ Held(GoTo(t, at)) = Held(stack[t])
    BY ContinueHeld
  <1>2. stack' = [stack EXCEPT ![t] = GoTo(t, at)]
    BY DEF Continue
  <1> QED
    BY <1>1, <1>2, MutexKept

LEMMA CallsKeeps ==
  ASSUME TypeOK, NEW t \in Threads, stack[t] # << >>, NEW after \in Places,
         NEW call \in Frames, call.at \in {"begin", "lock"},
         Calls(t, call, after), mutex' = mutex,
         \/ Last(stack[t]).proc # "log"
         \/ Locks(Last(stack[t])) <=> after \in {"stderr", "file", "flush", "return"}
  PROVE  MutexOK'
  <1>1. /\ GoTo(t, after) \in Seq(Frames) /\ Held(GoTo(t, after)) = Held(stack[t])
    BY ContinueHeld
  <1>2. /\ Append(GoTo(t, after), call) \in Seq(Frames)
        /\ Held(Append(GoTo(t, after), call)) = Held(GoTo(t, after))
    BY <1>1, CallHeld
  <1>3. stack' = [stack EXCEPT ![t] = Append(GoTo(t, after), call)]
    BY DEF Calls
  <1> QED
    BY <1>1, <1>2, <1>3, MutexKept

LEMMA ReturnsKeeps ==
  ASSUME TypeOK, NEW t \in Threads, stack[t] # << >>, ~Locks(Last(stack[t])),
         Returns(t), mutex' = mutex
  PROVE  MutexOK'
  <1>1. stack[t] \in Seq(Frames)
    BY DEF TypeOK
  <1>2. Front(stack[t]) \in Seq(Frames) /\ Held(Front(stack[t])) = Held(stack[t])
    BY <1>1, HeldParts, StackParts
  <1>3. stack' = [stack EXCEPT ![t] = Front(stack[t])]
    BY DEF Returns
  <1> QED
    BY <1>2, <1>3, MutexKept

LEMMA PushKeeps ==
  ASSUME TypeOK, NEW t \in Threads, NEW call \in Frames, call.at \in {"begin", "lock"},
         stack' = [stack EXCEPT ![t] = Append(stack[t], call)], mutex' = mutex
  PROVE  MutexOK'
  <1>1. stack[t] \in Seq(Frames)
    BY DEF TypeOK
  <1>2. Append(stack[t], call) \in Seq(Frames) /\ Held(Append(stack[t], call)) = Held(stack[t])
    BY <1>1, CallHeld
  <1> QED
    BY <1>2, MutexKept

(* What At and TypeOK say of the running call.                             *)
LEMMA RunningCall ==
  ASSUME TypeOK, NEW t \in Threads, NEW proc, NEW at, At(t, proc, at)
  PROVE  /\ stack[t] # << >> /\ stack[t] \in Seq(Frames) /\ Last(stack[t]) \in Frames
         /\ Last(stack[t]).proc = proc /\ Last(stack[t]).at = at
         /\ line(t) \in Lines /\ line(t).verbosity \in Int
  <1>1. stack[t] # << >> /\ stack[t] \in Seq(Frames)
    BY DEF At, TypeOK
  <1>2. Last(stack[t]) \in Frames
    BY <1>1, StackParts
  <1>3. line(t) \in Lines
    BY <1>2 DEF Frames, line
  <1>4. line(t).verbosity \in Int
    BY <1>3 DEF Lines
  <1> QED
    BY <1>1, <1>2, <1>3, <1>4 DEF At

OthersOK ==
  /\ said \in [Threads -> 0..MaxLines]
  /\ stderr \in Seq(Lines) /\ file \in Seq(Lines)
  /\ callbacks \in {"alive", "destroyed"}
  /\ names \in {Names, Tail(Names), Tail(Tail(Names)), << >>}
  /\ sent \subseteq Signals
  /\ process \in {"running", "exited", "killed", "crashed"}

LEMMA TypeParts == TypeOK <=> MutexOK /\ OthersOK
  BY DEF TypeOK, MutexOK, OthersOK

LEMMA TypePartsNext == TypeOK' <=> MutexOK' /\ OthersOK'
  BY DEF TypeOK, MutexOK, OthersOK

LEMMA TypeLogging ==
  ASSUME TypeOK, NEW t \in Threads,
         \/ LOG_S(t)
         \/ log(t)
         \/ log_to_everywhere(t)
         \/ log_message(t)
         \/ writeStderr(t)
         \/ callBack(t)
         \/ logFlushes(t)
         \/ logReturns(t)
         \/ flush(t)
  PROVE  TypeOK'
  <1>0. \A at \in {"begin", "malloc", "lock", "stderr", "file", "flush", "return"} : at \in Places
    BY DEF Places
  <1>1. CASE LOG_S(t)
    <2>1. /\ stack[t] = << >> /\ said[t] \in 0..MaxLines /\ said[t] < MaxLines /\ MaxLines \in Nat
          /\ said' = [said EXCEPT ![t] = said[t] + 1]
      BY <1>1, LoggingAssumption DEF LOG_S, TypeOK, LoggingAssumption
    <2>2. said'[t] = said[t] + 1 /\ said[t] + 1 \in 0..MaxLines /\ said[t] + 1 \in Nat
      BY <2>1 DEF TypeOK
    <2>3. Log(t, "line", said'[t]) \in Frames
      BY <2>2, NewCalls DEF Texts
    <2>4. stack' = [stack EXCEPT ![t] = Append(stack[t], Log(t, "line", said'[t]))]
      BY <1>1, <2>1 DEF LOG_S
    <2>5. Log(t, "line", said'[t]).at \in {"begin", "lock"} /\ mutex' = mutex
      BY <1>1 DEF Log, Call, LOG_S
    <2>6. MutexOK'
      BY <2>3, <2>4, <2>5, PushKeeps
    <2>7. OthersOK'
      BY <1>1, <2>1, <2>2 DEF LOG_S, TypeOK, OthersOK
    <2> QED  BY <2>6, <2>7, TypePartsNext
  <1>2. CASE log(t)
    <2>1. At(t, "log", "begin") /\ Continue(t, "malloc") /\ mutex' = mutex
      BY <1>2 DEF log
    <2>2. MutexOK'
      BY <1>0, <2>1, RunningCall, ContinueKeeps DEF Locks
    <2>3. OthersOK'
      BY <1>2 DEF log, TypeOK, OthersOK
    <2> QED  BY <2>2, <2>3, TypePartsNext
  <1>3. CASE log_to_everywhere(t)
    <2>1. At(t, "log", "malloc") /\ Continue(t, "lock") /\ mutex' = mutex
      BY <1>3 DEF log_to_everywhere
    <2>2. MutexOK'
      BY <1>0, <2>1, RunningCall, ContinueKeeps DEF Locks
    <2>3. OthersOK'
      BY <1>3 DEF log_to_everywhere, TypeOK, OthersOK
    <2> QED  BY <2>2, <2>3, TypePartsNext
  <1>4. CASE log_message(t)
    <2>1. At(t, "log", "lock") /\ MutexIsFree(t) /\ Lock(t)
      BY <1>4 DEF log_message
    <2>2. stack[t] # << >> /\ Last(stack[t]).proc = "log" /\ ~Locks(Last(stack[t]))
      BY <2>1, RunningCall DEF Locks
    <2>3. /\ GoTo(t, "stderr") \in Seq(Frames) /\ Held(GoTo(t, "stderr")) \in Nat
          /\ Held(GoTo(t, "stderr")) = Held(stack[t]) + 1
      BY <1>0, <2>2, ContinueHeld
    <2>4. StackTrace(t) \in Frames /\ StackTrace(t).at \in {"begin", "lock"}
      BY NewCalls DEF StackTrace, Call
    <2>5. /\ Append(GoTo(t, "stderr"), StackTrace(t)) \in Seq(Frames)
          /\ Held(Append(GoTo(t, "stderr"), StackTrace(t))) = Held(stack[t]) + 1
      BY <2>3, <2>4, CallHeld
    <2>6. PICK s \in Seq(Frames) : Held(s) = Held(stack[t]) + 1 /\ stack' = [stack EXCEPT ![t] = s]
      BY <1>4, <2>3, <2>5 DEF log_message, Calls, Continue
    <2>7. MutexOK'
      BY <2>1, <2>6, MutexTaken
    <2>8. OthersOK'
      BY <1>4 DEF log_message, TypeOK, OthersOK
    <2> QED  BY <2>7, <2>8, TypePartsNext
  <1>5. CASE writeStderr(t)
    <2>1. At(t, "log", "stderr") /\ Continue(t, "file") /\ mutex' = mutex
      BY <1>5 DEF writeStderr
    <2>2. MutexOK'
      BY <1>0, <2>1, RunningCall, ContinueKeeps DEF Locks
    <2>3. line(t) \in Lines /\ stderr \in Seq(Lines)
      BY <2>1, RunningCall DEF TypeOK
    <2>4. stderr' \in Seq(Lines)
      BY <1>5, <2>3, AppendProperties DEF writeStderr
    <2>5. OthersOK'
      BY <1>5, <2>4 DEF writeStderr, TypeOK, OthersOK
    <2> QED  BY <2>2, <2>5, TypePartsNext
  <1>6. CASE callBack(t)
    <2>1. At(t, "log", "file") /\ mutex' = mutex
      BY <1>6 DEF callBack
    <2>2. PICK at \in {"flush", "return"} : Continue(t, at)
      BY <1>6 DEF callBack
    <2>3. MutexOK'
      BY <1>0, <2>1, <2>2, RunningCall, ContinueKeeps DEF Locks
    <2>4. line(t) \in Lines /\ file \in Seq(Lines)
      BY <2>1, RunningCall DEF TypeOK
    <2>5. file' \in Seq(Lines)
      BY <1>6, <2>4, AppendProperties DEF callBack, file_log
    <2>6. OthersOK'
      BY <1>6, <2>5 DEF callBack, TypeOK, OthersOK
    <2> QED  BY <2>3, <2>6, TypePartsNext
  <1>7. CASE logFlushes(t)
    <2>1. At(t, "log", "flush") /\ Calls(t, Flush, "return") /\ mutex' = mutex
      BY <1>7 DEF logFlushes
    <2>2. Flush \in Frames /\ Flush.at \in {"begin", "lock"}
      BY NewCalls DEF Flush, Call
    <2>3. MutexOK'
      BY <1>0, <2>1, <2>2, RunningCall, CallsKeeps DEF Locks
    <2>4. OthersOK'
      BY <1>7 DEF logFlushes, TypeOK, OthersOK
    <2> QED  BY <2>3, <2>4, TypePartsNext
  <1>8. CASE logReturns(t)
    <2>1. At(t, "log", "return") /\ Unlock /\ Returns(t)
      BY <1>8 DEF logReturns
    <2>2. stack[t] # << >> /\ stack[t] \in Seq(Frames) /\ Locks(Last(stack[t]))
      BY <2>1, RunningCall DEF Locks
    <2>3. /\ Front(stack[t]) \in Seq(Frames) /\ Held(Front(stack[t])) \in Nat
          /\ Held(stack[t]) = Held(Front(stack[t])) + 1
      BY <2>2, HeldParts, StackParts
    <2>4. stack' = [stack EXCEPT ![t] = Front(stack[t])]
      BY <2>1 DEF Returns
    <2>5. MutexOK'
      BY <2>1, <2>3, <2>4, MutexGivenBack
    <2>6. OthersOK'
      BY <1>8 DEF logReturns, TypeOK, OthersOK
    <2> QED  BY <2>5, <2>6, TypePartsNext
  <1>9. CASE flush(t)
    <2>1. At(t, "flush", "lock") /\ Returns(t) /\ mutex' = mutex
      BY <1>9 DEF flush
    <2>2. MutexOK'
      BY <2>1, RunningCall, ReturnsKeeps DEF Locks
    <2>3. OthersOK'
      BY <1>9 DEF flush, TypeOK, OthersOK
    <2> QED  BY <2>2, <2>3, TypePartsNext
  <1> QED
    BY <1>1, <1>2, <1>3, <1>4, <1>5, <1>6, <1>7, <1>8, <1>9


LEMMA TypeSignals ==
  ASSUME TypeOK, NEW t \in Threads,
         Handle(t) \/ \E sig \in Signals : deliver(t, sig)
  PROVE  TypeOK'
  <1>1. /\ Flush \in Frames /\ Flush.at \in {"begin", "lock"} /\ Flush.proc = "flush"
        /\ Call("on_atexit", "begin", NoLine) \in Frames
        /\ Call("on_atexit", "begin", NoLine).at \in {"begin", "lock"}
    BY NewCalls DEF Flush, Call
  <1>2. \A text \in {"cleaning up", "atexit"} :
          Log(t, text, 0) \in Frames /\ Log(t, text, 0).at \in {"begin", "lock"}
    <2>1. 0 \in Nat /\ {"cleaning up", "atexit"} \subseteq Texts
      BY DEF Texts
    <2> QED  BY <2>1, NewCalls DEF Log, Call
  <1>3. ASSUME NEW sig \in Signals, deliver(t, sig)  PROVE TypeOK'
    <2> DEFINE proc == IF sig = "SIGINT" THEN "sigHandler" ELSE "signal_handler"
               h == Call(proc, "begin", Line(t, sig, 0, Verbosity_FATAL))
    <2>1. h \in Frames /\ h.at \in {"begin", "lock"}
      <3>1. proc \in Procs /\ sig \in Texts /\ "begin" \in Places
        BY DEF Procs, Texts, Places
      <3>2. h \in Frames
        BY <3>1, NewCalls
      <3> QED  BY <3>2 DEF Call
    <2>2. stack' = [stack EXCEPT ![t] = Append(stack[t], h)] /\ mutex' = mutex
      BY <1>3 DEF deliver
    <2>3. MutexOK'
      BY <2>1, <2>2, PushKeeps
    <2>4. OthersOK'
      BY <1>3 DEF deliver, TypeOK, OthersOK
    <2> QED  BY <2>3, <2>4, TypePartsNext
  <1>4. ASSUME Handle(t)  PROVE OthersOK'
    <2>1. callbacks' \in {"alive", "destroyed"}
      BY <1>4 DEF Handle, sigHandler, on_atexit, exit, signal_handler, TypeOK
    <2>2. process' \in {"running", "exited", "killed", "crashed"}
      BY <1>4 DEF Handle, sigHandler, on_atexit, exit, signal_handler, TypeOK
    <2>3. names' = names \/ (names # << >> /\ names' = Tail(names))
      BY <1>4 DEF Handle, sigHandler, on_atexit, exit, signal_handler
    <2>4. names' \in {Names, Tail(Names), Tail(Tail(Names)), << >>}
      <3>1. Tail(Tail(Tail(Names))) = << >>
        BY DEF Names
      <3>2. names \in {Names, Tail(Names), Tail(Tail(Names)), << >>}
        BY DEF TypeOK
      <3> HIDE DEF Names
      <3> QED  BY <2>3, <3>1, <3>2
    <2> QED  BY <1>4, <2>1, <2>2, <2>4 DEF Handle, TypeOK, OthersOK
  <1>5. ASSUME Handle(t)  PROVE MutexOK'
    <2>0. mutex' = mutex
      BY <1>5 DEF Handle, sigHandler, on_atexit, exit, signal_handler
    <2>1. CASE stack' = stack
      BY <2>0, <2>1 DEF TypeOK, MutexOK
    <2>2. ASSUME NEW proc \in {"sigHandler", "on_atexit", "signal_handler"},
                 NEW at \in Places, NEW after \in Places, At(t, proc, at),
                 NEW call \in Frames, call.at \in {"begin", "lock"}, Calls(t, call, after)
          PROVE  MutexOK'
      <3>1. stack[t] # << >> /\ Last(stack[t]).proc # "log"
        BY <2>2, RunningCall
      <3> QED  BY <2>0, <2>2, <3>1, CallsKeeps
    <2>3. CASE sigHandler(t)
      <3>1. CASE At(t, "sigHandler", "begin") /\ Calls(t, Log(t, "cleaning up", 0), "unlink")
        <4>1. "begin" \in Places /\ "unlink" \in Places
          BY DEF Places
        <4> QED  BY <1>2, <2>2, <3>1, <4>1
      <3>2. CASE At(t, "sigHandler", "unlink") /\ Calls(t, Call("on_atexit", "begin", NoLine), "exit")
        <4>1. "exit" \in Places /\ "unlink" \in Places
          BY DEF Places
        <4> QED  BY <1>1, <2>2, <3>2, <4>1
      <3> QED  BY <2>1, <2>3, <3>1, <3>2 DEF sigHandler
    <2>4. CASE on_atexit(t)
      <3>1. CASE At(t, "on_atexit", "begin") /\ Calls(t, Log(t, "atexit", 0), "flush")
        <4>1. "begin" \in Places /\ "flush" \in Places
          BY DEF Places
        <4> QED  BY <1>2, <2>2, <3>1, <4>1
      <3>2. CASE At(t, "on_atexit", "flush") /\ Calls(t, Flush, "return")
        <4>1. "return" \in Places /\ "flush" \in Places
          BY DEF Places
        <4> QED  BY <1>1, <2>2, <3>2, <4>1
      <3>3. CASE At(t, "on_atexit", "return") /\ Returns(t)
        <4>1. stack[t] # << >> /\ ~Locks(Last(stack[t]))
          BY <3>3, RunningCall DEF Locks
        <4> QED  BY <2>0, <3>3, <4>1, ReturnsKeeps
      <3> QED  BY <2>4, <3>1, <3>2, <3>3 DEF on_atexit
    <2>5. CASE exit(t)
      <3>1. CASE At(t, "sigHandler", "exit") /\ Continue(t, "gone")
        <4>1. stack[t] # << >> /\ Last(stack[t]).proc # "log" /\ "gone" \in Places
          BY <3>1, RunningCall DEF Places
        <4> QED  BY <2>0, <3>1, <4>1, ContinueKeeps
      <3> QED  BY <2>1, <2>5, <3>1 DEF exit
    <2>6. CASE signal_handler(t)
      <3>0. {"begin", "message", "flush", "kill"} \subseteq Places
        BY DEF Places
      <3>1. CASE At(t, "signal_handler", "begin") /\ Calls(t, Flush, "message")
        BY <1>1, <2>2, <3>0, <3>1
      <3>2. CASE At(t, "signal_handler", "message") /\ Calls(t, FatalMessage(t), "flush")
        <4>1. line(t) \in Lines /\ "log" \in Procs /\ "lock" \in Places
          BY <3>2, RunningCall DEF Procs, Places
        <4>2. FatalMessage(t) \in Frames /\ FatalMessage(t).at \in {"begin", "lock"}
          <5>1. Call("log", "lock", line(t)) \in Frames
            BY <4>1, NewCalls
          <5> QED  BY <5>1 DEF FatalMessage, Call
        <4> QED  BY <2>2, <3>0, <3>2, <4>2
      <3>3. CASE At(t, "signal_handler", "flush") /\ Calls(t, Flush, "kill")
        BY <1>1, <2>2, <3>0, <3>3
      <3> QED  BY <2>1, <2>6, <3>1, <3>2, <3>3 DEF signal_handler
    <2> QED  BY <1>5, <2>3, <2>4, <2>5, <2>6 DEF Handle
  <1> QED
    BY <1>3, <1>4, <1>5, TypePartsNext

LEMMA TypeInit == Init => TypeOK
  <1> SUFFICES ASSUME Init PROVE TypeOK
    OBVIOUS
  <1>1. Held(<< >>) = 0
    <2>1. {i \in DOMAIN << >> : Locks(<< >>[i])} = {}
      OBVIOUS
    <2> QED  BY <2>1, FS_EmptySet DEF Held
  <1>2. MaxLines \in Nat /\ 0 \in 0..MaxLines
    BY LoggingAssumption DEF LoggingAssumption
  <1>3. mutex.owner = Nobody /\ mutex.depth = 0
    BY DEF Init, Free
  <1>4. mutex \in [owner : Threads \cup {Nobody}, depth : Nat]
    BY DEF Init, Free
  <1>5. \A t \in Threads : stack[t] = << >> /\ mutex.owner # t
    BY <1>3, NobodyIsNoThread DEF Init
  <1>6. << >> \in Seq(Frames) /\ << >> \in Seq(Lines)
    OBVIOUS
  <1>7. stack \in [Threads -> Seq(Frames)] /\ said \in [Threads -> 0..MaxLines]
    BY <1>2, <1>6 DEF Init
  <1> QED
    BY <1>1, <1>3, <1>4, <1>5, <1>6, <1>7 DEF Init, TypeOK

LEMMA TypeStep == TypeOK /\ [Next]_vars => TypeOK'
  <1> SUFFICES ASSUME TypeOK, [Next]_vars PROVE TypeOK'
    OBVIOUS
  <1>1. CASE UNCHANGED vars
    BY <1>1 DEF vars, TypeOK
  <1>2. ASSUME NEW t \in Threads, LOG_S(t) \/ Step(t) \/ \E sig \in Signals : deliver(t, sig)
        PROVE  TypeOK'
    BY <1>2, TypeLogging, TypeSignals DEF Step
  <1> QED
    BY <1>1, <1>2 DEF Next

(* Every variable keeps its type, and s_mutex is held by its owner as      *)
(* often as the owner has calls between the lock and the return of         *)
(* log_message; by no other thread.                                        *)
THEOREM LoggingTypeCorrectness == Spec => []TypeOK
  <1>1. Init => TypeOK
    BY TypeInit
  <1>2. TypeOK /\ [Next]_vars => TypeOK'
    BY TypeStep
  <1> QED
    BY <1>1, <1>2, PTL DEF Spec


-----------------------------------------------------------------------------
(* What the calls of a stack say of the log, when it changes.              *)
LEMMA CallsGrow ==
  ASSUME NEW s \in Seq(Frames), NEW a \in BOOLEAN, NEW b \in BOOLEAN,
         NEW c \in BOOLEAN, NEW d \in BOOLEAN, a => c, b => d
  PROVE  /\ CallsOK(s, a, b) => CallsOK(s, c, d)
         /\ StackOK(s, a, b) => StackOK(s, c, d)
  <1>1. \A call : CallOK(call, a, b) => CallOK(call, c, d)
    BY DEF CallOK
  <1>2. \A call : RunningOK(call, a, b) => RunningOK(call, c, d)
    BY DEF RunningOK
  <1>3. CallsOK(s, a, b) => CallsOK(s, c, d)
    BY <1>1 DEF CallsOK
  <1> QED
    BY <1>2, <1>3 DEF StackOK

LEMMA CallsPop ==
  ASSUME NEW s \in Seq(Frames), s # << >>, NEW a \in BOOLEAN, NEW b \in BOOLEAN,
         CallsOK(s, a, b)
  PROVE  /\ CallsOK(Front(s), a, b) /\ CallOK(Last(s), a, b)
         /\ Front(s) # << >> => /\ WaitsFor(Last(Front(s)), Last(s))
                                /\ CallOK(Last(Front(s)), a, b)
  <1> DEFINE r == Front(s)
             n == Len(s)
  <1>1. /\ n \in Nat \ {0} /\ r \in Seq(Frames) /\ Len(r) = n - 1 /\ Last(s) = s[n]
        /\ \A i \in 1..(n - 1) : r[i] = s[i]
    BY StackParts
  <1>2. /\ \A i \in 1..n : CallOK(s[i], a, b)
        /\ \A i \in 1..(n - 1) : WaitsFor(s[i], s[i + 1])
    BY DEF CallsOK
  <1> HIDE DEF r, n
  <1>3. \A i \in 1..Len(r) : CallOK(r[i], a, b)
    <2>1. \A i \in 1..Len(r) : i \in 1..n /\ i \in 1..(n - 1)
      BY <1>1
    <2> QED  BY <1>1, <1>2, <2>1
  <1>4. \A i \in 1..(Len(r) - 1) : WaitsFor(r[i], r[i + 1])
    <2>1. \A i \in 1..(Len(r) - 1) : i \in 1..(n - 1) /\ i + 1 \in 1..(n - 1)
      BY <1>1
    <2> QED  BY <1>1, <1>2, <2>1
  <1>5. CallOK(s[n], a, b)
    <2>1. n \in 1..n
      BY <1>1
    <2> QED  BY <1>2, <2>1
  <1>6. ASSUME r # << >> PROVE WaitsFor(Last(r), s[n]) /\ CallOK(Last(r), a, b)
    <2>1. Last(r) = r[n - 1] /\ n - 1 \in 1..Len(r) /\ n - 1 \in 1..(n - 1) /\ n - 1 + 1 = n
      BY <1>1, <1>6, StackParts
    <2>2. WaitsFor(s[n - 1], s[n - 1 + 1])
      BY <1>2, <2>1
    <2>3. Last(r) = s[n - 1] /\ CallOK(r[n - 1], a, b)
      BY <1>1, <1>3, <2>1
    <2> QED  BY <2>1, <2>2, <2>3
  <1>7. CallsOK(r, a, b)
    BY <1>3, <1>4 DEF CallsOK
  <1> QED
    BY <1>1, <1>5, <1>6, <1>7 DEF r

LEMMA CallsPush ==
  ASSUME NEW s \in Seq(Frames), NEW h \in Frames, NEW a \in BOOLEAN, NEW b \in BOOLEAN,
         CallsOK(s, a, b), CallOK(h, a, b), s # << >> => WaitsFor(Last(s), h)
  PROVE  /\ CallsOK(Append(s, h), a, b)
         /\ Append(s, h) \in Seq(Frames) /\ Append(s, h) # << >> /\ Last(Append(s, h)) = h
  <1> DEFINE r == Append(s, h)
             n == Len(s)
  <1>1. /\ n \in Nat /\ r \in Seq(Frames) /\ Len(r) = n + 1 /\ r[n + 1] = h
        /\ \A i \in 1..n : r[i] = s[i]
    BY AppendProperties
  <1>2. r # << >>
    BY <1>1
  <1>3. Last(r) = h
    BY <1>1, <1>2, StackParts
  <1> HIDE DEF r, n
  <1>4. \A i \in 1..n : CallOK(s[i], a, b)
    BY DEF CallsOK, n
  <1>5. \A i \in 1..(n - 1) : WaitsFor(s[i], s[i + 1])
    BY DEF CallsOK, n
  <1>6. ASSUME NEW i \in 1..Len(r) PROVE CallOK(r[i], a, b)
    <2>1. i \in 1..n \/ i = n + 1
      BY <1>1
    <2> QED  BY <1>1, <1>4, <2>1
  <1>7. ASSUME NEW i \in 1..(Len(r) - 1) PROVE WaitsFor(r[i], r[i + 1])
    <2>1. i \in 1..n /\ r[i] = s[i]
      BY <1>1
    <2>2. CASE i = n
      <3>1. s # << >> /\ n \in 1..n
        BY <1>1, <2>1 DEF n
      <3>2. Last(s) = s[n]
        BY <3>1, StackParts DEF n
      <3> QED  BY <1>1, <2>1, <2>2, <3>1, <3>2
    <2>3. CASE i # n
      <3>1. i \in 1..(n - 1) /\ i + 1 \in 1..n
        BY <1>1, <2>1, <2>3
      <3> QED  BY <1>1, <1>5, <2>1, <3>1
    <2> QED  BY <2>2, <2>3
  <1>8. CallsOK(r, a, b)
    BY <1>6, <1>7 DEF CallsOK
  <1> QED
    BY <1>1, <1>2, <1>3, <1>8 DEF r

(* The running call stands at another place.                               *)
Moved(t, at) == [Last(stack[t]) EXCEPT !.at = at]

LEMMA CallsMove ==
  ASSUME TypeOK, NEW t \in Threads, stack[t] # << >>, NEW at \in Places,
         NEW a \in BOOLEAN, NEW b \in BOOLEAN,
         CallsOK(stack[t], a, b), CallOK(Moved(t, at), a, b)
  PROVE  /\ CallsOK(GoTo(t, at), a, b)
         /\ GoTo(t, at) \in Seq(Frames) /\ GoTo(t, at) # << >>
         /\ Last(GoTo(t, at)) = Moved(t, at)
  <1> DEFINE s == stack[t]
             r == Front(s)
             f == Last(s)
             g == Moved(t, at)
  <1>1. /\ s \in Seq(Frames) /\ f \in Frames /\ g \in Frames
        /\ g.proc = f.proc /\ g.line = f.line
        /\ r \in Seq(Frames) /\ GoTo(t, at) = Append(r, g)
    BY GoesOn DEF Moved
  <1>2. CallsOK(r, a, b) /\ (r # << >> => WaitsFor(Last(r), f))
    BY <1>1, CallsPop
  <1> HIDE DEF s, r, f, g
  <1>3. r # << >> => WaitsFor(Last(r), g)
    BY <1>1, <1>2 DEF WaitsFor, IsFatal
  <1>4. CallOK(g, a, b)
    BY DEF g
  <1>5. /\ CallsOK(Append(r, g), a, b) /\ Append(r, g) \in Seq(Frames)
        /\ Append(r, g) # << >> /\ Last(Append(r, g)) = g
    BY <1>1, <1>2, <1>3, <1>4, CallsPush
  <1> QED
    BY <1>1, <1>5 DEF g


(* The invariant of the stacks after a step of one thread, by its form.    *)
LEMMA StacksKept ==
  ASSUME TypeOK, StacksOK, NEW t \in Threads, NEW s \in Seq(Frames),
         stack' = [stack EXCEPT ![t] = s],
         Traced => Traced', Logged => Logged', StackOK(s, Traced', Logged')
  PROVE  StacksOK'
  <1>1. Traced \in BOOLEAN /\ Logged \in BOOLEAN /\ Traced' \in BOOLEAN /\ Logged' \in BOOLEAN
    BY DEF Traced, Logged
  <1>2. ASSUME NEW u \in Threads PROVE StackOK(stack'[u], Traced', Logged')
    <2>1. CASE u = t
      BY <2>1 DEF TypeOK
    <2>2. CASE u # t
      <3>1. stack'[u] = stack[u] /\ stack[u] \in Seq(Frames)
        BY <2>2 DEF TypeOK
      <3>2. StackOK(stack[u], Traced, Logged)
        BY DEF StacksOK
      <3>3. StackOK(stack[u], Traced', Logged')
        BY <1>1, <3>1, <3>2, CallsGrow
      <3> QED  BY <3>1, <3>3
    <2> QED  BY <2>1, <2>2
  <1> QED
    BY <1>2 DEF StacksOK

LEMMA StacksContinue ==
  ASSUME TypeOK, StacksOK, NEW t \in Threads, stack[t] # << >>, NEW at \in Places,
         Continue(t, at), Traced => Traced', Logged => Logged',
         CallOK(Moved(t, at), Traced', Logged'), RunningOK(Moved(t, at), Traced', Logged')
  PROVE  StacksOK'
  <1>1. Traced \in BOOLEAN /\ Logged \in BOOLEAN /\ Traced' \in BOOLEAN /\ Logged' \in BOOLEAN
    BY DEF Traced, Logged
  <1>2. CallsOK(stack[t], Traced, Logged) /\ stack[t] \in Seq(Frames)
    BY DEF StacksOK, StackOK, TypeOK
  <1>3. CallsOK(stack[t], Traced', Logged')
    BY <1>1, <1>2, CallsGrow
  <1>4. /\ CallsOK(GoTo(t, at), Traced', Logged') /\ GoTo(t, at) \in Seq(Frames)
        /\ Last(GoTo(t, at)) = Moved(t, at)
    BY <1>1, <1>3, CallsMove
  <1>5. StackOK(GoTo(t, at), Traced', Logged')
    BY <1>4 DEF StackOK
  <1>6. stack' = [stack EXCEPT ![t] = GoTo(t, at)]
    BY DEF Continue
  <1> QED
    BY <1>4, <1>5, <1>6, StacksKept

LEMMA StacksCall ==
  ASSUME TypeOK, StacksOK, NEW t \in Threads, stack[t] # << >>, NEW after \in Places,
         NEW call \in Frames, Calls(t, call, after),
         UNCHANGED <<file, callbacks>>,
         CallOK(Moved(t, after), Traced, Logged), WaitsFor(Moved(t, after), call),
         CallOK(call, Traced, Logged), RunningOK(call, Traced, Logged)
  PROVE  StacksOK'
  <1>1. Traced \in BOOLEAN /\ Logged \in BOOLEAN
    BY DEF Traced, Logged
  <1>2. Traced' = Traced /\ Logged' = Logged
    BY DEF Traced, Logged
  <1>3. CallsOK(stack[t], Traced, Logged)
    BY DEF StacksOK, StackOK
  <1>4. /\ CallsOK(GoTo(t, after), Traced, Logged) /\ GoTo(t, after) \in Seq(Frames)
        /\ GoTo(t, after) # << >> /\ Last(GoTo(t, after)) = Moved(t, after)
    BY <1>1, <1>3, CallsMove
  <1> DEFINE s == Append(GoTo(t, after), call)
  <1>5. CallsOK(s, Traced, Logged) /\ s \in Seq(Frames) /\ s # << >> /\ Last(s) = call
    BY <1>1, <1>4, CallsPush
  <1>6. stack' = [stack EXCEPT ![t] = s]
    BY DEF Calls
  <1>7. StackOK(s, Traced, Logged)
    BY <1>5 DEF StackOK
  <1> HIDE DEF s
  <1>8. StackOK(s, Traced', Logged')
    BY <1>2, <1>7
  <1> QED
    BY <1>2, <1>5, <1>6, <1>8, StacksKept

LEMMA StacksPush ==
  ASSUME TypeOK, StacksOK, NEW t \in Threads, NEW call \in Frames,
         stack' = [stack EXCEPT ![t] = Append(stack[t], call)],
         UNCHANGED <<file, callbacks>>,
         stack[t] # << >> => WaitsFor(Last(stack[t]), call),
         CallOK(call, Traced, Logged), RunningOK(call, Traced, Logged)
  PROVE  StacksOK'
  <1>1. Traced \in BOOLEAN /\ Logged \in BOOLEAN
    BY DEF Traced, Logged
  <1>2. Traced' = Traced /\ Logged' = Logged
    BY DEF Traced, Logged
  <1>3. CallsOK(stack[t], Traced, Logged) /\ stack[t] \in Seq(Frames)
    BY DEF StacksOK, StackOK, TypeOK
  <1> DEFINE s == Append(stack[t], call)
  <1>5. CallsOK(s, Traced, Logged) /\ s \in Seq(Frames) /\ s # << >> /\ Last(s) = call
    BY <1>1, <1>3, CallsPush
  <1>6. stack' = [stack EXCEPT ![t] = s]
    OBVIOUS
  <1>7. StackOK(s, Traced, Logged)
    BY <1>5 DEF StackOK
  <1> HIDE DEF s
  <1>8. StackOK(s, Traced', Logged')
    BY <1>2, <1>7
  <1> QED
    BY <1>2, <1>5, <1>6, <1>8, StacksKept

(* The call that is returned to knows of its callee what it needs.         *)
LEMMA StacksReturn ==
  ASSUME TypeOK, StacksOK, NEW t \in Threads, stack[t] # << >>, Returns(t),
         UNCHANGED <<file, callbacks>>, Last(stack[t]).proc \notin Handlers,
         Last(stack[t]).proc = "log" => Last(stack[t]).at = "return"
  PROVE  StacksOK'
  <1>1. Traced \in BOOLEAN /\ Logged \in BOOLEAN
    BY DEF Traced, Logged
  <1>2. Traced' = Traced /\ Logged' = Logged
    BY DEF Traced, Logged
  <1> DEFINE s == stack[t]
             r == Front(s)
             f == Last(s)
             c == Last(r)
  <1>3. CallsOK(s, Traced, Logged) /\ s \in Seq(Frames)
    BY DEF StacksOK, StackOK, TypeOK
  <1>4. /\ CallsOK(r, Traced, Logged) /\ CallOK(f, Traced, Logged)
        /\ r # << >> => WaitsFor(c, f)
    BY <1>1, <1>3, CallsPop
  <1>5. f.proc \notin Handlers /\ (f.proc = "log" => f.at = "return")
    OBVIOUS
  <1>6. r \in Seq(Frames)
    BY <1>3, StackParts
  <1>7. stack' = [stack EXCEPT ![t] = r]
    BY DEF Returns
  <1> HIDE DEF s, r, f, c
  <1>8. ASSUME r # << >> PROVE RunningOK(c, Traced, Logged)
    <2>1. WaitsFor(c, f)
      BY <1>4, <1>8
    <2>2. ASSUME c.proc = "log", c.at = "stderr" PROVE Traced
      <3>1. f.proc = "log" /\ f.line.text = "stack trace" /\ f.at = "return"
        BY <1>5, <2>1, <2>2 DEF WaitsFor
      <3> QED  BY <1>1, <1>4, <3>1 DEF CallOK
    <2>3. ASSUME c.proc = "signal_handler", c.at = "flush" PROVE Logged
      <3>1. f.proc = "log" /\ IsFatal(f) /\ f.at = "return"
        BY <1>5, <2>1, <2>3 DEF WaitsFor
      <3> QED  BY <1>1, <1>4, <3>1 DEF CallOK
    <2> QED  BY <1>1, <2>2, <2>3 DEF RunningOK
  <1>9. StackOK(r, Traced, Logged)
    BY <1>1, <1>4, <1>8 DEF StackOK, c
  <1>10. StackOK(r, Traced', Logged')
    BY <1>2, <1>9
  <1> QED
    BY <1>2, <1>6, <1>7, <1>10, StacksKept


LEMMA RunningSays ==
  ASSUME TypeOK, StacksOK, NEW t \in Threads, NEW proc, NEW at, At(t, proc, at)
  PROVE  /\ CallOK(Last(stack[t]), Traced, Logged)
         /\ RunningOK(Last(stack[t]), Traced, Logged)
         /\ Last(stack[t]).line = line(t)
         /\ \A to \in Places : /\ Moved(t, to).proc = proc
                               /\ Moved(t, to).line = line(t)
                               /\ Moved(t, to).at = to
  <1>1. /\ stack[t] # << >> /\ stack[t] \in Seq(Frames) /\ Last(stack[t]) \in Frames
        /\ Last(stack[t]).proc = proc
    BY RunningCall
  <1>2. Traced \in BOOLEAN /\ Logged \in BOOLEAN
    BY DEF Traced, Logged
  <1>3. StackOK(stack[t], Traced, Logged)
    BY DEF StacksOK
  <1>4. CallOK(Last(stack[t]), Traced, Logged)
    BY <1>1, <1>2, <1>3, CallsPop DEF StackOK
  <1>5. RunningOK(Last(stack[t]), Traced, Logged)
    BY <1>1, <1>3 DEF StackOK
  <1>6. Last(stack[t]).line = line(t)
    BY DEF line
  <1>7. ASSUME NEW to \in Places
        PROVE  Moved(t, to).proc = proc /\ Moved(t, to).line = line(t) /\ Moved(t, to).at = to
    BY <1>1, <1>6, GoesOn DEF Moved
  <1> QED
    BY <1>4, <1>5, <1>6, <1>7

LEMMA AtTheBeginning ==
  ASSUME NEW c, NEW a \in BOOLEAN, NEW b \in BOOLEAN, c.proc \notin Handlers,
         c.line.verbosity \in {0, -2}, c.at \in {"begin", "lock"},
         c.proc = "log" => c.at = "begin"
  PROVE  CallOK(c, a, b) /\ RunningOK(c, a, b)
  <1>1. ~IsFatal(c) /\ c.line.verbosity <= Verbosity_INFO
    BY DEF IsFatal, Verbosity_FATAL, Verbosity_INFO
  <1>2. CallOK(c, a, b)
    BY <1>1 DEF CallOK, Handlers
  <1>3. RunningOK(c, a, b)
    BY <1>1 DEF RunningOK, Handlers
  <1> QED
    BY <1>2, <1>3

(* Calls that say nothing about the log: they have just begun, and their   *)
(* lines are not fatal.                                                    *)
LEMMA NewCallsOK ==
  ASSUME NEW t \in Threads, NEW a \in BOOLEAN, NEW b \in BOOLEAN
  PROVE  /\ \A n, text : text # "stack trace" =>
              CallOK(Log(t, text, n), a, b) /\ RunningOK(Log(t, text, n), a, b)
         /\ CallOK(StackTrace(t), a, b) /\ RunningOK(StackTrace(t), a, b)
         /\ CallOK(Flush, a, b) /\ RunningOK(Flush, a, b)
         /\ CallOK(Call("on_atexit", "begin", NoLine), a, b)
         /\ RunningOK(Call("on_atexit", "begin", NoLine), a, b)
  <1>1. ASSUME NEW n, NEW text, text # "stack trace"
        PROVE  CallOK(Log(t, text, n), a, b) /\ RunningOK(Log(t, text, n), a, b)
    <2> DEFINE c == Log(t, text, n)
    <2>1. c.proc = "log" /\ c.at = "begin" /\ c.line.text = text /\ c.line.verbosity = 0
      BY DEF Log, Call, Line, Verbosity_INFO
    <2> HIDE DEF c
    <2>2. CallOK(c, a, b) /\ RunningOK(c, a, b)
      BY <1>1, <2>1, AtTheBeginning DEF Handlers
    <2> QED  BY <2>2 DEF c
  <1>2. CallOK(StackTrace(t), a, b) /\ RunningOK(StackTrace(t), a, b)
    <2> DEFINE c == StackTrace(t)
    <2>1. c.proc = "log" /\ c.at = "begin" /\ c.line.verbosity = -2
      BY DEF StackTrace, Call, Line, Verbosity_ERROR
    <2> HIDE DEF c
    <2>2. CallOK(c, a, b) /\ RunningOK(c, a, b)
      BY <2>1, AtTheBeginning DEF Handlers
    <2> QED  BY <2>2 DEF c
  <1>3. CallOK(Flush, a, b) /\ RunningOK(Flush, a, b)
    <2>1. Flush.proc = "flush" /\ Flush.at = "lock" /\ Flush.line.verbosity = 0
      BY DEF Flush, Call, NoLine, Line
    <2> QED  BY <2>1, AtTheBeginning DEF Handlers
  <1>4. /\ CallOK(Call("on_atexit", "begin", NoLine), a, b)
        /\ RunningOK(Call("on_atexit", "begin", NoLine), a, b)
    <2> DEFINE c == Call("on_atexit", "begin", NoLine)
    <2>1. c.proc = "on_atexit" /\ c.at = "begin" /\ c.line.verbosity = 0
      BY DEF Call, NoLine, Line
    <2> HIDE DEF c
    <2>2. CallOK(c, a, b) /\ RunningOK(c, a, b)
      BY <2>1, AtTheBeginning DEF Handlers
    <2> QED  BY <2>2 DEF c
  <1> QED
    BY <1>1, <1>2, <1>3, <1>4

(* A call of log that goes on.                                             *)
LEMMA LogGoesOn ==
  ASSUME NEW f, NEW g, NEW a \in BOOLEAN, NEW b \in BOOLEAN,
         CallOK(f, a, b), f.proc = "log", g.proc = "log", g.line = f.line,
         \/ g.at \in {"malloc", "lock", "stderr"}
         \/ g.at = "file" /\ f.at = "stderr" /\ RunningOK(f, a, b)
         \/ g.at = "return" /\ f.at = "flush"
  PROVE  CallOK(g, a, b)
  <1>1. /\ g.line.verbosity <= Verbosity_INFO /\ (IsFatal(g) <=> IsFatal(f))
        /\ IsFatal(g) => g.line.text # "stack trace"
    BY DEF CallOK, IsFatal
  <1>2. IsFatal(g) /\ g.at = "file" => a
    BY <1>1 DEF RunningOK
  <1>3. IsFatal(g) /\ g.at \in {"flush", "return"} => b
    BY <1>1 DEF CallOK
  <1>4. g.line.text = "stack trace" /\ g.at \in {"flush", "return"} => a
    BY DEF CallOK
  <1> QED
    BY <1>1, <1>2, <1>3, <1>4 DEF CallOK, Handlers

LEMMA StacksLogging ==
  ASSUME TypeOK, StacksOK, NEW t \in Threads,
         \/ LOG_S(t)
         \/ log(t)
         \/ log_to_everywhere(t)
         \/ log_message(t)
         \/ writeStderr(t)
         \/ callBack(t)
         \/ logFlushes(t)
         \/ logReturns(t)
         \/ flush(t)
  PROVE  StacksOK'
  <1>0. \A at \in {"begin", "malloc", "lock", "stderr", "file", "flush", "return"} : at \in Places
    BY DEF Places
  <1>a. Traced \in BOOLEAN /\ Logged \in BOOLEAN
    BY DEF Traced, Logged
  <1>b. UNCHANGED <<file, callbacks>> => Traced' = Traced /\ Logged' = Logged
    BY DEF Traced, Logged
  <1>1. CASE LOG_S(t)
    <2> DEFINE h == Log(t, "line", said'[t])
    <2>1. said'[t] \in Nat
      <3>1. said[t] \in 0..MaxLines /\ MaxLines \in Nat
        BY LoggingAssumption DEF LoggingAssumption, TypeOK
      <3>2. said'[t] = said[t] + 1
        BY <1>1 DEF LOG_S, TypeOK
      <3> QED  BY <3>1, <3>2
    <2>2. h \in Frames
      BY <2>1, NewCalls DEF Texts
    <2>3. stack' = [stack EXCEPT ![t] = Append(stack[t], h)] /\ stack[t] = << >>
      BY <1>1 DEF LOG_S
    <2>4. CallOK(h, Traced, Logged) /\ RunningOK(h, Traced, Logged)
      BY <1>a, NewCallsOK
    <2>5. UNCHANGED <<file, callbacks>>
      BY <1>1 DEF LOG_S
    <2> HIDE DEF h
    <2> QED  BY <2>2, <2>3, <2>4, <2>5, StacksPush
  <1>2. CASE log(t)
    <2>1. /\ At(t, "log", "begin") /\ Continue(t, "malloc") /\ UNCHANGED <<file, callbacks>>
          /\ "malloc" \in Places
      BY <1>0, <1>2 DEF log
    <2>2. stack[t] # << >>
      BY <2>1, RunningCall
    <2>3. CallOK(Moved(t, "malloc"), Traced, Logged) /\ RunningOK(Moved(t, "malloc"), Traced, Logged)
      <3>1. /\ CallOK(Last(stack[t]), Traced, Logged) /\ RunningOK(Last(stack[t]), Traced, Logged)
            /\ Moved(t, "malloc").proc = "log" /\ Moved(t, "malloc").at = "malloc"
            /\ Moved(t, "malloc").line = Last(stack[t]).line /\ Last(stack[t]).proc = "log"
        BY <2>1, RunningSays, RunningCall
      <3>3. CallOK(Moved(t, "malloc"), Traced, Logged)
        BY <1>a, <3>1, LogGoesOn
      <3> QED  BY <3>1, <3>3 DEF RunningOK
    <2> QED  BY <1>b, <2>1, <2>2, <2>3, StacksContinue
  <1>3. CASE log_to_everywhere(t)
    <2>1. /\ At(t, "log", "malloc") /\ Continue(t, "lock") /\ UNCHANGED <<file, callbacks>>
          /\ "lock" \in Places
      BY <1>0, <1>3 DEF log_to_everywhere
    <2>2. stack[t] # << >>
      BY <2>1, RunningCall
    <2>3. CallOK(Moved(t, "lock"), Traced, Logged) /\ RunningOK(Moved(t, "lock"), Traced, Logged)
      <3>1. /\ CallOK(Last(stack[t]), Traced, Logged) /\ RunningOK(Last(stack[t]), Traced, Logged)
            /\ Moved(t, "lock").proc = "log" /\ Moved(t, "lock").at = "lock"
            /\ Moved(t, "lock").line = Last(stack[t]).line /\ Last(stack[t]).proc = "log"
        BY <2>1, RunningSays, RunningCall
      <3>3. CallOK(Moved(t, "lock"), Traced, Logged)
        BY <1>a, <3>1, LogGoesOn
      <3> QED  BY <3>1, <3>3 DEF RunningOK
    <2> QED  BY <1>b, <2>1, <2>2, <2>3, StacksContinue
  <1>4. CASE log_message(t)
    <2>1. At(t, "log", "lock") /\ UNCHANGED <<file, callbacks>> /\ "stderr" \in Places
      BY <1>0, <1>4 DEF log_message
    <2>2. stack[t] # << >>
      BY <2>1, RunningCall
    <2>3. CallOK(Moved(t, "stderr"), Traced, Logged)
      <3>1. /\ CallOK(Last(stack[t]), Traced, Logged) /\ RunningOK(Last(stack[t]), Traced, Logged)
            /\ Moved(t, "stderr").proc = "log" /\ Moved(t, "stderr").at = "stderr"
            /\ Moved(t, "stderr").line = Last(stack[t]).line /\ Last(stack[t]).proc = "log"
        BY <2>1, RunningSays, RunningCall
      <3> QED  BY <1>a, <3>1, LogGoesOn
    <2>4. CASE line(t).verbosity = Verbosity_FATAL
      <3>1. Calls(t, StackTrace(t), "stderr")
        BY <1>4, <2>4 DEF log_message
      <3>2. StackTrace(t) \in Frames
        BY NewCalls
      <3>3. WaitsFor(Moved(t, "stderr"), StackTrace(t))
        <4>1. /\ Moved(t, "stderr").proc = "log" /\ Moved(t, "stderr").at = "stderr"
          BY <2>1, RunningSays
        <4>2. StackTrace(t).proc = "log" /\ StackTrace(t).line.text = "stack trace"
          BY DEF StackTrace, Call, Line
        <4> QED  BY <4>1, <4>2 DEF WaitsFor
      <3>4. CallOK(StackTrace(t), Traced, Logged) /\ RunningOK(StackTrace(t), Traced, Logged)
        BY <1>a, NewCallsOK
      <3> QED  BY <2>1, <2>2, <2>3, <3>1, <3>2, <3>3, <3>4, StacksCall
    <2>5. CASE line(t).verbosity # Verbosity_FATAL
      <3>1. Continue(t, "stderr")
        BY <1>4, <2>5 DEF log_message
      <3>2. RunningOK(Moved(t, "stderr"), Traced, Logged)
        BY <2>1, <2>5, RunningSays DEF RunningOK, IsFatal
      <3> QED  BY <1>b, <2>1, <2>2, <2>3, <3>1, <3>2, StacksContinue
    <2> QED  BY <2>4, <2>5
  <1>5. CASE writeStderr(t)
    <2>1. /\ At(t, "log", "stderr") /\ Continue(t, "file") /\ UNCHANGED <<file, callbacks>>
          /\ "file" \in Places
      BY <1>0, <1>5 DEF writeStderr
    <2>2. stack[t] # << >>
      BY <2>1, RunningCall
    <2>3. CallOK(Moved(t, "file"), Traced, Logged) /\ RunningOK(Moved(t, "file"), Traced, Logged)
      <3>1. /\ CallOK(Last(stack[t]), Traced, Logged) /\ RunningOK(Last(stack[t]), Traced, Logged)
            /\ Moved(t, "file").proc = "log" /\ Moved(t, "file").at = "file"
            /\ Moved(t, "file").line = Last(stack[t]).line /\ Last(stack[t]).proc = "log"
        BY <2>1, RunningSays, RunningCall
      <3>2. Last(stack[t]).at = "stderr"
        BY <2>1, RunningCall
      <3>3. CallOK(Moved(t, "file"), Traced, Logged)
        BY <1>a, <3>1, <3>2, LogGoesOn
      <3> QED  BY <3>1, <3>3 DEF RunningOK
    <2> QED  BY <1>b, <2>1, <2>2, <2>3, StacksContinue
  <1>6. CASE callBack(t)
    <2> DEFINE at == IF line(t).verbosity = Verbosity_FATAL THEN "flush" ELSE "return"
    <2>1. At(t, "log", "file") /\ Continue(t, at) /\ at \in Places /\ callbacks' = callbacks
      BY <1>0, <1>6 DEF callBack
    <2>2. stack[t] # << >> /\ line(t) \in Lines
      BY <2>1, RunningCall
    <2>3. /\ Traced => Traced'
          /\ Logged => Logged'
          /\ line(t).text = "stack trace" => Traced'
          /\ line(t).verbosity = Verbosity_FATAL /\ Traced => Logged'
      <3>1. CASE callbacks = "destroyed"
        BY <2>1, <3>1 DEF Traced, Logged
      <3>2. CASE callbacks # "destroyed"
        <4>1. file' = Append(file, line(t)) /\ file \in Seq(Lines)
          BY <1>6, <3>2 DEF callBack, file_log, TypeOK
        <4>2. /\ Len(file) \in Nat /\ DOMAIN file = 1..Len(file)
              /\ DOMAIN file' = 1..(Len(file) + 1) /\ file'[Len(file) + 1] = line(t)
              /\ \A i \in 1..Len(file) : file'[i] = file[i]
          BY <2>2, <4>1, AppendProperties, LenProperties
        <4>3. \A i \in DOMAIN file : i \in DOMAIN file' /\ file'[i] = file[i] /\ i < Len(file) + 1
          BY <4>2
        <4>4. Len(file) + 1 \in DOMAIN file'
          BY <4>2
        <4>5. Traced => Traced'
          BY <2>1, <4>3 DEF Traced
        <4>6. Logged => Logged'
          BY <2>1, <4>3 DEF Logged
        <4>7. line(t).text = "stack trace" => Traced'
          BY <2>1, <4>2, <4>4 DEF Traced
        <4>8. line(t).verbosity = Verbosity_FATAL /\ Traced => Logged'
          BY <2>1, <4>2, <4>3, <4>4 DEF Traced, Logged
        <4> QED  BY <4>5, <4>6, <4>7, <4>8
      <3> QED  BY <3>1, <3>2
    <2>4. /\ Moved(t, at).proc = "log" /\ Moved(t, at).line = line(t) /\ Moved(t, at).at = at
          /\ Last(stack[t]).line = line(t) /\ CallOK(Last(stack[t]), Traced, Logged)
          /\ Last(stack[t]).proc = "log" /\ Last(stack[t]).at = "file"
      BY <2>1, RunningSays, RunningCall
    <2>5. Traced' \in BOOLEAN /\ Logged' \in BOOLEAN
      BY DEF Traced, Logged
    <2>6. CallOK(Moved(t, at), Traced', Logged')
      <3>1. /\ line(t).verbosity <= Verbosity_INFO
            /\ line(t).verbosity = Verbosity_FATAL => line(t).text # "stack trace" /\ Traced
        BY <1>a, <2>4 DEF CallOK, IsFatal
      <3>2. at \notin {"file", "kill"}
        OBVIOUS
      <3> HIDE DEF at
      <3> QED  BY <2>3, <2>4, <2>5, <3>1, <3>2 DEF CallOK, IsFatal, Handlers
    <2>7. RunningOK(Moved(t, at), Traced', Logged')
      BY <2>4 DEF RunningOK
    <2> HIDE DEF at
    <2> QED  BY <2>1, <2>2, <2>3, <2>6, <2>7, StacksContinue
  <1>7. CASE logFlushes(t)
    <2>1. /\ At(t, "log", "flush") /\ Calls(t, Flush, "return") /\ UNCHANGED <<file, callbacks>>
          /\ "return" \in Places
      BY <1>0, <1>7 DEF logFlushes
    <2>2. stack[t] # << >> /\ Flush \in Frames
      BY <2>1, RunningCall, NewCalls
    <2>3. CallOK(Moved(t, "return"), Traced, Logged)
      <3>1. /\ CallOK(Last(stack[t]), Traced, Logged) /\ RunningOK(Last(stack[t]), Traced, Logged)
            /\ Moved(t, "return").proc = "log" /\ Moved(t, "return").at = "return"
            /\ Moved(t, "return").line = Last(stack[t]).line /\ Last(stack[t]).proc = "log"
        BY <2>1, RunningSays, RunningCall
      <3>2. Last(stack[t]).at = "flush"
        BY <2>1, RunningCall
      <3> QED  BY <1>a, <3>1, <3>2, LogGoesOn
    <2>4. WaitsFor(Moved(t, "return"), Flush)
      BY <2>1, RunningSays DEF WaitsFor
    <2>5. CallOK(Flush, Traced, Logged) /\ RunningOK(Flush, Traced, Logged)
      BY <1>a, NewCallsOK
    <2> QED  BY <2>1, <2>2, <2>3, <2>4, <2>5, StacksCall
  <1>8. CASE logReturns(t)
    <2>1. At(t, "log", "return") /\ Returns(t) /\ UNCHANGED <<file, callbacks>>
      BY <1>8 DEF logReturns
    <2>2. stack[t] # << >> /\ Last(stack[t]).proc = "log" /\ Last(stack[t]).at = "return"
      BY <2>1, RunningCall
    <2> QED  BY <2>1, <2>2, StacksReturn DEF Handlers
  <1>9. CASE flush(t)
    <2>1. At(t, "flush", "lock") /\ Returns(t) /\ UNCHANGED <<file, callbacks>>
      BY <1>9 DEF flush
    <2>2. stack[t] # << >> /\ Last(stack[t]).proc = "flush"
      BY <2>1, RunningCall
    <2> QED  BY <2>1, <2>2, StacksReturn DEF Handlers
  <1> QED
    BY <1>1, <1>2, <1>3, <1>4, <1>5, <1>6, <1>7, <1>8, <1>9


LEMMA StacksSignals ==
  ASSUME TypeOK, StacksOK, NEW t \in Threads,
         Handle(t) \/ \E sig \in Signals : deliver(t, sig)
  PROVE  StacksOK'
  <1>0. {"begin", "unlink", "exit", "gone", "flush", "return", "message", "kill"} \subseteq Places
    BY DEF Places
  <1>a. Traced \in BOOLEAN /\ Logged \in BOOLEAN
    BY DEF Traced, Logged
  <1>1. /\ Flush \in Frames /\ CallOK(Flush, Traced, Logged) /\ RunningOK(Flush, Traced, Logged)
    BY <1>a, NewCalls, NewCallsOK
  <1>2. ASSUME NEW sig \in Signals, deliver(t, sig)  PROVE StacksOK'
    <2> DEFINE proc == IF sig = "SIGINT" THEN "sigHandler" ELSE "signal_handler"
               h == Call(proc, "begin", Line(t, sig, 0, Verbosity_FATAL))
    <2>1. h \in Frames
      <3>1. proc \in Procs /\ sig \in Texts /\ "begin" \in Places
        BY DEF Procs, Texts, Places
      <3> QED  BY <3>1, NewCalls
    <2>2. /\ stack' = [stack EXCEPT ![t] = Append(stack[t], h)]
          /\ UNCHANGED <<file, callbacks>>
      BY <1>2 DEF deliver
    <2>3. h.proc \in Handlers /\ h.at = "begin" /\ h.line.verbosity = Verbosity_FATAL /\ h.line.text = sig
      BY DEF Call, Line, Handlers
    <2>4. sig # "stack trace"
      BY LoggingAssumption DEF LoggingAssumption
    <2> HIDE DEF h
    <2>5. WaitsFor(Last(stack[t]), h)
      BY <2>3 DEF WaitsFor
    <2>6. CallOK(h, Traced, Logged) /\ RunningOK(h, Traced, Logged)
      <3>1. h.proc # "log"
        BY <2>3 DEF Handlers
      <3> QED  BY <2>3, <2>4, <3>1 DEF CallOK, RunningOK, IsFatal
    <2> QED  BY <2>1, <2>2, <2>5, <2>6, StacksPush
  <1>3. ASSUME NEW proc \in {"sigHandler", "on_atexit", "signal_handler"}, NEW at,
               At(t, proc, at), NEW to \in Places
        PROVE  /\ CallOK(Moved(t, to), Traced, Logged) \/ (proc = "signal_handler" /\ to = "kill")
               /\ proc = "signal_handler" /\ at = "flush" => CallOK(Moved(t, to), Traced, Logged)
               /\ Moved(t, to).proc = proc /\ Moved(t, to).at = to
    <2> DEFINE f == Last(stack[t])
               g == Moved(t, to)
    <2>1. /\ f.proc = proc /\ f.at = at /\ CallOK(f, Traced, Logged) /\ RunningOK(f, Traced, Logged)
          /\ g.proc = proc /\ g.line = f.line /\ g.at = to
      BY <1>3, RunningCall, RunningSays
    <2> HIDE DEF f, g
    <2>2. /\ g.proc \in Handlers => IsFatal(g)
          /\ IsFatal(g) => g.line.text # "stack trace"
      BY <2>1 DEF CallOK, IsFatal
    <2>3. g.proc # "log"
      BY <2>1
    <2>4. proc = "signal_handler" /\ at = "flush" => Logged
      BY <2>1 DEF RunningOK
    <2>5. CallOK(g, Traced, Logged) <=> (proc = "signal_handler" /\ to = "kill" => Logged)
      BY <1>a, <2>1, <2>2, <2>3 DEF CallOK
    <2>6. CallOK(g, Traced, Logged) \/ (proc = "signal_handler" /\ to = "kill")
      BY <2>5
    <2>7. proc = "signal_handler" /\ at = "flush" => CallOK(g, Traced, Logged)
      BY <2>4, <2>5
    <2> QED  BY <2>1, <2>6, <2>7 DEF g
  <1>4. ASSUME NEW proc \in {"sigHandler", "on_atexit", "signal_handler"}, NEW at,
               At(t, proc, at), NEW after \in Places, NEW call \in Frames,
               CallOK(call, Traced, Logged), RunningOK(call, Traced, Logged),
               Calls(t, call, after), UNCHANGED <<file, callbacks>>,
               proc = "signal_handler" /\ after = "kill" => at = "flush",
               proc = "signal_handler" /\ after = "flush" => call.proc = "log" /\ IsFatal(call)
        PROVE  StacksOK'
    <2>1. stack[t] # << >>
      BY <1>4 DEF At
    <2>2. CallOK(Moved(t, after), Traced, Logged)
      BY <1>3, <1>4
    <2>3. Moved(t, after).proc = proc /\ Moved(t, after).at = after
      BY <1>3, <1>4
    <2>4. WaitsFor(Moved(t, after), call)
      BY <1>4, <2>3 DEF WaitsFor
    <2> QED  BY <1>4, <2>1, <2>2, <2>4, StacksCall
  <1>5. CASE sigHandler(t) /\ UNCHANGED <<said, stderr, file, sent>>
    <2>0. UNCHANGED <<file, callbacks>>
      BY <1>5 DEF sigHandler
    <2>1. CASE At(t, "sigHandler", "begin") /\ Calls(t, Log(t, "cleaning up", 0), "unlink")
      <3>1. Log(t, "cleaning up", 0) \in Frames
        BY NewCalls DEF Texts
      <3>2. /\ CallOK(Log(t, "cleaning up", 0), Traced, Logged)
            /\ RunningOK(Log(t, "cleaning up", 0), Traced, Logged)
        BY <1>a, NewCallsOK
      <3>3. "unlink" \in Places
        BY <1>0
      <3> QED  BY <1>4, <2>0, <2>1, <3>1, <3>2, <3>3
    <2>2. CASE At(t, "sigHandler", "unlink") /\ Calls(t, Call("on_atexit", "begin", NoLine), "exit")
      <3> DEFINE c == Call("on_atexit", "begin", NoLine)
      <3>1. c \in Frames /\ CallOK(c, Traced, Logged) /\ RunningOK(c, Traced, Logged)
        BY <1>a, NewCalls, NewCallsOK
      <3>2. "exit" \in Places /\ Calls(t, c, "exit")
        BY <1>0, <2>2
      <3> HIDE DEF c
      <3> QED  BY <1>4, <2>0, <2>2, <3>1, <3>2
    <2>3. CASE UNCHANGED stack
      BY <2>0, <2>3 DEF StacksOK, Traced, Logged
    <2> QED  BY <1>5, <2>1, <2>2, <2>3 DEF sigHandler
  <1>6. CASE on_atexit(t) /\ UNCHANGED <<said, stderr, file, sent>>
    <2>0. UNCHANGED <<file, callbacks>>
      BY <1>6 DEF on_atexit
    <2>1. CASE At(t, "on_atexit", "begin") /\ Calls(t, Log(t, "atexit", 0), "flush")
      <3>1. Log(t, "atexit", 0) \in Frames
        BY NewCalls DEF Texts
      <3>2. /\ CallOK(Log(t, "atexit", 0), Traced, Logged)
            /\ RunningOK(Log(t, "atexit", 0), Traced, Logged)
        BY <1>a, NewCallsOK
      <3>3. "flush" \in Places
        BY <1>0
      <3> QED  BY <1>4, <2>0, <2>1, <3>1, <3>2, <3>3
    <2>2. CASE At(t, "on_atexit", "flush") /\ Calls(t, Flush, "return")
      <3>1. "return" \in Places
        BY <1>0
      <3> QED  BY <1>1, <1>4, <2>0, <2>2, <3>1
    <2>3. CASE At(t, "on_atexit", "return") /\ Returns(t)
      <3>1. stack[t] # << >> /\ Last(stack[t]).proc = "on_atexit"
        BY <2>3, RunningCall
      <3>2. "on_atexit" \notin Handlers
        BY DEF Handlers
      <3> QED  BY <2>0, <2>3, <3>1, <3>2, StacksReturn
    <2> QED  BY <1>6, <2>1, <2>2, <2>3 DEF on_atexit
  <1>7. CASE exit(t) /\ UNCHANGED <<said, stderr, file, sent>>
    <2>1. CASE At(t, "sigHandler", "exit") /\ Continue(t, "gone") /\ callbacks' = "destroyed"
      <3>1. stack[t] # << >> /\ "gone" \in Places
        BY <1>0, <2>1, RunningCall
      <3>2. Traced' /\ Logged'
        BY <2>1 DEF Traced, Logged
      <3>3. /\ CallOK(Moved(t, "gone"), Traced, Logged)
            /\ Moved(t, "gone").proc = "sigHandler"
        BY <1>3, <2>1, <3>1
      <3>4. CallOK(Moved(t, "gone"), Traced', Logged')
        BY <1>a, <3>2, <3>3 DEF CallOK
      <3>5. RunningOK(Moved(t, "gone"), Traced', Logged')
        BY <3>3 DEF RunningOK
      <3> QED  BY <2>1, <3>1, <3>2, <3>4, <3>5, StacksContinue
    <2>2. CASE UNCHANGED <<stack, callbacks>>
      BY <1>7, <2>2 DEF StacksOK, Traced, Logged
    <2> QED  BY <1>7, <2>1, <2>2 DEF exit
  <1>8. CASE signal_handler(t) /\ UNCHANGED <<said, stderr, file, sent>>
    <2>0. UNCHANGED <<file, callbacks>>
      BY <1>8 DEF signal_handler
    <2>1. CASE At(t, "signal_handler", "begin") /\ Calls(t, Flush, "message")
      <3>1. "message" \in Places
        BY <1>0
      <3> QED  BY <1>1, <1>4, <2>0, <2>1, <3>1
    <2>2. CASE At(t, "signal_handler", "message") /\ Calls(t, FatalMessage(t), "flush")
      <3> DEFINE h == FatalMessage(t)
                 f == Last(stack[t])
      <3>1. /\ f.proc = "signal_handler" /\ f.line = line(t) /\ line(t) \in Lines
            /\ CallOK(f, Traced, Logged)
        BY <2>2, RunningCall, RunningSays
      <3>2. h.proc = "log" /\ h.at = "lock" /\ h.line = line(t)
        BY DEF FatalMessage, Call
      <3>3. h \in Frames
        <4>1. "log" \in Procs /\ "lock" \in Places
          BY DEF Procs, Places
        <4> QED  BY <3>1, <4>1, NewCalls DEF FatalMessage
      <3> HIDE DEF h, f
      <3>4. line(t).verbosity = Verbosity_FATAL /\ line(t).text # "stack trace"
        BY <3>1 DEF CallOK, IsFatal, Handlers
      <3>5. IsFatal(h) /\ h.line.verbosity <= Verbosity_INFO /\ h.line.text # "stack trace"
        <4>1. h.line.verbosity = Verbosity_FATAL /\ h.line.text # "stack trace"
          BY <3>2, <3>4
        <4>2. Verbosity_FATAL <= Verbosity_INFO
          BY DEF Verbosity_FATAL, Verbosity_INFO
        <4> QED  BY <4>1, <4>2 DEF IsFatal
      <3>6. CallOK(h, Traced, Logged) /\ RunningOK(h, Traced, Logged)
        BY <3>2, <3>5 DEF CallOK, RunningOK, Handlers
      <3>7. "flush" \in Places /\ Calls(t, h, "flush")
        BY <1>0, <2>2 DEF h
      <3> QED  BY <1>4, <2>0, <2>2, <3>2, <3>3, <3>5, <3>6, <3>7
    <2>3. CASE At(t, "signal_handler", "flush") /\ Calls(t, Flush, "kill")
      <3>1. "kill" \in Places
        BY <1>0
      <3> QED  BY <1>1, <1>4, <2>0, <2>3, <3>1
    <2>4. CASE UNCHANGED stack
      BY <2>0, <2>4 DEF StacksOK, Traced, Logged
    <2> QED  BY <1>8, <2>1, <2>2, <2>3, <2>4 DEF signal_handler
  <1> QED
    BY <1>2, <1>5, <1>6, <1>7, <1>8 DEF Handle

LEMMA StacksInit == Init => StacksOK
  <1> SUFFICES ASSUME Init, NEW t \in Threads PROVE StackOK(stack[t], Traced, Logged)
    BY DEF StacksOK
  <1>1. stack[t] = << >> /\ Len(<< >>) = 0
    BY DEF Init
  <1> QED
    BY <1>1 DEF StackOK, CallsOK

(* A process is killed by a handler that has logged; and nothing runs in a *)
(* killed process.                                                         *)
LEMMA KilledStep ==
  ASSUME TypeOK, StacksOK, KilledIsLogged, Next
  PROVE  KilledIsLogged'
  <1> SUFFICES ASSUME process' = "killed" PROVE Logged'
    BY DEF KilledIsLogged, Logged
  <1>1. process = "running"
    BY DEF Next, LOG_S, Step, log, log_to_everywhere, log_message, writeStderr, callBack,
           logFlushes, logReturns, flush, Handle, sigHandler, on_atexit, exit, signal_handler,
           deliver, At
  <1>2. PICK t \in Threads : At(t, "signal_handler", "kill") /\ UNCHANGED <<callbacks, file>>
    BY <1>1 DEF Next, LOG_S, Step, log, log_to_everywhere, log_message, writeStderr, callBack,
           logFlushes, logReturns, flush, Handle, sigHandler, on_atexit, exit, signal_handler,
           deliver
  <1>3. /\ Last(stack[t]).proc = "signal_handler" /\ Last(stack[t]).at = "kill"
        /\ CallOK(Last(stack[t]), Traced, Logged)
    BY <1>2, RunningCall, RunningSays
  <1>4. Logged
    BY <1>3 DEF CallOK
  <1> QED
    BY <1>2, <1>4 DEF Logged

LEMMA LoggingInvariantHolds == Spec => []IInv
  <1>1. Init => IInv
    <2>1. Init => KilledIsLogged
      BY DEF Init, KilledIsLogged
    <2> QED  BY <2>1, TypeInit, StacksInit DEF IInv
  <1>2. IInv /\ [Next]_vars => IInv'
    <2> SUFFICES ASSUME IInv, [Next]_vars PROVE IInv'
      OBVIOUS
    <2>1. TypeOK /\ StacksOK /\ KilledIsLogged /\ TypeOK'
      BY TypeStep DEF IInv
    <2>2. CASE UNCHANGED vars
      <3>1. StacksOK' /\ KilledIsLogged'
        BY <2>1, <2>2 DEF vars, StacksOK, KilledIsLogged, Traced, Logged
      <3> QED  BY <2>1, <3>1 DEF IInv
    <2>3. CASE Next
      <3>1. KilledIsLogged'
        BY <2>1, <2>3, KilledStep
      <3>2. ASSUME NEW t \in Threads, LOG_S(t) \/ Step(t) \/ \E sig \in Signals : deliver(t, sig)
            PROVE  StacksOK'
        BY <2>1, <3>2, StacksLogging, StacksSignals DEF Step
      <3>3. StacksOK'
        BY <2>3, <3>2 DEF Next
      <3> QED  BY <2>1, <3>1, <3>3 DEF IInv
    <2> QED  BY <2>2, <2>3
  <1> QED
    BY <1>1, <1>2, PTL DEF Spec

(* When a signal that the server does not handle itself has ended it, the  *)
(* file has a stack trace and a fatal line behind it: whatever the other   *)
(* threads and the other handlers logged meanwhile.                        *)
THEOREM DeathIsLogged == Spec => []KilledIsLogged
  <1>1. IInv => KilledIsLogged
    BY DEF IInv
  <1> QED
    BY <1>1, LoggingInvariantHolds, PTL


-----------------------------------------------------------------------------
(* A line that is pending belongs to the thread that holds the mutex.      *)
LEMMA PendingIsLocked ==
  ASSUME TypeOK, NEW t \in Threads, NEW i \in DOMAIN stack[t], AtFile(stack[t][i])
  PROVE  mutex.owner = t
  <1> DEFINE s == stack[t]
             H == {j \in DOMAIN s : Locks(s[j])}
  <1>1. s \in Seq(Frames) /\ Held(s) = IF mutex.owner = t THEN mutex.depth ELSE 0
    BY DEF TypeOK
  <1>2. i \in H
    BY DEF AtFile, Locks
  <1>3. IsFiniteSet(H)
    <2>1. DOMAIN s = 1..Len(s) /\ Len(s) \in Nat
      BY <1>1, LenProperties
    <2>2. IsFiniteSet(1..Len(s)) /\ H \subseteq 1..Len(s)
      BY <2>1, FS_Interval
    <2> QED  BY <2>2, FS_Subset
  <1>4. Held(s) = Cardinality(H)
    BY DEF Held
  <1> HIDE DEF s, H
  <1>5. Cardinality(H) # 0
    BY <1>2, <1>3, FS_EmptySet
  <1> QED
    BY <1>1, <1>4, <1>5

(* A step that changes neither sink, ends no call that has a line pending  *)
(* and leaves none on top.                                                 *)
LEMMA SinksKept ==
  ASSUME TypeOK, SinksOK, NEW t \in Threads, NEW s \in Seq(Frames),
         stack' = [stack EXCEPT ![t] = s], UNCHANGED <<stderr, file, callbacks>>,
         \A i \in DOMAIN stack[t] : AtFile(stack[t][i]) => i \in DOMAIN s /\ AtFile(s[i]),
         s # << >> => ~AtFile(Last(s))
  PROVE  SinksOK'
  <1>1. stack \in [Threads -> Seq(Frames)]
    BY DEF TypeOK
  <1>2. stack'[t] = s /\ \A u \in Threads : u # t => stack'[u] = stack[u]
    BY <1>1
  <1>3. ASSUME NEW u \in Threads, NEW i \in DOMAIN stack[u], AtFile(stack[u][i])
        PROVE  i \in DOMAIN stack'[u] /\ AtFile(stack'[u][i])
    BY <1>2, <1>3
  <1>4. NonePending' => NonePending
    BY <1>3 DEF NonePending
  <1>5. ASSUME NEW u \in Threads, OnlyPending(u)'
        PROVE  OnlyPending(u) /\ line(u)' = line(u)
    <2>1. stack'[u] # << >> /\ AtFile(Last(stack'[u]))
      BY <1>5 DEF OnlyPending
    <2>2. u # t
      BY <1>2, <2>1
    <2>3. stack'[u] = stack[u]
      BY <1>2, <2>2
    <2>4. \A v \in Threads : \A i \in DOMAIN stack'[v] :
            AtFile(stack'[v][i]) => v = u /\ i = Len(stack'[u])
      BY <1>5 DEF OnlyPending
    <2>5. \A v \in Threads : \A i \in DOMAIN stack[v] :
            AtFile(stack[v][i]) => v = u /\ i = Len(stack[u])
      BY <1>3, <2>3, <2>4
    <2> QED  BY <2>1, <2>3, <2>5 DEF OnlyPending, line
  <1> QED
    BY <1>4, <1>5 DEF SinksOK

LEMMA SinksStackKept ==
  ASSUME SinksOK, UNCHANGED <<stack, stderr, file, callbacks>>
  PROVE  SinksOK'
  BY DEF SinksOK, NonePending, OnlyPending, line

(* The places of a stack after the running call has moved.                 *)
LEMMA MovedPlaces ==
  ASSUME TypeOK, NEW t \in Threads, stack[t] # << >>, NEW at \in Places
  PROVE  /\ GoTo(t, at) \in Seq(Frames) /\ GoTo(t, at) # << >>
         /\ Last(GoTo(t, at)) = Moved(t, at)
         /\ Moved(t, at).proc = Last(stack[t]).proc /\ Moved(t, at).at = at
         /\ Moved(t, at).line = line(t) /\ Moved(t, at) \in Frames
         /\ Len(stack[t]) \in Nat \ {0} /\ Len(GoTo(t, at)) = Len(stack[t])
         /\ DOMAIN stack[t] = 1..Len(stack[t]) /\ DOMAIN GoTo(t, at) = 1..Len(stack[t])
         /\ stack[t][Len(stack[t])] = Last(stack[t])
         /\ GoTo(t, at)[Len(stack[t])] = Moved(t, at)
         /\ \A i \in 1..(Len(stack[t]) - 1) : GoTo(t, at)[i] = stack[t][i]
  <1> DEFINE s == stack[t]
             r == Front(s)
             g == Moved(t, at)
             n == Len(s)
             q == GoTo(t, at)
  <1>1. /\ s \in Seq(Frames) /\ g \in Frames /\ g.proc = Last(s).proc /\ g.line = Last(s).line
        /\ g.at = at /\ r \in Seq(Frames) /\ q = Append(r, g) /\ q \in Seq(Frames)
    BY GoesOn DEF Moved
  <1>2. /\ n \in Nat \ {0} /\ Len(r) = n - 1 /\ Last(s) = s[n]
        /\ \A i \in 1..(n - 1) : r[i] = s[i]
    BY <1>1, StackParts
  <1>3. Last(s).line = line(t)
    BY DEF line
  <1>4. DOMAIN s = 1..n
    BY <1>1, LenProperties
  <1> HIDE DEF s, r, g, n, q
  <1>5. /\ Len(q) = n - 1 + 1 /\ q[n - 1 + 1] = g /\ \A i \in 1..(n - 1) : q[i] = r[i]
    BY <1>1, <1>2, AppendProperties
  <1>6. Len(q) = n /\ q[n] = g
    BY <1>2, <1>5
  <1>7. DOMAIN q = 1..n
    BY <1>1, <1>6, LenProperties
  <1>8. q # << >>
    BY <1>2, <1>6
  <1>9. Last(q) = g
    BY <1>1, <1>6, <1>8, StackParts
  <1>10. \A i \in 1..(n - 1) : q[i] = s[i]
    BY <1>2, <1>5
  <1> QED
    BY <1>1, <1>2, <1>3, <1>4, <1>6, <1>7, <1>8, <1>9, <1>10 DEF s, r, g, n, q

LEMMA SinksContinue ==
  ASSUME TypeOK, SinksOK, NEW t \in Threads, stack[t] # << >>, NEW at \in Places, at # "file",
         ~AtFile(Last(stack[t])), Continue(t, at), UNCHANGED <<stderr, file, callbacks>>
  PROVE  SinksOK'
  <1> DEFINE s == GoTo(t, at)
             n == Len(stack[t])
  <1>1. /\ s \in Seq(Frames) /\ s # << >> /\ Last(s).at = at /\ n \in Nat \ {0}
        /\ DOMAIN stack[t] = 1..n /\ DOMAIN s = 1..n /\ stack[t][n] = Last(stack[t])
        /\ \A i \in 1..(n - 1) : s[i] = stack[t][i]
    BY MovedPlaces
  <1>2. stack' = [stack EXCEPT ![t] = s]
    BY DEF Continue
  <1> HIDE DEF s, n
  <1>3. ASSUME NEW i \in DOMAIN stack[t], AtFile(stack[t][i])
        PROVE  i \in DOMAIN s /\ AtFile(s[i])
    <2>1. i # n
      BY <1>1, <1>3
    <2>2. i \in 1..(n - 1) /\ i \in 1..n
      BY <1>1, <2>1
    <2> QED  BY <1>1, <1>3, <2>2
  <1>4. ~AtFile(Last(s))
    BY <1>1 DEF AtFile
  <1> QED
    BY <1>1, <1>2, <1>3, <1>4, SinksKept

LEMMA SinksPush ==
  ASSUME TypeOK, SinksOK, NEW t \in Threads, NEW call \in Frames, call.at # "file",
         stack' = [stack EXCEPT ![t] = Append(stack[t], call)],
         UNCHANGED <<stderr, file, callbacks>>
  PROVE  SinksOK'
  <1> DEFINE r == stack[t]
             s == Append(r, call)
             n == Len(r)
  <1>1. r \in Seq(Frames)
    BY DEF TypeOK
  <1>2. /\ s \in Seq(Frames) /\ n \in Nat /\ Len(s) = n + 1 /\ s[n + 1] = call
        /\ \A i \in 1..n : s[i] = r[i]
    BY <1>1, AppendProperties
  <1>3. DOMAIN r = 1..n /\ DOMAIN s = 1..(n + 1)
    BY <1>1, <1>2, LenProperties
  <1>4. stack' = [stack EXCEPT ![t] = s]
    OBVIOUS
  <1> HIDE DEF s, n
  <1>5. s # << >>
    BY <1>2
  <1>6. Last(s) = call
    BY <1>2, <1>5, StackParts
  <1>7. ASSUME NEW i \in DOMAIN r, AtFile(r[i]) PROVE i \in DOMAIN s /\ AtFile(s[i])
    BY <1>2, <1>3, <1>7
  <1>8. ~AtFile(Last(s))
    BY <1>6 DEF AtFile
  <1> QED
    BY <1>2, <1>4, <1>7, <1>8, SinksKept

LEMMA SinksCall ==
  ASSUME TypeOK, SinksOK, NEW t \in Threads, stack[t] # << >>, NEW after \in Places,
         after # "file", NEW call \in Frames, call.at # "file", ~AtFile(Last(stack[t])),
         Calls(t, call, after), UNCHANGED <<stderr, file, callbacks>>
  PROVE  SinksOK'
  <1> DEFINE q == GoTo(t, after)
             n == Len(stack[t])
             s == Append(q, call)
  <1>1. /\ q \in Seq(Frames) /\ n \in Nat \ {0} /\ Len(q) = n
        /\ DOMAIN stack[t] = 1..n /\ stack[t][n] = Last(stack[t])
        /\ \A i \in 1..(n - 1) : q[i] = stack[t][i]
    BY MovedPlaces
  <1>2. stack' = [stack EXCEPT ![t] = s]
    BY DEF Calls
  <1>3. /\ s \in Seq(Frames) /\ Len(s) = n + 1 /\ s[n + 1] = call
        /\ \A i \in 1..n : s[i] = q[i]
    BY <1>1, AppendProperties
  <1>4. DOMAIN s = 1..(n + 1)
    BY <1>3, LenProperties
  <1>5. s # << >>
    BY <1>1, <1>3
  <1>6. Last(s) = call
    BY <1>1, <1>3, <1>5, StackParts
  <1> HIDE DEF s, n, q
  <1>7. ASSUME NEW i \in DOMAIN stack[t], AtFile(stack[t][i])
        PROVE  i \in DOMAIN s /\ AtFile(s[i])
    <2>1. i # n
      BY <1>1, <1>7
    <2>2. i \in 1..(n - 1) /\ i \in 1..n /\ i \in 1..(n + 1)
      BY <1>1, <2>1
    <2> QED  BY <1>1, <1>3, <1>4, <1>7, <2>2
  <1>8. ~AtFile(Last(s))
    BY <1>6 DEF AtFile
  <1> QED
    BY <1>2, <1>3, <1>7, <1>8, SinksKept

(* A call that has made a call has no line pending.                        *)
LEMMA SinksReturn ==
  ASSUME TypeOK, StacksOK, SinksOK, NEW t \in Threads, stack[t] # << >>, Returns(t),
         Last(stack[t]).proc \notin Handlers, ~AtFile(Last(stack[t])),
         UNCHANGED <<stderr, file, callbacks>>
  PROVE  SinksOK'
  <1> DEFINE q == stack[t]
             n == Len(q)
             s == Front(q)
             f == Last(q)
  <1>1. q \in Seq(Frames) /\ CallsOK(q, Traced, Logged)
    BY DEF TypeOK, StacksOK, StackOK
  <1>2. /\ s \in Seq(Frames) /\ n \in Nat \ {0} /\ Len(s) = n - 1 /\ f = q[n]
        /\ \A i \in 1..(n - 1) : s[i] = q[i]
    BY <1>1, StackParts
  <1>3. DOMAIN q = 1..n /\ DOMAIN s = 1..(n - 1)
    BY <1>1, <1>2, LenProperties
  <1>4. stack' = [stack EXCEPT ![t] = s]
    BY DEF Returns
  <1>5. Traced \in BOOLEAN /\ Logged \in BOOLEAN
    BY DEF Traced, Logged
  <1>6. s # << >> => WaitsFor(Last(s), f)
    BY <1>1, <1>5, CallsPop
  <1>7. s # << >> => ~AtFile(Last(s))
    BY <1>6 DEF WaitsFor, AtFile
  <1>8. ASSUME NEW i \in DOMAIN q, AtFile(q[i]) PROVE i \in DOMAIN s /\ AtFile(s[i])
    <2> HIDE DEF q, n, s, f
    <2>1. i # n
      BY <1>2, <1>8 DEF f, q
    <2>2. i \in 1..(n - 1)
      BY <1>2, <1>3, <2>1
    <2> QED  BY <1>2, <1>3, <1>8, <2>2
  <1> HIDE DEF s, n
  <1> QED
    BY <1>2, <1>4, <1>7, <1>8, SinksKept


(* A line goes to stderr: it is the only one pending, if none was.         *)
LEMMA SinksStderr ==
  ASSUME TypeOK, StacksOK, SinksOK, g_stderr_verbosity >= Verbosity_INFO,
         NEW t \in Threads, writeStderr(t)
  PROVE  SinksOK'
  <1> DEFINE r == stack[t]
             n == Len(r)
             s == GoTo(t, "file")
  <1>0. "file" \in Places
    BY DEF Places
  <1>1. At(t, "log", "stderr") /\ Continue(t, "file") /\ UNCHANGED <<file, callbacks>>
    BY DEF writeStderr
  <1>2. r # << >> /\ Last(r).proc = "log" /\ Last(r).at = "stderr" /\ line(t).verbosity \in Int
    BY <1>1, RunningCall
  <1>3. /\ s # << >> /\ Last(s).proc = "log" /\ Last(s).at = "file" /\ Last(s).line = line(t)
        /\ n \in Nat \ {0} /\ Len(s) = n /\ DOMAIN r = 1..n /\ DOMAIN s = 1..n
        /\ r[n] = Last(r) /\ s[n] = Last(s) /\ \A i \in 1..(n - 1) : s[i] = r[i]
    BY <1>0, <1>2, MovedPlaces
  <1>4. stderr' = Append(stderr, line(t))
    <2>1. line(t).verbosity <= Verbosity_INFO
      <3>1. CallOK(Last(r), Traced, Logged) /\ Last(r).line = line(t)
        BY <1>1, RunningSays
      <3> QED  BY <1>2, <3>1 DEF CallOK
    <2>2. g_stderr_verbosity \in Int /\ Verbosity_INFO \in Int
      BY LoggingAssumption DEF LoggingAssumption, Verbosity_INFO
    <2>3. line(t).verbosity <= g_stderr_verbosity
      BY <1>2, <2>1, <2>2
    <2> QED  BY <2>3 DEF writeStderr
  <1>5. /\ stack'[t] = s /\ \A u \in Threads : u # t => stack'[u] = stack[u]
    BY <1>1 DEF Continue, TypeOK
  <1> HIDE DEF s, n
  <1>6. n \in 1..n
    BY <1>3
  <1>7. ~NonePending'
    BY <1>3, <1>5, <1>6 DEF NonePending, AtFile
  <1>8. ASSUME NEW u \in Threads, OnlyPending(u)'
        PROVE  u = t /\ NonePending
    <2>1. \A v \in Threads : \A i \in DOMAIN stack'[v] :
            AtFile(stack'[v][i]) => v = u /\ i = Len(stack'[u])
      BY <1>8 DEF OnlyPending
    <2>2. n \in DOMAIN stack'[t] /\ AtFile(stack'[t][n])
      BY <1>3, <1>5, <1>6 DEF AtFile
    <2>3. u = t
      BY <2>1, <2>2
    <2>4. ASSUME NEW v \in Threads, NEW i \in DOMAIN stack[v], AtFile(stack[v][i])
          PROVE  FALSE
      <3>1. CASE v # t
        <4>1. stack'[v] = stack[v]
          BY <1>5, <3>1
        <4> QED  BY <2>1, <2>3, <2>4, <3>1, <4>1
      <3>2. CASE v = t
        <4>1. i \in 1..n /\ i # n
          BY <1>2, <1>3, <2>4, <3>2 DEF AtFile
        <4>2. i \in 1..(n - 1)
          BY <1>3, <4>1
        <4>3. i \in DOMAIN stack'[t] /\ AtFile(stack'[t][i])
          BY <1>3, <1>5, <2>4, <3>2, <4>1, <4>2
        <4>4. i = n
          BY <1>3, <1>5, <2>1, <2>3, <4>3
        <4> QED  BY <4>1, <4>4
      <3> QED  BY <3>1, <3>2
    <2> QED  BY <2>3, <2>4 DEF NonePending
  <1>9. line(t)' = line(t)
    <2>1. line(t)' = Last(stack'[t]).line
      BY DEF line
    <2> QED  BY <1>3, <1>5, <2>1
  <1>10. ASSUME callbacks' = "alive", NEW u \in Threads, OnlyPending(u)'
         PROVE  stderr' = Append(file', line(u)')
    <2>1. u = t /\ NonePending /\ callbacks = "alive" /\ file' = file
      BY <1>1, <1>8, <1>10
    <2>2. stderr = file
      BY <2>1 DEF SinksOK
    <2> QED  BY <1>4, <1>9, <2>1, <2>2
  <1> QED
    BY <1>7, <1>10 DEF SinksOK

(* And it goes to the file, while nobody else can have a line pending.     *)
LEMMA SinksFile ==
  ASSUME TypeOK, SinksOK, NEW t \in Threads, callBack(t)
  PROVE  SinksOK'
  <1> SUFFICES ASSUME callbacks = "alive" PROVE SinksOK'
    BY DEF callBack, SinksOK
  <1> DEFINE at == IF line(t).verbosity = Verbosity_FATAL THEN "flush" ELSE "return"
             r == stack[t]
             n == Len(r)
             s == GoTo(t, at)
  <1>0. at \in Places /\ at # "file"
    BY DEF Places
  <1>1. /\ At(t, "log", "file") /\ Continue(t, at) /\ UNCHANGED <<stderr, callbacks>>
        /\ file' = Append(file, line(t))
    BY DEF callBack, file_log
  <1>2. r # << >> /\ AtFile(Last(r))
    BY <1>1, RunningCall DEF AtFile
  <1> HIDE DEF at
  <1>3. /\ Last(s).at = at
        /\ n \in Nat \ {0} /\ DOMAIN r = 1..n /\ DOMAIN s = 1..n
        /\ r[n] = Last(r) /\ s[n] = Last(s) /\ \A i \in 1..(n - 1) : s[i] = r[i]
    BY <1>0, <1>2, MovedPlaces
  <1>5. /\ stack'[t] = s /\ \A u \in Threads : u # t => stack'[u] = stack[u]
    BY <1>1 DEF Continue, TypeOK
  <1>6. n \in 1..n
    BY <1>3
  <1>7. mutex.owner = t
    BY <1>2, <1>3, <1>6, PendingIsLocked
  <1> HIDE DEF s, n
  <1>8. NonePending' => OnlyPending(t)
    <2> SUFFICES ASSUME NonePending' PROVE OnlyPending(t)
      OBVIOUS
    <2>1. ASSUME NEW v \in Threads, NEW i \in DOMAIN stack[v], AtFile(stack[v][i])
          PROVE  v = t /\ i = Len(stack[t])
      <3>1. CASE v # t
        <4>1. mutex.owner = v
          BY <2>1, PendingIsLocked
        <4> QED  BY <1>7, <3>1, <4>1
      <3>2. CASE v = t /\ i # n
        <4>1. i \in 1..n /\ i \in 1..(n - 1)
          BY <1>3, <2>1, <3>2
        <4>2. i \in DOMAIN stack'[t] /\ AtFile(stack'[t][i])
          BY <1>3, <1>5, <2>1, <3>2, <4>1
        <4> QED  BY <4>2 DEF NonePending
      <3> QED  BY <3>1, <3>2 DEF n
    <2> QED  BY <1>2, <2>1 DEF OnlyPending
  <1>9. ASSUME NEW u \in Threads, OnlyPending(u)' PROVE FALSE
    <2>1. stack'[u] # << >> /\ AtFile(Last(stack'[u]))
      BY <1>9 DEF OnlyPending
    <2>2. u # t
      BY <1>0, <1>3, <1>5, <2>1 DEF AtFile
    <2>3. stack[u] # << >> /\ AtFile(Last(stack[u])) /\ stack[u] \in Seq(Frames)
      BY <1>5, <2>1, <2>2 DEF TypeOK
    <2>4. Len(stack[u]) \in DOMAIN stack[u] /\ AtFile(stack[u][Len(stack[u])])
      BY <2>3, StackParts, LenProperties
    <2>5. mutex.owner = u
      BY <2>4, PendingIsLocked
    <2> QED  BY <1>7, <2>2, <2>5
  <1>10. NonePending' => stderr' = file'
    BY <1>1, <1>8 DEF SinksOK
  <1> QED
    BY <1>9, <1>10 DEF SinksOK

LEMMA SinksLogging ==
  ASSUME TypeOK, StacksOK, SinksOK, g_stderr_verbosity >= Verbosity_INFO, NEW t \in Threads,
         \/ LOG_S(t)
         \/ log(t)
         \/ log_to_everywhere(t)
         \/ log_message(t)
         \/ writeStderr(t)
         \/ callBack(t)
         \/ logFlushes(t)
         \/ logReturns(t)
         \/ flush(t)
  PROVE  SinksOK'
  <1>0. {"begin", "malloc", "lock", "stderr", "flush", "return"} \subseteq Places
    BY DEF Places
  <1>1. CASE LOG_S(t)
    <2> DEFINE h == Log(t, "line", said'[t])
    <2>1. said'[t] \in Nat
      <3>1. said[t] \in 0..MaxLines /\ MaxLines \in Nat
        BY LoggingAssumption DEF LoggingAssumption, TypeOK
      <3>2. said'[t] = said[t] + 1
        BY <1>1 DEF LOG_S, TypeOK
      <3> QED  BY <3>1, <3>2
    <2>2. h \in Frames /\ h.at # "file"
      BY <2>1, NewCalls DEF Texts, Log, Call
    <2>3. stack' = [stack EXCEPT ![t] = Append(stack[t], h)]
      BY <1>1 DEF LOG_S
    <2>4. UNCHANGED <<stderr, file, callbacks>>
      BY <1>1 DEF LOG_S
    <2> HIDE DEF h
    <2> QED  BY <2>2, <2>3, <2>4, SinksPush
  <1>2. CASE log(t)
    <2>1. /\ At(t, "log", "begin") /\ Continue(t, "malloc") /\ UNCHANGED <<stderr, file, callbacks>>
      BY <1>2 DEF log
    <2>2. stack[t] # << >> /\ ~AtFile(Last(stack[t])) /\ "malloc" \in Places
      BY <1>0, <2>1, RunningCall DEF AtFile
    <2> QED  BY <2>1, <2>2, SinksContinue
  <1>3. CASE log_to_everywhere(t)
    <2>1. /\ At(t, "log", "malloc") /\ Continue(t, "lock") /\ UNCHANGED <<stderr, file, callbacks>>
      BY <1>3 DEF log_to_everywhere
    <2>2. stack[t] # << >> /\ ~AtFile(Last(stack[t])) /\ "lock" \in Places
      BY <1>0, <2>1, RunningCall DEF AtFile
    <2> QED  BY <2>1, <2>2, SinksContinue
  <1>4. CASE log_message(t)
    <2>1. At(t, "log", "lock") /\ UNCHANGED <<stderr, file, callbacks>>
      BY <1>4 DEF log_message
    <2>2. stack[t] # << >> /\ ~AtFile(Last(stack[t])) /\ "stderr" \in Places
      BY <1>0, <2>1, RunningCall DEF AtFile
    <2>3. StackTrace(t) \in Frames /\ StackTrace(t).at # "file"
      BY NewCalls DEF StackTrace, Call
    <2>4. CASE Calls(t, StackTrace(t), "stderr")
      BY <2>1, <2>2, <2>3, <2>4, SinksCall
    <2>5. CASE Continue(t, "stderr")
      BY <2>1, <2>2, <2>5, SinksContinue
    <2> QED  BY <1>4, <2>4, <2>5 DEF log_message
  <1>5. CASE writeStderr(t)
    BY <1>5, SinksStderr
  <1>6. CASE callBack(t)
    BY <1>6, SinksFile
  <1>7. CASE logFlushes(t)
    <2>1. At(t, "log", "flush") /\ Calls(t, Flush, "return") /\ UNCHANGED <<stderr, file, callbacks>>
      BY <1>7 DEF logFlushes
    <2>2. stack[t] # << >> /\ ~AtFile(Last(stack[t])) /\ "return" \in Places
      BY <1>0, <2>1, RunningCall DEF AtFile
    <2>3. Flush \in Frames /\ Flush.at # "file"
      BY NewCalls DEF Flush, Call
    <2> QED  BY <2>1, <2>2, <2>3, SinksCall
  <1>8. CASE logReturns(t)
    <2>1. At(t, "log", "return") /\ Returns(t) /\ UNCHANGED <<stderr, file, callbacks>>
      BY <1>8 DEF logReturns
    <2>2. stack[t] # << >> /\ ~AtFile(Last(stack[t])) /\ Last(stack[t]).proc \notin Handlers
      BY <2>1, RunningCall DEF AtFile, Handlers
    <2> QED  BY <2>1, <2>2, SinksReturn
  <1>9. CASE flush(t)
    <2>1. At(t, "flush", "lock") /\ Returns(t) /\ UNCHANGED <<stderr, file, callbacks>>
      BY <1>9 DEF flush
    <2>2. stack[t] # << >> /\ ~AtFile(Last(stack[t])) /\ Last(stack[t]).proc \notin Handlers
      BY <2>1, RunningCall DEF AtFile, Handlers
    <2> QED  BY <2>1, <2>2, SinksReturn
  <1> QED
    BY <1>1, <1>2, <1>3, <1>4, <1>5, <1>6, <1>7, <1>8, <1>9


LEMMA SinksSignals ==
  ASSUME TypeOK, StacksOK, SinksOK, NEW t \in Threads,
         Handle(t) \/ \E sig \in Signals : deliver(t, sig)
  PROVE  SinksOK'
  <1>0. {"begin", "unlink", "exit", "gone", "flush", "return", "message", "kill"} \subseteq Places
    BY DEF Places
  <1>1. Flush \in Frames /\ Flush.at # "file"
    BY NewCalls DEF Flush, Call
  <1>2. ASSUME NEW sig \in Signals, deliver(t, sig)  PROVE SinksOK'
    <2> DEFINE proc == IF sig = "SIGINT" THEN "sigHandler" ELSE "signal_handler"
               h == Call(proc, "begin", Line(t, sig, 0, Verbosity_FATAL))
    <2>1. h \in Frames
      <3>1. proc \in Procs /\ sig \in Texts /\ "begin" \in Places
        BY DEF Procs, Texts, Places
      <3> QED  BY <3>1, NewCalls
    <2>2. /\ stack' = [stack EXCEPT ![t] = Append(stack[t], h)]
          /\ UNCHANGED <<stderr, file, callbacks>>
      BY <1>2 DEF deliver
    <2>3. h.at # "file"
      BY DEF Call
    <2> HIDE DEF h
    <2> QED  BY <2>1, <2>2, <2>3, SinksPush
  <1>3. ASSUME NEW proc, proc # "log", NEW at, At(t, proc, at),
               UNCHANGED <<stderr, file, callbacks>>
        PROVE  /\ \A to \in Places \ {"file"} : Continue(t, to) => SinksOK'
               /\ \A after \in Places \ {"file"}, call \in Frames :
                    call.at # "file" /\ Calls(t, call, after) => SinksOK'
               /\ proc \notin Handlers /\ Returns(t) => SinksOK'
    <2>1. stack[t] # << >> /\ ~AtFile(Last(stack[t])) /\ Last(stack[t]).proc = proc
      BY <1>3, RunningCall DEF AtFile
    <2>2. ASSUME NEW to \in Places \ {"file"}, Continue(t, to) PROVE SinksOK'
      BY <1>3, <2>1, <2>2, SinksContinue
    <2>3. ASSUME NEW after \in Places \ {"file"}, NEW call \in Frames, call.at # "file",
                 Calls(t, call, after)
          PROVE  SinksOK'
      BY <1>3, <2>1, <2>3, SinksCall
    <2>4. ASSUME proc \notin Handlers, Returns(t) PROVE SinksOK'
      BY <1>3, <2>1, <2>4, SinksReturn
    <2> QED  BY <2>2, <2>3, <2>4
  <1>4. CASE sigHandler(t) /\ UNCHANGED <<said, stderr, file, sent>>
    <2>0. UNCHANGED <<stderr, file, callbacks>>
      BY <1>4 DEF sigHandler
    <2>1. CASE At(t, "sigHandler", "begin") /\ Calls(t, Log(t, "cleaning up", 0), "unlink")
      <3>1. Log(t, "cleaning up", 0) \in Frames /\ Log(t, "cleaning up", 0).at # "file"
        <4>1. "cleaning up" \in Texts /\ 0 \in Nat
          BY DEF Texts
        <4> QED  BY <4>1, NewCalls DEF Log, Call
      <3>2. "unlink" \in Places \ {"file"}
        BY <1>0
      <3> QED  BY <1>3, <2>0, <2>1, <3>1, <3>2
    <2>2. CASE At(t, "sigHandler", "unlink") /\ Calls(t, Call("on_atexit", "begin", NoLine), "exit")
      <3> DEFINE c == Call("on_atexit", "begin", NoLine)
      <3>1. c \in Frames /\ c.at # "file"
        BY NewCalls DEF Call
      <3>2. "exit" \in Places \ {"file"} /\ Calls(t, c, "exit")
        BY <1>0, <2>2
      <3> HIDE DEF c
      <3> QED  BY <1>3, <2>0, <2>2, <3>1, <3>2
    <2>3. CASE UNCHANGED stack
      BY <2>0, <2>3, SinksStackKept
    <2> QED  BY <1>4, <2>1, <2>2, <2>3 DEF sigHandler
  <1>5. CASE on_atexit(t) /\ UNCHANGED <<said, stderr, file, sent>>
    <2>0. UNCHANGED <<stderr, file, callbacks>>
      BY <1>5 DEF on_atexit
    <2>1. CASE At(t, "on_atexit", "begin") /\ Calls(t, Log(t, "atexit", 0), "flush")
      <3>1. Log(t, "atexit", 0) \in Frames /\ Log(t, "atexit", 0).at # "file"
        <4>1. "atexit" \in Texts /\ 0 \in Nat
          BY DEF Texts
        <4> QED  BY <4>1, NewCalls DEF Log, Call
      <3>2. "flush" \in Places \ {"file"}
        BY <1>0
      <3> QED  BY <1>3, <2>0, <2>1, <3>1, <3>2
    <2>2. CASE At(t, "on_atexit", "flush") /\ Calls(t, Flush, "return")
      <3>1. "return" \in Places \ {"file"}
        BY <1>0
      <3> QED  BY <1>1, <1>3, <2>0, <2>2, <3>1
    <2>3. CASE At(t, "on_atexit", "return") /\ Returns(t)
      <3>1. "on_atexit" \notin Handlers
        BY DEF Handlers
      <3> QED  BY <1>3, <2>0, <2>3, <3>1
    <2> QED  BY <1>5, <2>1, <2>2, <2>3 DEF on_atexit
  <1>6. CASE exit(t) /\ UNCHANGED <<said, stderr, file, sent>>
    <2>1. CASE callbacks' = "destroyed"
      BY <2>1 DEF SinksOK
    <2>2. CASE UNCHANGED <<stack, callbacks>>
      BY <1>6, <2>2, SinksStackKept
    <2> QED  BY <1>6, <2>1, <2>2 DEF exit
  <1>7. CASE signal_handler(t) /\ UNCHANGED <<said, stderr, file, sent>>
    <2>0. UNCHANGED <<stderr, file, callbacks>>
      BY <1>7 DEF signal_handler
    <2>1. CASE At(t, "signal_handler", "begin") /\ Calls(t, Flush, "message")
      <3>1. "message" \in Places \ {"file"}
        BY <1>0
      <3> QED  BY <1>1, <1>3, <2>0, <2>1, <3>1
    <2>2. CASE At(t, "signal_handler", "message") /\ Calls(t, FatalMessage(t), "flush")
      <3>1. FatalMessage(t) \in Frames /\ FatalMessage(t).at # "file"
        <4>1. line(t) \in Lines /\ "log" \in Procs /\ "lock" \in Places
          BY <2>2, RunningCall DEF Procs, Places
        <4>2. Call("log", "lock", line(t)) \in Frames
          BY <4>1, NewCalls
        <4> QED  BY <4>2 DEF FatalMessage, Call
      <3>2. "flush" \in Places \ {"file"}
        BY <1>0
      <3> QED  BY <1>3, <2>0, <2>2, <3>1, <3>2
    <2>3. CASE At(t, "signal_handler", "flush") /\ Calls(t, Flush, "kill")
      <3>1. "kill" \in Places \ {"file"}
        BY <1>0
      <3> QED  BY <1>1, <1>3, <2>0, <2>3, <3>1
    <2>4. CASE UNCHANGED stack
      BY <2>0, <2>4, SinksStackKept
    <2> QED  BY <1>7, <2>1, <2>2, <2>3, <2>4 DEF signal_handler
  <1> QED
    BY <1>2, <1>4, <1>5, <1>6, <1>7 DEF Handle

(* Nobody holds the mutex, so no line is pending.                          *)
LEMMA FreeSinks == TypeOK /\ SinksOK => SinksAgree
  <1> SUFFICES ASSUME TypeOK, SinksOK, mutex = Free, callbacks = "alive" PROVE stderr = file
    BY DEF SinksAgree
  <1>1. mutex.owner = Nobody
    BY DEF Free
  <1>2. NonePending
    BY <1>1, PendingIsLocked, NobodyIsNoThread DEF NonePending
  <1> QED
    BY <1>2 DEF SinksOK

(* With the verbosity that the programs of the repository set, stderr and  *)
(* the file have the same lines in the same order whenever nobody holds    *)
(* s_mutex: however many threads log, and whatever signals interrupt them  *)
(* on the way from one sink to the other.                                  *)
THEOREM SinksHaveTheSameLines ==
  g_stderr_verbosity >= Verbosity_INFO /\ Spec => []SinksAgree
  <1> SUFFICES ASSUME g_stderr_verbosity >= Verbosity_INFO PROVE Spec => []SinksAgree
    OBVIOUS
  <1>1. Init => SinksOK
    BY DEF Init, SinksOK, OnlyPending
  <1>2. IInv /\ SinksOK /\ [Next]_vars => SinksOK'
    <2> SUFFICES ASSUME IInv, SinksOK, [Next]_vars PROVE SinksOK'
      OBVIOUS
    <2>1. TypeOK /\ StacksOK
      BY DEF IInv
    <2>2. CASE UNCHANGED vars
      BY <2>2, SinksStackKept DEF vars
    <2>3. ASSUME NEW t \in Threads, LOG_S(t) \/ Step(t) \/ \E sig \in Signals : deliver(t, sig)
          PROVE  SinksOK'
      BY <2>1, <2>3, SinksLogging, SinksSignals DEF Step
    <2> QED  BY <2>2, <2>3 DEF Next
  <1>3. IInv /\ SinksOK => SinksAgree
    BY FreeSinks DEF IInv
  <1> QED
    BY <1>1, <1>2, <1>3, LoggingInvariantHolds, PTL DEF Spec
=============================================================================
