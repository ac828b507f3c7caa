------------------------------ MODULE Logging ------------------------------
(***************************************************************************)
(* The log of the server while it runs and while it is stopped: what       *)
(* lib/loguru does for LOG_S, its signal handler, and the SIGINT handler   *)
(* of src/server.cpp, which logs, unlinks the names of the bus and calls   *)
(* exit().  The build has LOGURU_WITH_FILEABS = 0 and                      *)
(* g_flush_interval_ms = 0.                                                *)
(*                                                                         *)
(* A thread is a stack of calls of which the last one runs; a signal puts  *)
(* its handler on top of whatever the thread is doing.  s_mutex is         *)
(* recursive; the lock of a thread's malloc arena is not.                  *)
(***************************************************************************)
EXTENDS Integers, SequencesExt, FiniteSets

CONSTANTS
  Threads,
  Signals,           \* those that are sent, each once
  MaxLines,          \* bound: lines that a thread logs of its own accord
  g_stderr_verbosity,
  MayInterruptMalloc \* whether a signal may hit a thread that allocates

Verbosity_FATAL == -3
Verbosity_ERROR == -2
Verbosity_INFO  == 0

ASSUME LoggingAssumption ==
  /\ "nobody" \notin Threads
  /\ Signals \subseteq {"SIGINT", "SIGTERM", "SIGABRT"}
  /\ MaxLines \in Nat
  /\ g_stderr_verbosity \in Int
  /\ MayInterruptMalloc \in BOOLEAN

(* The names that SIGINT removes, in this order.                           *)
Names == <<"bus_mutex", "linda_bus_write", "linda_bus_read">>

VARIABLES
  stack,     \* the calls of each thread
  said,      \* lines each thread has logged of its own accord
  mutex,     \* s_mutex: its owner and how often it is held
  stderr,
  file,      \* the lines in each
  callbacks, \* s_callbacks: "alive", or "destroyed" by exit()
  names,     \* the names that exist
  sent,      \* signals sent so far
  process    \* "running", "exited", "killed" or "crashed"

vars == <<stack, said, mutex, stderr, file, callbacks, names, sent, process>>

Line(t, text, n, verbosity) ==
  [by |-> t, text |-> text, n |-> n, verbosity |-> verbosity]

(* A call: the function, where it stands, and the line it logs.            *)
Call(f, at, l) == [proc |-> f, at |-> at, line |-> l]

Nobody == "nobody"
NoLine == Line(Nobody, "nothing", 0, 0)
Free   == [owner |-> Nobody, depth |-> 0]

Log(t, text, n) == Call("log", "begin", Line(t, text, n, Verbosity_INFO))
StackTrace(t)   == Call("log", "begin", Line(t, "stack trace", 0, Verbosity_ERROR))
Flush           == Call("flush", "lock", NoLine)

Init ==
  /\ stack = [t \in Threads |-> << >>]
  /\ said = [t \in Threads |-> 0]
  /\ mutex = Free
  /\ stderr = << >> /\ file = << >>
  /\ callbacks = "alive"
  /\ names = Names
  /\ sent = {}
  /\ process = "running"

At(t, proc, at) ==
  /\ process = "running"
  /\ stack[t] # << >> /\ Last(stack[t]).proc = proc /\ Last(stack[t]).at = at

line(t) == Last(stack[t]).line

(* The running call goes on at another place, is left for the calls that   *)
(* it makes, or returns.                                                   *)
GoTo(t, at) == Front(stack[t]) \o <<[Last(stack[t]) EXCEPT !.at = at]>>

Continue(t, at)       == stack' = [stack EXCEPT ![t] = GoTo(t, at)]
Calls(t, call, after) == stack' = [stack EXCEPT ![t] = Append(GoTo(t, after), call)]
Returns(t)            == stack' = [stack EXCEPT ![t] = Front(@)]

Allocates(t) == \E i \in DOMAIN stack[t] : stack[t][i].at = "malloc"

-----------------------------------------------------------------------------
(* A line is logged                                                        *)

LOG_S(t) ==
  /\ process = "running"
  /\ stack[t] = << >> /\ said[t] < MaxLines
  /\ said' = [said EXCEPT ![t] = @ + 1]
  /\ stack' = [stack EXCEPT ![t] = <<Log(t, "line", said'[t])>>]
  /\ UNCHANGED <<mutex, stderr, file, callbacks, names, sent, process>>

(* The stream is built and its text formatted, in memory from the heap.    *)
log(t) ==
  /\ At(t, "log", "begin") /\ ~Allocates(t)
  /\ Continue(t, "malloc")
  /\ UNCHANGED <<said, mutex, stderr, file, callbacks, names, sent, process>>

log_to_everywhere(t) ==
  /\ At(t, "log", "malloc")
  /\ Continue(t, "lock")
  /\ UNCHANGED <<said, mutex, stderr, file, callbacks, names, sent, process>>

MutexIsFree(t) == mutex.owner \in {Nobody, t}

Lock(t) == mutex' = [owner |-> t, depth |-> mutex.depth + 1]
Unlock  == mutex' = IF mutex.depth = 1 THEN Free ELSE [mutex EXCEPT !.depth = @ - 1]

(* Seeded bug: log_message does not wait for the mutex.                    *)
LogWithoutWaiting(t) ==
  /\ At(t, "log", "lock")
  /\ Lock(t)
  /\ IF line(t).verbosity = Verbosity_FATAL
     THEN Calls(t, StackTrace(t), "stderr")
     ELSE Continue(t, "stderr")
  /\ UNCHANGED <<said, stderr, file, callbacks, names, sent, process>>

(* Seeded bug: s_mutex is not recursive.                                   *)
LogNotRecursive(t) ==
  /\ At(t, "log", "lock") /\ mutex = Free
  /\ Lock(t)
  /\ IF line(t).verbosity = Verbosity_FATAL
     THEN Calls(t, StackTrace(t), "stderr")
     ELSE Continue(t, "stderr")
  /\ UNCHANGED <<said, stderr, file, callbacks, names, sent, process>>

(* The mutex is taken; before a fatal line a stack trace is logged.        *)
log_message(t) ==
  /\ At(t, "log", "lock") /\ MutexIsFree(t)
  /\ Lock(t)
  /\ IF line(t).verbosity = Verbosity_FATAL
     THEN Calls(t, StackTrace(t), "stderr")
     ELSE Continue(t, "stderr")
  /\ UNCHANGED <<said, stderr, file, callbacks, names, sent, process>>

writeStderr(t) ==
  /\ At(t, "log", "stderr")
  /\ stderr' = IF line(t).verbosity <= g_stderr_verbosity
               THEN Append(stderr, line(t)) ELSE stderr
  /\ Continue(t, "file")
  /\ UNCHANGED <<said, mutex, file, callbacks, names, sent, process>>

(* fprintf and fflush. *)
file_log(t) == file' = Append(file, line(t))

(* The loop over s_callbacks, of which file_log is the only one.  Of a     *)
(* vector that has been destroyed the memory may be intact or not.         *)
callBack(t) ==
  /\ At(t, "log", "file")
  /\ Continue(t, IF line(t).verbosity = Verbosity_FATAL THEN "flush" ELSE "return")
  /\ \/ file_log(t) /\ UNCHANGED process
     \/ callbacks = "destroyed" /\ UNCHANGED <<file, process>>
     \/ callbacks = "destroyed" /\ process' = "crashed" /\ UNCHANGED file
  /\ UNCHANGED <<said, mutex, stderr, callbacks, names, sent>>

logFlushes(t) ==
  /\ At(t, "log", "flush")
  /\ Calls(t, Flush, "return")
  /\ UNCHANGED <<said, mutex, stderr, file, callbacks, names, sent, process>>

logReturns(t) ==
  /\ At(t, "log", "return")
  /\ Unlock
  /\ Returns(t)
  /\ UNCHANGED <<said, stderr, file, callbacks, names, sent, process>>

(* Both sinks are flushed after every line already.                        *)
flush(t) ==
  /\ At(t, "flush", "lock") /\ MutexIsFree(t)
  /\ Returns(t)
  /\ UNCHANGED <<said, mutex, stderr, file, callbacks, names, sent, process>>

-----------------------------------------------------------------------------
(* Signals.  SIGABRT is raised by a thread that an exception has ended; the *)
(* others interrupt any thread.                                            *)

deliver(t, sig) ==
  /\ process = "running"
  /\ sig \in Signals \ sent
  /\ sig = "SIGABRT" => stack[t] = << >>
  /\ MayInterruptMalloc \/ ~Allocates(t)
  /\ sent' = sent \cup {sig}
  /\ stack' = [stack EXCEPT ![t] =
                 Append(@, Call(IF sig = "SIGINT" THEN "sigHandler"
                                ELSE "signal_handler", "begin",
                                Line(t, sig, 0, Verbosity_FATAL)))]
  /\ UNCHANGED <<said, mutex, stderr, file, callbacks, names, process>>

(* Server::sigHandler *)
sigHandler(t) ==
  \/ /\ At(t, "sigHandler", "begin")
     /\ Calls(t, Log(t, "cleaning up", 0), "unlink")
     /\ UNCHANGED <<mutex, callbacks, names, process>>
  \/ /\ At(t, "sigHandler", "unlink") /\ names # << >>
     /\ names' = Tail(names)
     /\ UNCHANGED <<stack, mutex, callbacks, process>>
  \/ /\ At(t, "sigHandler", "unlink") /\ names = << >>
     /\ Calls(t, Call("on_atexit", "begin", NoLine), "exit")
     /\ UNCHANGED <<mutex, callbacks, names, process>>

(* What exit() runs: loguru's handler, and then the destructors of what is *)
(* static, s_callbacks among them.  The other threads go on meanwhile.     *)
on_atexit(t) ==
  /\ \/ At(t, "on_atexit", "begin") /\ Calls(t, Log(t, "atexit", 0), "flush")
     \/ At(t, "on_atexit", "flush") /\ Calls(t, Flush, "return")
     \/ At(t, "on_atexit", "return") /\ Returns(t)
  /\ UNCHANGED <<mutex, callbacks, names, process>>

exit(t) ==
  /\ \/ /\ At(t, "sigHandler", "exit")
        /\ callbacks' = "destroyed"
        /\ Continue(t, "gone")
        /\ UNCHANGED process
     \/ /\ At(t, "sigHandler", "gone")
        /\ process' = "exited"
        /\ UNCHANGED <<stack, callbacks>>
  /\ UNCHANGED <<mutex, names>>

FatalMessage(t) == Call("log", "lock", line(t))

(* Seeded bug: the signal is raised again before it is logged.             *)
KillFirst(t) ==
  /\ \/ At(t, "signal_handler", "begin") /\ Calls(t, Flush, "kill") /\ UNCHANGED process
     \/ At(t, "signal_handler", "kill") /\ process' = "killed" /\ UNCHANGED stack
  /\ UNCHANGED <<mutex, callbacks, names>>

(* loguru's handler: to stderr with write(2), which is not a line of the   *)
(* log, then the "unsafe things", and the default action.                  *)
signal_handler(t) ==
  /\ \/ At(t, "signal_handler", "begin") /\ Calls(t, Flush, "message") /\ UNCHANGED process
     \/ /\ At(t, "signal_handler", "message")
        /\ Calls(t, FatalMessage(t), "flush")
        /\ UNCHANGED process
     \/ At(t, "signal_handler", "flush") /\ Calls(t, Flush, "kill") /\ UNCHANGED process
     \/ At(t, "signal_handler", "kill") /\ process' = "killed" /\ UNCHANGED stack
  /\ UNCHANGED <<mutex, callbacks, names>>

Handle(t) ==
  /\ sigHandler(t) \/ on_atexit(t) \/ exit(t) \/ signal_handler(t)
  /\ UNCHANGED <<said, stderr, file, sent>>

Step(t) ==
  \/ log(t)
  \/ log_to_everywhere(t)
  \/ log_message(t)
  \/ writeStderr(t)
  \/ callBack(t)
  \/ logFlushes(t)
  \/ logReturns(t)
  \/ flush(t)
  \/ Handle(t)

Next ==
  \E t \in Threads :
    \/ LOG_S(t)
    \/ Step(t)
    \/ \E sig \in Signals : deliver(t, sig)

Spec == Init /\ [][Next]_vars

(* A call that can go on does.                                             *)
FairSpec == Spec /\ \A t \in Threads : WF_vars(Step(t))

-----------------------------------------------------------------------------
Places == {"begin", "malloc", "lock", "stderr", "file", "flush", "return", "unlink",
           "exit", "gone", "message", "kill"}

Procs == {"log", "flush", "sigHandler", "on_atexit", "signal_handler"}

Texts == {"nothing", "line", "stack trace", "cleaning up", "atexit"} \cup Signals

Lines == [by : Threads \cup {Nobody}, text : Texts, n : Nat, verbosity : Int]

Frames == [proc : Procs, at : Places, line : Lines]

(* A call between the lock and the return of log_message.                  *)
Locks(call) ==
  call.proc = "log" /\ call.at \in {"stderr", "file", "flush", "return"}

Held(calls) == Cardinality({i \in DOMAIN calls : Locks(calls[i])})

(* Every variable keeps its type, and s_mutex is held as often as there    *)
(* are calls of its owner between the lock and the return.                 *)
TypeOK ==
  /\ stack \in [Threads -> Seq(Frames)]
  /\ said \in [Threads -> 0..MaxLines]
  /\ mutex \in [owner : Threads \cup {Nobody}, depth : Nat]
  /\ mutex.owner = Nobody <=> mutex.depth = 0
  /\ \A t \in Threads :
       Held(stack[t]) = IF mutex.owner = t THEN mutex.depth ELSE 0
  /\ stderr \in Seq(Lines) /\ file \in Seq(Lines)
  /\ callbacks \in {"alive", "destroyed"}
  /\ names \in {Names, Tail(Names), Tail(Tail(Names)), << >>}
  /\ sent \subseteq Signals
  /\ process \in {"running", "exited", "killed", "crashed"}

(* Whenever nobody holds s_mutex, stderr and the file have the same lines  *)
(* in the same order: also around a stack trace, and if a signal made its  *)
(* thread log in the middle of another line.                               *)
SinksAgree == mutex = Free /\ callbacks = "alive" => stderr = file

(* When a signal that the server does not handle itself has ended it, the  *)
(* file says so, in a fatal line behind the stack trace.                   *)
KilledIsLogged ==
  process = "killed" /\ callbacks = "alive" =>
    \E i, j \in DOMAIN file : /\ i < j
                              /\ file[i].text = "stack trace"
                              /\ file[j].verbosity = Verbosity_FATAL

(* The thread's heap is locked, and it is about to take the lock again in  *)
(* a handler that interrupted it: malloc is not safe in a signal handler.  *)
WaitsForItself(t) == At(t, "log", "begin") /\ Allocates(t)

(* Ctrl-C removes the names of the bus, whatever the threads are doing,    *)
(* unless another signal ends the process before, or a thread that was in  *)
(* malloc waits for itself.                                                *)
CleansUp ==
  "SIGINT" \in sent ~> \/ names = << >>
                        \/ process # "running"
                        \/ \E t \in Threads : WaitsForItself(t)

=============================================================================
