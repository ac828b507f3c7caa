-------------------------- MODULE LoggingInvariant --------------------------
(***************************************************************************)
(* The inductive invariant of Logging that LoggingProofs proves: what a    *)
(* call on a stack, and the place where it stands, say about the log.      *)
(***************************************************************************)
EXTENDS Logging

Handlers == {"sigHandler", "signal_handler"}

IsFatal(call) == call.line.verbosity = Verbosity_FATAL

(* What the file shall have before a process is killed; nothing after the  *)
(* destruction of s_callbacks.                                             *)
Traced ==
  callbacks = "alive" => \E i \in DOMAIN file : file[i].text = "stack trace"

Logged ==
  callbacks = "alive" =>
    \E i, j \in DOMAIN file : /\ i < j
                              /\ file[i].text = "stack trace"
                              /\ file[j].verbosity = Verbosity_FATAL

(* The lines that calls log, and what has reached the file when a call     *)
(* stands at a place.                                                      *)
CallOK(call, traced, logged) ==
  /\ call.proc = "log" => call.line.verbosity <= Verbosity_INFO
  /\ call.proc \in Handlers => IsFatal(call)
  /\ IsFatal(call) => call.line.text # "stack trace"
  /\ call.proc = "log" /\ IsFatal(call) =>
       /\ call.at = "file" => traced
       /\ call.at \in {"flush", "return"} => logged
  /\ call.proc = "log" /\ call.line.text = "stack trace"
       /\ call.at \in {"flush", "return"} => traced
  /\ call.proc = "signal_handler" /\ call.at = "kill" => logged

(* The same for the running call, which has the call it made behind it.    *)
RunningOK(call, traced, logged) ==
  /\ call.proc = "log" /\ IsFatal(call) /\ call.at = "stderr" => traced
  /\ call.proc = "signal_handler" /\ call.at = "flush" => logged

(* What a call waits for: a handler that has interrupted it and that will  *)
(* never return to it, or the call it has made.                            *)
WaitsFor(caller, callee) ==
  \/ callee.proc \in Handlers
  \/ /\ ~(caller.proc = "log" /\ caller.at = "file")
     /\ caller.proc = "log" /\ caller.at = "stderr" =>
          callee.proc = "log" /\ callee.line.text = "stack trace"
     /\ caller.proc = "signal_handler" /\ caller.at = "flush" =>
          callee.proc = "log" /\ IsFatal(callee)

CallsOK(calls, traced, logged) ==
  /\ \A i \in 1..Len(calls) : CallOK(calls[i], traced, logged)
  /\ \A i \in 1..(Len(calls) - 1) : WaitsFor(calls[i], calls[i + 1])

StackOK(calls, traced, logged) ==
  /\ CallsOK(calls, traced, logged)
  /\ calls # << >> => RunningOK(Last(calls), traced, logged)

StacksOK == \A t \in Threads : StackOK(stack[t], Traced, Logged)

(* Calls whose line is on stderr and not in the file yet.                  *)
AtFile(call) == call.proc = "log" /\ call.at = "file"

NonePending ==
  \A t \in Threads : \A i \in DOMAIN stack[t] : ~AtFile(stack[t][i])

OnlyPending(t) ==
  /\ stack[t] # << >> /\ AtFile(Last(stack[t]))
  /\ \A u \in Threads : \A i \in DOMAIN stack[u] :
       AtFile(stack[u][i]) => u = t /\ i = Len(stack[t])

(* The sinks differ by the line that is pending.  More than one line can   *)
(* be only if a handler logs, and then the process ends before the mutex   *)
(* is free.                                                                *)
SinksOK ==
  callbacks = "alive" =>
    /\ NonePending => stderr = file
    /\ \A t \in Threads : OnlyPending(t) => stderr = Append(file, line(t))

IInv == TypeOK /\ StacksOK /\ KilledIsLogged
=============================================================================
