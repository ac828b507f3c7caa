----------------------------- MODULE TupleSpace -----------------------------
(***************************************************************************)
(* What the server promises its clients: a Linda tuple space.  A client    *)
(* issues one command at a time.  "output" adds a copy of a tuple, "read"  *)
(* answers with a tuple that is in the space, "input" answers with one and *)
(* removes it, each in one indivisible step; a command that finds nothing  *)
(* stays pending.  The space is a bag of which copies of equal tuples may  *)
(* be merged, but never so that the last one goes.                         *)
(***************************************************************************)
EXTENDS TupleMatch

CONSTANTS
  Clients,  \* the clients of the space
  Tuples,   \* the tuples they output
  Requests, \* their commands: records with fields op and arg
  NoTuple,  \* the result of a command that has none
  NoCommand \* the command of a client that has issued none

VARIABLES
  space,    \* the number of copies of each tuple
  phase,    \* where each client stands
  command,  \* its last command
  result    \* the tuple it was answered

vars == <<space, phase, command, result>>

Phases == {"idle", "pending", "answered", "gone"}

Init ==
  /\ space = [v \in Tuples |-> 0]
  /\ phase = [c \in Clients |-> "idle"]
  /\ command = [c \in Clients |-> NoCommand]
  /\ result = [c \in Clients |-> NoTuple]

Step(c, from, to) ==
  /\ phase[c] = from
  /\ phase' = [phase EXCEPT ![c] = to]

Issue(c) ==
  /\ Step(c, "idle", "pending")
  /\ \E r \in Requests : command' = [command EXCEPT ![c] = r]
  /\ UNCHANGED <<space, result>>

Output(c) ==
  /\ command[c].op = "output"
  /\ Step(c, "pending", "answered")
  /\ space' = [space EXCEPT ![command[c].arg] = @ + 1]
  /\ UNCHANGED <<command, result>>

Answer(c, v) ==
  /\ space[v] > 0
  /\ isPatternEqualToTuple(command[c].arg, v)
  /\ Step(c, "pending", "answered")
  /\ result' = [result EXCEPT ![c] = v]
  /\ UNCHANGED command

Read(c) ==
  /\ command[c].op = "read"
  /\ \E v \in Tuples : Answer(c, v)
  /\ UNCHANGED space

Input(c) ==
  /\ command[c].op = "input"
  /\ \E v \in Tuples : Answer(c, v) /\ space' = [space EXCEPT ![v] = @ - 1]

Return(c) ==
  /\ Step(c, "answered", "idle")
  /\ result' = [result EXCEPT ![c] = NoTuple]
  /\ UNCHANGED <<space, command>>

Leave(c) ==
  /\ Step(c, "idle", "gone")
  /\ UNCHANGED <<space, command, result>>

Merge(v) ==
  /\ space[v] > 1
  /\ space' = [space EXCEPT ![v] = @ - 1]
  /\ UNCHANGED <<phase, command, result>>

Next ==
  \/ \E c \in Clients : \/ Issue(c)
                        \/ Output(c)
                        \/ Read(c)
                        \/ Input(c)
                        \/ Return(c)
                        \/ Leave(c)
  \/ \E v \in Tuples : Merge(v)

Spec == Init /\ [][Next]_vars

=============================================================================
