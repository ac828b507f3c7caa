--------------------------- MODULE MCServerDBPure ---------------------------
(* Instances of ServerDB for TLC in which nobody inputs or nobody reads.   *)
EXTENDS MCServerDB

VARIABLE workload \* the search that is used, "read" or "input"

Searches == [read |-> OnlyOne, input |-> TwoPatterns]

(* Searches are of one kind and for one of its patterns.                   *)
IsPure(r) ==
  r.op \in DOMAIN Searches => r.op = workload /\ r.arg \in Searches[workload]

PureNext ==
  /\ Next
  /\ \A t \in ServiceThreads : IsPure(request'[t])
  /\ UNCHANGED workload

PureSpec ==
  /\ Init
  /\ workload \in DOMAIN Searches
  /\ [][PureNext]_<<vars, workload>>
  /\ \A t \in ServiceThreads : WF_vars(ThreadStep(t))
=============================================================================
