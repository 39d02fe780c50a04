----------------------------- MODULE TaskResult -----------------------------
(***************************************************************************)
(* What the collector's task authority promises, without leases, grants,   *)
(* crashes or reconciliation: the attempts of a task are numbered, durable *)
(* evidence is never withdrawn, and a task accepts one result, which is    *)
(* durable evidence of its latest attempt.  Nothing follows acceptance.    *)
(***************************************************************************)
EXTENDS Naturals

CONSTANTS Tasks, None
VARIABLES epoch, durable, result

taskVars == <<epoch, durable, result>>

Init ==
  /\ epoch = [t \in Tasks |-> 0]
  /\ durable = {}
  /\ result = [t \in Tasks |-> None]

NewAttempt(t) ==
  /\ result[t] = None
  /\ epoch' = [epoch EXCEPT ![t] = @ + 1]
  /\ UNCHANGED <<durable, result>>

Persist ==
  /\ durable \subseteq durable'
  /\ UNCHANGED <<epoch, result>>

Accept(t, e) ==
  /\ result[t] = None
  /\ e.task = t
  /\ e.fence = epoch[t]
  /\ result' = [result EXCEPT ![t] = e]
  /\ UNCHANGED <<epoch, durable>>

Next ==
  \/ \E t \in Tasks : NewAttempt(t)
  \/ Persist
  \/ \E t \in Tasks : \E e \in durable : Accept(t, e)

Spec == Init /\ [][Next]_taskVars
=============================================================================
