------------------------------- MODULE Outbox -------------------------------
(***************************************************************************)
(* Delivery of the transactional outbox (internal/outbox) and operator     *)
(* replay of dead letters (internal/deadletter).  Several dispatchers race *)
(* for the rows of broker_outbox with expiring leases that carry no fence; *)
(* a deployment gives every dispatcher its own OUTBOX_WORKER_ID.           *)
(*                                                                         *)
(* Time is relative: a row holds what is left of its lease and of its      *)
(* retry delay, and Tick counts both down.  Skew is the largest difference *)
(* between two clocks, so within Skew of the end of a lease its owner and  *)
(* a rival may both believe themselves right.                              *)
(***************************************************************************)
EXTENDS Integers, FiniteSets

CONSTANTS
  Events,                \* sequence numbers
  Dispatchers,           \* worker identifiers
  Keys,                  \* idempotency keys of one operator
  BatchSize, MaxAttempts, Lease, RetryDelay,
  Skew, MaxFaults, None

ASSUME OutboxAssumption ==
  /\ Events \subseteq Nat /\ IsFiniteSet(Keys)
  /\ BatchSize \in Nat \ {0} /\ MaxAttempts \in Nat \ {0}
  /\ Lease \in Nat \ {0} /\ RetryDelay \in [1..MaxAttempts -> Nat]
  /\ Skew \in Nat /\ MaxFaults \in Nat
  /\ None \notin Events \cup Dispatchers

VARIABLES
  row,      \* broker_outbox
  actions,  \* broker_dead_letter_actions: the event replayed under each key
  disp,     \* local state of every Dispatcher.RunOnce
  stream,   \* events stored by JetStream, which drops repeated identifiers
  faults,   \* faults so far
  revived   \* history: how often a dead letter was requeued

outboxVars == <<row, actions, disp, stream, faults, revived>>

-----------------------------------------------------------------------------
(* Types and initial state *)

\* attempts stops at MaxAttempts, beyond which RunOnce tells no values apart.
Row == [state: {"absent", "pending", "published", "dead"},
        owner: Dispatchers \cup {None}, lease: Int, wait: Nat, attempts: 0..MaxAttempts]

\* A claimed record keeps the number of attempts that Claim returned.
Record == [event: Events, attempts: 1..MaxAttempts]

\* todo is the rest of the batch, current the record being published and
\* result what Publish returned for it.
Dispatcher == [todo: SUBSET Record, current: Record \cup {None},
               result: {"none", "acknowledged", "failed"}]

NoRow == [state |-> "absent", owner |-> None, lease |-> 0, wait |-> 0, attempts |-> 0]
Waiting == [todo |-> {}, current |-> None, result |-> "none"]

\* Every variable keeps the type of the column or value it models.
OutboxTypeOK ==
  /\ row \in [Events -> Row]
  /\ actions \in [Keys -> Events \cup {None}]
  /\ disp \in [Dispatchers -> Dispatcher]
  /\ stream \in SUBSET Events
  /\ faults \in Nat
  /\ revived \in [Events -> Nat]

OutboxInit ==
  /\ row = [e \in Events |-> NoRow]
  /\ actions = [k \in Keys |-> None]
  /\ disp = [d \in Dispatchers |-> Waiting]
  /\ stream = {}
  /\ faults = 0
  /\ revived = [e \in Events |-> 0]

\* NULL is no record.
ASSUME NoneAssumption == None \notin Record

-----------------------------------------------------------------------------
(* Time and faults *)

Fault == faults < MaxFaults /\ faults' = faults + 1

Busy(d) == disp[d].todo # {} \/ disp[d].current # None

Down(n, floor) == IF n > floor THEN n - 1 ELSE n

\* A dispatcher that lets a lease run out in the middle of its batch (a stall,
\* or a slow broker) is a fault; otherwise time passes freely.
Tick ==
  /\ \/ /\ \A e \in Events : row[e].owner # None /\ Busy(row[e].owner) => row[e].lease # 1
        /\ UNCHANGED faults
     \/ Fault
  /\ row' = [e \in Events |->
       [row[e] EXCEPT !.lease = IF row[e].owner = None THEN @ ELSE Down(@, -Skew),
                      !.wait = Down(@, 0)]]
  /\ row' # row
  /\ UNCHANGED <<actions, disp, stream, revived>>

\* The process dies in the middle of its batch.
Crash(d) ==
  /\ Busy(d)
  /\ Fault
  /\ disp' = [disp EXCEPT ![d] = Waiting]
  /\ UNCHANGED <<row, actions, stream, revived>>

-----------------------------------------------------------------------------
(* The store *)

\* A workflow transaction commits its event.  Sequence numbers are assigned
\* before the commit, so a smaller one may appear after a larger one.
Append(e) ==
  /\ row[e].state = "absent"
  /\ row' = [row EXCEPT ![e].state = "pending"]
  /\ UNCHANGED <<actions, disp, stream, faults, revived>>

\* Mutant of Claimable: an expired lease is never taken over.
ClaimableUnleased(e) == row[e].state = "pending" /\ row[e].wait <= Skew /\ row[e].owner = None

Claimable(e) ==
  /\ row[e].state = "pending"
  /\ row[e].wait <= Skew
  /\ row[e].owner = None \/ row[e].lease <= Skew

\* The first events by sequence, at most limit of them.
FirstBySequence(claimable, limit) ==
  {e \in claimable : Cardinality({f \in claimable : f < e}) < limit}

NextAttempt(e) == IF row[e].attempts < MaxAttempts THEN row[e].attempts + 1 ELSE MaxAttempts

Claim(d) ==
  LET batch == FirstBySequence({e \in Events : Claimable(e)}, BatchSize) IN
  /\ ~Busy(d)
  /\ batch # {}
  /\ row' = [e \in Events |->
       IF e \in batch
       THEN [row[e] EXCEPT !.owner = d, !.lease = Lease, !.attempts = NextAttempt(e)]
       ELSE row[e]]
  /\ disp' = [disp EXCEPT ![d].todo = {[event |-> e, attempts |-> NextAttempt(e)] : e \in batch}]
  /\ UNCHANGED <<actions, stream, faults, revived>>

\* Mutant of MayUpdate: the owner is not compared.
MayUpdateAnyOwner(e, d) == row[e].state = "pending" /\ row[e].lease > -Skew

\* The guard of every update of a leased row, seen by its owner.
MayUpdate(e, d) ==
  row[e].state = "pending" /\ row[e].owner = d /\ row[e].lease > -Skew
MayLose(e, d) ==
  ~(row[e].state = "pending" /\ row[e].owner = d /\ row[e].lease > Skew)

\* updateLease: the guarded update, or ErrLeaseLost.
UpdateLease(e, d, updated) ==
  \/ MayUpdate(e, d) /\ row' = [row EXCEPT ![e] = updated]
  \/ MayLose(e, d) /\ UNCHANGED row

-----------------------------------------------------------------------------
(* Dispatcher.RunOnce *)

\* RETURNING promises no order, so any record of the batch may be next.
Publish(d) ==
  /\ disp[d].current = None
  /\ \E record \in disp[d].todo :
       \/ /\ disp' = [disp EXCEPT ![d] =
               [@ EXCEPT !.todo = disp[d].todo \ {record}, !.current = record,
                         !.result = "acknowledged"]]
          /\ stream' = stream \cup {record.event}
       \/ /\ disp' = [disp EXCEPT ![d] =
               [@ EXCEPT !.todo = disp[d].todo \ {record}, !.current = record,
                         !.result = "failed"]]
          /\ \/ UNCHANGED stream                           \* refused or timed out
             \/ stream' = stream \cup {record.event}       \* stored, answer lost
  /\ UNCHANGED <<row, actions, faults, revived>>

Done(d) == disp' = [disp EXCEPT ![d] = [@ EXCEPT !.current = None, !.result = "none"]]

\* Mutant of MarkPublished: the error of Publish is dropped.
MarkPublishedAnyway(d) ==
  LET e == disp[d].current.event IN
  /\ disp[d].current # None
  /\ UpdateLease(e, d, [row[e] EXCEPT !.state = "published", !.owner = None, !.lease = 0])
  /\ Done(d)
  /\ UNCHANGED <<actions, stream, faults, revived>>

MarkPublished(d) ==
  LET e == disp[d].current.event IN
  /\ disp[d].result = "acknowledged"
  /\ UpdateLease(e, d, [row[e] EXCEPT !.state = "published", !.owner = None, !.lease = 0])
  /\ Done(d)
  /\ UNCHANGED <<actions, stream, faults, revived>>

Retry(d) ==
  LET e == disp[d].current.event IN
  /\ disp[d].result = "failed" /\ disp[d].current.attempts < MaxAttempts
  /\ UpdateLease(e, d, [row[e] EXCEPT !.wait = RetryDelay[disp[d].current.attempts],
                                      !.owner = None, !.lease = 0])
  /\ Done(d)
  /\ UNCHANGED <<actions, stream, faults, revived>>

DeadLetter(d) ==
  LET e == disp[d].current.event IN
  /\ disp[d].result = "failed" /\ disp[d].current.attempts >= MaxAttempts
  /\ UpdateLease(e, d, [row[e] EXCEPT !.state = "dead", !.owner = None, !.lease = 0])
  /\ Done(d)
  /\ UNCHANGED <<actions, stream, faults, revived>>

RunOnce(d) == Claim(d) \/ Publish(d) \/ MarkPublished(d) \/ Retry(d) \/ DeadLetter(d)

-----------------------------------------------------------------------------
(* Operator replay *)

\* Mutants of Replay: the audit record of the key is not looked up; the event
\* need not be dead-lettered.
ReplayIgnoringKey(k, e) ==
  /\ row[e].state = "dead"
  /\ actions' = [actions EXCEPT ![k] = e]
  /\ row' = [row EXCEPT ![e] =
       [@ EXCEPT !.state = "pending", !.owner = None, !.lease = 0, !.attempts = 0, !.wait = 0]]
  /\ revived' = [revived EXCEPT ![e] = @ + 1]
  /\ UNCHANGED <<disp, stream, faults>>

ReplayAnyEvent(k, e) ==
  /\ actions[k] = None
  /\ row[e].state # "absent"
  /\ actions' = [actions EXCEPT ![k] = e]
  /\ row' = [row EXCEPT ![e] =
       [@ EXCEPT !.state = "pending", !.owner = None, !.lease = 0, !.attempts = 0, !.wait = 0]]
  /\ revived' = [revived EXCEPT ![e] = @ + 1]
  /\ UNCHANGED <<disp, stream, faults>>

\* One transaction under the advisory lock of the key.  A key that was used is
\* answered from its audit record, or refused when it names another event.
Replay(k, e) ==
  /\ actions[k] = None
  /\ row[e].state = "dead"
  /\ actions' = [actions EXCEPT ![k] = e]
  /\ row' = [row EXCEPT ![e] =
       [@ EXCEPT !.state = "pending", !.owner = None, !.lease = 0, !.attempts = 0, !.wait = 0]]
  /\ revived' = [revived EXCEPT ![e] = @ + 1]
  /\ UNCHANGED <<disp, stream, faults>>

-----------------------------------------------------------------------------
(* Specification *)

OutboxNext ==
  \/ Tick
  \/ \E e \in Events : Append(e)
  \/ \E d \in Dispatchers : RunOnce(d) \/ Crash(d)
  \/ \E k \in Keys, e \in Events : Replay(k, e)

OutboxSpec == OutboxInit /\ [][OutboxNext]_outboxVars

\* Runner.Run polls for ever; operators need not replay.
Fairness == WF_outboxVars(Tick) /\ \A d \in Dispatchers : WF_outboxVars(RunOnce(d))
FairSpec == OutboxSpec /\ Fairness

-----------------------------------------------------------------------------
(* Properties *)

\* A row is marked published only after JetStream stored the event
\* (docs/jetstream-operations.md: "do not mark it published without a valid
\* acknowledgement"), although the lease may change hands between Publish and
\* MarkPublished.
PublishedIsInStream == \A e \in Events : row[e].state = "published" => e \in stream

\* A dead letter has used all its attempts since it was (re)queued.  The
\* decision uses the count returned by Claim long before the update, and Replay
\* may have reset the row in between; the lease guard keeps stale counts out.
DeadLetteredWasExhausted == \A e \in Events : row[e].state = "dead" => row[e].attempts = MaxAttempts

\* Every requeue of a dead letter has its own audit record and every audit
\* record stands for one requeue, whatever keys are reused.
EveryReplayIsAudited ==
  \A e \in Events : revived[e] = Cardinality({k \in Keys : actions[k] = e})

\* A published event stays published: neither a late dispatcher nor a replay
\* puts it back into dispatch.
PublishedIsFinal ==
  [][\A e \in Events : row[e].state = "published" => row'[e].state = "published"]_row

\* Once faults stop, every event is published or dead-lettered: no order of
\* crashes, lost leases and failures strands a row.
EventSettles ==
  \A e \in Events : row[e].state = "pending" ~> row[e].state \in {"published", "dead"}
=============================================================================
