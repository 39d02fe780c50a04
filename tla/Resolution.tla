----------------------------- MODULE Resolution -----------------------------
(***************************************************************************)
(* The durable resolution workflow: idempotent creation, versioned         *)
(* transitions (internal/resolution) and the atomic task fan-out           *)
(* (internal/planning, internal/collector/fanout.go), each of which writes *)
(* the row and its outbox event in one READ COMMITTED transaction.  A      *)
(* transaction that holds a lock across several statements, and a service  *)
(* call that reads before it writes, take several steps.                   *)
(***************************************************************************)
EXTENDS Naturals, FiniteSets

CONSTANTS
  Ids,       \* random resolution identifiers
  Keys,      \* idempotency keys of one actor
  Digests,   \* request digests
  Clients, Drivers, Planners, \* callers of Create, Transition and Queue
  TaskIds, Plans,             \* a plan is a set of task identifiers
  Times,     \* clock readings
  None

ASSUME ResolutionAssumption ==
  /\ Plans \subseteq (SUBSET TaskIds) \ {{}}
  /\ \A p \in Plans : IsFiniteSet(p)
  /\ Times \subseteq Nat
  /\ None \notin Ids \cup Keys \cup Digests /\ None \notin [digest: Digests, id: Ids]

VARIABLES
  res,     \* broker_resolutions
  idem,    \* broker_resolution_idempotency
  events,  \* the resolution events of broker_outbox
  tasks,   \* the resolution of each row of broker_collector_tasks
  tx,      \* open transactions of Create
  driver,  \* open calls of Service.Transition
  answers, \* history: resolutions returned by Create
  acks     \* history: plans acknowledged by Queue

resVars == <<res, idem, events, tasks, tx, driver, answers, acks>>

-----------------------------------------------------------------------------
(* The workflow graph *)

Terminal == {"complete", "partial", "denied", "failed", "cancelled", "expired"}
States == {"received", "resolving_targets", "planning", "queued"} \cup Terminal

Ended == {"failed", "cancelled", "expired"}
AllowedTransitions ==
  [s \in {"received", "resolving_targets", "planning", "queued"} |->
     CASE s = "received" -> {"resolving_targets", "denied"} \cup Ended
       [] s = "resolving_targets" -> {"planning", "denied"} \cup Ended
       [] s = "planning" -> {"queued", "denied"} \cup Ended
       [] s = "queued" -> {"complete", "partial"} \cup Ended]

\* The next states that ValidateTransition accepts.
ValidateTransition(current) == IF current \in Terminal THEN {} ELSE AllowedTransitions[current]

-----------------------------------------------------------------------------
(* Types and initial state *)

\* version = 0: no such row.
ResolutionRow == [state: States, version: Nat, key: Keys \cup {None}, digest: Digests \cup {None},
               targets: {0} \cup {Cardinality(p) : p \in Plans}, updated: Nat]
Event == [id: Ids, version: Nat, state: States,
          type: {"resolution.received", "resolution.state_changed", "resolution.tasks_queued"}]
Transaction == [pc: {"idle", "inserted", "claimed"}, id: Ids \cup {None},
                key: Keys \cup {None}, digest: Digests \cup {None}]
Call == [id: Ids, version: Nat, state: States, next: States]

NoResolution == [state |-> "received", version |-> 0, key |-> None, digest |-> None,
                 targets |-> 0, updated |-> 0]
NoTransaction == [pc |-> "idle", id |-> None, key |-> None, digest |-> None]

\* Every variable keeps the type of the rows or values it models.
TypeOK ==
  /\ res \in [Ids -> ResolutionRow]
  /\ idem \in [Keys -> [digest: Digests, id: Ids] \cup {None}]
  /\ events \in SUBSET Event
  /\ tasks \in [TaskIds -> Ids \cup {None}]
  /\ tx \in [Clients -> Transaction]
  /\ driver \in [Drivers -> Call \cup {None}]
  /\ answers \in SUBSET [key: Keys, digest: Digests, id: Ids]
  /\ acks \in SUBSET [id: Ids, version: Nat, plan: Plans, planner: Planners]

Init ==
  /\ res = [i \in Ids |-> NoResolution]
  /\ idem = [k \in Keys |-> None]
  /\ events = {}
  /\ tasks = [t \in TaskIds |-> None]
  /\ tx = [c \in Clients |-> NoTransaction]
  /\ driver = [d \in Drivers |-> None]
  /\ answers = {}
  /\ acks = {}

-----------------------------------------------------------------------------
(* Create *)

\* The row is inserted first; no other transaction sees it yet.
CreateInsert(c) ==
  /\ tx[c].pc = "idle"
  /\ \E i \in Ids, k \in Keys, d \in Digests :
       /\ res[i].version = 0
       /\ \A b \in Clients : tx[b].id # i
       /\ tx' = [tx EXCEPT ![c] = [pc |-> "inserted", id |-> i, key |-> k, digest |-> d]]
  /\ UNCHANGED <<res, idem, events, tasks, driver, answers, acks>>

\* Mutant of KeyLocked: the insert does not wait for a rival.
KeyNeverLocked(c) == FALSE

\* INSERT ... ON CONFLICT waits for a transaction that inserted the same key.
KeyLocked(c) == \E b \in Clients \ {c} : tx[b].pc = "claimed" /\ tx[b].key = tx[c].key

\* The key is new, or the transaction rolls back and answers from the existing
\* record, or with ErrIdempotencyConflict when the digest differs.
CreateClaimKey(c) ==
  LET found == idem[tx[c].key] IN
  /\ tx[c].pc = "inserted"
  /\ ~KeyLocked(c)
  /\ \/ /\ found = None
        /\ tx' = [tx EXCEPT ![c].pc = "claimed"]
        /\ UNCHANGED answers
     \/ /\ found # None
        /\ tx' = [tx EXCEPT ![c] = NoTransaction]
        /\ answers' = IF found.digest = tx[c].digest
                      THEN answers \cup {[key |-> tx[c].key, digest |-> found.digest, id |-> found.id]}
                      ELSE answers
  /\ UNCHANGED <<res, idem, events, tasks, driver, acks>>

\* The answer to the commit may be lost.
CreateCommit(c) ==
  LET t == tx[c] IN
  /\ t.pc = "claimed"
  /\ \E now \in Times :
       res' = [res EXCEPT ![t.id] =
         [state |-> "received", version |-> 1, key |-> t.key, digest |-> t.digest,
          targets |-> 0, updated |-> now]]
  /\ idem' = [idem EXCEPT ![t.key] = [digest |-> t.digest, id |-> t.id]]
  /\ events' = events \cup
       {[id |-> t.id, version |-> 1, state |-> "received", type |-> "resolution.received"]}
  /\ tx' = [tx EXCEPT ![c] = NoTransaction]
  /\ \/ answers' = answers \cup {[key |-> t.key, digest |-> t.digest, id |-> t.id]}
     \/ UNCHANGED answers
  /\ UNCHANGED <<tasks, driver, acks>>

\* An error or a crash rolls the transaction back.
CreateRollback(c) ==
  /\ tx[c].pc # "idle"
  /\ tx' = [tx EXCEPT ![c] = NoTransaction]
  /\ UNCHANGED <<res, idem, events, tasks, driver, answers, acks>>

-----------------------------------------------------------------------------
(* Transition: read and validate, then compare and set *)

TransitionRead(d) ==
  /\ driver[d] = None
  /\ \E i \in {j \in Ids : res[j].version > 0} :
       \E next \in ValidateTransition(res[i].state) :
         driver' = [driver EXCEPT ![d] =
           [id |-> i, version |-> res[i].version, state |-> res[i].state, next |-> next]]
  /\ UNCHANGED <<res, idem, events, tasks, tx, answers, acks>>

\* Mutant of Unchanged: the row is not compared with what was read.
UnchangedTime(call, now) == res[call.id].updated <= now

\* The WHERE clause of the update.
Unchanged(call, now) ==
  /\ res[call.id].version = call.version
  /\ res[call.id].state = call.state
  /\ res[call.id].updated <= now

\* A changed row is ErrVersionConflict.
TransitionCommit(d) ==
  LET call == driver[d] IN
  /\ call # None
  /\ \E now \in Times :
       \/ /\ Unchanged(call, now)
          /\ res' = [res EXCEPT ![call.id] =
               [@ EXCEPT !.state = call.next, !.version = call.version + 1, !.updated = now]]
          /\ events' = events \cup
               {[id |-> call.id, version |-> call.version + 1, state |-> call.next,
                 type |-> "resolution.state_changed"]}
       \/ ~Unchanged(call, now) /\ UNCHANGED <<res, events>>
  /\ driver' = [driver EXCEPT ![d] = None]
  /\ UNCHANGED <<idem, tasks, tx, answers, acks>>

-----------------------------------------------------------------------------
(* Queue: planning/service.go and CreateFanoutContext *)

Plannable(i, expected) == res[i].version = expected /\ res[i].state = "planning"

\* Mutant of FreeTasks: existing tasks are overwritten instead of failing the plan.
SomeFreeTasks(plan) == \E t \in plan : tasks[t] = None

FreeTasks(plan) == \A t \in plan : tasks[t] = None

\* One transaction under the lock of the resolution row.
CreateFanoutContext(i, plan, expected, now) ==
  /\ Plannable(i, expected) /\ FreeTasks(plan)
  /\ tasks' = [t \in TaskIds |-> IF t \in plan THEN i ELSE tasks[t]]
  /\ res' = [res EXCEPT ![i] =
       [@ EXCEPT !.state = "queued", !.version = expected + 1, !.targets = Cardinality(plan),
                 !.updated = IF now > res[i].updated THEN now ELSE res[i].updated]]
  /\ events' = events \cup
       {[id |-> i, version |-> expected + 1, state |-> "queued",
         type |-> "resolution.tasks_queued"]}
  /\ UNCHANGED <<idem, tx, driver, answers>>

\* The version of the event and of the answer comes from the request.  The answer
\* to the commit may be lost; a retry is then refused.
Queue(p, i, plan) ==
  \E expected \in 1..res[i].version, now \in Times :
    /\ CreateFanoutContext(i, plan, expected, now)
    /\ \/ acks' = acks \cup {[id |-> i, version |-> expected + 1, plan |-> plan, planner |-> p]}
       \/ UNCHANGED acks

-----------------------------------------------------------------------------
(* Specification *)

Create(c) == CreateInsert(c) \/ CreateClaimKey(c) \/ CreateCommit(c) \/ CreateRollback(c)
Transition(d) == TransitionRead(d) \/ TransitionCommit(d)

ResolutionNext ==
  \/ \E c \in Clients : Create(c)
  \/ \E d \in Drivers : Transition(d)
  \/ \E p \in Planners, i \in Ids, plan \in Plans : Queue(p, i, plan)

Spec == Init /\ [][ResolutionNext]_resVars

-----------------------------------------------------------------------------
(* Properties *)

History(i) == {e \in events : e.id = i}

\* The event log of a resolution is its version history: exactly one event per
\* version up to the current one (docs/resolution-watch-api.md: "at most one
\* exposed lifecycle event for a version"), each a legal move of the workflow
\* graph, the last one the current state; so a terminal state is final.  Three writers compute the version of
\* their event from an earlier read.
HistoryIsFaithful ==
  \A i \in Ids :
    /\ {e.version : e \in History(i)} = 1..res[i].version
    /\ \A e, f \in History(i) :
         /\ e.version = f.version => e = f
         /\ f.version = e.version + 1 => f.state \in ValidateTransition(e.state)
    /\ \A e \in History(i) : e.version = res[i].version => e.state = res[i].state

\* One resolution per idempotency key: Create never answers with two of them,
\* or for a different digest, whatever the races, rollbacks and lost answers;
\* and no resolution is left without its key.
OneResolutionPerKey ==
  /\ \A a, b \in answers : a.key = b.key => a = b
  /\ \A i \in Ids : res[i].version > 0 =>
       idem[res[i].key] = [digest |-> res[i].digest, id |-> i]

TasksOf(i) == {t \in TaskIds : tasks[t] = i}

\* Fan-out is all or nothing and has one winner: the tasks of a resolution are
\* exactly one plan or none, counted in the row, announced by one event, and
\* every acknowledged plan is the one that exists.
FanoutIsComplete ==
  /\ \A i \in Ids :
       /\ TasksOf(i) \in Plans \cup {{}}
       /\ res[i].targets = Cardinality(TasksOf(i))
       /\ TasksOf(i) # {} <=> \E e \in History(i) : e.type = "resolution.tasks_queued"
  /\ \A a, b \in acks : a.plan = TasksOf(a.id) /\ (a.id = b.id => a = b)
=============================================================================
