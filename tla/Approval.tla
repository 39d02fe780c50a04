------------------------------- MODULE Approval -------------------------------
(***************************************************************************)
(* Approval grants (internal/approval): a grant allows a bounded number of *)
(* uses before it expires.  Consume runs in a SERIALIZABLE transaction: it *)
(* reads from the snapshot taken when it began, waits for the row lock of  *)
(* the grant and is aborted if the row changed in between.  Callers retry  *)
(* consumptions whose answer they lost.                                    *)
(***************************************************************************)
EXTENDS Naturals, FiniteSets

CONSTANTS
  Grants, Tasks, Clients,
  Consumptions,   \* consumption identifiers
  Bindings,       \* recipe and target subset
  Limits,         \* values of MaxUses
  MaxClock, Absent

ASSUME ApprovalAssumption == Limits \subseteq Nat \ {0} /\ MaxClock \in Nat

VARIABLES
  clock,     \* the database clock
  grants,    \* broker_approval_grants
  uses,      \* broker_approval_consumptions
  consuming, \* open transactions of Consume
  told       \* history: requests a caller knows were granted

approvalVars == <<clock, grants, uses, consuming, told>>

-----------------------------------------------------------------------------
(* Types and initial state *)

Grant == [binding: Bindings, max: Nat, used: Nat, version: Nat, expires: Nat]
ASSUME AbsentAssumption == Absent \notin Grant

Use == [id: Consumptions, grant: Grants, task: Tasks, version: Nat]
Request == [id: Consumptions, grant: Grants, task: Tasks, binding: Bindings]
Snapshot == [request: Request, now: Nat, grant: Grant, uses: SUBSET Use]

\* Every variable keeps the type of the rows and values it models.
ApprovalTypeOK ==
  /\ clock \in Nat
  /\ grants \in [Grants -> Grant \cup {Absent}]
  /\ uses \in SUBSET Use
  /\ consuming \in [Clients -> Snapshot \cup {Absent}]
  /\ told \in SUBSET Request

ApprovalInit ==
  /\ clock = 0
  /\ grants = [g \in Grants |-> Absent]
  /\ uses = {}
  /\ consuming = [c \in Clients |-> Absent]
  /\ told = {}

Tick ==
  /\ clock < MaxClock
  /\ clock' = clock + 1
  /\ UNCHANGED <<grants, uses, consuming, told>>

-----------------------------------------------------------------------------
(* Operations *)

\* The insert is conditional on a future expiry; a second one violates the key.
Create(g) ==
  /\ grants[g] = Absent
  /\ \E b \in Bindings, m \in Limits, e \in 1..MaxClock :
       /\ e > clock
       /\ grants' = [grants EXCEPT ![g] =
            [binding |-> b, max |-> m, used |-> 0, version |-> 1, expires |-> e]]
  /\ UNCHANGED <<clock, uses, consuming, told>>

\* BeginTx and the first statement: time and snapshot are fixed, ErrNotFound
\* ends the call.
BeginConsume(c) ==
  /\ consuming[c] = Absent
  /\ \E r \in Request :
       /\ grants[r.grant] # Absent
       /\ consuming' = [consuming EXCEPT ![c] =
            [request |-> r, now |-> clock, grant |-> grants[r.grant], uses |-> uses]]
  /\ UNCHANGED <<clock, grants, uses, told>>

\* Mutant of Serialised: READ COMMITTED without the row lock.
SerialisedNever(x) == TRUE

\* The row lock is granted only if the row is still the one of the snapshot;
\* otherwise PostgreSQL aborts the transaction.
Serialised(x) == grants[x.request.grant] = x.grant

\* existingConsumption: the row with this identifier or with this grant and task.
Existing(x) ==
  {u \in x.uses : u.id = x.request.id
                  \/ (u.grant = x.request.grant /\ u.task = x.request.task)}

\* Mutant of SameUse: the task of the recorded use is not compared.
SameUseOfGrant(u, r) == u.id = r.id /\ u.grant = r.grant

SameUse(u, r) == u.id = r.id /\ u.grant = r.grant /\ u.task = r.task

Idempotent(x) == \E u \in Existing(x) : SameUse(u, x.request)

\* ErrBindingMismatch, ErrExpired and ErrExhausted, in the code's order.
Usable(x) ==
  /\ x.grant.binding = x.request.binding
  /\ x.now < x.grant.expires
  /\ x.grant.used < x.grant.max

\* The primary key and UNIQUE (grant_id, task_id), against committed rows.
KeyIsFree(r) == ~\E u \in uses : u.id = r.id \/ (u.grant = r.grant /\ u.task = r.task)

\* The answer reaches the caller or is lost.
Answer(r) == told' = told \cup {r} \/ UNCHANGED told

\* Consume up to the commit.
Consume(c) ==
  LET x == consuming[c]
      r == x.request IN
  /\ x # Absent /\ Serialised(x)
  /\ \/ Idempotent(x) /\ Answer(r) /\ UNCHANGED <<grants, uses>>
     \/ /\ Existing(x) = {} /\ Usable(x) /\ KeyIsFree(r)
        /\ grants' = [grants EXCEPT ![r.grant] =
             [x.grant EXCEPT !.used = @ + 1, !.version = @ + 1]]
        /\ uses' = uses \cup {[id |-> r.id, grant |-> r.grant, task |-> r.task,
                               version |-> x.grant.version + 1]}
        /\ Answer(r)
  /\ consuming' = [consuming EXCEPT ![c] = Absent]
  /\ UNCHANGED clock

\* The call is refused, the transaction is aborted, or the caller dies.
RollbackConsume(c) ==
  /\ consuming[c] # Absent
  /\ consuming' = [consuming EXCEPT ![c] = Absent]
  /\ UNCHANGED <<clock, grants, uses, told>>

-----------------------------------------------------------------------------
(* Specification *)

ApprovalNext ==
  \/ Tick
  \/ \E g \in Grants : Create(g)
  \/ \E c \in Clients : BeginConsume(c) \/ Consume(c) \/ RollbackConsume(c)

ApprovalSpec == ApprovalInit /\ [][ApprovalNext]_approvalVars

-----------------------------------------------------------------------------
(* Properties *)

UsesOf(g) == {u \in uses : u.grant = g}

\* The counter of a grant is the number of its recorded uses and never exceeds
\* max_uses, however many consumers race or retry; the version counts with it.
UsesAreCounted ==
  \A g \in Grants :
    grants[g] # Absent =>
      /\ Cardinality(UsesOf(g)) = grants[g].used
      /\ grants[g].used <= grants[g].max
      /\ grants[g].version = grants[g].used + 1

\* A caller that was told of a grant has exactly one recorded use for its
\* consumption identifier, task and grant, and no other caller shares it.
GrantedIsRecorded ==
  /\ \A r \in told : \E u \in uses : u.id = r.id /\ u.grant = r.grant /\ u.task = r.task
  /\ \A u, v \in uses :
       u.id = v.id \/ (u.grant = v.grant /\ u.task = v.task) => u = v
=============================================================================
