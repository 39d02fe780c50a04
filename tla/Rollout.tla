------------------------------- MODULE Rollout -------------------------------
(***************************************************************************)
(* Start-up of replicas of different builds on one database (openApplica-  *)
(* tionDatabase in cmd/controlplane/main.go, internal/databaseauth): each  *)
(* migrates with one identity, then connects with the runtime identity and *)
(* compares its effective grants with the manifest of its build, tables    *)
(* first and sequences in a second query.  An administrator changes grants *)
(* meanwhile, and replicas are stopped and started again.  One of them,    *)
(* Self, is followed through its whole process.                            *)
(***************************************************************************)
EXTENDS Migrations, FiniteSets

CONSTANTS
  Self,       \* the replica whose process is modelled
  Deployments, \* sets of replicas that may be configured to apply migrations
  Tables,     \* files that create a table; the others create a sequence
  Manifest,   \* of each replica: grants its build requires, <<object, privilege>>
  Privileges,
  MaxChanges, \* bound on the changes of the administrator
  Requests    \* HTTP requests of Self in flight

ObjectGrants == Contents \X Privileges

ASSUME RolloutAssumption ==
  /\ Self \in Replicas /\ Deployments \subseteq SUBSET Replicas /\ Tables \subseteq Contents /\ MaxChanges \in Nat
  /\ \A r \in Replicas : Manifest[r] \subseteq ObjectGrants
  /\ None \notin 0..2 /\ None \notin {"canceled", "listen", "shutdown"}

VARIABLES
  migrates, \* the replicas that apply migrations
  effective, \* effective grants of the runtime role on broker_ objects
  changes, \* number of changes made to them
  audit,   \* of each replica: progress of its runtime connection
  seen,    \* of each replica: the table grants it has read
  steady   \* history: replicas that began their audit after the last change

\* The process of Self.
VARIABLES stage, signalled, database, nats, listening, closing, active, running, firstError,
          timedOut, exit, cause
Process == INSTANCE ControlPlane

process == <<stage, signalled, database, nats, listening, closing, active, running, firstError,
             timedOut, exit, cause>>
authority == <<migrates, effective, changes, audit, seen, steady>>
rolloutVars == <<vars, authority, process>>

-----------------------------------------------------------------------------
(* Types and initial state *)

Audits == {"closed", "tables", "sequences", "verified", "refused"}

\* Every variable keeps the type of the rows and values it models.
RolloutTypeOK ==
  /\ TypeOK /\ Process!TypeOK
  /\ migrates \in Deployments
  /\ effective \subseteq ObjectGrants
  /\ changes \in 0..MaxChanges
  /\ audit \in [Replicas -> Audits]
  /\ seen \in [Replicas -> SUBSET ObjectGrants]
  /\ steady \subseteq Replicas

RolloutInit ==
  /\ Init /\ Process!Init
  /\ migrates \in Deployments
  /\ effective = {} /\ changes = 0
  /\ audit = [r \in Replicas |-> "closed"]
  /\ seen = [r \in Replicas |-> {}]
  /\ steady = {}

-----------------------------------------------------------------------------
(* The administrator *)

\* A grant on an object that exists, whatever build created it, is given or taken.
ChangeGrant ==
  /\ changes < MaxChanges
  /\ \E i \in DOMAIN schema, p \in Privileges :
       LET g == <<schema[i], p>> IN
       effective' = IF g \in effective THEN effective \ {g} ELSE effective \cup {g}
  /\ changes' = changes + 1 /\ steady' = {}
  /\ UNCHANGED <<vars, migrates, audit, seen, process>>

-----------------------------------------------------------------------------
(* openApplicationDatabase *)

\* Self is within openApplicationDatabase; the others are nothing but that.
IsOpening(r) == r # Self \/ stage = "database"

Migrate(r) ==
  /\ IsOpening(r) /\ r \in migrates
  /\ Step(r)
  /\ UNCHANGED <<authority, process>>

LoseSession(r) ==
  /\ IsOpening(r) /\ r \in migrates
  /\ SessionLost(r)
  /\ UNCHANGED <<authority, process>>

\* The runtime pool is opened and the role itself verified, which may fail.
OpenRuntime(r) ==
  /\ IsOpening(r) /\ audit[r] = "closed"
  /\ r \in migrates => pc[r] = "migrated"
  /\ \/ audit' = [audit EXCEPT ![r] = "tables"] /\ UNCHANGED faults
     \/ audit' = [audit EXCEPT ![r] = "refused"] /\ faults' = faults \cup {r}
  /\ UNCHANGED <<lock, schema, ledger, pc, version, migrates, effective, changes, seen, steady, process>>

OfTables == {g \in ObjectGrants : g[1] \in Tables}

InspectTableGrants(r) ==
  /\ IsOpening(r) /\ audit[r] = "tables"
  /\ seen' = [seen EXCEPT ![r] = effective \cap OfTables]
  /\ audit' = [audit EXCEPT ![r] = "sequences"]
  /\ steady' = steady \cup {r}
  /\ UNCHANGED <<vars, migrates, effective, changes, process>>

\* Mutant of ValidateObjectGrants: privileges are only required.
HasRequiredGrants(actual, expected) == expected \subseteq actual

\* Nothing but the expected, and all of it.
ValidateObjectGrants(actual, expected) == actual \subseteq expected /\ expected \subseteq actual

VerifyControlPlane(r) ==
  /\ ValidateObjectGrants(seen[r], Manifest[r] \cap OfTables)
  /\ ValidateObjectGrants(effective \ OfTables, Manifest[r] \ OfTables)

\* The second query, the verdict on both, and the return to run.
InspectSequenceGrants(r) ==
  LET passed == VerifyControlPlane(r) /\ (r = Self => ~signalled) IN
  /\ IsOpening(r) /\ audit[r] = "sequences"
  /\ audit' = [audit EXCEPT ![r] = IF passed THEN "verified" ELSE "refused"]
  /\ seen' = [seen EXCEPT ![r] = {}] /\ steady' = IF passed THEN steady ELSE steady \ {r}
  /\ IF r = Self THEN Process!OpenDatabase /\ (database' = "open") = passed
     ELSE UNCHANGED process
  /\ UNCHANGED <<vars, migrates, effective, changes>>

\* A query of the audit fails with its context or its connection.
AuditFails(r) ==
  /\ IsOpening(r) /\ audit[r] \in {"tables", "sequences"}
  /\ audit' = [audit EXCEPT ![r] = "refused"] /\ seen' = [seen EXCEPT ![r] = {}]
  /\ faults' = faults \cup {r} /\ steady' = steady \ {r}
  /\ UNCHANGED <<lock, schema, ledger, pc, version, migrates, effective, changes, process>>

Opens(r) == Migrate(r) \/ OpenRuntime(r) \/ InspectTableGrants(r) \/ InspectSequenceGrants(r) \/ AuditFails(r)

\* run returns with an error once openApplicationDatabase has.
OpenFails ==
  /\ pc[Self] = "failed" \/ audit[Self] = "refused"
  /\ Process!OpenDatabase /\ UNCHANGED database
  /\ UNCHANGED <<vars, authority>>

-----------------------------------------------------------------------------
(* The process of Self, and its supervisor *)

RunSelf ==
  /\ Process!Next /\ (stage = "database" => UNCHANGED stage)
  /\ UNCHANGED <<vars, authority>>

\* A replica is started from the beginning.
Begin(r) ==
  /\ Goto(r, "start")
  /\ audit' = [audit EXCEPT ![r] = "closed"]
  /\ faults' = faults \ {r} /\ steady' = steady \ {r}
  /\ UNCHANGED <<lock, schema, ledger, version, seen, migrates, effective, changes>>

StartProcess ==
  /\ stage' = "config" /\ database' = "unopened" /\ nats' = "unopened"
  /\ signalled' = FALSE /\ listening' = FALSE /\ closing' = FALSE /\ timedOut' = FALSE
  /\ active' = {} /\ running' = {}
  /\ firstError' = None /\ exit' = None /\ cause' = None

\* Replicas that have failed are started again, and those that run are replaced.
Restart(r) ==
  /\ IF r = Self
     THEN stage = "stopped" /\ StartProcess
     ELSE /\ pc[r] = "failed" \/ audit[r] \in {"verified", "refused"}
          /\ UNCHANGED process
  /\ Begin(r)

RolloutNext ==
  \/ ChangeGrant \/ OpenFails \/ RunSelf
  \/ \E r \in Replicas : Opens(r) \/ LoseSession(r) \/ Restart(r)

HasFailed(r) == IF r = Self THEN stage = "stopped" ELSE pc[r] = "failed" \/ audit[r] = "refused"

\* A step of the process outside openApplicationDatabase.
Alone(A) == stage # "database" /\ A /\ UNCHANGED <<vars, authority>>

\* What a replica, or its supervisor, does next.  No other step of the process
\* can take the place of these for ever, so that they need not be told apart.
Advance(r) ==
  \/ Opens(r) \/ (HasFailed(r) /\ Restart(r))
  \/ /\ r = Self
     /\ \/ OpenFails \/ (signalled /\ LoseSession(r))
        \/ Alone(Process!Boot \/ Process!Stop \/ \E g \in Process!Runners : Process!RunnerReturns(g))

\* A replica takes its next step: dependency calls have timeouts, a runner sees its
\* cancelled context, and a cancelled wait for the lock ends; requests need not.  A
\* lock that is free again and again is granted, and the supervisor starts a failed
\* replica.
RolloutFairness ==
  \A r \in Replicas :
    /\ SF_rolloutVars(IsOpening(r) /\ r \in migrates /\ Acquire(r) /\ UNCHANGED <<authority, process>>)
    /\ WF_rolloutVars(Advance(r))

RolloutSpec == RolloutInit /\ [][RolloutNext]_rolloutVars

LiveRolloutSpec == RolloutSpec /\ RolloutFairness

-----------------------------------------------------------------------------
(* Properties *)

\* A replica whose audit passed, and whose grants nobody has changed since it
\* began, has exactly the grants of its build: replicas whose builds need different
\* grants exclude each other (VerifyControlPlane with its two queries).
AuthorityIsExact ==
  \A r \in Replicas : audit[r] = "verified" /\ r \in steady => effective = Manifest[r]

\* Every replica is verified again and again, unless its build diverges from the
\* schema, its grants are not those of its manifest, it keeps failing, or it is Self
\* and keeps being told to stop or given a bad configuration.
EveryReplicaStarts ==
  \A r \in Replicas :
    \/ []<>(audit[r] = "verified" \/ Diverges(r) \/ effective # Manifest[r])
    \/ []<>(r \in faults \/ (r = Self /\ (signalled \/ exit = 2)))

\* The process releases its connections after their last use, also when it stops
\* while others migrate the database or change its grants.
ReleasedAfterUse == Process!ReleasedAfterUse

\* The exit code tells a requested stop from a failure, one of the migration or of
\* the audit included, and nothing that was opened stays open.
ExitTellsCause == Process!ExitTellsCause

\* A signal stops the process, also while it waits for the lock of another replica.
SignalStops == Process!SignalStops
=============================================================================
