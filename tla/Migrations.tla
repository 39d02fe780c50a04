------------------------------ MODULE Migrations ------------------------------
(***************************************************************************)
(* Schema migration at start-up (migrations/migrate.go): every replica     *)
(* applies the files embedded in its build, one transaction per file,      *)
(* under an advisory lock held by the session that also runs the           *)
(* transactions.  Replicas of different builds start at the same time,     *)
(* lose their session and die.                                             *)
(***************************************************************************)
EXTENDS Naturals, Sequences

CONSTANTS
  Replicas,
  Contents,  \* checksums of migration files
  Build,     \* of each replica: its files in version order
  None

ASSUME BuildAssumption == Build \in [Replicas -> Seq(Contents)] /\ None \notin Replicas

VARIABLES
  lock,   \* owner of the advisory lock
  schema, \* what has been executed, in order
  ledger, \* broker_schema_migrations: checksums by version
  pc, version, \* of each replica: its step and the file it is at
  faults  \* history: replicas whose session or statement failed

vars == <<lock, schema, ledger, pc, version, faults>>

-----------------------------------------------------------------------------
(* Types and initial state *)

PCs == {"start", "check", "apply", "unlock", "failing", "migrated", "failed"}

\* Every variable keeps the type of the rows and values it models.
TypeOK ==
  /\ lock \in Replicas \cup {None}
  /\ schema \in Seq(Contents)
  /\ ledger \in Seq(Contents)
  /\ pc \in [Replicas -> PCs]
  /\ version \in [Replicas -> Nat]
  /\ \A r \in Replicas : version[r] \in 1..(Len(Build[r]) + 1)
  /\ faults \subseteq Replicas

Init ==
  /\ lock = None
  /\ schema = << >> /\ ledger = << >>
  /\ pc = [r \in Replicas |-> "start"]
  /\ version = [r \in Replicas |-> 1]
  /\ faults = {}

Goto(r, p) == pc' = [pc EXCEPT ![r] = p]

-----------------------------------------------------------------------------
(* Apply *)

\* Mutant of LockIsFree: the lock does not exclude other sessions.
LockIsShared == TRUE

LockIsFree == lock = None

\* pg_advisory_lock waits; then the ledger table is created if it is missing.
Acquire(r) ==
  /\ pc[r] = "start" /\ LockIsFree
  /\ lock' = r
  /\ Goto(r, "check")
  /\ version' = [version EXCEPT ![r] = 1]
  /\ UNCHANGED <<schema, ledger, faults>>

\* Mutant of Agrees: any recorded version counts as applied.
AgreesByVersion(r) == TRUE

\* The recorded checksum of the file is the one of this build.
Agrees(r) == ledger[version[r]] = Build[r][version[r]]

\* applyFile up to the transaction.
CheckFile(r) ==
  LET v == version[r] IN
  /\ pc[r] = "check"
  /\ \/ v > Len(Build[r]) /\ Goto(r, "unlock") /\ UNCHANGED version
     \/ /\ v <= Len(Build[r]) /\ v <= Len(ledger) /\ Agrees(r)
        /\ version' = [version EXCEPT ![r] = v + 1]
        /\ UNCHANGED pc
     \/ /\ v <= Len(Build[r]) /\ v <= Len(ledger) /\ ~Agrees(r)
        /\ Goto(r, "failing") /\ UNCHANGED version
     \/ v <= Len(Build[r]) /\ v > Len(ledger) /\ Goto(r, "apply") /\ UNCHANGED version
  /\ UNCHANGED <<lock, schema, ledger, faults>>

\* The transaction executes the file and records it, or fails as a whole: for a
\* fault of its own, or on the primary key of the ledger if somebody else
\* applied the version meanwhile.
ApplyFile(r) ==
  /\ pc[r] = "apply"
  /\ \/ /\ version[r] = Len(ledger) + 1
        /\ schema' = Append(schema, Build[r][version[r]])
        /\ ledger' = Append(ledger, Build[r][version[r]])
        /\ Goto(r, "check")
        /\ UNCHANGED faults
     \/ /\ Goto(r, "failing")
        /\ faults' = IF version[r] <= Len(ledger) THEN faults ELSE faults \cup {r}
        /\ UNCHANGED <<schema, ledger>>
  /\ UNCHANGED <<lock, version>>

\* Apply returns, and its loop variable is gone.
Return(r, p) == Goto(r, p) /\ version' = [version EXCEPT ![r] = 1]

\* Mutant of Unlock: a failed migration keeps the lock.
UnlockOnSuccess(r) ==
  /\ pc[r] \in {"unlock", "failing"}
  /\ lock' = IF pc[r] = "unlock" THEN None ELSE lock
  /\ Return(r, IF pc[r] = "unlock" THEN "migrated" ELSE "failed")
  /\ UNCHANGED <<schema, ledger, faults>>

\* The deferred pg_advisory_unlock, on every return after the lock.
Unlock(r) ==
  /\ pc[r] \in {"unlock", "failing"}
  /\ lock' = None
  /\ Return(r, IF pc[r] = "unlock" THEN "migrated" ELSE "failed")
  /\ UNCHANGED <<schema, ledger, faults>>

\* The session is lost or the replica dies: the server rolls the transaction
\* back and releases the lock, and Apply returns an error.  A wait for the lock
\* ends like this too.
SessionLost(r) ==
  /\ pc[r] \in {"start", "check", "apply", "unlock", "failing"}
  /\ lock' = IF lock = r THEN None ELSE lock
  /\ Return(r, "failed")
  /\ faults' = faults \cup {r}
  /\ UNCHANGED <<schema, ledger>>

\* A step of Apply that is not an interruption.
Step(r) == Acquire(r) \/ CheckFile(r) \/ ApplyFile(r) \/ Unlock(r)

-----------------------------------------------------------------------------
(* Properties *)

\* A replica only starts on a schema that begins with exactly the files of its
\* own build, in order, each executed once.
StartsOnItsSchema ==
  /\ schema = ledger
  /\ \A r \in Replicas : pc[r] = "migrated" =>
       Len(Build[r]) <= Len(schema) /\ SubSeq(schema, 1, Len(Build[r])) = Build[r]

Diverges(r) == \E i \in 1..Len(Build[r]) : i <= Len(ledger) /\ ledger[i] # Build[r][i]

\* Replicas that start together do not make each other fail: without a lost
\* session only a build that differs from the applied files is refused.
NobodyFailsForOthers ==
  \A r \in Replicas : pc[r] \in {"failing", "failed"} => r \in faults \/ Diverges(r)
=============================================================================
