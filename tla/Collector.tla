------------------------------ MODULE Collector ------------------------------
(***************************************************************************)
(* The collection plane: the durable task table                            *)
(* (internal/collector), the single-use execution grants                   *)
(* (internal/grants), the evidence envelopes (internal/evidence) and the   *)
(* processes that race over them.  A run is one call of Worker.Run.  Two   *)
(* runs may carry the same collector identity, as after a restart, so the  *)
(* owner column alone never identifies a run.  A guarded UPDATE is one     *)
(* action; everything Worker.Run does between two statements of the        *)
(* database is a separate step, so other processes interleave there.       *)
(*                                                                         *)
(* Every caller of the task table supplies its own reading of the time.    *)
(* A reading is the database clock plus an offset of Offsets: a positive   *)
(* offset is a fast clock, a negative one a slow clock or a reading taken  *)
(* some time before the statement executes.  Only the consumption of a     *)
(* grant reads the database clock itself.                                  *)
(***************************************************************************)
EXTENDS Integers, FiniteSets

CONSTANTS
  Tasks, Collectors, Reconcilers,
  Runs, CollectorOf,                        \* calls of Worker.Run and their Worker.ID
  Grants,                                   \* random grant identifiers
  LeaseDuration, GrantTTL, MaximumDuration, \* of the Worker
  BatchSize,                                \* of the ReconciliationRunner
  Offsets,                                  \* errors of a clock reading
  MaxClock, MaxFence, MaxFaults, FaultHorizon, \* bounds of the model
  None

ASSUME CollectorAssumption ==
  /\ CollectorOf \in [Runs -> Collectors]
  /\ LeaseDuration \in Nat /\ GrantTTL \in Nat /\ MaximumDuration \in Nat
  /\ Offsets \subseteq Int
  /\ MaxClock \in Nat /\ MaxFence \in Nat /\ MaxFaults \in Nat /\ FaultHorizon \in Nat
  /\ BatchSize \in Nat \ {0}
  /\ None \notin Tasks \cup Collectors \cup Grants

VARIABLES
  clock,      \* the database clock
  row,        \* broker_collector_tasks
  consumed,   \* broker_execution_grant_consumptions
  envelopes,  \* broker_evidence_envelopes
  run,        \* local state of every call of Worker.Run
  rec,        \* local state of every ReconciliationRunner
  faults,     \* faults so far
  issued,     \* history: the signed contents of every grant
  contacts    \* history: device contacts made under each grant

vars == <<clock, row, consumed, envelopes, run, rec, faults, issued, contacts>>

-----------------------------------------------------------------------------
(* Types and initial state *)

Leasable == {"queued", "retry_wait"}
Active == {"leased", "executing", "committing"}

\* An envelope is named by a digest of its contents; what tells two of them
\* apart here is the task, the attempt (its fence), the grant and the owner.
Evidence == [task: Tasks, fence: Nat, grant: Grants, owner: Collectors]

\* attempt = 0 is a NULL accepted_attempt_id; attempt f is "attempt-<task>-<f>".
Task == [state: {"absent", "succeeded"} \cup Leasable \cup Active,
         owner: Collectors \cup {None}, expiry: Nat, fence: Nat,
         grant: Grants \cup {None}, attempt: Nat, evidence: Evidence \cup {None}]

\* The bindings of a signed grant; its validity window is in the run that holds it.
ExecutionGrant == [task: Tasks, fence: Nat, owner: Collectors]

\* NULL is not a value of any type.
ASSUME NoneAssumption == None \notin Evidence \cup ExecutionGrant

Steps == {"idle", "leased", "started", "granted", "recorded", "fetched", "checked",
          "exchanged", "captured", "written", "assembled", "persisted", "committing",
          "failing"}

\* seen is the execution grant in the copy of the task read by GetContext,
\* stamp the time WriteCaptured read when it started.
Run == [pc: Steps, task: Tasks \cup {None}, fence: Nat, expiry: Nat,
        grant: Grants \cup {None}, notBefore: Nat, expires: Nat,
        seen: Grants \cup {None}, stamp: Nat]

NoRow == [state |-> "absent", owner |-> None, expiry |-> 0, fence |-> 0,
          grant |-> None, attempt |-> 0, evidence |-> None]
Idle == [pc |-> "idle", task |-> None, fence |-> 0, expiry |-> 0,
         grant |-> None, notBefore |-> 0, expires |-> 0, seen |-> None, stamp |-> 0]
NoBatch == [at |-> 0, batch |-> {}]

\* Every variable keeps the type of the record or column it models.
TypeOK ==
  /\ clock \in Nat
  /\ row \in [Tasks -> Task]
  /\ consumed \in SUBSET Grants
  /\ envelopes \in SUBSET Evidence
  /\ run \in [Runs -> Run]
  /\ rec \in [Reconcilers -> [at: Nat, batch: SUBSET Evidence]]
  /\ faults \in Nat
  /\ issued \in [Grants -> ExecutionGrant \cup {None}]
  /\ contacts \in [Grants -> Nat]

Init ==
  /\ clock = 0
  /\ row = [t \in Tasks |-> NoRow]
  /\ consumed = {}
  /\ envelopes = {}
  /\ run = [r \in Runs |-> Idle]
  /\ rec = [c \in Reconcilers |-> NoBatch]
  /\ faults = 0
  /\ issued = [g \in Grants |-> None]
  /\ contacts = [g \in Grants |-> 0]

-----------------------------------------------------------------------------
(* Time and faults *)

\* Mutant of Reading: a reading never renewed.
ReadingAtStart == {0}

\* Tasks are created at time 0 and the table's time_order constraint rejects
\* an earlier stamp, so a usable reading is a natural number.
Reading == {clock + d : d \in Offsets} \cap Nat

Tick ==
  /\ clock < MaxClock
  /\ clock' = clock + 1
  /\ UNCHANGED <<row, consumed, envelopes, run, rec, faults, issued, contacts>>

Fault ==
  /\ faults < MaxFaults
  /\ clock < FaultHorizon
  /\ faults' = faults + 1

Go(r, step) == run' = [run EXCEPT ![r].pc = step]
Return(r) == run' = [run EXCEPT ![r] = Idle]

\* A process dies, or a statement's answer is lost and Worker.Run returns.
Crash(r) ==
  /\ run[r].pc # "idle"
  /\ Fault
  /\ Return(r)
  /\ UNCHANGED <<clock, row, consumed, envelopes, rec, issued, contacts>>

\* A call that changed nothing fails (the fence reader, the consumption, the
\* signer, the evidence table) and failAttempt follows.
CallFails(r) ==
  /\ run[r].pc \in {"fetched", "checked", "written", "assembled"}
  /\ Fault
  /\ Go(r, "failing")
  /\ UNCHANGED <<clock, row, consumed, envelopes, rec, issued, contacts>>

-----------------------------------------------------------------------------
(* The guards of the task table *)

\* Mutants of Available: success is not terminal; an expired lease is never
\* taken over.
AvailableAfterSuccess(t, now) ==
  row[t].state \in Leasable \/ (row[t].state # "absent" /\ row[t].expiry <= now)
AvailableOnlyQueued(t, now) == row[t].state \in Leasable

Available(t, now) ==
  \/ row[t].state \in Leasable
  \/ row[t].state \in Active /\ row[t].expiry <= now

\* Mutant of Owns: the fence is not compared.
OwnsByIdentity(r, now) ==
  row[run[r].task].owner = CollectorOf[r] /\ now < row[run[r].task].expiry

\* requireLease, and the WHERE clause of every guarded update
Owns(r, now) ==
  LET t == run[r].task IN
  /\ row[t].owner = CollectorOf[r]
  /\ row[t].fence = run[r].fence
  /\ now < row[t].expiry

\* transitionOwned: the guarded move of the run's task, or an error on which
\* Worker.Run returns and leaves the lease to expire.
TransitionOwned(r, from, to, step) ==
  LET t == run[r].task IN
  /\ \E now \in Reading :
       \/ /\ Owns(r, now) /\ row[t].state = from
          /\ row' = [row EXCEPT ![t].state = to]
          /\ Go(r, step)
       \/ /\ ~(Owns(r, now) /\ row[t].state = from)
          /\ Return(r)
          /\ UNCHANGED row
  /\ UNCHANGED <<clock, consumed, envelopes, rec, faults, issued, contacts>>

-----------------------------------------------------------------------------
(* Worker.Run, in the order of its statements *)

AddContext(t) ==
  /\ row[t].state = "absent"
  /\ row' = [row EXCEPT ![t].state = "queued"]
  /\ UNCHANGED <<clock, consumed, envelopes, run, rec, faults, issued, contacts>>

\* Mutant of AcquireContext: taking over an expired lease keeps its fence.
AcquireKeepingFence(r, t) ==
  /\ run[r].pc = "idle"
  /\ row[t].fence < MaxFence
  /\ \E now \in Reading :
       LET fence == IF row[t].state \in Active THEN row[t].fence ELSE row[t].fence + 1 IN
       /\ Available(t, now)
       /\ row' = [row EXCEPT ![t] =
            [@ EXCEPT !.state = "leased", !.owner = CollectorOf[r],
                      !.expiry = now + LeaseDuration, !.fence = fence, !.grant = None]]
       /\ run' = [run EXCEPT ![r] =
            [Idle EXCEPT !.pc = "leased", !.task = t, !.fence = fence,
                         !.expiry = now + LeaseDuration]]
  /\ UNCHANGED <<clock, consumed, envelopes, rec, faults, issued, contacts>>

AcquireContext(r, t) ==
  /\ run[r].pc = "idle"
  /\ row[t].fence < MaxFence
  /\ \E now \in Reading :
       /\ Available(t, now)
       /\ row' = [row EXCEPT ![t] =
            [@ EXCEPT !.state = "leased", !.owner = CollectorOf[r],
                      !.expiry = now + LeaseDuration, !.fence = row[t].fence + 1, !.grant = None]]
       /\ run' = [run EXCEPT ![r] =
            [Idle EXCEPT !.pc = "leased", !.task = t, !.fence = row[t].fence + 1,
                         !.expiry = now + LeaseDuration]]
  /\ UNCHANGED <<clock, consumed, envelopes, rec, faults, issued, contacts>>

\* No caller in this repository renews; any holder of the lease may.
RenewContext(r) ==
  LET t == run[r].task IN
  /\ run[r].pc # "idle"
  /\ row[t].state \in {"leased", "executing"}
  /\ \E now \in Reading :
       /\ Owns(r, now)
       /\ row' = [row EXCEPT ![t].expiry = now + LeaseDuration]
  /\ UNCHANGED <<clock, consumed, envelopes, run, rec, faults, issued, contacts>>

StartExecutionContext(r) ==
  /\ run[r].pc = "leased"
  /\ TransitionOwned(r, "leased", "executing", "started")

\* The validity of the grant: GrantTTL, cut at the end of the lease.
GrantExpiry(r, issuedAt) ==
  IF run[r].expiry < issuedAt + GrantTTL THEN run[r].expiry ELSE issuedAt + GrantTTL

\* Re-authorisation and issue of the grant.  Both are calls outside the
\* database; the authoriser may shorten the duration but not extend it.  A
\* denial, invalid limits, a window too short for the authorised duration or a
\* signing failure ends the attempt.
IssueGrant(r) ==
  /\ run[r].pc = "started"
  /\ \/ \E g \in Grants, issuedAt \in Reading, duration \in 1..MaximumDuration :
          /\ issued[g] = None
          /\ issuedAt + duration <= GrantExpiry(r, issuedAt)
          /\ issued' = [issued EXCEPT ![g] =
               [task |-> run[r].task, fence |-> run[r].fence, owner |-> CollectorOf[r]]]
          /\ run' = [run EXCEPT ![r] =
               [@ EXCEPT !.pc = "granted", !.grant = g,
                         !.notBefore = issuedAt, !.expires = GrantExpiry(r, issuedAt)]]
          /\ UNCHANGED faults
     \/ /\ \E issuedAt \in Reading, duration \in 1..MaximumDuration :
             GrantExpiry(r, issuedAt) < issuedAt + duration
        /\ Go(r, "failing")
        /\ UNCHANGED <<issued, faults>>
     \/ Fault /\ Go(r, "failing") /\ UNCHANGED issued
  /\ UNCHANGED <<clock, row, consumed, envelopes, rec, contacts>>

RecordExecutionAuthorityContext(r) ==
  LET t == run[r].task IN
  /\ run[r].pc = "granted"
  /\ \E now \in Reading :
       \/ /\ Owns(r, now) /\ row[t].state = "executing"
          /\ row' = [row EXCEPT ![t].grant = run[r].grant]
          /\ Go(r, "recorded")
       \/ /\ ~(Owns(r, now) /\ row[t].state = "executing")
          /\ Return(r)
          /\ UNCHANGED row
  /\ UNCHANGED <<clock, consumed, envelopes, rec, faults, issued, contacts>>

\* The copy of the task that later names the grant in the envelope.  The read
\* is not guarded by the fence.
GetContext(r) ==
  /\ run[r].pc = "recorded"
  /\ run' = [run EXCEPT ![r] =
       [@ EXCEPT !.pc = "fetched", !.seen = row[run[r].task].grant]]
  /\ UNCHANGED <<clock, row, consumed, envelopes, rec, faults, issued, contacts>>

\* ExchangeContext up to CurrentFence: the grant is current for the caller's
\* clock and the fence was current when it was read.
ExchangeContext(r) ==
  LET g == issued[run[r].grant]
      valid(now) == /\ run[r].notBefore <= now /\ now < run[r].expires
                    /\ row[g.task].fence = g.fence IN
  /\ run[r].pc = "fetched"
  /\ \E now \in Reading : Go(r, IF valid(now) THEN "checked" ELSE "failing")
  /\ UNCHANGED <<clock, row, consumed, envelopes, rec, faults, issued, contacts>>

\* lockAndValidateTask: the locked task still carries this grant and fence,
\* executes, and neither lease nor grant has expired on the database clock.
Consumable(id, expires) ==
  LET g == issued[id] IN
  /\ id \notin consumed
  /\ row[g.task].owner = g.owner
  /\ row[g.task].grant = id
  /\ row[g.task].fence = g.fence
  /\ row[g.task].state = "executing"
  /\ clock < row[g.task].expiry
  /\ clock < expires

\* The transaction that burns the grant.  Its commit may be followed by a lost
\* answer, and then the attempt fails without a credential.
Consume(r) ==
  LET id == run[r].grant IN
  /\ run[r].pc = "checked"
  /\ \/ /\ Consumable(id, run[r].expires)
        /\ consumed' = consumed \cup {id}
        /\ \/ Go(r, "exchanged") /\ UNCHANGED faults
           \/ Fault /\ Go(r, "failing")
     \/ /\ ~Consumable(id, run[r].expires)
        /\ Go(r, "failing")
        /\ UNCHANGED <<consumed, faults>>
  /\ UNCHANGED <<clock, row, envelopes, rec, issued, contacts>>

\* The adapter refuses an expired credential; otherwise the device is
\* contacted, and the answer is captured or the operation fails.
Execute(r) ==
  LET id == run[r].grant IN
  /\ run[r].pc = "exchanged"
  /\ \E now \in Reading :
       \/ /\ now < run[r].expires
          /\ contacts' = [contacts EXCEPT ![id] = @ + 1]
          /\ \/ Go(r, "captured") /\ UNCHANGED faults
             \/ Fault /\ Go(r, "failing")
       \/ /\ run[r].expires <= now
          /\ Go(r, "failing")
          /\ UNCHANGED <<contacts, faults>>
  /\ UNCHANGED <<clock, row, consumed, envelopes, rec, issued>>

\* WriteCaptured up to the assembly: the time is read, both artefacts are
\* stored and the observation parsed.  Storage, quarantine and parse errors
\* end the attempt.
WriteCaptured(r) ==
  /\ run[r].pc = "captured"
  /\ \/ \E now \in Reading :
          /\ run' = [run EXCEPT ![r] = [@ EXCEPT !.pc = "written", !.stamp = now]]
          /\ UNCHANGED faults
     \/ Fault /\ Go(r, "failing")
  /\ UNCHANGED <<clock, row, consumed, envelopes, rec, issued, contacts>>

\* VerifyCurrentAttempt: a read of the task row, not the insert of the
\* envelope, that checks the attempt at the time WriteCaptured started.
CurrentAttempt(r) ==
  /\ Owns(r, run[r].stamp)
  /\ row[run[r].task].state \in {"executing", "committing"}

\* The assembler wants a complete lineage and a current attempt.
AssembleContext(r) ==
  /\ run[r].pc = "written"
  /\ Go(r, IF run[r].seen # None /\ CurrentAttempt(r) THEN "assembled" ELSE "failing")
  /\ UNCHANGED <<clock, row, consumed, envelopes, rec, faults, issued, contacts>>

\* Mutant of Envelope: the fence of the task instead of the attempt's lease.
EnvelopeOfTask(r) == [task |-> run[r].task, fence |-> row[run[r].task].fence,
                      grant |-> run[r].seen, owner |-> CollectorOf[r]]

Envelope(r) == [task |-> run[r].task, fence |-> run[r].fence, grant |-> run[r].seen,
                owner |-> CollectorOf[r]]

\* An insert that is idempotent for equal contents and refused for a second
\* envelope of the same attempt.  A lost answer fails the attempt although the
\* envelope is durable.
CreateEnvelope(r) ==
  LET e == Envelope(r)
      conflict == \E x \in envelopes : x.task = e.task /\ x.fence = e.fence /\ x # e IN
  /\ run[r].pc = "assembled"
  /\ \/ /\ ~conflict
        /\ envelopes' = envelopes \cup {e}
        /\ \/ Go(r, "persisted") /\ UNCHANGED faults
           \/ Fault /\ Go(r, "failing")
     \/ /\ conflict
        /\ Go(r, "failing")
        /\ UNCHANGED <<envelopes, faults>>
  /\ UNCHANGED <<clock, row, consumed, rec, issued, contacts>>

BeginCommitContext(r) ==
  /\ run[r].pc = "persisted"
  /\ TransitionOwned(r, "executing", "committing", "committing")

\* The statement itself trusts the attempt and evidence the run passes.
CommitContext(r) ==
  LET t == run[r].task IN
  /\ run[r].pc = "committing"
  /\ \E now \in Reading :
       \/ /\ Owns(r, now) /\ row[t].state = "committing"
          /\ row[t].attempt = 0 /\ row[t].evidence = None
          /\ row' = [row EXCEPT ![t] =
               [@ EXCEPT !.state = "succeeded", !.attempt = run[r].fence,
                         !.evidence = Envelope(r)]]
       \/ /\ ~(Owns(r, now) /\ row[t].state = "committing"
               /\ row[t].attempt = 0 /\ row[t].evidence = None)
          /\ UNCHANGED row
  /\ Return(r)
  /\ UNCHANGED <<clock, consumed, envelopes, rec, faults, issued, contacts>>

\* failAttempt: return the task to retry_wait, keeping its grant column.
RetryContext(r) ==
  LET t == run[r].task IN
  /\ run[r].pc = "failing"
  /\ \E now \in Reading :
       \/ /\ Owns(r, now) /\ row[t].state \in Active
          /\ row' = [row EXCEPT ![t] =
               [@ EXCEPT !.state = "retry_wait", !.owner = None, !.expiry = 0]]
       \/ /\ ~(Owns(r, now) /\ row[t].state \in Active)
          /\ UNCHANGED row
  /\ Return(r)
  /\ UNCHANGED <<clock, consumed, envelopes, rec, faults, issued, contacts>>

-----------------------------------------------------------------------------
(* ReconciliationRunner.RunOnce: list candidates, then update one by one *)

\* The envelope still carries the fence and grant of an expired active task
\* that has no result.
Reconcilable(e, at) ==
  /\ row[e.task].fence = e.fence
  /\ row[e.task].grant = e.grant
  /\ row[e.task].state \in {"executing", "committing"}
  /\ row[e.task].expiry <= at
  /\ row[e.task].attempt = 0 /\ row[e.task].evidence = None

ListExpiredEvidenceCandidates(c) ==
  /\ rec[c].batch = {}
  /\ \E at \in Reading :
       LET candidates == {e \in envelopes : Reconcilable(e, at)} IN
       \E batch \in SUBSET candidates :
         /\ batch # {}
         /\ Cardinality(batch) <= BatchSize
         /\ Cardinality(batch) < BatchSize => batch = candidates
         /\ rec' = [rec EXCEPT ![c] = [at |-> at, batch |-> batch]]
  /\ UNCHANGED <<clock, row, consumed, envelopes, run, faults, issued, contacts>>

\* The update repeats the whole guard, with the time the batch was listed at.
\* A refusal is an expected skip.
ReconcileExpiredEvidence(c) ==
  /\ \E e \in rec[c].batch :
       /\ rec' = [rec EXCEPT ![c].batch = @ \ {e}]
       /\ \/ /\ Reconcilable(e, rec[c].at)
             /\ row' = [row EXCEPT ![e.task] =
                  [@ EXCEPT !.state = "succeeded", !.attempt = e.fence, !.evidence = e]]
          \/ /\ ~Reconcilable(e, rec[c].at)
             /\ UNCHANGED row
  /\ UNCHANGED <<clock, consumed, envelopes, run, faults, issued, contacts>>

RunnerCrash(c) ==
  /\ rec[c].batch # {}
  /\ Fault
  /\ rec' = [rec EXCEPT ![c] = NoBatch]
  /\ UNCHANGED <<clock, row, consumed, envelopes, run, issued, contacts>>

-----------------------------------------------------------------------------
(* Specification *)

\* What an attempt does on its own once it has the lease.
Attempt(r) ==
  \/ StartExecutionContext(r) \/ IssueGrant(r) \/ RecordExecutionAuthorityContext(r)
  \/ GetContext(r) \/ ExchangeContext(r) \/ Consume(r) \/ Execute(r)
  \/ WriteCaptured(r) \/ AssembleContext(r) \/ CreateEnvelope(r)
  \/ BeginCommitContext(r) \/ CommitContext(r) \/ RetryContext(r)

Reconcile(c) == ListExpiredEvidenceCandidates(c) \/ ReconcileExpiredEvidence(c)

Next ==
  \/ Tick
  \/ \E t \in Tasks : AddContext(t)
  \/ \E r \in Runs, t \in Tasks : AcquireContext(r, t)
  \/ \E r \in Runs : Attempt(r) \/ RenewContext(r) \/ Crash(r) \/ CallFails(r)
  \/ \E c \in Reconcilers : Reconcile(c) \/ RunnerCrash(c)

Spec == Init /\ [][Next]_vars

\* Live processes keep running, available tasks keep being offered to
\* Worker.Run, and the control plane keeps polling for expired evidence.
Fairness ==
  /\ WF_vars(Tick)
  /\ \A t \in Tasks : WF_vars(AddContext(t))
  /\ \A r \in Runs : WF_vars(Attempt(r)) /\ WF_vars(\E t \in Tasks : AcquireContext(r, t))
  /\ \A c \in Reconcilers : WF_vars(Reconcile(c))

FairSpec == Spec /\ Fairness

-----------------------------------------------------------------------------
(* Properties *)

Bindings(e) == [task |-> e.task, fence |-> e.fence, owner |-> e.owner]

\* Every durable envelope names a grant that was issued for exactly its task,
\* attempt and collector, and that was consumed: no evidence without spent
\* authority.  The grant comes from a copy of the task read outside any guard
\* (Worker.Run's second GetContext), between two checks of the fence.
EvidenceHasSpentAuthority ==
  \A e \in envelopes : e.grant \in consumed /\ issued[e.grant] = Bindings(e)

\* A succeeded task carries durable evidence of its own current attempt, made
\* under the grant recorded for that attempt, whether CommitContext or the
\* reconciler accepted it; a task that has not succeeded carries no result.
AcceptedResultIsCurrent ==
  \A t \in Tasks :
    LET e == row[t].evidence IN
    IF row[t].state = "succeeded"
    THEN /\ e \in envelopes
         /\ e.task = t /\ e.fence = row[t].fence /\ e.grant = row[t].grant
         /\ row[t].attempt = row[t].fence
    ELSE row[t].attempt = 0 /\ e = None

\* One fencing epoch spends at most one grant, a device is contacted at most
\* once under a grant and only after it was spent: crashes, restarts under the
\* same identity and lost answers never repeat a contact within an attempt.
OneContactPerAttempt ==
  /\ \A g \in Grants : contacts[g] <= 1 /\ (contacts[g] > 0 => g \in consumed)
  /\ \A g, h \in consumed :
       issued[g].task = issued[h].task /\ issued[g].fence = issued[h].fence => g = h

\* The promise of the task authority: README.md "accepts only one current
\* fenced result".
Result == INSTANCE TaskResult WITH
  epoch <- [t \in Tasks |-> row[t].fence],
  durable <- envelopes,
  result <- [t \in Tasks |-> row[t].evidence]
AcceptsOneCurrentResult == Result!Spec

\* README.md: "an expired lease advances the fencing epoch, and the old attempt
\* cannot assemble or commit evidence": an envelope is of the current fence at
\* the moment it becomes durable.  The code checks the fence in a read of its
\* own (VerifyCurrentAttempt) before the insert.
StaleAssemblyFailsClosed ==
  [][\A e \in envelopes' \ envelopes : e.fence = row[e.task].fence]_envelopes

\* Evidence of the current attempt that its run has not committed.
Uncommitted(t) ==
  /\ row[t].state \in {"executing", "committing"}
  /\ \E e \in envelopes : e.task = t /\ e.fence = row[t].fence /\ e.grant = row[t].grant

\* The crash window between the envelope and the commit is always closed: the
\* run commits, the reconciler accepts, or a new attempt fences the evidence.
CrashWindowCloses == \A t \in Tasks : Uncommitted(t) ~> ~Uncommitted(t)

\* Once faults stop, a queued task succeeds: no failure path strands it.
TaskEventuallySucceeds ==
  \A t \in Tasks : row[t].state # "absent" ~> row[t].state = "succeeded"

=============================================================================
