------------------------------ MODULE Artefacts ------------------------------
(***************************************************************************)
(* Durable artefacts (internal/artefacts): immutable objects in an object  *)
(* store, lineage metadata and lifecycle in PostgreSQL.  The object and    *)
(* its metadata cannot be written in one transaction, and a lifecycle      *)
(* command carries a version that was read earlier and a CURRENT_TIMESTAMP *)
(* taken when its transaction began, before it waited for the row lock.    *)
(***************************************************************************)
EXTENDS Naturals, FiniteSets

CONSTANTS
  Attempts, Manifests,
  Payloads,            \* a payload stands for its digest
  Writers, Admins,
  Governed,            \* classes of artefacts that get lifecycle commands
  Deadlines,           \* retention deadlines that are asked for
  Stamps,              \* creation times, as read by the callers
  MaxClock, MaxVersion, None

ASSUME ArtefactAssumption ==
  /\ Deadlines \subseteq Nat \ {0} /\ MaxClock \in Nat /\ MaxVersion \in Nat

VARIABLES
  clock,     \* the database clock
  objects,   \* the object store
  metadata,  \* broker_artefacts: creation stamp of every row
  lifecycle, \* broker_artefact_lifecycle
  ledger,    \* broker_artefact_lifecycle_events
  writer,    \* open calls of DurableStore.persist
  admin      \* open lifecycle commands

vars == <<clock, objects, metadata, lifecycle, ledger, writer, admin>>

-----------------------------------------------------------------------------
(* Types and initial state *)

\* The stable identity of an artefact: the attempt and digest of captured bytes;
\* the captured parent, transformation manifest and digest of sanitised bytes.
Captured == [class: {"captured"}, attempt: Attempts, digest: Payloads]
Sanitised == [class: {"sanitised"}, parent: Captured, manifest: Manifests,
              digest: Payloads]
Artefact == Captured \cup Sanitised

\* Objects are content-addressed within their class, so artefacts share them.
ObjectKey(a) == [class |-> a.class, digest |-> a.digest]

\* retain = 0 is a NULL retain_until.
Condition == [state: {"active", "pending_deletion", "deleted"}, retain: Nat, hold: BOOLEAN]
Lifecycle == [condition: Condition, version: Nat]

ASSUME NoneAssumption == None \notin Stamps /\ None \notin Lifecycle

Actions == {"retain", "place_hold", "release_hold", "request_deletion", "confirm_deletion"}

NewCondition == [state |-> "active", retain |-> 0, hold |-> FALSE]

Command == [artefact: Artefact, expected: Nat, action: Actions, deadline: Nat,
            now: Nat, begun: BOOLEAN]
Write == [artefact: Artefact, stamp: Stamps, stored: BOOLEAN]

Rows == {a \in Artefact : metadata[a] # None}

\* Every variable keeps the type of the rows and values it models.
TypeOK ==
  /\ clock \in Nat
  /\ objects \in SUBSET [class: {"captured", "sanitised"}, digest: Payloads]
  /\ metadata \in [Artefact -> Stamps \cup {None}]
  /\ lifecycle \in [Artefact -> Lifecycle \cup {None}]
  /\ ledger \in SUBSET [artefact: Artefact, version: Nat, action: Actions \cup {"created"},
                        previous: Condition \cup {None}, next: Condition]
  /\ writer \in [Writers -> Write \cup {None}]
  /\ admin \in [Admins -> Command \cup {None}]

Init ==
  /\ clock = 0
  /\ objects = {}
  /\ metadata = [a \in Artefact |-> None]
  /\ lifecycle = [a \in Artefact |-> None]
  /\ ledger = {}
  /\ writer = [w \in Writers |-> None]
  /\ admin = [d \in Admins |-> None]

Tick ==
  /\ clock < MaxClock
  /\ clock' = clock + 1
  /\ UNCHANGED <<objects, metadata, lifecycle, ledger, writer, admin>>

-----------------------------------------------------------------------------
(* DurableStore: the object first, then the metadata *)

\* PutSanitisedForTenant reads the captured parent; the insert repeats it as a
\* foreign key.
HasParent(a) == a.class = "sanitised" => a.parent \in Rows

\* PutCapturedForTenant and PutSanitisedForTenant up to persist.
Put(w) ==
  /\ writer[w] = None
  /\ \E a \in Artefact, stamp \in Stamps :
       /\ HasParent(a)
       /\ writer' = [writer EXCEPT ![w] = [artefact |-> a, stamp |-> stamp, stored |-> FALSE]]
  /\ UNCHANGED <<clock, objects, metadata, lifecycle, ledger, admin>>

\* Mutant of PutIfAbsent: an upload that failed is taken for stored.
PutUnchecked(w) ==
  /\ writer[w] # None /\ ~writer[w].stored
  /\ \/ objects' = objects \cup {ObjectKey(writer[w].artefact)}
     \/ UNCHANGED objects
  /\ writer' = [writer EXCEPT ![w].stored = TRUE]
  /\ UNCHANGED <<clock, metadata, lifecycle, ledger, admin>>

\* The conditional upload.  When it fails, an object that is there with the
\* right size and digest (stored before, or just now with a lost answer) counts.
PutIfAbsent(w) ==
  /\ writer[w] # None /\ ~writer[w].stored
  /\ \/ /\ objects' = objects \cup {ObjectKey(writer[w].artefact)}
        /\ writer' = [writer EXCEPT ![w].stored = TRUE]
     \/ /\ ObjectKey(writer[w].artefact) \notin objects
        /\ writer' = [writer EXCEPT ![w] = None]
        /\ UNCHANGED objects
  /\ UNCHANGED <<clock, metadata, lifecycle, ledger, admin>>

\* PostgresRepository.Create: metadata, lifecycle and first ledger entry in one
\* transaction; an existing row must be equal (else ErrMetadataConflict) and is
\* kept.
CreateMetadata(w) ==
  LET a == writer[w].artefact IN
  /\ writer[w] # None /\ writer[w].stored
  /\ \/ /\ metadata[a] = None
        /\ metadata' = [metadata EXCEPT ![a] = writer[w].stamp]
        /\ lifecycle' = [lifecycle EXCEPT ![a] = [condition |-> NewCondition, version |-> 1]]
        /\ ledger' = ledger \cup {[artefact |-> a, version |-> 1, action |-> "created",
                                   previous |-> None, next |-> NewCondition]}
     \/ metadata[a] # None /\ UNCHANGED <<metadata, lifecycle, ledger>>
  /\ writer' = [writer EXCEPT ![w] = None]
  /\ UNCHANGED <<clock, objects, admin>>

\* The writer dies, or the insert fails, between the two stores.
WriterFails(w) ==
  /\ writer[w] # None
  /\ writer' = [writer EXCEPT ![w] = None]
  /\ UNCHANGED <<clock, objects, metadata, lifecycle, ledger, admin>>

-----------------------------------------------------------------------------
(* Lifecycle commands *)

\* The caller reads the version; Apply validates the command.
Decide(d) ==
  /\ admin[d] = None
  /\ \E a \in Rows, action \in Actions, deadline \in Deadlines \cup {0} :
       /\ a.class \in Governed /\ lifecycle[a].version < MaxVersion
       /\ deadline # 0 <=> action = "retain"
       /\ admin' = [admin EXCEPT ![d] =
            [artefact |-> a, expected |-> lifecycle[a].version, action |-> action,
             deadline |-> deadline, now |-> 0, begun |-> FALSE]]
  /\ UNCHANGED <<clock, objects, metadata, lifecycle, ledger, writer>>

\* BeginTx fixes CURRENT_TIMESTAMP.
Begin(d) ==
  /\ admin[d] # None /\ ~admin[d].begun
  /\ admin' = [admin EXCEPT ![d] = [@ EXCEPT !.now = clock, !.begun = TRUE]]
  /\ UNCHANGED <<clock, objects, metadata, lifecycle, ledger, writer>>

\* Mutant of MayRetain: a deadline may be shortened.
MayRetainShorter(c, x) == c.state = "active" /\ x.deadline > x.now

MayRetain(c, x) == c.state = "active" /\ x.deadline > x.now /\ x.deadline > c.retain

MayPlaceHold(c) == c.state # "deleted" /\ ~c.hold
MayReleaseHold(c) == c.state # "deleted" /\ c.hold

MayRequestDeletion(c, x) == c.state = "active" /\ ~c.hold /\ c.retain <= x.now

MayConfirmDeletion(c) == c.state = "pending_deletion" /\ ~c.hold

\* applyLifecycleAction: anything else is ErrLifecycleBlocked.
Permitted(c, x) ==
  CASE x.action = "retain" -> MayRetain(c, x)
    [] x.action = "place_hold" -> MayPlaceHold(c)
    [] x.action = "release_hold" -> MayReleaseHold(c)
    [] x.action = "request_deletion" -> MayRequestDeletion(c, x)
    [] x.action = "confirm_deletion" -> MayConfirmDeletion(c)

Applied(c, x) ==
  CASE x.action = "retain" -> [c EXCEPT !.retain = x.deadline]
    [] x.action = "place_hold" -> [c EXCEPT !.hold = TRUE]
    [] x.action = "release_hold" -> [c EXCEPT !.hold = FALSE]
    [] x.action = "request_deletion" -> [c EXCEPT !.state = "pending_deletion"]
    [] x.action = "confirm_deletion" -> [c EXCEPT !.state = "deleted"]

\* Mutant of Current: the expected version is not compared.
CurrentIgnored(x) == TRUE

Current(x) == lifecycle[x.artefact].version = x.expected

\* ApplyLifecycle under the row lock; the version of the ledger entry is the
\* one that was expected, plus one.
ApplyLifecycle(d) ==
  LET x == admin[d]
      now == lifecycle[x.artefact].condition IN
  /\ x # None /\ x.begun
  /\ \/ /\ Current(x) /\ Permitted(now, x)
        /\ lifecycle' = [lifecycle EXCEPT ![x.artefact] =
             [condition |-> Applied(now, x), version |-> x.expected + 1]]
        /\ ledger' = ledger \cup
             {[artefact |-> x.artefact, version |-> x.expected + 1, action |-> x.action,
               previous |-> now, next |-> Applied(now, x)]}
     \/ ~(Current(x) /\ Permitted(now, x)) /\ UNCHANGED <<lifecycle, ledger>>
  /\ admin' = [admin EXCEPT ![d] = None]
  /\ UNCHANGED <<clock, objects, metadata, writer>>

-----------------------------------------------------------------------------
(* Specification *)

Next ==
  \/ Tick
  \/ \E w \in Writers : Put(w) \/ PutIfAbsent(w) \/ CreateMetadata(w) \/ WriterFails(w)
  \/ \E d \in Admins : Decide(d) \/ Begin(d) \/ ApplyLifecycle(d)

Spec == Init /\ [][Next]_vars

-----------------------------------------------------------------------------
(* Properties *)

\* Metadata is complete, whatever fails between the object store and the
\* database: a row names bytes that were stored, has its lifecycle, and the
\* captured parent of sanitised bytes is recorded.
MetadataIsComplete ==
  \A a \in Artefact :
    /\ a \in Rows => ObjectKey(a) \in objects
    /\ a \in Rows <=> lifecycle[a] # None
    /\ a \in Rows \cap Sanitised => a.parent \in Rows

Entries(a) == {e \in ledger : e.artefact = a}

\* The append-only ledger is the history of the lifecycle row: one entry per
\* version, each starting where the one before ended, the last the current
\* condition, although commands carry versions that others have overtaken.
LedgerIsHistory ==
  \A a \in Rows :
    /\ {e.version : e \in Entries(a)} = 1..lifecycle[a].version
    /\ \A e, f \in Entries(a) :
         /\ e.version = f.version => e = f
         /\ f.version = e.version + 1 => f.previous = e.next
    /\ \A e \in Entries(a) : e.version = lifecycle[a].version => e.next = lifecycle[a].condition

\* Nothing leaves the active state before every retention deadline that was ever
\* set for it has passed on the database clock (docs/artefact-storage.md:
\* "deadlines cannot be shortened"), although the deciding time is that of
\* BeginTx; nothing under legal hold is deleted.
DeletionWaits ==
  \A a \in Rows :
    LET c == lifecycle[a].condition IN
    /\ c.state # "active" => \A e \in Entries(a) : e.next.retain <= clock
    /\ c.state = "deleted" => ~c.hold
=============================================================================
