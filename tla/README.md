# Verification of the network broker

TLA+ models of the broker's durable protocols, model-checked with TLC on small
instances, with the central ones proved by TLAPS for every instance.
`PROJECT.json` lists, per module, the source lines behind every definition, the
runs, the hazards and the theorems.

## The system and its parts

The broker collects evidence from network devices on behalf of authenticated
actors. All coordination goes through PostgreSQL; NATS JetStream carries events
and an object store holds bytes.

| Part | State | Operations that change it | What makes it hard |
|---|---|---|---|
| Collector tasks, grants, evidence (`internal/collector`, `grants`, `evidence`) | task rows with lease and fence, consumed grants, evidence envelopes | acquire, renew, start, record authority, consume, execute, assemble, commit, retry, reconcile | several processes with their own clocks, crashes between any two statements, unguarded reads |
| Outbox and dead letters (`internal/outbox`, `deadletter`) | event rows with lease and attempts, audit rows | claim, publish, mark, retry, dead-letter, replay | leases without a fence, lost acknowledgements, stale attempt counts |
| Resolution workflow and fan-out (`internal/resolution`, `planning`, `collector/fanout.go`) | versioned rows, idempotency keys, event log, tasks | create, transition, queue | races on a key, read-then-compare-and-set, lost answers |
| Create API (`cmd/controlplane/resolution_create_handlers.go`) | slots of a process, requests in flight | limit, check, canonicalise, create, answer | unknown commits, lost answers, retries with reordered claims |
| Watch streams (`cmd/controlplane/resolution_watch_handlers.go`) | cursor and batch of a connection | connect, poll, write, time out | reconnects, write deadline, slot limit |
| Artefacts (`internal/artefacts`) | objects, lineage metadata, lifecycle, ledger | put, retain, hold, release, request and confirm deletion | two stores without a common transaction, stale versions, time of a waiting transaction |
| Approval (`internal/approval`) | grants and uses | create, consume | counting under concurrency, retries |
| Policy (`internal/policy`) | bundles, active row, audit events, decisions | store, activate, evaluate | audit numbers outside the transaction, load-then-record |
| Disclosure and signing (`internal/disclosure`, `retrieval`, `cryptosign`, `keyprovider`) | decisions, receipts, keyrings | evaluate, deliver, rotate, reconfigure | races on a request identifier, rotation while signing |
| Migrations (`migrations`) | schema, ledger, advisory lock | apply | replicas of different builds, lost sessions |
| Grant audit (`internal/databaseauth`) | database grants | inspect tables, inspect sequences, validate | two queries while an administrator works, builds with different manifests |
| Control-plane process (`cmd/controlplane/main.go`) | connections, goroutines | start, serve, shut down | errors racing signals, requests outliving shutdown |
| Transports (`internal/transport`) | connection, streams, reader goroutines | dial, handshake, run, read, close | silent devices, deadlines against cancellation, output bounds, goroutines that outlive the call |
| Sanitisation, normalisation, parsing (`internal/sanitise`, `normalise`, `parsing`) and the sink (`internal/evidence/pipeline.go`) | captured and sanitised objects, evidence | transform, store, parse, promote | terminal sequences, bounds counted on raw bytes, order of updates, quarantine |

Interactions: `Resolution.Queue` creates the tasks that `Collector` executes;
resolution transactions append the rows that `Outbox` delivers and `Watch`
reads; the worker's sink stores artefacts and evidence; disclosure delivers
evidence. A collection attempt contacts its device through a transport and hands
the payload to the sink; a starting process migrates the database and audits its
grants before it serves. The remaining parts (mTLS identities, KMS, inventory,
reading handlers) are listed in `PROJECT.json` with the reason they are not
modelled.

## Modules

| Module | Models | State and actions |
|---|---|---|
| `TaskResult` | abstract promise of the task authority | attempts, durable evidence, one accepted result |
| `Collector` | worker, task table, grants, evidence, reconciler | `run` is one call of `Worker.Run` with its program counter; a guarded UPDATE is one action, so everything interleaves between two statements. Callers bring clock readings that differ from the database clock by `Offsets` |
| `Outbox` | dispatchers, JetStream, replay | leases and delays count down; within `Skew` of a lease's end both sides may believe themselves right |
| `Resolution` | create, transition, fan-out | open transactions are variables; row locks are guards |
| `CreateApi` | the create handler over `Resolution` (composition by EXTENDS) | one request per caller at a time: admitted, creating, answered; the transaction of `Resolution` runs inside the handler. "retry" stands for every answer after which a caller asks again (none, lost, 429, 500) |
| `Watch` | streams over `Resolution` (composition by EXTENDS) | one handler per client, clients reconnect with their last identifier. `ListEvents` says what its query asks for: rows in version order, at most a batch, none left out before its end |
| `Artefacts` | durable store and lifecycle | object write and metadata insert are separate steps; a command keeps the version it read and the time of its `BeginTx` |
| `Approval` | grants and consumption | a SERIALIZABLE transaction is a snapshot plus a check that the row did not change |
| `Policy` | bundles, activation, evaluation | an activation takes its audit number before it commits |
| `Signing`, `Disclosure` | signature sets; deliveries over them | provider-by-provider signing, lookup and insert are separate steps |
| `Migrations` | schema migration | lock, check, apply and unlock per replica |
| `ControlPlane` | process life cycle | stages of `run`, goroutines of `serve` |
| `Rollout` | composition of the two with the grant audit | replicas of several builds start on one database; `Self` is followed through its whole process (`INSTANCE ControlPlane`), the others until they are verified; the audit is two reads |
| `Transport` | one call of `Adapter.Execute` | the device's script is chosen first and arrives chunk by chunk; reader goroutines, the result channel, the socket deadline and the caller's context are separate |
| `Sanitise`, `Normalise` | pure transformations | operators over sequences of an alphabet of bytes, each loop of the code a recursive function of the place it has reached, and the recursion over JSON one of the depth; the JSON and protobuf libraries are external operators |
| `Derivatives` | what the transformations promise, by definition | no code: which bytes form a terminal sequence, which text is harmless, what a response says of an interface |
| `JsonValues` | JSON values, by recursion | the text of a value, which `Sanitise` has as a constant, and the nesting that the scanner must find |
| `Capture` | `Transport`, sanitisation, storage, parsing in one attempt | `WriteCaptured` step by step, each of which may fail |

`MC*` modules give the constants their values. Eight modules hold the theorems:

| Module | Proves about |
|---|---|
| `CollectorProofs` | `Collector`, and its refinement of `TaskResult` |
| `DeliveryProofs` | `Outbox`, and `Disclosure` over `Signing` |
| `AuthorisationProofs` | `Approval`, `Policy`, and `Rollout` over `Migrations` and `ControlPlane` |
| `ResolutionProofs` | `Resolution`, `CreateApi` and `Watch` |
| `EvidenceProofs` | `Artefacts` and `Transport` |
| `SanitiseProofs` | the loops of `Sanitise` that change bytes |
| `InspectionProofs` | the loops of `Sanitise` that judge text, and the extraction of `Normalise` |
| `CaptureProofs` | `Capture`, from the three before |

Modules that are proved about together have no name in common, so some carry the
name of their component (`OutboxInit`, `PolicySpec`, `approvalVars`). The type
invariants are not properties of a run: they are part of the inductive invariants,
and that of `Capture` documents its state. Operators whose comment says "Mutant of" are
plausible mistakes in one definition; replacing the definition by the mutant
violates the property that `PROJECT.json` pairs with it.

Abstractions common to all modules: identifiers and payloads are model values,
a digest is the thing it digests, signatures of trusted keys verify, validation
of single request fields is left out, and one tenant stands for all. Bytes are
members of an alphabet that has one member for each class the code tells apart
(`"F"` is the whole replacement character, a word of a gNMI message is one member
with its quotes); lengths of JSON paths are left out.

## Runs

| Run | Question | Distinct states |
|---|---|---|
| `CollectorSafety` | spent authority, one current result, one contact per attempt, refinement of `TaskResult` | 264,597 |
| `CollectorLiveness` | evidence left by a crash is accepted or fenced; queued tasks succeed | 130,734 |
| `OutboxDelivery` | published implies stored, dead letters exhausted, replays audited, published is final; every event settles | 208,924 |
| `ResolutionWorkflow` | one resolution per key, event log is the history, atomic fan-out, true answers of the create API | 927,577 |
| `WatchStreams` | every version once and in order; a reconnecting client learns the outcome | 294,340 |
| `ArtefactHistory` | metadata has objects, lineage is closed, ledger is the history, deletion waits, deadlines only grow | 1,384,867 |
| `ApprovalConsume` | uses are counted and bounded, answers are recorded | 707,062 |
| `PolicyActivation` | trail ends in the active bundle, decisions are reproducible | 118,876 |
| `DisclosureDelivery` | one permitted receipt for every released payload, which keeps verifying across rotations and restarts | 1,387,160 |
| `RolloutStart` | replicas start on exactly their schema and grants, do not fail for others, and start; release order, exit code, a signal stops the process | 115,038 |
| `DeviceCapture` | captures are whole, stripping and the JSON scanner are exact, derivatives harmless, quarantines recorded, evidence is what the device reported, the call ends | 393,116 |

One run shows where the code differs from what the repository says.
`CollectorStaleAssembly`: `VerifyCurrentAttempt` is a read of its own, so
evidence of a superseded attempt can become durable, which README.md says cannot
happen. It is never accepted (`AcceptedResultIsCurrent`).

Behaviours of the models that a reader of the documentation may not expect, for
which no property is stated:

* `Outbox`: attempts count claims, so an event whose claims were lost to crashes
  is dead-lettered at its first failed publication; the comment of `DeadLetter`
  says "repeatedly failing".
* `Watch`: the server's write timeout (15 s) is shorter than the longest stream
  (30 s), so a quiet stream can be cut without the documented comment. Clients
  that reconnect miss nothing (`WatchIsExact`, `WatcherSeesEnd`).
* `Signing`: the policy of the running manager is applied to old signature sets,
  so a manager that requires an algorithm its predecessor did not sign with
  rejects the earlier receipts. The managers of `DisclosureDelivery` differ in
  minimum and required algorithms and sign with the same providers.
* `Disclosure`: a retry after the decision has expired is refused, although its
  receipt exists; docs/evidence-disclosure-persistence.md promises the receipt.
  `ReleasedIsReceipted` includes that nothing is released after the expiry.
* `Rollout`: builds with different manifests exclude one another: once the grants
  follow the newer build, the older one no longer starts, and running replicas
  are not audited again. A change between the two queries of the audit can make it
  accept a set that never existed, so `AuthorityIsExact` speaks of replicas whose
  grants nobody changed since their audit began.
* `Transport`: the output of an SSH command is known to be whole only if the device
  reports its exit status after its output, which `CapturedIsComplete` assumes. A
  cancelled context does not interrupt a handshake or a blocked read; the deadline
  set on the socket does. NETCONF looks at its context before each byte and then waits
  for the byte, which are two steps of the model. A capture is discarded if closing
  the session fails.
* `Sanitise`: redaction runs before terminal sequences are removed. Removal within
  the bytes of a rune can leave invalid bytes, which `stripRawControls` replaces
  (`DerivativeIsSafe`). Strings of JSON are inspected at every depth, names of fields
  are not: `inspectJSONValue` uses a key as a path and as the field of its value only,
  while docs/adversarial-sanitisation.md says that the profile "inspects the complete
  response for hostile strings". `Harmless` speaks of values therefore. A key with a
  control is caught by the store, and only where it is on a path of the manifest.
* `Capture`: the store refuses manifests with too many entries, or with a path that is
  too long or holds a control, so a quarantined document with very many findings, or
  with one that is deeply nested, can end without its derivative. The text that the
  gNMI profile makes of a response is not compared with the bound of the pipeline. SSH text and
  NETCONF XML are never promoted to typed evidence: the parser takes
  `application/json` only.
* `CreateApi`: a repeated request is answered with the current state and version
  of the resolution, not with those of its creation.
* `Collector`: a renewal with a slow clock shortens the lease, so leases of two
  runs are exclusive only as far as clocks agree; safety rests on the fence.

### Bounds

One task with two runs of one identity and two fences reaches takeover, late
commit and reconciliation; `MaxFaults = 1` allows a crash or failed call at
every point. The outbox has two dispatchers, two events and two attempts, enough
for a lease to be lost, reclaimed, dead-lettered and replayed with both keys.
Its run keeps `Skew = 0`: when clocks disagree by a whole lease, dispatchers can
take a row from each other for ever, so `EventSettles` needs agreeing clocks; the
safety properties are proved for every `Skew`. Two callers of two processes with
one slot each want one key with the same or other claims, or two keys, and one may
lack identity, scope or key; bodies come in both orders and with a duplicate. One
driver races one planner with overlapping plans; several drivers and planners are
covered by the proofs. Watch shares one slot
between two clients, with a stream that outlives the write timeout. Artefacts has
one captured artefact with its sanitised child; lifecycle commands go to the
classes in `Governed`, here the captured one. Approval has limits below the number of competing uses. Disclosure
has two keys for each of two providers, two pieces of evidence and a tainted
field; the set of redactions is empty. Rollout mixes a
build, its successor and a diverging one, with two changes of grants, and
deployments in which all replicas, or all but `Self`, apply migrations. Capture sends all texts of up to three bytes of
the alphabet, terminal sequences of up to six, documents around the limits of depth
and nodes, with strings on paths around the limit of a path, and gNMI responses with up to three updates; device output is counted
in chunks around the limit of two. Clocks (`MaxClock`), fences, versions, events and decisions
are capped in guards. Deadlock is not checked where the bounds themselves end
behaviours (a clock or identifier pool that is used up) or where the process
may stop; `Symmetry` is used only in runs without liveness.

### Fairness

Liveness runs assume weak fairness of the steps of live processes (Go schedules
runnable goroutines and every dependency call has a timeout), of time, and of
the polling loops (`Runner.Run`, `ReconciliationRunner.Run`), which never end
while the process lives. Operators, crashes and faults are not fair. In
`Rollout` the acquisition of the advisory lock is strongly fair because
PostgreSQL queues waiting sessions, a supervisor restarts failed replicas, and a
cancelled context ends the wait for the lock. In `Transport` the steps of the
adapter, its goroutines and the deadline of the socket are fair, and the device is
not: what ends a blocked read of a silent device is the deadline on the socket alone. In
`Watch` the steps of an open stream are weakly fair and connecting is strongly
fair: a client that keeps asking for a slot finds one of those that are released
after at most 30 seconds.
In `ControlPlane` requests need not end. No loop of the repository offers tasks to
`Worker.Run`: that a task which can be acquired keeps being offered is assumed of the
deployment, and `TaskEventuallySucceeds` rests on it.

## Proofs

`CollectorProofs` (from `CollectorAssumption`, for any sets of tasks, runs and
grants, any durations and clock errors):

* `TypeCorrect`, `SpentAuthority`, `CurrentResult`, `OneContact`: the invariants
  of `CollectorSafety`;
* `Refinement`: `Collector` implements `TaskResult`.

The invariants are not inductive: they speak of envelopes and rows, while the
danger is in what a run remembers. `IInv` adds that a run never holds a fence
beyond its row's (`RunInv`), that the fence identifies the run (`FenceInv`),
that there is one grant per fence and its run still holds it (`IssuedInv`,
`UniqueGrantInv`, `HolderInv`), that the unguarded second read of the task
yields the run's own grant as long as the fence is unchanged (`RecordedInv`,
`RowGrantInv`), and that a grant that was exchanged has not been used
(`ContactInv`). One lemma per action shows that `IInv` is preserved.

`DeliveryProofs` has two parts. The first (from `OutboxAssumption` and
`NoneAssumption`, for any events, dispatchers, limits and clock difference) has
`OutboxTypes`, `Published`,
`Exhausted`, `Audited` and the action property `Final`. The strengthening is
`ResultInv` (an acknowledged record is in the stream) and `CountInv` (while a row
is leased to a dispatcher, the count it remembers is the row's): the owner column
alone keeps stale counts out, since a dispatcher claims again only when it has
no record left.

The second (from the assumptions of `Signing` and `Disclosure`, for any actors,
evidence, decisions, requests, calls, keys and managers with finitely many providers) has:

* `DeliveriesAreReceipted` (`ReleasedIsReceipted`). Several calls of one request may
  be between lookup and insert; `CallIsSound` says what a call may rely on at each
  step, and the unique index (`OnePerRequest`) gives losers of the same delivery the winner's
  receipt.
* `AcceptedManagersVerify`: a stored receipt was signed by all providers of some
  manager (`SignedBy`, one entry per provider with a key that is still held), and
  verifies under every running manager that accepts that one: it has its providers,
  and its minimum and its required algorithms are met by them. Rotations never
  matter, as old keys are kept.
* `RotationKeepsReceipts`: `ReceiptsKeepVerifying`, where all managers of a deployment
  accept each other, as those of the run do. Without that hypothesis it is false,
  as said above for `Signing`: `NewManager` does not compare its policy with
  earlier ones.

`AuthorisationProofs` has three parts. From the assumptions of `Approval`, for any
grants, tasks, consumers and limits: `ApprovalTypes`, `Counted`, `Recorded`. The strengthening,
`ReferencesHold`, says that the uses a snapshot shows are still there, so that a
serialised transaction adds exactly one to a count that it read.

From `PolicyAssumption`, for any bundles, scopes, rules, operators and engines: `PolicyInvariant`, `TrailTellsActive` (`TrailEndsInActive`),
`DecisionsReproduce` (`DecisionIsReproducible`) and the action property
`RecordsAreKept`. Audit numbers come from a sequence outside the transaction, so
the order of numbers is not the order of commits; within a scope it is, because one
transaction at a time holds the row (`Locked`) and draws its number under that lock,
above all numbers of the scope (`Newest`). A decision is recorded after its bundle may
have been replaced: an evaluation goes on with the stored rules of a bundle that was
activated (`Loaded`), which never change.

From the assumptions of `Migrations`, `ControlPlane` and `Rollout`, for any builds,
manifests, replicas and requests: `Migrated`, `Independent`,
`Exact`, `Released`, `ExitCode`. The invariant has one part per component:
`MigrationInv` (what a replica between lock and unlock has checked or applied is the
beginning of the ledger), `AuditInv` (what a steady replica has read is still so) and
`ProcessInv` (which goroutines and connections exist at which stage); the
composition adds nothing, because each step changes one of the three.

`ResolutionProofs` (from `ResolutionAssumption`, `SortAssumption` and
`WatchAssumption`, that a batch holds at least one event; for any numbers of
callers, drivers, planners, keys, plans, processes, slots and watchers):

* `Faithful`, `OnePerKey`, `Complete`: the invariants of `Resolution`. Added are
  what writers remember between two statements: an open creation has an identifier
  and, once claimed, a key of its own (`CreationsAreSeparate`), answers and rows are
  entered in the key table (`KeysAreRecorded`), a driver asks for a legal move from
  what it read (`DriversFollow`), and tasks exist only after planning (`PlannedOnce`).
  One lemma, `MovesKeepHistory`, carries the log over every kind of move.
* `ApiImplementsService`: every step of `CreateApi` is a step of `Resolution` or
  leaves its tables alone, so the three theorems hold of the API.
* `Truthful`: `AnswersAreTrue`. Its argument is `Later`, that no step takes back a
  key, the key and digest of a row, or an event; so an answer that was true stays
  true, and a new one is true because the open transaction of a handler holds what
  its caller wants (`HandlerIsSound`) and a key in use has its row
  (`KeysHaveRows`). That equal claims have equal digests is `SortAssumption`, a fact
  about sorting that TLC evaluates on the instance.

* `WatchingIsReadOnly`: every step of `Watch` is a step of `Resolution` or leaves
  its tables alone, so `Faithful` holds under any number of watchers.
* `WatchersMissNothing`: `WatchIsExact`. The strengthening is `Follows`: the cursor
  of an open stream is where its client is, and the rest of its batch are the next
  events after that cursor (`BatchIsNext`). `ListEventsIsNext` shows that the query
  returns such a batch, since the log has one event for each version; `HeadIsNext`
  that writing one event moves cursor and client by exactly one version; and
  `BatchStaysNext` that a batch read earlier stays right while the log grows, because
  a new event has a version above all others. `ClientResumes` closes the circle: the
  identifier of the last event received is the start plus the number received.

`EvidenceProofs` has two parts.

* From the assumptions of `Artefacts`, for any attempts, writers, administrators and
  deadlines: `Complete`, `History`, `Waits`. `DeadlinesGrow` makes the last one
  inductive: the deadline of a row is the greatest that was ever recorded, and the
  time of a waiting transaction is not after the clock (`CommandsAreSound`).
* From `TransportAssumption`, for any adapters, bounds and sizes of the output:
  `TransportInvariant` and `CapturesAreComplete` (`CapturedIsComplete`), of
  `TransportSpec`, the steps of `Transport` alone; `AttemptsExecute`, below, carries
  them over to `Capture`.
  What a payload is depends on
  goroutines that have ended by then, so the invariant says what each left behind:
  a reader that is done is over the limit or has all that will ever arrive
  (`ReadersFinish`), results are those of finished readers and the ones taken are
  within the limits (`ResultsAreFinal`), the exit status comes after the output
  (`StatusIsLast`), and goroutines exist only in the stages of SSH (`OnlySSHReads`).

`SanitiseProofs` and `InspectionProofs` are about pure operators, for texts of any
length and any pipeline that `resolveRules` accepts. Every loop of the code is a
recursive function in the model; that such a function exists and what holds at every
place it reaches are shown by the smallest counterexample (`Smallest`, `Upward`,
`Downward`, `RunExists`, and `JumpingRunExists` for loops that skip).

* `StrippingIsExact`: `stripTerminalSequences` keeps exactly the bytes that are in no
  terminal sequence and counts the sequences. `Derivatives` defines sequences without
  the code's consumers; `ConsumersFindEnds` shows that each consumer stops at the first
  end of its kind (`FirstEndIsUnique`), so that the next search starts where the
  sequence of the definition ends, and `SelectionJoins` puts the kept pieces together.
* `TransformedBytes`: after redaction, stripping and cleaning the bytes are valid
  UTF-8, and every change is told by an outcome. The work is in `CleanIsValid`:
  stripping may cut a rune in two, and a lead that `stripRawControls` has written must
  be followed by its continuation.
* `InspectedIsHarmless`: what `inspectString` lets pass is short and has no control and
  no instruction, what `inspectTaintedString` lets pass no long run and no
  repetition, by their definitions. The two counters are shown to find every run (`RunsAreFound`, `EncodedRunsAreFound`, `RepetitionsAreFound`).
  `CutIsHarmless` carries this over truncation, which comes after the inspection: a
  prefix of a harmless text is harmless because its folded form is a prefix of the
  folded text (`CutText`).
* `KeptIsHarmless`: text that is not quarantined is harmless as a whole, and JSON in all
  its strings. `AllPartsAreVisited` shows that the calls of `inspectJSONValue` reach
  the document and the parts of all they reach, each with the field it belongs to, by
  the levels of nesting (`CallsLoop`). `DecoderAssumption` bounds these: the decoder
  refuses what is nested deeper than `DecoderDepth`.
* `ExtractedIsReported`: what `extract` returns is what all updates of the response
  say. `Agree`, the invariant of its loop, says that the updates so far name one
  interface and that the state is empty until the one that reports it.

`CaptureProofs` (from the assumptions of `Transport`, `Normalise` and `Capture`, for any
answers of the device and any configuration):

* `AttemptsExecute`: every step of `Capture` is a step of `Transport` or leaves it
  alone, so `TransportInvariant` and `CapturesAreComplete` hold of an attempt.
* `SinkInvariant`. The properties speak of one step of the sink each; `SinkInv` carries
  what they need from one step to the next: the capture is stored from the first step
  on, the derivative is what the transformer makes of it (`IsDerivative`) and is stored
  from the second on, the attempt is quarantined exactly when its manifest says so,
  and evidence is what the parser made of that derivative.
* `StrippingExact`, `DerivativesSafe`, `Quarantined` and `Evidenced`: `StripIsExact`,
  `DerivativeIsSafe`, `QuarantineIsRecorded` and `EvidenceIsTheDevices`, by `SinkInv`
  and the facts about the operators, of which `TransformIsSafe` joins those about
  bytes, inspection and manifest: JSON that is kept is harmless in every string at
  every depth. That `encoding/json` writes an observation as a valid
  document that reads as no other observation is `EncodingAssumption`, a
  fact about an external library that TLC evaluates on the instance.

Only model-checked:

* all liveness properties: fairness is beyond this prover;
* `ScannerIsExact`, the bounds of JSON against the nesting of the value: the
  reference definitions (`Depth`, `Nodes`, the text of a value) are recursive
  operators over values of any depth, for which this prover has neither an induction
  nor, in a module that declares one, its arithmetic. The theorems therefore
  take the text of a value as a constant and hold whatever the scanner accepts.

Every other invariant and action property of a passing run is a theorem.

## Not modelled

* Collector runtime, static policy, constructor checker, inventory and context
  store: no state that changes.
* AWS KMS and mTLS: calls of external services and stateless checks of certificates.
* In-memory repositories: test doubles whose mutex makes every call one step.
* The status, planning and operator handlers: decoding and status codes around
  reads and around `Queue` and replay, which are modelled.
* Encodings: canonical JSON of envelopes and receipts, signatures, and the contents
  of tasks and bundles beyond what the properties tell apart.
* The worker that would delete objects after a confirmed deletion is not part of the
  repository; the models end at the confirmation.
* A run from creation to the delivered event that composes `Resolution`, `Collector`
  and `Outbox`: they share only the rows that one inserts and the next claims, and
  the product is out of TLC's reach; each is checked against an arbitrary writer of
  those rows.
