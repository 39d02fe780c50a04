--------------------------- MODULE CaptureProofs ---------------------------
(***************************************************************************)
(* What becomes of a captured payload.  For every payload, configuration   *)
(* of the pipeline and answer of the device: what the sink stored, and     *)
(* made evidence of, is that payload and the derivative made of it; the    *)
(* derivative is harmless and its manifest tells what was done; a          *)
(* quarantine is recorded; and evidence says what the device reported.     *)
(***************************************************************************)
EXTENDS Capture, EvidenceProofs, InspectionProofs

-----------------------------------------------------------------------------
(* WriteCaptured *)

CapturedArtefact == [class |-> "captured", payload |-> payload, manifest |-> Absent]
SanitisedArtefact ==
  [class |-> "sanitised", payload |-> derivative.output, manifest |-> derivative.manifest]

\* What the transformer of an adapter's recipe makes of a payload.
TransformerResult(q, captive) ==
  IF q = "gnmi" THEN NormaliseTransform(Pipeline[q], captive)
  ELSE Kept(Transform(Pipeline[q], captive))
IsDerivative(d, q, captive) ==
  LET result == TransformerResult(q, captive) IN
  result.ok /\ d = [output |-> result.output, manifest |-> result.manifest]

\* After the first store the captured payload is there; a derivative is what the
\* transformer makes of it, and is there after the second store, a marker exactly
\* when the attempt ended with it; and evidence is what the parser made of it.
SinkInv ==
  /\ payload \in Seq(STRING)
  /\ sink \notin {"idle", "failed"} => CapturedArtefact \in stored
  /\ sink \in {"store", "parse", "assemble", "done", "quarantined"} =>
       IsDerivative(derivative, protocol, payload)
  /\ sink \in {"parse", "assemble", "done", "quarantined"} =>
       /\ SanitisedArtefact \in stored
       /\ IF derivative.manifest.quarantined THEN sink = "quarantined" ELSE sink # "quarantined"
  /\ evidence # Absent =>
       /\ sink = "done"
       /\ evidence \in ParseWithManifest(derivative.output, SanitisedMediaType, derivative.manifest)

\* A step of the sink that fails.
LEMMA FailureHolds ==
  ASSUME SinkInv, SinkFails, sink # "done"
  PROVE  SinkInv'
<1>1. evidence = Absent /\ sink' = "failed" /\ evidence' = evidence /\ payload' = payload
  BY Zenon DEF SinkInv, SinkFails
<1>2. payload' \in Seq(STRING)
  BY Zenon, <1>1 DEF SinkInv
<1> QED
  BY ONLY Zenon, <1>1, <1>2 DEF SinkInv

\* The captured payload is stored.
LEMMA PutCapturedHolds ==
  ASSUME TransportInv, SinkInv, PutCaptured
  PROVE  SinkInv'
<1>1. sink = "idle" /\ evidence = Absent /\ evidence' = evidence
  BY Zenon DEF SinkInv, PutCaptured
<1>2. payload' \in Seq(STRING)
  BY Zenon, CaptureAssumption DEF PutCaptured, TransportInv, TransportTypeOK
<1>3. CASE sink' = "failed"
  BY ONLY Zenon, <1>1, <1>2, <1>3 DEF SinkInv
<1>4. CASE sink' = "transform" /\ CapturedArtefact' \in stored'
  BY ONLY Zenon, <1>1, <1>2, <1>4 DEF SinkInv
<1> QED
  BY Zenon, <1>3, <1>4 DEF PutCaptured, CapturedArtefact

\* The transformer makes its derivative.
LEMMA TransformHolds ==
  ASSUME SinkInv, TransformCaptured
  PROVE  SinkInv'
<1> DEFINE result == TransformerResult(protocol, payload)
<1>1. sink = "transform" /\ Derived(result)
  BY Zenon DEF TransformCaptured, TransformerResult
<1>2. CASE ~result.ok
  BY Zenon, <1>1, <1>2, FailureHolds DEF Derived
<1>3. CASE result.ok
  <2>1. IsDerivative([output |-> result.output, manifest |-> result.manifest], protocol, payload)
    BY Zenon, <1>3 DEF IsDerivative
  <2> HIDE DEF result
  <2>2. /\ sink' = "store" /\ derivative' = [output |-> result.output, manifest |-> result.manifest]
        /\ payload' = payload /\ stored' = stored /\ evidence' = evidence /\ protocol' = protocol
    BY Zenon, <1>1, <1>3 DEF Derived, transportVars
  <2>3. IsDerivative(derivative', protocol', payload')
    BY Zenon, <2>1, <2>2
  <2>4. CapturedArtefact' \in stored' /\ evidence' = Absent /\ payload' \in Seq(STRING)
    BY Zenon, <1>1, <2>2 DEF SinkInv, CapturedArtefact
  <2> QED
    BY ONLY Zenon, <2>2, <2>3, <2>4 DEF SinkInv
<1> QED
  BY Zenon, <1>2, <1>3

\* The derivative is stored, and ends the attempt or not.
LEMMA PutSanitisedHolds ==
  ASSUME TransportInv, SinkInv, PutSanitised
  PROVE  SinkInv'
<1>1. /\ sink = "store" /\ IsDerivative(derivative, protocol, payload) /\ CapturedArtefact \in stored
      /\ evidence = Absent /\ payload \in Seq(STRING) /\ protocol \in Protocols
  BY Zenon DEF SinkInv, PutSanitised, PutSanitisedAs, TransportInv, TransportTypeOK
<1>2. CASE SinkFails
  BY Zenon, <1>1, <1>2, FailureHolds
<1>3. CASE /\ stored' = stored \cup {SanitisedArtefact}
           /\ sink' = IF ~derivative.manifest.quarantined THEN "parse" ELSE "quarantined"
           /\ UNCHANGED <<payload, derivative, evidence, protocol>>
  <2>1. /\ payload' = payload /\ derivative' = derivative /\ evidence' = evidence /\ protocol' = protocol
        /\ CapturedArtefact' = CapturedArtefact /\ SanitisedArtefact' = SanitisedArtefact
    BY Zenon, <1>3 DEF CapturedArtefact, SanitisedArtefact
  <2>2. /\ CapturedArtefact' \in stored' /\ SanitisedArtefact' \in stored'
        /\ sink' \in {"parse", "quarantined"}
    BY Zenon, <1>1, <1>3, <2>1
  <2>3. IF derivative'.manifest.quarantined THEN sink' = "quarantined" ELSE sink' # "quarantined"
    BY Zenon, <1>3, <2>1
  <2>4. IsDerivative(derivative', protocol', payload') /\ payload' \in Seq(STRING) /\ evidence' = Absent
    BY Zenon, <1>1, <2>1
  <2> QED
    BY ONLY Zenon, <2>2, <2>3, <2>4 DEF SinkInv
<1> QED
  BY Zenon, <1>2, <1>3 DEF PutSanitised, PutSanitisedAs, SanitisedArtefact, transportVars

\* The steps after the second store change neither payload, derivative nor store.
LEMMA LaterHolds ==
  ASSUME SinkInv, sink \in {"parse", "assemble"}, sink' \in {"assemble", "done"},
         UNCHANGED <<payload, derivative, stored>>,
         \/ evidence' = evidence
         \/ sink' = "done" /\ evidence' \in ParseWithManifest(derivative.output, SanitisedMediaType,
                                                               derivative.manifest),
         protocol' = protocol
  PROVE  SinkInv'
<1>1. /\ IsDerivative(derivative, protocol, payload) /\ SanitisedArtefact \in stored
      /\ CapturedArtefact \in stored /\ ~derivative.manifest.quarantined /\ evidence = Absent
      /\ payload \in Seq(STRING)
  BY Zenon DEF SinkInv
<1>2. /\ payload' = payload /\ derivative' = derivative /\ stored' = stored
      /\ CapturedArtefact' = CapturedArtefact /\ SanitisedArtefact' = SanitisedArtefact
      /\ SanitisedMediaType' = SanitisedMediaType
  BY Zenon DEF CapturedArtefact, SanitisedArtefact, SanitisedMediaType
<1>3. IsDerivative(derivative', protocol', payload') /\ payload' \in Seq(STRING)
  BY Zenon, <1>1, <1>2
<1>4. ASSUME evidence' # Absent
      PROVE  /\ sink' = "done"
             /\ evidence' \in ParseWithManifest(derivative'.output, SanitisedMediaType',
                                                derivative'.manifest)
  BY Zenon, <1>1, <1>2, <1>4
<1> QED
  BY ONLY Zenon, <1>1, <1>2, <1>3, <1>4, sink' \in {"assemble", "done"} DEF SinkInv

\* The parser reads the derivative.
LEMMA ParseHolds ==
  ASSUME SinkInv, Parse
  PROVE  SinkInv'
<1>1. sink = "parse"
  BY Zenon DEF Parse
<1>2. CASE SinkFails
  BY Zenon, <1>1, <1>2, FailureHolds
<1>3. CASE sink' = "assemble" /\ UNCHANGED <<payload, derivative, stored, evidence, transportVars>>
  BY Zenon, <1>1, <1>3, LaterHolds DEF transportVars
<1> QED
  BY Zenon, <1>2, <1>3 DEF Parse

\* The envelope is stored.
LEMMA CreateEnvelopeHolds ==
  ASSUME SinkInv, CreateEnvelope
  PROVE  SinkInv'
<1>1. sink = "assemble"
  BY Zenon DEF CreateEnvelope
<1>2. CASE SinkFails
  BY Zenon, <1>1, <1>2, FailureHolds
<1>3. CASE /\ evidence' \in ParseWithManifest(derivative.output, SanitisedMediaType,
                                              derivative.manifest)
           /\ sink' = "done"
           /\ UNCHANGED <<payload, derivative, stored, transportVars>>
  BY Zenon, <1>1, <1>3, LaterHolds DEF transportVars
<1> QED
  BY Zenon, <1>2, <1>3 DEF CreateEnvelope

\* No step of the call changes the adapter.
LEMMA ProtocolIsFixed ==
  ASSUME TransportNext
  PROVE  protocol' = protocol
<1>1. CASE Deadline \/ Cancel \/ SocketDeadline \/ Device
  BY Zenon, <1>1 DEF Deadline, Cancel, SocketDeadline, Device, Lose, Arrive, ArriveStatus,
                     ChannelClosed
<1>2. CASE Goroutines
  BY Zenon, <1>2 DEF Goroutines, Read, Report, WaitReturns
<1>3. CASE Answered
  BY Zenon, <1>3 DEF Answered, Dial, DialFails, Handshake, Session, Hello, WriteRPC, Refused,
                     SessionFailsAt, Abandon, Get, Setup, Return, Fail
<1>4. CASE Local
  BY Zenon, <1>4 DEF Local, Validate, Resolve, SetDeadline, Broken, Refused, SessionFailsAt,
                     Abandon, NextHelloByte, WriteFails, NextReplyByte, ReadReply, GetFails, DialFails,
                     Interrupted, Collect, AwaitStatus, AwaitStatusAs, Close, StubExecute, Setup,
                     Return, Fail
<1> QED
  BY Zenon, <1>1, <1>2, <1>3, <1>4 DEF TransportNext, Execute

\* Steps of the adapter leave the sink as it is.
LEMMA SinkUnchanged ==
  ASSUME SinkInv, UNCHANGED sinkVars, protocol' = protocol
  PROVE  SinkInv'
<1>1. /\ sink' = sink /\ payload' = payload /\ derivative' = derivative /\ stored' = stored
      /\ evidence' = evidence
  BY Zenon DEF sinkVars
<1>2. /\ CapturedArtefact' = CapturedArtefact /\ SanitisedArtefact' = SanitisedArtefact
      /\ SanitisedMediaType' = SanitisedMediaType
  BY Zenon, <1>1 DEF CapturedArtefact, SanitisedArtefact, SanitisedMediaType
<1> QED
  BY Zenon, <1>1, <1>2 DEF SinkInv

\* Every step keeps the invariant of the sink.
LEMMA SinkNext == TransportInv /\ SinkInv /\ [CaptureNext]_captureVars => SinkInv'
<1> SUFFICES ASSUME TransportInv, SinkInv, [CaptureNext]_captureVars PROVE SinkInv'
  BY Zenon
<1>1. CASE TransportNext /\ UNCHANGED sinkVars
  BY Zenon, <1>1, ProtocolIsFixed, SinkUnchanged
<1>2. CASE WriteCaptured
  BY Zenon, <1>2, PutCapturedHolds, TransformHolds, PutSanitisedHolds, ParseHolds,
     CreateEnvelopeHolds DEF WriteCaptured
<1>3. CASE UNCHANGED captureVars
  BY Zenon, <1>3, SinkUnchanged DEF captureVars, transportVars
<1> QED
  BY Zenon, <1>1, <1>2, <1>3 DEF CaptureNext

\* The sink takes what Execute returned and leaves the call as it is: what is
\* proved of the call alone holds within an attempt.
THEOREM AttemptsExecute == CaptureSpec => TransportSpec
<1>1. CaptureInit => TransportInit
  BY Zenon DEF CaptureInit
<1>2. [CaptureNext]_captureVars => [TransportNext]_transportVars
  <2> SUFFICES ASSUME [CaptureNext]_captureVars, ~TransportNext PROVE UNCHANGED transportVars
    BY Zenon
  <2>1. CASE WriteCaptured
    BY Zenon, <2>1 DEF WriteCaptured, PutCaptured, TransformCaptured, Derived, SinkFails, PutSanitised,
                       PutSanitisedAs, Parse, CreateEnvelope
  <2>2. CASE UNCHANGED captureVars
    BY Zenon, <2>2 DEF captureVars
  <2> QED
    BY Zenon, <2>1, <2>2 DEF CaptureNext
<1> QED
  BY <1>1, <1>2, PTL DEF CaptureSpec, TransportSpec

\* The invariant of the sink holds whatever the device answers, the pipeline is
\* configured to and the stores refuse.
THEOREM SinkInvariant == CaptureSpec => [](TransportInv /\ SinkInv)
<1>1. CaptureInit => SinkInv
  <2>1. <<>> \in Seq(STRING)
    OBVIOUS
  <2> QED
    BY Zenon, <2>1 DEF CaptureInit, SinkInv
<1> QED
  BY <1>1, SinkNext, AttemptsExecute, TransportInvariant, PTL DEF CaptureSpec

-----------------------------------------------------------------------------
(* The derivative and its manifest *)

\* A derivative is of the payload, and tells why when it is the marker.
ManifestFields == {"input", "output", "original", "redactions", "tainted", "outcomes", "status",
                   "quarantined", "truncated", "bytes"}
IsSound(safe, captive) ==
  /\ DOMAIN safe.manifest = ManifestFields
  /\ safe.manifest.input = captive /\ safe.manifest.output = safe.output
  /\ safe.manifest.bytes = Len(safe.output) /\ safe.manifest.original = Len(captive)
  /\ safe.manifest.quarantined \in BOOLEAN
  /\ ValidOverallStatus(safe.manifest)
  /\ safe.manifest.quarantined => safe.output = QuarantinedOutput
  /\ safe.manifest.quarantined <=> \E o \in safe.manifest.outcomes : o.action = "rejected"

\* A report asks for a quarantine when it holds a rejection.
Explained(report) ==
  /\ report.quarantine \in BOOLEAN
  /\ report.quarantine <=> \E o \in report.outcomes : o.action = "rejected"

\* Every reason the string inspections give is a rejection (inspectString and
\* inspectTaintedString).
LEMMA RejectionsReject ==
  ASSUME NEW s, NEW path, NEW rules
  PROVE  /\ \A o \in InspectString(s, path, rules) : o.action = "rejected"
         /\ \A o \in InspectTaintedString(s, path, rules) : o.action = "rejected"
<1>1. \A reason : Outcome("rejected", reason, path, 1).action = "rejected"
  BY DEF Outcome
<1>2. \A reason, k : [Outcome("rejected", reason, path, 1) EXCEPT !.position = k].action = "rejected"
  BY DEF Outcome
<1>3. \A o \in InspectString(s, path, rules) : o.action = "rejected"
  BY Zenon, <1>1, <1>2 DEF InspectString
<1>4. \A o \in InspectTaintedString(s, path, rules) : o.action = "rejected"
  BY Zenon, <1>1 DEF InspectTaintedString
<1> QED
  BY Zenon, <1>3, <1>4

\* A leaf that is rejected has its reason among the outcomes.
LEMMA LeavesAreExplained ==
  ASSUME NEW leaf, NEW rules
  PROVE  Explained(InspectLeaf(leaf, rules))
<1> DEFINE isTainted == leaf.field \in rules.freeText
           plain == InspectString(leaf.value, leaf.path, rules)
           tainted == IF isTainted THEN InspectTaintedString(leaf.value, leaf.path, rules) ELSE {}
           rejections == FirstOf(plain, tainted)
           report == LeafReport(leaf.path, isTainted, rejections)
<1>1. \A o \in rejections : o.action = "rejected"
  BY Zenon, RejectionsReject DEF FirstOf
<1>2. InspectLeaf(leaf, rules) = report
  BY Zenon DEF InspectLeaf
<1> DEFINE taint == Outcome("tainted", "device_controlled_free_text", leaf.path, 1)
<1>3. taint.action # "rejected"
  BY DEF Outcome
<1> HIDE DEF rejections, taint
<1>4. /\ report.quarantine = (rejections # {}) /\ rejections \subseteq report.outcomes
      /\ report.outcomes \subseteq rejections \cup {taint}
  BY Zenon DEF LeafReport, taint
<1> HIDE DEF report
<1> QED
  BY Zenon, <1>1, <1>2, <1>3, <1>4 DEF Explained

\* So has the payload: in a leaf, or as a whole (inspectPayload).
LEMMA PayloadsAreExplained ==
  ASSUME NEW bytes, NEW rules
  PROVE  Explained(InspectPayload(bytes, rules))
<1>1. \A reason : Explained(Rejected(reason))
  BY Zenon DEF Explained, Rejected, Outcome
<1>2. \A v : Explained(InspectValue(v, rules))
  <2> SUFFICES ASSUME NEW v PROVE Explained(InspectValue(v, rules))
    OBVIOUS
  <2> DEFINE reports == {InspectLeaf(leaf, rules) : leaf \in StringsOf(v)}
  <2>1. \A r \in reports : Explained(r)
    BY Zenon, LeavesAreExplained
  <2>2. InspectValue(v, rules) = Merged(reports)
    BY Zenon DEF InspectValue
  <2> HIDE DEF reports
  <2>3. /\ Merged(reports).quarantine = (\E r \in reports : r.quarantine)
        /\ Merged(reports).outcomes = UNION {r.outcomes : r \in reports}
    BY Zenon DEF Merged
  <2>4. Merged(reports).quarantine \in BOOLEAN
    BY Zenon, <2>3
  <2>5. ASSUME Merged(reports).quarantine
        PROVE  \E o \in Merged(reports).outcomes : o.action = "rejected"
    <3>1. PICK r \in reports : r.quarantine
      BY Zenon, <2>3, <2>5
    <3>2. PICK o \in r.outcomes : o.action = "rejected"
      BY Zenon, <2>1, <3>1 DEF Explained
    <3> QED
      BY Zenon, <2>3, <3>2
  <2>6. ASSUME NEW o \in Merged(reports).outcomes, o.action = "rejected"
        PROVE  Merged(reports).quarantine
    <3>1. PICK r \in reports : o \in r.outcomes
      BY Zenon, <2>3
    <3> QED
      BY Zenon, <2>1, <2>3, <2>6, <3>1 DEF Explained
  <2> QED
    BY Zenon, <2>2, <2>4, <2>5, <2>6 DEF Explained
<1>3. \A decoded : Explained(InspectDecoded(decoded, bytes, rules))
  BY Zenon, <1>1, <1>2 DEF InspectDecoded
<1>4. CASE ~LooksLikeJSON(bytes)
  BY Zenon, <1>4, LeavesAreExplained DEF InspectPayload
<1>5. CASE LooksLikeJSON(bytes) /\ ~BoundedJSONStructure(bytes, rules)
  BY Zenon, <1>1, <1>5 DEF InspectPayload
<1>6. CASE LooksLikeJSON(bytes) /\ BoundedJSONStructure(bytes, rules)
  BY Zenon, <1>3, <1>6 DEF InspectPayload
<1> QED
  BY Zenon, <1>4, <1>5, <1>6

\* A configuration that Transform and resolveRules accept.
Configured(p) ==
  /\ AreRedactions(p.redactions) /\ p.rules \in Rules /\ AreRules(p.rules)
  /\ p.maximumBytes \in Nat /\ p.maximumBytes >= 3

\* A result that is not empty, fits and is valid; that is the marker, or harmless as
\* text or in all the strings of its JSON; and that is what was captured unless an
\* outcome tells of a change.
IsSafe(safe, p, captive) ==
  /\ safe.output # <<>> /\ Valid(safe.output) /\ Len(safe.output) <= p.maximumBytes
  /\ safe.manifest.quarantined \/ Harmless(safe.output, p.rules)
  /\ safe.manifest.quarantined \/ (Unaltered(safe.manifest) => safe.output = captive)

\* The marker itself is a valid text.
LEMMA MarkerIsValid == QuarantinedOutput # <<>> /\ Valid(QuarantinedOutput) /\ Len(QuarantinedOutput) = 3
<1> DEFINE q == QuarantinedOutput
<1>1. Len(q) = 3 /\ DOMAIN q = 1..3 /\ q # <<>> /\ q[1] = "{" /\ q[2] = "q" /\ q[3] = "}"
  BY DEF QuarantinedOutput
<1> HIDE DEF q
<1>2. \A i \in 1..3 : q[i] \notin Leads /\ q[i] # "X" /\ q[i] # "c"
  <2>1. \A i \in 1..3 : i = 1 \/ i = 2 \/ i = 3
    OBVIOUS
  <2> QED
    BY Zenon, <1>1, <2>1 DEF Leads
<1>3. Valid(q)
  BY Zenon, <1>1, <1>2 DEF Valid, IsInvalid, IsWhole
<1> QED
  BY Zenon, <1>1, <1>3 DEF q

\* The result of the pipeline is a sound and safe derivative of its input, whatever
\* was found in the transformed bytes (Pipeline.Transform and its manifest).
LEMMA ConcludedIsSafe ==
  ASSUME NEW p, Configured(p), NEW captive, NEW bytes \in Transformed(captive), Valid(bytes.output),
         NEW report, Explained(report),
         ~report.quarantine => bytes.output # <<>> /\ Harmless(bytes.output, p.rules)
  PROVE  /\ IsSound(Concluded(p, captive, bytes, report), captive)
         /\ IsSafe(Concluded(p, captive, bytes, report), p, captive)
<1> DEFINE isTooLong == Len(bytes.output) > p.maximumBytes
           isJSON == LooksLikeJSON(bytes.output)
           quarantine == report.quarantine \/ (isTooLong /\ isJSON)
           output == IF quarantine THEN QuarantinedOutput
                     ELSE IF isTooLong THEN TruncateUTF8(bytes.output, p.maximumBytes)
                     ELSE bytes.output
           tooBig == Outcome("rejected", "bounded_json_exceeded", <<>>, 1)
           cut == Outcome("truncated", "maximum_output_bytes", <<>>, 1)
           bounds == IF ~isTooLong THEN {} ELSE IF isJSON THEN {tooBig} ELSE {cut}
           verdict == IF quarantine THEN Outcome("quarantined", "hostile_or_invalid_content", <<>>, 1)
                      ELSE Outcome("retained", "policy_checks_passed", <<>>, 1)
           outcomes == bytes.outcomes \cup report.outcomes \cup bounds \cup {verdict}
           overall == IF quarantine THEN "quarantined"
                     ELSE IF report.tainted # {} THEN "tainted" ELSE "clean"
           m == [input |-> captive, output |-> output, original |-> Len(captive),
                 redactions |-> bytes.redactions,
                 tainted |-> report.tainted, outcomes |-> outcomes, status |-> overall,
                 quarantined |-> quarantine, truncated |-> isTooLong /\ ~quarantine,
                 bytes |-> Len(output)]
           safe == [output |-> output, manifest |-> m]
<1>1. Concluded(p, captive, bytes, report) = safe
  BY Zenon DEF Concluded
<1>2. quarantine \in BOOLEAN
  BY Zenon DEF Explained
<1>3. /\ bytes.output \in Bytes /\ bytes.outcomes \subseteq Changes
      /\ bytes.outcomes = {} => bytes.output = captive
  BY DEF Transformed
<1>4. /\ tooBig.action = "rejected" /\ cut.action = "truncated"
      /\ verdict.action # "rejected"
      /\ \A o \in Changes : o.action \in {"stripped", "redacted"} /\ o.action # "rejected"
  <2>1. /\ tooBig.action = "rejected" /\ cut.action = "truncated" /\ verdict.action # "rejected"
    BY DEF Outcome
  <2>2. \A o \in Changes : o.action \in {"stripped", "redacted"} /\ o.action # "rejected"
    BY DEF Changes
  <2> QED
    BY Zenon, <2>1, <2>2
<1> HIDE DEF tooBig, cut, verdict
<1>5. ASSUME quarantine PROVE \E o \in outcomes : o.action = "rejected"
  BY Zenon, <1>4, <1>5 DEF Explained
<1>6. ASSUME NEW o \in outcomes, o.action = "rejected" PROVE quarantine
  <2>1. o \in bytes.outcomes \/ o \in report.outcomes \/ o \in bounds \/ o = verdict
    BY Zenon
  <2>2. CASE o \in report.outcomes
    BY Zenon, <1>6, <2>2 DEF Explained
  <2>3. CASE o \in bounds
    <3>1. cut.action # "rejected"
      BY <1>4
    <3> QED
      BY Zenon, <1>6, <2>3, <3>1
  <2> QED
    BY Zenon, <1>3, <1>4, <1>6, <2>1, <2>2, <2>3
<1>7. /\ quarantine => overall = "quarantined"
      /\ ~quarantine /\ report.tainted # {} => overall = "tainted"
      /\ ~quarantine /\ report.tainted = {} => overall = "clean"
  BY Zenon
<1>8. /\ quarantine => output = QuarantinedOutput
      /\ ~quarantine /\ isTooLong =>
           /\ output = TruncateUTF8(bytes.output, p.maximumBytes)
           /\ ~isJSON /\ cut \in outcomes
      /\ ~quarantine /\ ~isTooLong => output = bytes.output
      /\ ~quarantine => ~report.quarantine
      /\ bytes.outcomes \subseteq outcomes
  BY Zenon
<1> HIDE DEF quarantine, output, outcomes, overall
<1>9. /\ safe.output = output /\ safe.manifest = m
      /\ m.input = captive /\ m.output = output /\ m.bytes = Len(output)
      /\ m.original = Len(captive)
      /\ m.quarantined = quarantine /\ m.status = overall /\ m.tainted = report.tainted
      /\ m.outcomes = outcomes
  BY Zenon
<1>10. DOMAIN m = ManifestFields
  BY Zenon DEF ManifestFields
<1> HIDE DEF m, safe
<1>11. ValidOverallStatus(m)
  BY Zenon, <1>2, <1>7, <1>9 DEF ValidOverallStatus
<1>12. IsSound(safe, captive)
  BY Zenon, <1>2, <1>5, <1>6, <1>8, <1>9, <1>10, <1>11 DEF IsSound
<1>13. p.maximumBytes \in Nat /\ p.maximumBytes >= 3 /\ p.maximumBytes >= 2 /\ AreRules(p.rules)
  BY DEF Configured
<1>14. CASE quarantine
  <2>1. Len(QuarantinedOutput) <= p.maximumBytes
    BY <1>13, MarkerIsValid
  <2> QED
    BY Zenon, <1>1, <1>8, <1>9, <1>12, <1>14, <2>1, MarkerIsValid DEF IsSafe
<1>15. CASE ~quarantine /\ isTooLong
  <2> DEFINE t == TruncateUTF8(bytes.output, p.maximumBytes)
  <2>1. IsCut(t, bytes.output) /\ t # <<>> /\ Len(t) <= p.maximumBytes
    BY Zenon, <1>3, <1>13, <1>15, TruncatedIsCut
  <2>2. HarmlessText(bytes.output, p.rules) /\ ~LooksLikeJSON(bytes.output)
    BY Zenon, <1>8, <1>15 DEF Harmless
  <2> HIDE DEF t
  <2>3. Harmless(t, p.rules) /\ Valid(t)
    <3>1. HarmlessText(t, p.rules) /\ ~LooksLikeJSON(t)
      BY Zenon, <1>3, <1>13, <2>1, <2>2, CutIsHarmless, CutIsText
    <3> QED
      BY Zenon, <2>1, <3>1 DEF IsCut, Harmless
  <2>4. ~Unaltered(m)
    BY Zenon, <1>4, <1>8, <1>9, <1>15 DEF Unaltered
  <2> QED
    BY Zenon, <1>1, <1>8, <1>9, <1>12, <1>15, <2>1, <2>3, <2>4 DEF IsSafe, t
<1>16. CASE ~quarantine /\ ~isTooLong
  <2>1. Len(bytes.output) <= p.maximumBytes
    BY <1>3, <1>13, <1>16 DEF Bytes
  <2>2. bytes.output # <<>> /\ Harmless(bytes.output, p.rules)
    BY Zenon, <1>8, <1>16
  <2>3. ASSUME Unaltered(m) PROVE bytes.output = captive
    BY Zenon, <1>3, <1>4, <1>8, <1>9, <2>3 DEF Unaltered
  <2> QED
    BY Zenon, <1>1, <1>8, <1>9, <1>12, <1>16, <2>1, <2>2, <2>3 DEF IsSafe
<1> QED
  BY Zenon, <1>14, <1>15, <1>16

\* Whatever was captured and however the pipeline is configured, its manifest tells
\* what was rejected, and the derivative is the marker, or valid text within the bound,
\* changed only with an outcome that says so.  Text is then harmless as a whole, and
\* JSON decodes to a value of which every string, at every depth, is short and holds
\* no control and no instruction, and in a field of free text no encoded run and no
\* repetition (Pipeline.Transform and inspectJSONValue).
THEOREM TransformIsSafe ==
  ASSUME NEW p, Configured(p), NEW captive \in Bytes
  PROVE  IsSound(Transform(p, captive), captive) /\ IsSafe(Transform(p, captive), p, captive)
<1> DEFINE bytes == TransformBytes(captive, p.redactions)
           report == IF bytes.output = <<>> THEN Rejected("all_content_removed")
                     ELSE InspectPayload(bytes.output, p.rules)
<1>1. bytes \in Transformed(captive) /\ Valid(bytes.output)
  BY Zenon, TransformedBytes DEF Configured
<1>2. Transform(p, captive) = Concluded(p, captive, bytes, report)
  BY Zenon DEF Transform, Inspected
<1>3. Explained(Rejected("all_content_removed")) /\ Rejected("all_content_removed").quarantine
  BY Zenon DEF Explained, Rejected, Outcome
<1> HIDE DEF bytes
<1>4. bytes.output \in Bytes
  BY Zenon, <1>1 DEF Transformed
<1>5. Explained(report)
  BY Zenon, <1>3, PayloadsAreExplained
<1>6. ASSUME ~report.quarantine
      PROVE  bytes.output # <<>> /\ Harmless(bytes.output, p.rules)
  <2>1. bytes.output # <<>> /\ ~InspectPayload(bytes.output, p.rules).quarantine
    BY Zenon, <1>3, <1>6
  <2> QED
    BY Zenon, <1>4, <2>1, KeptIsHarmless DEF Configured
<1> HIDE DEF report
<1> QED
  BY Zenon, <1>1, <1>2, <1>5, <1>6, ConcludedIsSafe

\* A result of the gNMI profile: the marker of the pipeline, or the text of what a
\* response says whose text the pipeline's result is.
IsNormalised(result, p, captive) ==
  /\ result.output # <<>> /\ Valid(result.output)
  /\ result.manifest.quarantined = Transform(p, captive).manifest.quarantined
  /\ result.manifest.quarantined => result.output = Transform(p, captive).output
  /\ ~result.manifest.quarantined =>
       /\ Unaltered(result.manifest) => Unaltered(Transform(p, captive).manifest)
       /\ \E r \in DecodedResponses(Compact(Transform(p, captive).output)) :
            Extract(r).ok /\ result.output = Render(WireState(Extract(r).observation))

\* What is decoded of a text is a response.
LEMMA DecodedAreResponses ==
  ASSUME NEW text, NEW r \in DecodedResponses(text)
  PROVE  r \in Responses
<1>1. PICK d \in RenderedResponses : r = d.response
  BY Zenon DEF DecodedResponses
<1>2. PICK x \in Responses : d = [text |-> Render(WireResponse(x)), response |-> x]
  BY Zenon DEF RenderedResponses
<1> QED
  BY Zenon, <1>1, <1>2

\* The gNMI profile keeps a marker as it is, or puts its own text and taint in
\* place of the derivative's (GNMIInterfaceState.Transform).
LEMMA NormalisedIsSafe ==
  ASSUME NEW p, Configured(p), NEW captive \in Bytes, NormaliseTransform(p, captive).ok
  PROVE  /\ IsSound(NormaliseTransform(p, captive), captive)
         /\ IsNormalised(NormaliseTransform(p, captive), p, captive)
<1> DEFINE safe == Transform(p, captive)
           decoded == DecodedResponses(Compact(safe.output))
           response == CHOOSE r \in decoded : TRUE
           extracted == Extract(response)
           result == NormaliseTransform(p, captive)
<1>1. result = Normalised(safe, decoded)
  BY Zenon DEF NormaliseTransform
<1>2. IsSound(safe, captive) /\ IsSafe(safe, p, captive)
  BY Zenon, TransformIsSafe
<1>3. result.ok
  OBVIOUS
<1>4. decoded = DecodedResponses(Compact(Transform(p, captive).output)) /\ safe = Transform(p, captive)
  BY Zenon
<1> SUFFICES IsSound(result, captive) /\ IsNormalised(result, p, captive)
  OBVIOUS
<1> HIDE DEF safe, decoded, response, extracted, result
<1>5. CASE safe.manifest.quarantined
  <2>1. result = [ok |-> TRUE, output |-> safe.output, manifest |-> safe.manifest]
    BY Zenon, <1>1, <1>5 DEF Normalised
  <2>2. result.output = safe.output /\ result.manifest = safe.manifest
    BY Zenon, <2>1
  <2>3. IsSound(result, captive)
    BY Zenon, <1>2, <2>2 DEF IsSound
  <2> QED
    BY Zenon, <1>2, <1>4, <1>5, <2>2, <2>3 DEF IsNormalised, IsSafe
<1>6. CASE ~safe.manifest.quarantined
  <2>1. [ok |-> FALSE].ok = FALSE
    BY Zenon
  <2>2. decoded # {}
    BY Zenon, <1>1, <1>3, <1>6, <2>1 DEF Normalised
  <2>3. result = ExtractedInto(safe.manifest, extracted)
    BY Zenon, <1>1, <1>6, <2>2 DEF Normalised, extracted, response
  <2> DEFINE text == Render(WireState(extracted.observation))
  <2>4. extracted.ok /\ result = Replaced(safe.manifest, text)
    BY Zenon, <1>3, <2>1, <2>3 DEF ExtractedInto
  <2>5. response \in decoded /\ response \in Responses
    BY Zenon, <1>4, <2>2, DecodedAreResponses DEF response
  <2>6. text # <<>> /\ Valid(text)
    BY Zenon, <2>4, <2>5, EncodingAssumption DEF extracted
  <2> DEFINE more == {Outcome("tainted", "gnmi_interface_name_mapped", InterfaceNamePath, 1),
                      Outcome("retained", "gnmi_interface_state_normalised", <<>>, 1)}
             next == [safe.manifest EXCEPT
                        !.output = text, !.bytes = Len(text), !.status = "tainted",
                        !.tainted = {InterfaceNamePath}, !.truncated = FALSE,
                        !.outcomes = @ \cup more]
  <2>7. extracted.ok /\ text = Render(WireState(Extract(response).observation)) /\ Extract(response).ok
    BY Zenon, <2>4 DEF extracted
  <2> HIDE DEF text
  <2>8. result.output = text /\ result.manifest = next
    BY <2>4 DEF Replaced
  <2>9. \A o \in more : o.action # "rejected"
    BY DEF Outcome
  <2> HIDE DEF more
  <2>10. DOMAIN safe.manifest = ManifestFields
    BY Zenon, <1>2 DEF IsSound
  <2>11. /\ DOMAIN next = ManifestFields
         /\ next.output = text /\ next.bytes = Len(text) /\ next.status = "tainted"
         /\ next.tainted = {InterfaceNamePath}
         /\ next.input = safe.manifest.input /\ next.original = safe.manifest.original
         /\ next.quarantined = safe.manifest.quarantined
         /\ next.outcomes = safe.manifest.outcomes \cup more
    BY <2>10 DEF ManifestFields
  <2> HIDE DEF next
  <2>12. ValidOverallStatus(next)
    BY <1>6, <2>11 DEF ValidOverallStatus
  <2>13. ~\E o \in next.outcomes : o.action = "rejected"
    BY Zenon, <1>2, <1>6, <2>9, <2>11 DEF IsSound
  <2>14. IsSound(result, captive)
    BY Zenon, <1>2, <1>6, <2>8, <2>11, <2>12, <2>13 DEF IsSound
  <2>15. ASSUME Unaltered(next) PROVE Unaltered(safe.manifest)
    BY Zenon, <2>11, <2>15 DEF Unaltered
  <2>16. result.manifest.quarantined = safe.manifest.quarantined
    BY Zenon, <2>8, <2>11
  <2>17. IsNormalised(result, p, captive)
    BY Zenon, <1>4, <1>6, <2>5, <2>6, <2>7, <2>8, <2>15, <2>16 DEF IsNormalised
  <2> QED
    BY Zenon, <2>14, <2>17
<1> QED
  BY Zenon, <1>5, <1>6

\* The configurations that resolveRules accepts are those the lemmas ask for.
LEMMA PipelinesAreConfigured ==
  ASSUME NEW p \in Pipelines, p.maximumBytes >= Len(QuarantinedOutput)
  PROVE  Configured(p)
<1>1. Len(QuarantinedOutput) = 3
  BY Zenon, MarkerIsValid
<1>2. p.rules \in Rules /\ p.maximumBytes \in Nat
      /\ p.redactions \in Seq((Seq(STRING) \ {<<>>}) \X (Seq(STRING) \ {<<>>}))
  BY Zenon DEF Pipelines
<1>3. \A s \in Seq(STRING) : s \in Bytes
  BY Zenon, TextIsBytes
<1>4. AreRedactions(p.redactions)
  <2> DEFINE Q == (Seq(STRING) \ {<<>>}) \X (Seq(STRING) \ {<<>>})
  <2>1. \A x \in Q : x[1] \in Bytes /\ x[1] # <<>> /\ x[2] \in Bytes
    BY Zenon, <1>3
  <2> HIDE DEF Q
  <2>2. Len(p.redactions) \in Nat /\ \A k \in 1..Len(p.redactions) : p.redactions[k] \in Q
    <3>1. p.redactions \in Seq(Q)
      BY Zenon, <1>2 DEF Q
    <3> QED
      BY <3>1
  <2> QED
    BY Zenon, <2>1, <2>2 DEF AreRedactions
<1>5. AreRules(p.rules)
  <2> DEFINE rules == p.rules
  <2>1. rules \in Rules
    BY Zenon, <1>2
  <2> HIDE DEF rules
  <2>2. /\ rules.encodedTokenMinimum \in Nat \ {0} /\ rules.repeatedCharacterLimit \in Nat \ {0}
        /\ rules.maximumStringBytes \in Nat /\ rules.patterns \in Seq(Seq(STRING))
    BY Zenon, <2>1 DEF Rules
  <2>3. \A k \in DOMAIN rules.patterns : rules.patterns[k] \in Seq(STRING)
    BY <2>2
  <2> QED
    BY Zenon, <1>3, <2>2, <2>3 DEF AreRules, rules
<1>6. p.maximumBytes >= 3
  BY Zenon, <1>1
<1> QED
  BY Zenon, <1>2, <1>4, <1>5, <1>6 DEF Configured

\* A derivative is sound, and is or is made of what the pipeline keeps, which is safe.
LEMMA DerivativesAreSafe ==
  ASSUME NEW q \in Protocols, NEW captive \in Seq(STRING), NEW d, IsDerivative(d, q, captive)
  PROVE  /\ IsSound(d, captive)
         /\ IsSafe(Transform(Pipeline[q], captive), Pipeline[q], captive)
         /\ IF q = "gnmi" THEN IsNormalised(d, Pipeline[q], captive)
            ELSE /\ d.output = Transform(Pipeline[q], captive).output
                 /\ d.manifest = Transform(Pipeline[q], captive).manifest
<1> DEFINE p == Pipeline[q]
           result == TransformerResult(q, captive)
<1>1. Configured(p) /\ captive \in Bytes
  BY Zenon, CaptureAssumption, TextIsBytes, PipelinesAreConfigured
<1>2. result.ok /\ d = [output |-> result.output, manifest |-> result.manifest]
  BY Zenon DEF IsDerivative
<1>3. d.output = result.output /\ d.manifest = result.manifest
  <2> HIDE DEF result
  <2> QED
    BY Zenon, <1>2
<1>4. IsSafe(Transform(p, captive), p, captive)
  BY Zenon, <1>1, TransformIsSafe
<1>5. CASE q = "gnmi"
  <2>1. result = NormaliseTransform(p, captive)
    BY Zenon, <1>5 DEF TransformerResult
  <2> HIDE DEF result, p
  <2>2. IsSound(result, captive) /\ IsNormalised(result, p, captive)
    BY Zenon, <1>1, <1>2, <2>1, NormalisedIsSafe
  <2> QED
    BY Zenon, <1>3, <1>4, <1>5, <2>2 DEF IsSound, IsNormalised, p
<1>6. CASE q # "gnmi"
  <2> DEFINE safe == Transform(p, captive)
  <2>1. result = Kept(safe)
    BY Zenon, <1>6 DEF TransformerResult
  <2>2. IsSound(safe, captive)
    BY Zenon, <1>1, TransformIsSafe
  <2>3. safe = Transform(Pipeline[q], captive)
    BY Zenon
  <2> HIDE DEF result, safe, p
  <2>4. d.output = safe.output /\ d.manifest = safe.manifest
    BY Zenon, <1>3, <2>1 DEF Kept
  <2> QED
    BY Zenon, <1>4, <1>6, <2>2, <2>3, <2>4 DEF IsSound, p
<1> QED
  BY Zenon, <1>5, <1>6

-----------------------------------------------------------------------------
(* Theorems *)

\* Whatever the device answered, what is kept of it is valid, bounded, harmless (JSON
\* in every string at every depth) and truthful, for every configuration the pipeline
\* accepts.
THEOREM DerivativesSafe == CaptureSpec => []DerivativeIsSafe
<1>1. TransportInv /\ SinkInv => DerivativeIsSafe
  <2> SUFFICES ASSUME TransportInv, SinkInv, sink = "store" PROVE DerivativeIsSafe
    BY Zenon DEF DerivativeIsSafe
  <2> DEFINE out == derivative.output
             m == derivative.manifest
             p == Pipeline[protocol]
             kept == Transform(p, payload).output
  <2>1. /\ IsDerivative(derivative, protocol, payload) /\ payload \in Seq(STRING)
        /\ protocol \in Protocols
    BY Zenon DEF SinkInv, TransportInv, TransportTypeOK
  <2>2. IsSound(derivative, payload) /\ IsSafe(Transform(p, payload), p, payload)
    BY Zenon, <2>1, DerivativesAreSafe
  <2>3. /\ m.quarantined <=> \E o \in m.outcomes : o.action = "rejected"
        /\ m.quarantined => out = QuarantinedOutput
        /\ m.bytes = Len(out) /\ m.input = payload /\ m.output = out /\ m.original = Len(payload)
        /\ ValidOverallStatus(m)
    BY Zenon, <2>2 DEF IsSound
  <2>4. /\ out # <<>> /\ Valid(out) /\ (out = kept \/ (protocol = "gnmi" /\ ~m.quarantined))
        /\ kept # <<>> /\ Valid(kept) /\ Len(kept) <= p.maximumBytes
        /\ m.quarantined \/ Harmless(kept, p.rules)
        /\ m.quarantined \/ (Unaltered(m) => kept = payload)
    <3>1. CASE protocol = "gnmi"
      <4>1. IsNormalised(derivative, p, payload)
        BY Zenon, <2>1, <3>1, DerivativesAreSafe
      <4> QED
        BY Zenon, <2>2, <3>1, <4>1 DEF IsNormalised, IsSafe
    <3>2. CASE protocol # "gnmi"
      <4>1. out = Transform(p, payload).output /\ m = Transform(p, payload).manifest
        BY Zenon, <2>1, <3>2, DerivativesAreSafe
      <4> QED
        BY Zenon, <2>2, <4>1 DEF IsSafe
    <3> QED
      BY Zenon, <3>1, <3>2
  <2>5. WithinEntryBounds(m) => Acceptable(m, payload, out)
    BY Zenon, <2>3, <2>4 DEF Acceptable
  <2> QED
    BY Zenon, <2>3, <2>4, <2>5 DEF DerivativeIsSafe
<1> QED
  BY SinkInvariant, <1>1, PTL

\* An attempt that ends in a quarantine leaves the captured payload, and below it
\* the marker with a manifest that names a rejection.
THEOREM Quarantined == CaptureSpec => []QuarantineIsRecorded
<1>1. TransportInv /\ SinkInv => QuarantineIsRecorded
  <2> SUFFICES ASSUME TransportInv, SinkInv, sink = "quarantined" PROVE QuarantineIsRecorded
    BY Zenon DEF QuarantineIsRecorded
  <2>1. /\ CapturedArtefact \in stored /\ SanitisedArtefact \in stored
        /\ IsDerivative(derivative, protocol, payload) /\ derivative.manifest.quarantined
        /\ payload \in Seq(STRING) /\ protocol \in Protocols
    BY Zenon DEF SinkInv, TransportInv, TransportTypeOK
  <2>2. IsSound(derivative, payload)
    BY Zenon, <2>1, DerivativesAreSafe
  <2>3. /\ SanitisedArtefact.class = "sanitised" /\ SanitisedArtefact.payload = derivative.output
        /\ SanitisedArtefact.manifest = derivative.manifest
    BY Zenon DEF SanitisedArtefact
  <2> QED
    BY Zenon, <2>1, <2>2, <2>3 DEF QuarantineIsRecorded, CapturedArtefact, IsSound
<1> QED
  BY SinkInvariant, <1>1, PTL

\* Evidence is made of stored artefacts only, the capture and a derivative of it
\* that was not quarantined, and says what all the updates of the response say that
\* the derivative was made of.
THEOREM Evidenced == CaptureSpec => []EvidenceIsTheDevices
<1>1. TransportInv /\ SinkInv => EvidenceIsTheDevices
  <2> SUFFICES ASSUME TransportInv, SinkInv, evidence # Absent PROVE EvidenceIsTheDevices
    BY Zenon DEF EvidenceIsTheDevices, EvidenceIsStored
  <2> DEFINE p == Pipeline[protocol]
  <2>1. /\ CapturedArtefact \in stored /\ SanitisedArtefact \in stored
        /\ IsDerivative(derivative, protocol, payload) /\ ~derivative.manifest.quarantined
        /\ evidence \in ParseWithManifest(derivative.output, SanitisedMediaType, derivative.manifest)
        /\ payload \in Seq(STRING) /\ protocol \in Protocols
    BY Zenon DEF SinkInv, TransportInv, TransportTypeOK
  <2>2. IsSound(derivative, payload)
    BY Zenon, <2>1, DerivativesAreSafe
  <2>3. /\ SanitisedArtefact.class = "sanitised" /\ SanitisedArtefact.payload = derivative.output
        /\ SanitisedArtefact.manifest = derivative.manifest
    BY Zenon DEF SanitisedArtefact
  <2>4. /\ MediaType[protocol] = "application/json" /\ InterfaceNamePath \in derivative.manifest.tainted
        /\ Render(WireState(evidence)) = Compact(derivative.output) /\ evidence \in Observations
    BY Zenon, <2>1 DEF ParseWithManifest, SanitisedMediaType
  <2>5. EvidenceIsStored
    BY Zenon, <2>1, <2>2, <2>3, <2>4 DEF EvidenceIsStored, CapturedArtefact, IsSound
  <2>6. ASSUME protocol = "gnmi"
        PROVE  \E r \in DecodedResponses(Compact(Transform(p, payload).output)) : Reports(r, evidence)
    <3>1. IsNormalised(derivative, p, payload)
      BY Zenon, <2>1, <2>6, DerivativesAreSafe
    <3>2. PICK r \in DecodedResponses(Compact(Transform(p, payload).output)) :
            Extract(r).ok /\ derivative.output = Render(WireState(Extract(r).observation))
      BY Zenon, <2>1, <3>1 DEF IsNormalised
    <3>3. r \in Responses
      BY Zenon, DecodedAreResponses
    <3>4. evidence = Extract(r).observation
      BY Zenon, <2>4, <3>2, <3>3, EncodingAssumption
    <3> QED
      BY Zenon, <3>2, <3>3, <3>4, ExtractedIsReported
  <2> QED
    BY Zenon, <2>5, <2>6 DEF EvidenceIsTheDevices
<1> QED
  BY SinkInvariant, <1>1, PTL

\* Whatever was captured, stripping removes exactly its terminal sequences, whole,
\* and counts them.
THEOREM StrippingExact == CaptureSpec => []StripIsExact
<1>1. SinkInv => StripIsExact
  <2> SUFFICES ASSUME SinkInv PROVE StripIsExact
    BY Zenon
  <2> DEFINE s == payload
             xs == SequencesOf(s)
             done == StripTerminalSequences(s)
  <2>1. s \in Bytes
    BY Zenon, TextIsBytes DEF SinkInv
  <2>2. IsExactFrom(s, 1, xs, done)
    BY Zenon, <2>1, StrippingIsExact
  <2>3. DOMAIN s = 1..Len(s)
    BY <2>1 DEF Bytes
  <2> HIDE DEF xs, done, s
  <2>4. KeptFrom(s, 1, xs) = {i \in DOMAIN s : \A x \in xs : ~Covers(x, i)}
    BY Zenon, <2>3 DEF KeptFrom
  <2>5. AreSequences(xs, s)
    BY Zenon, <2>2, <2>3 DEF AreSequences, IsExactFrom
  <2>6. /\ IsSelection(done.output, {i \in DOMAIN s : \A x \in xs : ~Covers(x, i)}, s)
        /\ done.stripped = Cardinality(xs)
    BY Zenon, <2>2, <2>4 DEF IsExactFrom
  <2> QED
    BY Zenon, <2>5, <2>6 DEF StripIsExact, xs, done, s
<1> QED
  BY SinkInvariant, <1>1, PTL
=============================================================================
