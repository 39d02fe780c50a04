------------------------------- MODULE Capture -------------------------------
(***************************************************************************)
(* One attempt of a collector from the device to the evidence: the payload *)
(* Execute returned is stored, transformed, stored again with its manifest *)
(* and, unless it was quarantined, parsed and assembled into evidence      *)
(* (internal/evidence/pipeline.go, PipelineSink.WriteCaptured).  Stores    *)
(* may fail at every call.                                                 *)
(***************************************************************************)
EXTENDS Transport, Derivatives

CONSTANTS
  Answers(_, _), \* what a captured size stands for, per adapter
  Pipeline,      \* the sanitisation pipeline of an adapter's sink
  MediaType      \* and the media type its adapter reports

\* What Transform and resolveRules demand of a configuration.
ASSUME CaptureAssumption ==
  /\ \A p \in Protocols : /\ Pipeline[p] \in Pipelines
                          /\ Pipeline[p].maximumBytes >= Len(QuarantinedOutput)
  /\ \A p \in Protocols, size \in 0..MaximumBytes : Answers(p, size) \subseteq Seq(STRING)

VARIABLES
  sink,       \* progress of WriteCaptured
  payload,    \* the captured bytes
  derivative, \* the result of the transformation, or Absent
  stored,     \* artefacts in the store
  evidence    \* the observation in the envelope stored, or Absent

sinkVars == <<sink, payload, derivative, stored, evidence>>
captureVars == <<transportVars, sinkVars>>

-----------------------------------------------------------------------------
(* WriteCaptured *)

\* Every variable of the call and of the sink keeps its type.
CaptureTypeOK ==
  /\ TransportTypeOK
  /\ sink \in {"idle", "transform", "store", "parse", "assemble", "done", "failed",
              "quarantined"}
  /\ payload \in Seq(STRING)
  /\ derivative = Absent \/ {derivative.output, derivative.manifest.input} \subseteq Seq(STRING)
  /\ \A x \in stored : x.class \in {"captured", "sanitised"} /\ x.payload \in Seq(STRING)
  /\ evidence \in Observations \cup {Absent}

CaptureInit ==
  /\ TransportInit
  /\ sink = "idle" /\ payload = <<>> /\ derivative = Absent /\ stored = {} /\ evidence = Absent

SinkFails ==
  /\ sink' = "failed"
  /\ UNCHANGED <<payload, derivative, stored, evidence, transportVars>>

\* The encryption key is resolved and the captured artefact stored.
PutCaptured ==
  /\ stage = "returned" /\ captured # Absent /\ sink = "idle"
  /\ \E bytes \in Answers(protocol, captured) :
       /\ payload' = bytes
       /\ \/ /\ bytes # <<>>
             /\ sink' = "transform"
             /\ stored' = stored \cup {[class |-> "captured", payload |-> bytes, manifest |-> Absent]}
          \/ sink' = "failed" /\ UNCHANGED stored
  /\ UNCHANGED <<derivative, evidence, transportVars>>

\* The transformer of the recipe: the gNMI profile, or the pipeline alone.
Derived(result) ==
  IF result.ok
  THEN /\ sink' = "store"
       /\ derivative' = [output |-> result.output, manifest |-> result.manifest]
       /\ UNCHANGED <<payload, stored, evidence, transportVars>>
  ELSE SinkFails

Kept(safe) == [ok |-> TRUE, output |-> safe.output, manifest |-> safe.manifest]

TransformCaptured ==
  /\ sink = "transform"
  /\ Derived(IF protocol = "gnmi" THEN NormaliseTransform(Pipeline[protocol], payload)
             ELSE Kept(Transform(Pipeline[protocol], payload)))

\* A quarantined marker is stored like any derivative, and then ends the attempt.
PutSanitisedAs(isPromoted) ==
  /\ sink = "store"
  /\ \/ /\ Acceptable(derivative.manifest, payload, derivative.output)
        /\ stored' = stored \cup {[class |-> "sanitised", payload |-> derivative.output,
                                     manifest |-> derivative.manifest]}
        /\ sink' = IF isPromoted THEN "parse" ELSE "quarantined"
        /\ UNCHANGED <<payload, derivative, evidence, transportVars>>
     \/ SinkFails

\* Mutant of PutSanitised: quarantined payloads are refused before they are stored.
PutSanitisedIfPromoted ==
  IF sink = "store" /\ derivative.manifest.quarantined
  THEN sink' = "quarantined" /\ UNCHANGED <<payload, derivative, stored, evidence, transportVars>>
  ELSE PutSanitisedAs(TRUE)

PutSanitised == PutSanitisedAs(~derivative.manifest.quarantined)

SanitisedMediaType ==
  IF derivative.manifest.quarantined THEN "application/json" ELSE MediaType[protocol]

Parse ==
  /\ sink = "parse"
  /\ IF ParseWithManifest(derivative.output, SanitisedMediaType, derivative.manifest) = {}
     THEN SinkFails
     ELSE sink' = "assemble" /\ UNCHANGED <<payload, derivative, stored, evidence, transportVars>>

\* The envelope is signed and stored; the attempt it names was checked before.
CreateEnvelope ==
  /\ sink = "assemble"
  /\ \/ /\ evidence' \in ParseWithManifest(derivative.output, SanitisedMediaType, derivative.manifest)
        /\ sink' = "done"
        /\ UNCHANGED <<payload, derivative, stored, transportVars>>
     \/ SinkFails

-----------------------------------------------------------------------------
(* Specification *)

WriteCaptured == PutCaptured \/ TransformCaptured \/ PutSanitised \/ Parse \/ CreateEnvelope

CaptureNext == (TransportNext /\ UNCHANGED sinkVars) \/ WriteCaptured

CaptureSpec == CaptureInit /\ [][CaptureNext]_captureVars
CaptureFairSpec == CaptureSpec /\ TransportFairness

-----------------------------------------------------------------------------
(* Properties of the pipeline *)

\* Stripping removes exactly the terminal sequences of a text, whole, and counts
\* them (stripTerminalSequences with its two consumers).
StripIsExact ==
  sink = "transform" =>
    LET xs == SequencesOf(payload)
        done == StripTerminalSequences(payload)
    IN /\ AreSequences(xs, payload)
       /\ IsSelection(done.output, {i \in DOMAIN payload : \A x \in xs : ~Covers(x, i)}, payload)
       /\ done.stripped = Cardinality(xs)

\* Whatever was captured, the derivative is not empty and is valid UTF-8; it is the
\* marker exactly when something was rejected.  What was kept fits its bound, is
\* changed only with an outcome that says so, and is harmless: text as a whole, JSON
\* in every string at every depth, though not in the names of fields, which
\* inspectJSONValue passes over.  This is said of what the pipeline kept; of it the
\* gNMI profile makes a text of its own, with no bound.  The store accepts the
\* manifest unless that has too many entries, or a path that is too long or holds
\* a control (Pipeline.Transform and DurableStore.PutSanitisedForTenant).
DerivativeIsSafe ==
  sink = "store" =>
    LET out == derivative.output
        m == derivative.manifest
        p == Pipeline[protocol]
        kept == Transform(p, payload).output
    IN /\ out # <<>> /\ Valid(out) /\ (out = kept \/ (protocol = "gnmi" /\ ~m.quarantined))
       /\ m.quarantined <=> \E o \in m.outcomes : o.action = "rejected"
       /\ m.quarantined => out = QuarantinedOutput
       /\ kept # <<>> /\ Valid(kept) /\ Len(kept) <= p.maximumBytes
       /\ m.quarantined \/ Harmless(kept, p.rules)
       /\ m.quarantined \/ (Unaltered(m) => kept = payload)
       /\ WithinEntryBounds(m) => Acceptable(m, payload, out)

\* When the attempt ends because of a quarantine, the captured payload is stored
\* and the marker below it, with the manifest that tells why (WriteCaptured stores
\* the marker before it returns ErrQuarantined).
QuarantineIsRecorded ==
  sink = "quarantined" =>
    /\ [class |-> "captured", payload |-> payload, manifest |-> Absent] \in stored
    /\ \E x \in stored :
         /\ x.class = "sanitised" /\ x.payload = QuarantinedOutput
         /\ x.manifest.input = payload
         /\ \E o \in x.manifest.outcomes : o.action = "rejected"

\* Evidence comes from a capture that is stored, by way of a stored derivative with
\* its taint, and is what that derivative says (ParseWithManifest and
\* WriteCaptured).
EvidenceIsStored ==
  evidence # Absent =>
    /\ [class |-> "captured", payload |-> payload, manifest |-> Absent] \in stored
    /\ \E x \in stored : /\ x.class = "sanitised" /\ Compact(x.payload) = Render(WireState(evidence))
                         /\ x.manifest.input = payload /\ ~x.manifest.quarantined
                         /\ InterfaceNamePath \in x.manifest.tainted
    /\ MediaType[protocol] = "application/json"

\* Evidence says what the device reported: it is what was stored, and names the
\* only interface and the only state of the gNMI response that the sanitised
\* payload reads as, whatever the order of its updates (GNMIInterfaceState,
\* ParseWithManifest and WriteCaptured).
EvidenceIsTheDevices ==
  /\ EvidenceIsStored
  /\ evidence # Absent /\ protocol = "gnmi" =>
       \E r \in DecodedResponses(Compact(Transform(Pipeline[protocol], payload).output)) :
         Reports(r, evidence)
=============================================================================
