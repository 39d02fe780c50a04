----------------------------- MODULE Normalise -----------------------------
(***************************************************************************)
(* From a sanitised payload to a typed observation: the gNMI interface     *)
(* state profile (internal/normalise), the manifest checks of the artefact *)
(* store (internal/artefacts/store.go) and the strict parser               *)
(* (internal/parsing), as operators.                                       *)
(***************************************************************************)
EXTENDS Sanitise

CONSTANTS
  Responses,         \* the gNMI responses that can be decoded
  Observations,      \* the interface states that can be decoded
  MaximumUpdates,    \* maxUpdates of the profile
  MaximumOutcomes,   \* outcomes and tainted fields of a manifest, 512 in the code
  MaximumRedactions, \* and its redactions, 256 in the code
  MaximumPathBytes,  \* length of a path in a manifest, 512 in the code
  Timestamps         \* the timestamps within the supported years

\* A path element has a name and the values of its keys; a path of the old form,
\* or with a foreign origin or a target, is marked foreign.
PathMessage == [elements: Seq([name: STRING, keys: Seq(Seq(STRING))]), foreign: BOOLEAN]
UpdateMessage == [path: PathMessage, kind: STRING, value: Seq(STRING)]
NotificationMessage ==
  [timestamp: STRING, deletes: BOOLEAN, prefix: PathMessage, updates: Seq(UpdateMessage)]

ASSUME ResponsesAssumption ==
  /\ Responses \subseteq [error: BOOLEAN, notifications: Seq(NotificationMessage)]
  /\ MaximumUpdates \in Nat

-----------------------------------------------------------------------------
(* Wire forms *)

Str(bytes) == [string |-> bytes]
Obj(fields) == [object |-> fields]

WireElement(e) ==
  IF e.keys = <<>> THEN Str(<<e.name>>)
  ELSE Obj([k \in DOMAIN e.keys |-> <<IF k = 1 THEN "name" ELSE "unit", Str(e.keys[k])>>])
WirePath(path) == [array |-> [i \in DOMAIN path.elements |-> WireElement(path.elements[i])]
                             \o IF path.foreign THEN <<Str(<<"target">>)>> ELSE <<>>]
NoPath == [elements |-> <<>>, foreign |-> FALSE]
WireUpdate(u) == Obj(<<<<"path", WirePath(u.path)>>, <<u.kind, Str(u.value)>>>>)
WireNotification(n) ==
  Obj(<<<<"timestamp", Str(<<n.timestamp>>)>>>>
      \o (IF n.prefix = NoPath THEN <<>> ELSE <<<<"prefix", WirePath(n.prefix)>>>>)
      \o <<<<"update", [array |-> [i \in DOMAIN n.updates |-> WireUpdate(n.updates[i])]]>>>>
      \o IF n.deletes THEN <<<<"delete", [array |-> <<>>]>>>> ELSE <<>>)
WireResponse(r) ==
  Obj(<<<<"notification",
          [array |-> [i \in DOMAIN r.notifications |-> WireNotification(r.notifications[i])]]>>>>
      \o IF r.error THEN <<<<"error", Obj(<<>>)>>>> ELSE <<>>)
RenderedResponses == {[text |-> Render(WireResponse(r)), response |-> r] : r \in Responses}
WireState(o) ==
  Obj(<<<<"interface_name", Str(o.name)>>, <<"operational_state", Str(<<o.state>>)>>,
        <<"observed_at", Str(<<o.at>>)>>>>)

-----------------------------------------------------------------------------
(* The interface state profile *)

\* interfaceUpdatePath: the interface named on the way and the last element.
InterfaceUpdatePath(prefix, path) ==
  LET elements == prefix.elements \o path.elements
      named == {i \in DOMAIN elements : elements[i].name = "interface"}
  IN [ok |-> /\ ~path.foreign /\ ~prefix.foreign
             /\ \E i \in named : /\ named = {i} /\ Len(elements[i].keys) = 1
                                /\ elements[i].keys[1] # <<>>
             /\ \A i \in DOMAIN elements \ named : elements[i].keys = <<>>,
      name |-> IF \A i \in named : elements[i].keys = <<>> THEN <<>>
               ELSE elements[Min(named)].keys[1],
      leaf |-> IF elements = <<>> THEN "" ELSE elements[Len(elements)].name]

\* scalarString: strings in one of the string encodings, without outer blanks.
ScalarString(u) ==
  [ok |-> u.kind \in {"string_val", "json_val"} /\ u.value # <<>> /\ u.value = TrimSpace(u.value),
   text |-> u.value]

MapOperationalState ==
  [v \in {<<"UP">>, <<"DOWN">>, <<"DORMANT">>, <<"TESTING">>} |->
     CASE v = <<"UP">> -> "up" [] v \in {<<"DOWN">>, <<"DORMANT">>} -> "down"
       [] v = <<"TESTING">> -> "unknown"]

\* The body of the loop over updates.
ExtractUpdateAs(acc, n, u, mayState) ==
  LET at == InterfaceUpdatePath(n.prefix, u.path)
      value == ScalarString(u)
  IN CASE ~acc.ok \/ ~at.ok -> [acc EXCEPT !.ok = FALSE]
       [] acc.ok /\ at.ok /\ acc.name \notin {<<>>, at.name} -> [acc EXCEPT !.ok = FALSE]
       [] OTHER ->
            CASE at.leaf = "name" ->
                   [acc EXCEPT !.name = at.name, !.ok = value.ok /\ value.text = at.name]
              [] at.leaf = "oper-status" ->
                   IF mayState /\ value.ok /\ value.text \in DOMAIN MapOperationalState
                   THEN [acc EXCEPT !.name = at.name, !.state = MapOperationalState[value.text]]
                   ELSE [acc EXCEPT !.ok = FALSE]
              [] OTHER -> [acc EXCEPT !.ok = FALSE]

\* Mutant of ExtractUpdate: the last state wins.
ExtractLastUpdate(acc, n, u) == ExtractUpdateAs(acc, n, u, TRUE)

ExtractUpdate(acc, n, u) == ExtractUpdateAs(acc, n, u, acc.state = "")

NoUpdate == [name |-> <<>>, state |-> "", ok |-> TRUE]

ExtractUpdates(n) ==
  LET found[i \in 0..Len(n.updates)] ==
        IF i = 0 THEN NoUpdate ELSE ExtractUpdate(found[i - 1], n, n.updates[i])
  IN found[Len(n.updates)]

Extract(r) ==
  LET n == r.notifications[1]
      isShaped == /\ ~r.error /\ Len(r.notifications) = 1
                  /\ n.timestamp \in Timestamps /\ ~n.deletes
                  /\ Len(n.updates) \in 1..MaximumUpdates
      found == IF isShaped THEN ExtractUpdates(n) ELSE [NoUpdate EXCEPT !.ok = FALSE]
  IN [ok |-> found.ok /\ found.name # <<>> /\ found.state # "",
      observation |-> [name |-> found.name, state |-> found.state,
                       at |-> IF isShaped THEN n.timestamp ELSE ""]]

\* encoding/json writes an observation as a valid document of its own.
ASSUME EncodingAssumption ==
  \A r \in Responses : Extract(r).ok =>
    LET text == Render(WireState(Extract(r).observation)) IN
    /\ text # <<>> /\ Valid(text) /\ LooksLikeJSON(text) /\ Compact(text) = text
    /\ \A o \in Observations : Render(WireState(o)) = text => o = Extract(r).observation

InterfaceNamePath == <<"interface_name">>

\* The sanitised derivative with the normalised text in its place.
Replaced(manifest, normalised) ==
  [ok |-> TRUE, output |-> normalised,
   manifest |->
     [manifest EXCEPT
        !.output = normalised, !.bytes = Len(normalised), !.status = "tainted",
        !.tainted = {InterfaceNamePath}, !.truncated = FALSE,
        !.outcomes = @ \cup
          {Outcome("tainted", "gnmi_interface_name_mapped", InterfaceNamePath, 1),
           Outcome("retained", "gnmi_interface_state_normalised", <<>>, 1)}]]

ExtractedInto(manifest, extracted) ==
  IF extracted.ok /\ Cardinality(manifest.outcomes) <= MaximumOutcomes - 2
  THEN Replaced(manifest, Render(WireState(extracted.observation)))
  ELSE [ok |-> FALSE]

\* The response that a text is of, extracted; [ok |-> FALSE] is an error.
DecodedResponses(text) == {d.response : d \in {x \in RenderedResponses : x.text = text}}
Normalised(safe, decoded) ==
  IF safe.manifest.quarantined THEN [ok |-> TRUE, output |-> safe.output, manifest |-> safe.manifest]
  ELSE IF decoded = {} THEN [ok |-> FALSE]
  ELSE ExtractedInto(safe.manifest, Extract(CHOOSE r \in decoded : TRUE))

\* GNMIInterfaceState.Transform.
NormaliseTransform(p, payload) ==
  LET safe == Transform(p, payload) IN Normalised(safe, DecodedResponses(Compact(safe.output)))

-----------------------------------------------------------------------------
(* The manifest in the store, and the parser *)

ValidOverallStatus(m) ==
  CASE m.status = "clean" -> ~m.quarantined /\ m.tainted = {}
    [] m.status = "tainted" -> ~m.quarantined /\ m.tainted # {}
    [] m.status = "quarantined" -> m.quarantined

\* A path is written as "$", and a slash and a byte for every name on it.
PathBytes(path) == 1 + 2 * Len(path)
UnsafeManifestValue(path) ==
  PathBytes(path) > MaximumPathBytes \/ \E i \in DOMAIN path : IsControl(<<path[i]>>)

\* validateManifestIdentityAndBounds and validateManifestEntries: few entries, and
\* short paths without a control.
WithinEntryBounds(m) ==
  /\ Cardinality(m.redactions) <= MaximumRedactions
  /\ Cardinality(m.outcomes) <= MaximumOutcomes /\ Cardinality(m.tainted) <= MaximumOutcomes
  /\ \A path \in m.tainted \cup {o.path : o \in m.outcomes} : ~UnsafeManifestValue(path)
  /\ \A o \in m.outcomes : o.count > 0

\* PutSanitisedForTenant: what the store accepts below a captured parent.
Acceptable(m, parent, payload) ==
  /\ payload # <<>> /\ m.bytes = Len(payload) /\ m.original = Len(parent)
  /\ m.input = parent /\ m.output = payload
  /\ WithinEntryBounds(m) /\ ValidOverallStatus(m)

\* validInterfaceName: letters, of which "eth" and "lo" are words, digits and signs.
ValidInterfaceName(bytes) ==
  bytes # <<>> /\ \A i \in Starts(bytes) : bytes[i] \in Base64 \cup {"[", "]", "W", "eth", "lo"}

\* ParseWithManifest: the observations a payload is promoted to, at most one.  The
\* decoder skips whitespace; fields in another order are left out.
ParseWithManifest(payload, mediaType, m) ==
  {o \in Observations :
     /\ mediaType = "application/json" /\ ~m.quarantined
     /\ m.output = payload /\ m.status = "tainted" /\ InterfaceNamePath \in m.tainted
     /\ Render(WireState(o)) = Compact(payload)
     /\ ValidInterfaceName(o.name) /\ o.state \in {"up", "down", "unknown"}}
=============================================================================
