---------------------------- MODULE Derivatives ----------------------------
(***************************************************************************)
(* What the transformation of a payload promises, by definition: what a    *)
(* terminal sequence is, which text is harmless, and what a response says  *)
(* of an interface.  The code's operators are compared with these.         *)
(***************************************************************************)
EXTENDS Normalise

\* The configurations of a pipeline.
Rules ==
  [freeText: SUBSET STRING, patterns: Seq(Seq(STRING)), maximumStringBytes: Nat,
   maximumNestingDepth: Nat, maximumJSONNodes: Nat, encodedTokenMinimum: Nat \ {0},
   repeatedCharacterLimit: Nat \ {0}]
Pipelines ==
  [redactions: Seq((Seq(STRING) \ {<<>>}) \X (Seq(STRING) \ {<<>>})),
   maximumBytes: Nat, rules: Rules]

-----------------------------------------------------------------------------
(* Terminal sequences, by their definition *)

\* A control sequence ends with its first final byte, a control string with its
\* first terminator; at the end of the text both may be incomplete.
EndsOSC(s, a, i) == i > a + 1 /\ (s[i] = "BEL" \/ (i > a + 2 /\ s[i - 1] = "ESC" /\ s[i] = "\\"))
IsSequence(s, a, b) ==
  /\ s[a] = "ESC"
  /\ \/ a = b /\ b = Len(s)
     \/ b = a + 1 /\ s[b] \notin {"[", "]"}
     \/ /\ b > a /\ s[a + 1] = "["
        /\ \A i \in (a + 2)..(b - 1) : s[i] \notin CSIFinal
        /\ b = Len(s) \/ (b > a + 1 /\ s[b] \in CSIFinal)
     \/ /\ b > a /\ s[a + 1] = "]"
        /\ \A i \in (a + 2)..(b - 1) : ~EndsOSC(s, a, i)
        /\ b = Len(s) \/ EndsOSC(s, a, b)

\* The sequences of a text, as pairs of places: every escape is in one of them,
\* and they do not overlap.
Covers(x, i) == i \in x[1]..x[2]
AreSequences(xs, s) ==
  /\ \A x \in xs : IsSequence(s, x[1], x[2])
  /\ \A i \in DOMAIN s : s[i] = "ESC" => \E x \in xs : Covers(x, i)
  /\ \A x, y \in xs : x # y => \A i \in DOMAIN s : ~(Covers(x, i) /\ Covers(y, i))

\* One sequence after another.
SequenceEnd(s, a) == CHOOSE b \in a..Len(s) : IsSequence(s, a, b)
FirstSequence(s, i) == LET a == Min(Escapes(s, i)) IN <<a, SequenceEnd(s, a)>>
SequencesOf(s) ==
  LET from[i \in 1..EndOfText(s)] ==
        IF Escapes(s, i) = {} THEN {}
        ELSE {FirstSequence(s, i)} \cup from[FirstSequence(s, i)[2] + 1]
  IN from[1]

\* The bytes at some places of a text, in their order.
IsSelection(out, places, s) ==
  /\ Len(out) = Cardinality(places)
  /\ \A i \in places : out[Cardinality({j \in places : j <= i})] = s[i]

-----------------------------------------------------------------------------
(* Harmless text, and changes that are told *)

\* n bytes of a set in a row, n encoded bytes in a row, and a rune n times in a row.
RunOf(S, n, s) == \E i \in 1..(Len(s) - n + 1) : \A j \in i..(i + n - 1) : s[j] \in S
EncodedRun(n, s) ==
  \E i \in 1..(Len(s) - 3 * n + 1) : \A k \in 0..(n - 1) : IsEncodedAt(s, i + 3 * k)
RepeatsAt(s, i, n, w) ==
  i + n * w <= EndOfText(s) /\ \A k \in 0..(n - 1) : RuneAt(s, i + k * w) = RuneAt(s, i)
Repeats(n, s) == \E i \in Starts(s) : RepeatsAt(s, i, n, Len(RuneAt(s, i)))

\* A string that is kept is short and holds no control and no instruction; free text
\* also holds no long encoded run and no long repetition, by their definitions.
Plain(s, rules) ==
  /\ Len(s) <= rules.maximumStringBytes
  /\ \A i \in Starts(s) : IsControl(RuneAt(s, i)) => s[i] \in Whitespace
  /\ \A k \in DOMAIN rules.patterns :
       ~ContainsSeq(NormalizedText(s), NormalizedText(rules.patterns[k]))
Unencoded(s, rules) ==
  /\ ~RunOf(Base64, rules.encodedTokenMinimum, s)
  /\ ~EncodedRun((rules.encodedTokenMinimum + 2) \div 3, s)
  /\ ~Repeats(rules.repeatedCharacterLimit + 1, s)

\* The parts of a part of a document, a part being a value and its field.
Held(x) ==
  IF Has(x[2], "array") THEN {<<x[1], w>> : w \in Range(x[2].array)}
  ELSE IF Has(x[2], "object") THEN {<<f[1], f[2]>> : f \in Range(x[2].object)} ELSE {}

\* A document and its parts, their parts, and so on.
HasAllParts(parts, v) == <<"", v>> \in parts /\ \A x \in parts : Held(x) \subseteq parts

\* Every string of a document is plain, and unencoded in a field of free text.  Names
\* of fields are not strings of it in this sense.
HarmlessPart(x, rules) ==
  Has(x[2], "string") =>
    /\ Plain(x[2].string, rules)
    /\ x[1] \in rules.freeText => Unencoded(x[2].string, rules)
PartsOf(v) == {<<x.field, x.value>> : x \in Visited(v)}
HarmlessValue(v, rules) ==
  HasAllParts(PartsOf(v), v) /\ \A x \in PartsOf(v) : HarmlessPart(x, rules)

\* Text is free text as a whole; JSON decodes to a value whose strings are harmless.
HarmlessText(s, rules) == Plain(s, rules) /\ Unencoded(s, rules)
Harmless(s, rules) ==
  IF LooksLikeJSON(s) THEN \E v \in Decode(s) : HarmlessValue(v, rules)
  ELSE HarmlessText(s, rules)

\* No outcome says that bytes were removed or replaced.
Unaltered(m) == \A o \in m.outcomes : o.action \notin {"stripped", "redacted", "truncated"}

-----------------------------------------------------------------------------
(* Responses *)

\* The one interface a response speaks of, and its one operational state.
Reports(r, o) ==
  LET n == r.notifications[1]
      PathOf(i) == n.prefix.elements \o n.updates[i].path.elements
      LeafOf(i) == PathOf(i)[Len(PathOf(i))].name
      statuses == {i \in DOMAIN n.updates : LeafOf(i) = "oper-status"}
  IN /\ Len(r.notifications) = 1 /\ ~r.error /\ o.at = n.timestamp
     /\ \A i \in DOMAIN n.updates :
          {e.keys : e \in {x \in Range(PathOf(i)) : x.name = "interface"}} = {<<o.name>>}
     /\ \E i \in statuses : /\ statuses = {i}
                             /\ o.state = MapOperationalState[n.updates[i].value]
     /\ \A i \in DOMAIN n.updates \ statuses : LeafOf(i) = "name" /\ n.updates[i].value = o.name
=============================================================================
