------------------------------ MODULE Sanitise ------------------------------
(***************************************************************************)
(* The transformation of captured bytes into a safe derivative and its     *)
(* manifest (internal/sanitise, Pipeline.Transform), as operators.  A byte *)
(* is a member of a small alphabet that keeps apart what the code tells    *)
(* apart: the escape introducers, the CSI and OSC delimiters, a control,   *)
(* whitespace, the punctuation of JSON, the hexadecimal and the other      *)
(* letters, and the lead and continuation bytes of UTF-8.                  *)
(***************************************************************************)
EXTENDS Integers, Sequences, FiniteSetsExt, Functions, TLC

CONSTANTS
  Documents,    \* the JSON values that payloads are decoded to
  DecoderDepth, \* how deep encoding/json decodes, 10000 in the library
  Render(_)     \* encoding/json: the text of a value, which JsonValues defines

-----------------------------------------------------------------------------
(* Bytes and runes *)

\* "W" leads a printable character of two bytes, "K" a C1 control of two bytes;
\* "c" continues; "X" occurs in no rune; "F" is the whole replacement character.
Leads == {"W", "K"}

\* utf8.DecodeRune: where a rune is cut short, or a byte continues none.
IsWhole(s, i) == s[i] \notin Leads \/ (i < Len(s) /\ s[i + 1] = "c")
IsInside(s, i) == i > 1 /\ s[i] = "c" /\ s[i - 1] \in Leads
IsInvalid(s, i) == ~IsWhole(s, i) \/ s[i] = "X" \/ (s[i] = "c" /\ ~IsInside(s, i))
Valid(s) == \A i \in DOMAIN s : ~IsInvalid(s, i)

\* for index, char := range s: where its runes start, and the rune at a start.
Starts(s) == {i \in DOMAIN s : ~IsInside(s, i)}
RuneAt(s, i) == IF s[i] \in Leads /\ IsWhole(s, i) THEN <<s[i], "c">> ELSE <<s[i]>>

\* The byte at a place, an invalid one replaced.
Rewritten(s, i) == IF IsInvalid(s, i) THEN "F" ELSE s[i]

\* bytes.ToValidUTF8: one replacement for a run of invalid bytes.
AppendValid(text, s, i) ==
  IF i > 1 /\ IsInvalid(s, i) /\ IsInvalid(s, i - 1) THEN text ELSE Append(text, Rewritten(s, i))
ToValidUTF8(s) ==
  LET valid[i \in 0..Len(s)] == IF i = 0 THEN <<>> ELSE AppendValid(valid[i - 1], s, i)
  IN valid[Len(s)]

Whitespace == {"LF"}
RawControls == {"ESC", "BEL"}
IsControl(r) == r[1] \in RawControls \cup Whitespace \cup {"K"}

-----------------------------------------------------------------------------
(* Terminal sequences and controls *)

\* The bytes 0x40 to 0x7e.
CSIFinal == {"[", "]", "\\", "a", "i", "{", "}"}

\* A consumer returns the place after its sequence, which may be cut short.
EndOfText(s) == Len(s) + 1
ConsumeCSI(s, i) == Min({k + 1 : k \in {j \in i..Len(s) : s[j] \in CSIFinal}} \cup {EndOfText(s)})

ConsumeOSC(s, i) ==
  Min({k + 1 : k \in {j \in i..Len(s) : s[j] = "BEL"}}
      \cup {k + 2 : k \in {j \in i..(Len(s) - 1) : s[j] = "ESC" /\ s[j + 1] = "\\"}}
      \cup {EndOfText(s)})

\* Mutant of ConsumeTerminalSequence: control strings taken for control sequences.
ConsumeAsCSI(s, i) ==
  IF i > Len(s) THEN i ELSE IF s[i] \in {"[", "]"} THEN ConsumeCSI(s, i + 1) ELSE i + 1

ConsumeTerminalSequence(s, i) ==
  IF i > Len(s) THEN i
  ELSE CASE s[i] = "[" -> ConsumeCSI(s, i + 1)
         [] s[i] = "]" -> ConsumeOSC(s, i + 1)
         [] OTHER -> i + 1

\* The loop copies what is before the next escape.
Escapes(s, i) == {k \in i..Len(s) : s[k] = "ESC"}
AfterSequence(s, i) == ConsumeTerminalSequence(s, Min(Escapes(s, i)) + 1)
StripNext(s, i, rest) ==
  [output |-> SubSeq(s, i, Min(Escapes(s, i)) - 1) \o rest.output, stripped |-> rest.stripped + 1]
StripTerminalSequences(s) ==
  LET strip[i \in 1..EndOfText(s)] ==
        IF Escapes(s, i) = {} THEN [output |-> SubSeq(s, i, Len(s)), stripped |-> 0]
        ELSE StripNext(s, i, strip[AfterSequence(s, i)])
  IN strip[1]

\* stripRawControls writes every rune anew, an invalid byte as a replacement.
WrittenByte(s, i) == IF s[i] \in RawControls THEN <<>> ELSE <<Rewritten(s, i)>>
CleanOf(text, s) == [output |-> text, stripped |-> Len(s) - Len(text)]
StripRawControls(s) ==
  LET clean[i \in 0..Len(s)] == IF i = 0 THEN <<>> ELSE clean[i - 1] \o WrittenByte(s, i)
  IN CleanOf(clean[Len(s)], s)

-----------------------------------------------------------------------------
(* Redaction and the transformation of bytes *)

Outcome(action, reason, path, count) ==
  [action |-> action, reason |-> reason, path |-> path, position |-> 0, count |-> count]
Noted(n, action, reason) == IF n = 0 THEN {} ELSE {Outcome(action, reason, <<>>, n)}

\* bytes.ReplaceAll and bytes.Count.
Matches(s, i, old) ==
  {k \in i..(EndOfText(s) - Len(old)) : SubSeq(s, k, k + Len(old) - 1) = old}
ReplaceNext(s, i, match, new, rest) ==
  [output |-> SubSeq(s, i, match - 1) \o new \o rest.output, count |-> rest.count + 1]
ReplaceBytes(s, old, new) ==
  LET replaced[i \in 1..EndOfText(s)] ==
        LET match == Min(Matches(s, i, old)) IN
        IF Matches(s, i, old) = {} THEN [output |-> SubSeq(s, i, Len(s)), count |-> 0]
        ELSE ReplaceNext(s, i, match, new, replaced[match + Len(old)])
  IN replaced[1]

\* The redactions of a pipeline are a sequence, in the order of their keys.
Redact(acc, k, redaction) ==
  LET done == ReplaceBytes(acc.output, redaction[1], redaction[2]) IN
  IF done.count = 0 THEN acc
  ELSE [output |-> done.output, redactions |-> acc.redactions \cup {k},
        outcomes |-> acc.outcomes \cup
          {[Outcome("redacted", "configured_redaction", <<>>, done.count) EXCEPT !.position = k]}]

ReplaceInvalid(captured) ==
  LET isValid == Valid(captured) IN
  [output |-> IF isValid THEN captured ELSE ToValidUTF8(captured), redactions |-> {},
   outcomes |-> Noted(IF isValid THEN 0 ELSE 1, "stripped", "invalid_utf8_replaced")]

StripWith(acc, done, reason) ==
  [acc EXCEPT !.output = done.output, !.outcomes = @ \cup Noted(done.stripped, "stripped", reason)]
StripTerminal(acc) ==
  StripWith(acc, StripTerminalSequences(acc.output), "terminal_escape_sequence")
StripRaw(acc) == StripWith(acc, StripRawControls(acc.output), "raw_control_character")

Redacted(captured, redactions) ==
  LET redacted[k \in 0..Len(redactions)] ==
        IF k = 0 THEN ReplaceInvalid(captured)
        ELSE Redact(redacted[k - 1], k, redactions[k])
  IN redacted[Len(redactions)]

TransformBytes(captured, redactions) == StripRaw(StripTerminal(Redacted(captured, redactions)))

-----------------------------------------------------------------------------
(* JSON.  A value is [string |-> bytes], [number |-> n], [array |-> values] or *)
(* [object |-> fields], a field being <<key, value>> with a key of one byte.   *)

\* A payload without the whitespace that is not in a string.
IsQuote(s, j) ==
  s[j] = "\"" /\ (j - Max({1} \cup {k \in 2..j : s[k - 1] # "\\"})) % 2 = 0
Compact(s) ==
  LET IsInString(i) == Cardinality({j \in 1..(i - 1) : IsQuote(s, j)}) % 2 = 1
      kept == SelectSeq([i \in DOMAIN s |-> i], LAMBDA i : s[i] \notin Whitespace \/ IsInString(i))
  IN [k \in DOMAIN kept |-> s[kept[k]]]

\* encoding/json: the value whose text the payload is, or starts with.
Rendered == {[text |-> Render(v), value |-> v] : v \in Documents}
Decode(payload) ==
  LET text == Compact(payload) IN {d.value : d \in {x \in Rendered : x.text = text}}
DecodeFirst(payload) ==
  LET text == Compact(payload)
      Starting(x) == Len(x.text) <= Len(text) /\ SubSeq(text, 1, Len(x.text)) = x.text
  IN {d.value : d \in {x \in Rendered : Starting(x)}}

TrimSpace(s) ==
  LET kept == {i \in DOMAIN s : s[i] \notin Whitespace} IN
  IF kept = {} THEN <<>> ELSE SubSeq(s, Min(kept), Max(kept))
LooksLikeJSON(s) == LET t == TrimSpace(s) IN t # <<>> /\ t[1] \in {"{", "["}

\* Mutant of ConsumeString: strings that end at any quote.
ConsumeStringUnescaped(scan, b) == IF b = "\"" THEN [scan EXCEPT !.inString = FALSE] ELSE scan

\* jsonBoundScanner.
ConsumeString(scan, b) ==
  CASE scan.escaped -> [scan EXCEPT !.escaped = FALSE]
    [] ~scan.escaped /\ b = "\\" -> [scan EXCEPT !.escaped = TRUE]
    [] ~scan.escaped /\ b = "\"" -> [scan EXCEPT !.inString = FALSE]
    [] OTHER -> scan

ConsumeStructure(scan, b) ==
  CASE b = "\"" -> [scan EXCEPT !.inString = TRUE]
    [] b \in {"{", "["} -> [scan EXCEPT !.depth = @ + 1, !.nodes = @ + 1]
    [] b \in {"}", "]"} -> [scan EXCEPT !.depth = @ - 1]
    [] b = "," -> [scan EXCEPT !.nodes = @ + 1]
    [] OTHER -> scan
WithinLimits(scan, rules) ==
  scan.depth \in 0..rules.maximumNestingDepth /\ scan.nodes <= rules.maximumJSONNodes
Limited(scan, rules) == [scan EXCEPT !.ok = WithinLimits(scan, rules)]

Consume(scan, b, rules) ==
  IF scan.ok
  THEN IF scan.inString THEN ConsumeString(scan, b) ELSE Limited(ConsumeStructure(scan, b), rules)
  ELSE scan

\* boundedJSONStructure stops at the first byte beyond the limits.
ScanStart == [depth |-> 0, nodes |-> 0, inString |-> FALSE, escaped |-> FALSE, ok |-> TRUE]
IsScanned(scan) == scan.ok /\ scan.depth = 0 /\ ~scan.inString /\ ~scan.escaped
BoundedJSONStructure(payload, rules) ==
  LET scan[i \in 0..Len(payload)] ==
        IF i = 0 THEN ScanStart ELSE Consume(scan[i - 1], payload[i], rules)
  IN IsScanned(scan[Len(payload)])

-----------------------------------------------------------------------------
(* Inspection of text *)

\* norm.NFKC, ToLower and Fields: "W" leads the full-width form of "i", and runs
\* of whitespace between other runes become one blank.
FoldRune(text, r) ==
  IF r[1] \in Whitespace THEN [text EXCEPT !.gap = text.output # <<>>]
  ELSE [output |-> (IF text.gap THEN Append(text.output, " ") ELSE text.output)
                   \o (IF r = <<"W", "c">> THEN <<"i">> ELSE r),
        gap |-> FALSE]

FoldAt(text, s, i) == IF i \in Starts(s) THEN FoldRune(text, RuneAt(s, i)) ELSE text
NormalizedText(s) ==
  LET text[i \in 0..Len(s)] ==
        IF i = 0 THEN [output |-> <<>>, gap |-> FALSE] ELSE FoldAt(text[i - 1], s, i)
  IN text[Len(s)].output

ContainsSeq(s, pattern) ==
  \E i \in 0..(Len(s) - Len(pattern)) : SubSeq(s, i + 1, i + Len(pattern)) = pattern

Hex == {"a"}
Base64 == Hex \cup {"i", "1"}

\* containsEncodedToken: the three run lengths after each rune.
IsEncodedAt(s, i) == s[i] = "%" /\ i + 2 <= Len(s) /\ s[i + 1] \in Hex /\ s[i + 2] \in Hex
CountRuns(run, s, i) ==
  [base64 |-> IF s[i] \in Base64 THEN run.base64 + 1 ELSE 0,
   hex |-> IF s[i] \in Hex THEN run.hex + 1 ELSE 0,
   url |-> IF IsEncodedAt(s, i) THEN run.url + 3
           ELSE IF i = 1 \/ (s[i - 1] # "%" /\ (i < 3 \/ s[i - 2] # "%")) THEN 0 ELSE run.url,
   found |-> run.found]
JudgeRuns(run, minimum) ==
  [run EXCEPT !.found = run.found \/ run.base64 >= minimum \/ run.hex >= minimum
                                  \/ run.url >= minimum]

RunsAt(run, s, i, minimum) ==
  IF i \in Starts(s) THEN JudgeRuns(CountRuns(run, s, i), minimum) ELSE run
NoRuns == [base64 |-> 0, hex |-> 0, url |-> 0, found |-> FALSE]
ContainsEncodedToken(s, minimum) ==
  LET run[i \in 0..Len(s)] == IF i = 0 THEN NoRuns ELSE RunsAt(run[i - 1], s, i, minimum)
  IN run[Len(s)].found

CountRepeated(run, r) ==
  [previous |-> r, length |-> IF r = run.previous THEN run.length + 1 ELSE 1, found |-> run.found]
JudgeRepeated(run, limit) == [run EXCEPT !.found = run.found \/ run.length > limit]

RepeatedAt(run, s, i, limit) ==
  IF i \in Starts(s) THEN JudgeRepeated(CountRepeated(run, RuneAt(s, i)), limit) ELSE run
NotRepeated == [previous |-> <<>>, length |-> 0, found |-> FALSE]
HasAbnormalRepetition(s, limit) ==
  LET run[i \in 0..Len(s)] == IF i = 0 THEN NotRepeated ELSE RepeatedAt(run[i - 1], s, i, limit)
  IN run[Len(s)].found

ContainsTerminalOrControl(s) ==
  \E i \in Starts(s) : IsControl(RuneAt(s, i)) /\ s[i] \notin Whitespace

\* The first reason to reject a string; none when the set is empty.
InspectString(s, path, rules) ==
  LET matches == {k \in DOMAIN rules.patterns :
                    ContainsSeq(NormalizedText(s), NormalizedText(rules.patterns[k]))}
  IN IF Len(s) > rules.maximumStringBytes
     THEN {Outcome("rejected", "maximum_string_bytes", path, 1)}
     ELSE IF matches # {}
     THEN {[Outcome("rejected", "instruction_like_text", path, 1) EXCEPT !.position = Min(matches)]}
     ELSE IF ContainsTerminalOrControl(s)
     THEN {Outcome("rejected", "encoded_control_or_terminal", path, 1)}
     ELSE {}

InspectTaintedString(s, path, rules) ==
  IF ContainsEncodedToken(s, rules.encodedTokenMinimum)
  THEN {Outcome("rejected", "encoded_payload", path, 1)}
  ELSE IF HasAbnormalRepetition(s, rules.repeatedCharacterLimit)
  THEN {Outcome("rejected", "abnormal_repetition", path, 1)}
  ELSE {}

-----------------------------------------------------------------------------
(* Inspection of a payload, and the manifest *)

\* What is found in a leaf: a taint, and the first reason to reject it.
LeafReport(path, isTainted, rejections) ==
  [tainted |-> IF isTainted THEN {path} ELSE {},
   outcomes |-> rejections \cup
     (IF isTainted THEN {Outcome("tainted", "device_controlled_free_text", path, 1)} ELSE {}),
   quarantine |-> rejections # {}]
FirstOf(plain, tainted) == IF plain # {} THEN plain ELSE tainted

InspectLeaf(leaf, rules) ==
  LET isTainted == leaf.field \in rules.freeText IN
  LeafReport(leaf.path, isTainted,
    FirstOf(InspectString(leaf.value, leaf.path, rules),
            IF isTainted THEN InspectTaintedString(leaf.value, leaf.path, rules) ELSE {}))

Merged(reports) ==
  [tainted |-> UNION {r.tainted : r \in reports}, outcomes |-> UNION {r.outcomes : r \in reports},
   quarantine |-> \E r \in reports : r.quarantine]

\* inspectJSONValue calls itself for the parts of a value; elements of an array are
\* judged by the field the array is the value of.
Has(v, kind) == kind \in DOMAIN v
Call(path, field, v) == [path |-> path, field |-> field, value |-> v]
FieldsOf(x) == {Call(Append(x.path, f[1]), f[1], f[2]) : f \in Range(x.value.object)}

\* Mutant of Calls: elements of an array are judged by their index.
CallsByIndex(x) ==
  IF Has(x.value, "array")
  THEN {LET place == ToString(i - 1) IN Call(Append(x.path, place), place, x.value.array[i]) :
          i \in DOMAIN x.value.array}
  ELSE IF Has(x.value, "object") THEN FieldsOf(x) ELSE {}

Calls(x) ==
  IF Has(x.value, "array")
  THEN {Call(Append(x.path, ToString(i - 1)), x.field, x.value.array[i]) :
          i \in DOMAIN x.value.array}
  ELSE IF Has(x.value, "object") THEN FieldsOf(x) ELSE {}

\* The calls at each depth, all of them, and those that get a string.
CallsAt(v) ==
  LET calls[n \in 0..DecoderDepth] ==
        IF n = 0 THEN {Call(<<>>, "", v)} ELSE UNION {Calls(x) : x \in calls[n - 1]}
  IN calls
Visited(v) == UNION {CallsAt(v)[n] : n \in 0..DecoderDepth}
StringsOf(v) ==
  {[path |-> x.path, field |-> x.field, value |-> x.value.string] :
     x \in {y \in Visited(v) : Has(y.value, "string")}}

\* A decoded document has texts for its strings, and nothing beyond the depth that
\* is decoded.
ASSUME DecoderAssumption ==
  /\ DecoderDepth \in Nat
  /\ \A v \in Documents :
       /\ \A x \in Visited(v) : Has(x.value, "string") => x.value.string \in Seq(STRING)
       /\ \A x \in CallsAt(v)[DecoderDepth] : Calls(x) = {}

InspectValue(v, rules) == Merged({InspectLeaf(leaf, rules) : leaf \in StringsOf(v)})

Rejected(reason) ==
  [tainted |-> {}, outcomes |-> {Outcome("rejected", reason, <<>>, 1)}, quarantine |-> TRUE]

\* The decoder takes one value and nothing after it.
InspectDecoded(decoded, payload, rules) ==
  IF decoded # {} THEN InspectValue(CHOOSE v \in decoded : TRUE, rules)
  ELSE Rejected(IF DecodeFirst(payload) # {} THEN "multiple_json_values" ELSE "invalid_json")

InspectPayload(payload, rules) ==
  CASE ~LooksLikeJSON(payload) ->
         InspectLeaf([path |-> <<>>, field |-> "$", value |-> payload],
                     [rules EXCEPT !.freeText = {"$"}])
    [] LooksLikeJSON(payload) /\ ~BoundedJSONStructure(payload, rules) ->
         Rejected("json_structure_limit")
    [] OTHER -> InspectDecoded(Decode(payload), payload, rules)

\* The longest valid prefix within the limit.
TruncateUTF8(s, limit) == SubSeq(s, 1, Max({n \in 0..limit : Valid(SubSeq(s, 1, n))}))

QuarantinedOutput == <<"{", "q", "}">>

\* The result for transformed bytes and what was found in them; a digest is the
\* text itself.
Concluded(p, payload, bytes, report) ==
  LET isTooLong == Len(bytes.output) > p.maximumBytes
      isJSON == LooksLikeJSON(bytes.output)
      quarantine == report.quarantine \/ (isTooLong /\ isJSON)
      output == IF quarantine THEN QuarantinedOutput
                ELSE IF isTooLong THEN TruncateUTF8(bytes.output, p.maximumBytes) ELSE bytes.output
      bounds == IF ~isTooLong THEN {}
                ELSE IF isJSON THEN {Outcome("rejected", "bounded_json_exceeded", <<>>, 1)}
                ELSE {Outcome("truncated", "maximum_output_bytes", <<>>, 1)}
      verdict == IF quarantine THEN Outcome("quarantined", "hostile_or_invalid_content", <<>>, 1)
                 ELSE Outcome("retained", "policy_checks_passed", <<>>, 1)
  IN [output |-> output,
      manifest |->
        [input |-> payload, output |-> output, original |-> Len(payload),
         redactions |-> bytes.redactions,
         tainted |-> report.tainted, outcomes |-> bytes.outcomes \cup report.outcomes \cup bounds
                                                  \cup {verdict},
         status |-> IF quarantine THEN "quarantined"
                    ELSE IF report.tainted # {} THEN "tainted" ELSE "clean",
         quarantined |-> quarantine, truncated |-> isTooLong /\ ~quarantine,
         bytes |-> Len(output)]]

Inspected(p, payload, bytes) ==
  Concluded(p, payload, bytes,
            IF bytes.output = <<>> THEN Rejected("all_content_removed")
            ELSE InspectPayload(bytes.output, p.rules))

\* Pipeline.Transform of a pipeline [redactions, maximumBytes, rules].  The bytes of
\* a capture are bounded by the transport.
Transform(p, payload) == Inspected(p, payload, TransformBytes(payload, p.redactions))
=============================================================================
