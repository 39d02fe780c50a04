----------------------------- MODULE JsonValues -----------------------------
(***************************************************************************)
(* JSON values: their text, and their nesting, by recursion.               *)
(***************************************************************************)
EXTENDS Capture, SequencesExt

-----------------------------------------------------------------------------
(* JSON values *)

Values(v) ==
  IF Has(v, "array") THEN v.array
  ELSE IF Has(v, "object") THEN [i \in DOMAIN v.object |-> v.object[i][2]] ELSE <<>>

\* Within a string, quotes and backslashes are escaped and controls are encoded.
Escape(b) ==
  CASE b \in {"\"", "\\"} -> <<"\\", b>> [] b = "ESC" -> <<"\\", "u">> [] b = "LF" -> <<"\\", "n">>
    [] OTHER -> <<b>>
Quoted(bytes) == <<"\"">> \o FlattenSeq([i \in DOMAIN bytes |-> Escape(bytes[i])]) \o <<"\"">>
Separated(seqs) ==
  FlattenSeq([i \in DOMAIN seqs |-> IF i = 1 THEN seqs[i] ELSE <<",">> \o seqs[i]])

\* A word of the messages is one byte, its quotes included, and so is the name of a
\* field with its quotes and its colon: the scanner tells nothing within them apart.
MessageWords == {"t0", "t1", "t9", "target", "name", "oper-status", "mtu", "eth", "lo",
                 "UP", "DOWN", "DORMANT", "TESTING", "odd"}
MessageNames == {"notification", "timestamp", "prefix", "update", "path", "delete", "error", "name",
                 "unit", "string_val", "uint_val", "json_val"}
IsWord(bytes) == Len(bytes) = 1 /\ bytes[1] \in MessageWords
FieldName(name) == IF name \in MessageNames THEN <<name>> ELSE Quoted(<<name>>) \o <<":">>

RECURSIVE RenderValue(_)
RenderValue(v) ==
  LET inner == [i \in DOMAIN Values(v) |-> RenderValue(Values(v)[i])] IN
  CASE Has(v, "string") -> IF IsWord(v.string) THEN v.string ELSE Quoted(v.string)
    [] Has(v, "number") -> <<"1">>
    [] Has(v, "array") -> <<"[">> \o Separated(inner) \o <<"]">>
    [] Has(v, "object") ->
         <<"{">> \o Separated([i \in DOMAIN inner |-> FieldName(v.object[i][1]) \o inner[i]])
         \o <<"}">>

-----------------------------------------------------------------------------
(* The bounds of a document, by its value *)

RECURSIVE Depth(_), Nodes(_)
Depth(v) ==
  IF ~Has(v, "array") /\ ~Has(v, "object") THEN 0
  ELSE 1 + Max({0} \cup {Depth(x) : x \in ToSet(Values(v))})
Nodes(v) ==
  IF ~Has(v, "array") /\ ~Has(v, "object") THEN 0
  ELSE LET n == Len(Values(v)) IN
       Max({1, n}) + FoldLeft(LAMBDA sum, x : sum + Nodes(x), 0, Values(v))

\* The scanner bounds a document, before it is decoded, exactly by its nesting and
\* its containers and separators; nothing within a string counts
\* (boundedJSONStructure).
ScannerIsExact ==
  sink = "transform" /\ LooksLikeJSON(payload) =>
    \A v \in Decode(payload) :
      BoundedJSONStructure(payload, Pipeline[protocol].rules) <=>
        /\ Depth(v) <= Pipeline[protocol].rules.maximumNestingDepth
        /\ Nodes(v) <= Pipeline[protocol].rules.maximumJSONNodes
=============================================================================
