----------------------------- MODULE MCCapture -----------------------------
EXTENDS JsonValues

\* All texts up to MaxText bytes, and longer ones of terminal sequences.
CONSTANT MaxText
Alphabet == {"ESC", "[", "]", "BEL", "\\", "a", "i", "%", "LF", "W", "K", "c", "X"}
SequenceAlphabet == {"ESC", "[", "]", "BEL", "a"}
StringAlphabet == {"ESC", "BEL", "\\", "a"}
Texts == (UNION {[1..n -> Alphabet] : n \in 1..MaxText})
         \cup [1..(MaxText + 1) -> SequenceAlphabet]
         \cup {<<"ESC", "]">> \o s : s \in UNION {[1..n -> StringAlphabet] : n \in 3..4}}
         \cup {<<"a", "%", "a", "a", "%", "a", "a">>, <<"%", "a", "a", "%", "%", "a", "a">>,
               <<"\\", "%", "BEL", "a">>}

\* Documents around the limits of depth and nodes, with every kind of string.
Strings == {Str(<<"a">>), Str(<<"\"", "[">>), Str(<<"\\">>), Str(<<"ESC">>), Str(<<"{", ",">>),
            Str(<<"a", "a", "a">>), Str(<<"i", "LF", "a">>), Str(<<"K", "c">>),
            Str(<<"i", "%", "i", "%", "i", "%", "i", "%">>)}
Flat == {[array |-> <<>>], Obj(<<>>), [array |-> <<[number |-> 1]>>]}
        \cup {[array |-> <<s>>] : s \in Strings} \cup {Obj(<<<<"d", s>>>>) : s \in Strings}
        \cup {Obj(<<<<"x", s>>>>) : s \in Strings} \cup {Obj(<<<<"ESC", s>>>>) : s \in Strings}
        \cup {Obj(<<<<"x", s>>, <<"d", Str(<<"a">>)>>>>) : s \in Strings}
Nested == {Obj(<<<<"d", [array |-> <<s, t>>]>>>>) : s \in Strings, t \in Strings}
          \cup {[array |-> <<v>>] : v \in Flat} \cup {Obj(<<<<"d", v>>>>) : v \in Flat}
          \cup {[array |-> <<[array |-> <<>>], v, Str(<<"a">>)>>] : v \in Flat}
MCObservations == [name: {<<"eth">>, <<"lo">>, <<"i">>, <<"%">>, <<"a", "a", "a">>}, at: {"t1"},
                   state: {"up", "down", "unknown", "odd"}]
JSONDocuments == Flat \cup Nested \cup {[array |-> <<v>>] : v \in Nested}

E(name) == [name |-> name, keys |-> <<>>]
I(keys) == [name |-> "interface", keys |-> keys]
Path(elements) == [elements |-> elements, foreign |-> FALSE]
Update(elements, kind, value) == [path |-> Path(elements), kind |-> kind, value |-> value]
eth == <<"eth">>
lo == <<"lo">>
\* Updates below some elements of a path.
Updates(e) ==
  {Update(e \o <<E("oper-status")>>, "string_val", <<v>>) : v \in {"UP", "TESTING", "odd"}} \cup
  {Update(e \o <<E("oper-status")>>, "uint_val", <<"UP">>),
   Update(e \o <<E("oper-status")>>, "json_val", <<"DORMANT">>),
   Update(e \o <<E("name")>>, "string_val", eth),
   Update(e \o <<E("name")>>, "string_val", lo),
   Update(e \o <<E("mtu")>>, "string_val", eth)}
Status(name, v) == Update(<<I(<<name>>), E("oper-status")>>, "string_val", <<v>>)
Odd ==
  {Update(<<E("oper-status")>>, "string_val", <<"UP">>),
   Update(<<I(<<eth, eth>>), E("oper-status")>>, "string_val", <<"UP">>),
   Update(<<I(<<eth>>), I(<<eth>>), E("oper-status")>>, "string_val", <<"UP">>),
   Status(<<"a", "i", "a">>, "UP"), [Status(eth, "UP") EXCEPT !.path.foreign = TRUE]}
Notification(prefix, updates) ==
  [timestamp |-> "t1", deletes |-> FALSE, prefix |-> Path(prefix), updates |-> updates]
Short == Update(<<E("name")>>, "string_val", eth)
Single ==
  {Notification(<<>>, <<u>>) : u \in Updates(<<I(<<eth>>)>>) \cup {Status(lo, "DOWN")} \cup Odd}
\* Two updates of one interface, which the prefix names, or of two.
Pairs ==
  {Notification(<<I(<<eth>>)>>, us) : us \in [1..2 -> Updates(<<>>)]}
  \cup {Notification(<<>>, us) : us \in [1..2 -> {Status(eth, "UP"), Status(lo, "DOWN")}]}
Notifications ==
  Single \cup Pairs \cup {Notification(<<>>, <<>>), Notification(<<>>, <<Short, Short, Short>>)}
  \cup {[n EXCEPT !.deletes = TRUE] : n \in Single}
  \cup {[n EXCEPT !.timestamp = t] : n \in Single, t \in {"t0", "t9"}}
  \cup {Notification(<<I(<<eth>>)>>, <<u>>) : u \in Updates(<<>>) \cup Updates(<<I(<<eth>>)>>)}
MCResponses ==
  {[error |-> FALSE, notifications |-> <<n>>] : n \in Notifications}
  \cup {[error |-> FALSE, notifications |-> <<n, Notification(<<>>, <<>>)>>] : n \in Single}
  \cup {[error |-> TRUE, notifications |-> <<n>>] : n \in Single}
MCDocuments == JSONDocuments \cup {WireState(o) : o \in MCObservations}
               \cup {WireResponse(r) : r \in MCResponses}

\* The stub answers with texts (one chunk) and documents (two chunks), whole, torn
\* and followed by a line feed or a control, the short ones also twice.
Several(bytes) == {bytes, Tail(bytes), bytes \o <<"LF">>, bytes \o <<"BEL">>}
Rendering == {Render(v) : v \in JSONDocuments}
StubDocuments == UNION {Several(bytes) : bytes \in Rendering}
                 \cup {bytes \o bytes : bytes \in {x \in Rendering : Len(x) <= 16}}
                 \cup UNION {{bytes, bytes \o <<"LF">>} :
                            bytes \in {Render(WireState(o)) : o \in MCObservations}}
\* Texts that are cut, within a character or between two.
Cut == {<<"i">>} \cup [1..4 -> {"W", "c", "i"}]
ResponseTexts == {Render(WireResponse(r)) : r \in MCResponses}
MCAnswers(p, size) ==
  IF size = 0 THEN {<<>>}
  ELSE CASE p = "stub" -> (IF size = 1 THEN Texts ELSE StubDocuments)
         [] p = "gnmi" -> ResponseTexts
         [] p = "ssh" -> Cut
         [] OTHER -> {<<"a", "LF">>, <<"i", "LF", "a">>}

StubRules == [freeText |-> {"d", "name", "interface_name"}, patterns |-> <<<<"i", " ", "a">>, <<"i", "i">>>>,
          maximumStringBytes |-> 7, maximumNestingDepth |-> 2, maximumJSONNodes |-> 3,
          encodedTokenMinimum |-> 4, repeatedCharacterLimit |-> 2]
Wide == [StubRules EXCEPT !.maximumNestingDepth = 9, !.maximumJSONNodes = 60]
MCPipeline ==
  [p \in Protocols |->
     IF p = "gnmi" THEN [redactions |-> <<>>, maximumBytes |-> 300, rules |-> Wide]
     ELSE IF p = "stub"
     THEN [redactions |-> <<<<<<"BEL", "a">>, <<"a">>>>, <<<<"\\", "%">>, <<"%", "%">>>>>>,
           maximumBytes |-> 24, rules |-> StubRules]
     ELSE [redactions |-> <<>>, maximumBytes |-> 3, rules |-> StubRules]]
MCMediaType == [p \in Protocols |-> CASE p = "ssh" -> "text/plain" [] p = "netconf" -> "application/xml"
                                      [] OTHER -> "application/json"]
=============================================================================
