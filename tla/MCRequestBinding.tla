------------------------- MODULE MCRequestBinding -------------------------
(* Instances of RequestBinding for TLC. *)
EXTENDS RequestBinding

\* Texts, and what they mean: "300" is an int64 and not an int8.
AllTexts == {"0", "7", "300", "x", "day", ""}
AllScalars == {"string", "int8", "int64", "time", "other"}
AllValues == {"empty", "0", "7", "300", "x", "day", "epoch", "decoded"}
Reads(texts) == [x \in AllTexts |-> IF x \in texts THEN x ELSE "malformed"]
AllScan ==
  [s \in AllScalars |->
     CASE s = "string" -> [x \in AllTexts |-> IF x = "" THEN "empty" ELSE x]
       [] s = "int8" -> Reads({"0", "7"})
       [] s = "int64" -> Reads({"0", "7", "300"})
       [] s \in {"time", "other"} -> Reads({})]
AllScanDate == Reads({"day"})
AllSatisfies ==
  [c \in {"string", "int64", "date"} |->
     CASE c = "string" -> AllTexts [] c = "int64" -> {"0", "7", "300"} [] c = "date" -> {"day"}]
AllZeros ==
  [s \in AllScalars |->
     CASE s \in {"int8", "int64"} -> "0" [] s = "time" -> "epoch" [] OTHER -> "empty"]

Field(tag, name, kind, scalar) ==
  [tags |-> {tag}, name |-> name, exported |-> TRUE, skipped |-> FALSE,
   kind |-> kind, scalar |-> scalar, required |-> FALSE]
Required(f) == [f EXCEPT !.required = TRUE]
Skipped(f) == [f EXCEPT !.skipped = TRUE]

ThePatterns ==
  {[p \in {} |-> "string"], [p \in {"id"} |-> "int64"], [p \in {"id", "on"} |-> IF p = "id" THEN "string" ELSE "date"]}

\* Every way a struct is refused, and every place a field binds from.
CompileMenu ==
  {Field("path", "id", "plain", "int64"), Field("path", "on", "plain", "time"),
   Field("query", "q", "plain", "string"), Field("body", "json", "plain", "string"),
   Field("body", "json", "pointer", "string"), Field("body", "json", "plain", "other"),
   Field("body", "xml", "plain", "string"), Field("header", "", "plain", "string"),
   [Field("query", "q", "plain", "string") EXCEPT !.exported = FALSE],
   [Field("query", "id", "plain", "string") EXCEPT !.tags = {"query", "path"}],
   [Field("query", "q", "plain", "string") EXCEPT !.tags = {}, !.exported = FALSE]}
CompileRepeats == {<<>>, <<"7">>}
CompileOptions == {[limit |-> 2, disallowUnknown |-> TRUE, validation |-> FALSE, validator |-> FALSE]}

\* Parameters and headers of every kind, with and without required.
ParameterMenu ==
  {Field("path", "id", "plain", "int8"), Field("path", "id", "pair", "int64"),
   Field("path", "id", "slice", "string"), Field("path", "on", "pointer", "time")}
    \cup {Field("query", "q", kind, "int8") : kind \in Kinds}
    \cup {Required(Field("query", "q", kind, "int64")) : kind \in {"plain", "pointer"}}
    \cup {Field("header", "h", "plain", "other"), Required(Field("header", "h", "slice", "string"))}
    \cup {[Required(Field("query", "q", "plain", "string")) EXCEPT !.tags = {}]}
    \cup {Skipped(Required(Field("query", "q", "plain", "int64"))),
          Skipped(Required(Field("header", "h", "pointer", "string")))}
ParameterPatterns ==
  {[p \in {} |-> "string"], [p \in {"id"} |-> "int64"], [p \in {"on"} |-> "date"]}
ParameterRepeats ==
  {<<>>} \cup {<<x>> : x \in {"", "0", "300"}} \cup {<<"7", "0">>, <<"7", "x">>}
ParameterOptions ==
  {[limit |-> 2, disallowUnknown |-> TRUE, validation |-> v, validator |-> a] :
     v \in BOOLEAN, a \in BOOLEAN}

\* A body behind or before a parameter.
BodyMenu ==
  {Field("query", "q", "plain", "int8"), Required(Field("query", "q", "plain", "int8")),
   Field("body", "json", "plain", "string"), Field("body", "json", "pointer", "string"),
   Required(Field("body", "json", "plain", "string")), Field("body", "json", "slice", "other"),
   Skipped(Required(Field("body", "json", "plain", "string")))}
BodyPatterns == {[p \in {} |-> "string"]}
BodyRepeats == {<<>>, <<"7">>, <<"0">>, <<"x">>}
AllBodies ==
  {b \in BodyType :
     /\ b.length = 0 => b.blank /\ ~b.media
     /\ b.blank => b.json = "invalid"
     /\ b.declared >= 0 => b.length <= b.declared /\ b.whole = (b.length = b.declared)
     /\ b.length <= 4 /\ b.declared <= 4}
BodyOptions ==
  {[limit |-> l, disallowUnknown |-> d, validation |-> v, validator |-> FALSE] :
     l \in {1, 2, 6, 7}, d \in BOOLEAN, v \in BOOLEAN}

\* What a program and its requests are drawn from.
VARIABLE scenario

Scenarios ==
  [compile |->
     [patterns |-> ThePatterns, menu |-> CompileMenu, fields |-> 4, repeats |-> CompileRepeats,
      bodies |-> {NoBody}, options |-> CompileOptions],
   parameters |->
     [patterns |-> ParameterPatterns, menu |-> ParameterMenu, fields |-> 3,
      repeats |-> ParameterRepeats, bodies |-> {NoBody}, options |-> ParameterOptions],
   body |->
     [patterns |-> BodyPatterns, menu |-> BodyMenu, fields |-> 2, repeats |-> BodyRepeats,
      bodies |-> AllBodies, options |-> BodyOptions]]
AllPatterns == UNION {Scenarios[s].patterns : s \in DOMAIN Scenarios}
AllFields == UNION {Scenarios[s].menu : s \in DOMAIN Scenarios}
AllRepeats == UNION {Scenarios[s].repeats : s \in DOMAIN Scenarios}
AllOptions == UNION {Scenarios[s].options : s \in DOMAIN Scenarios}

InScenario ==
  LET s == Scenarios[scenario]
  IN /\ fields' # fields => Len(fields') <= s.fields /\ fields'[Len(fields')] \in s.menu
     /\ request' # request =>
          /\ \A x \in DOMAIN request'.values : request'.values[x] \in s.repeats
          /\ request'.body \in s.bodies \cup {NoBody}

ScenarioInit ==
  /\ scenario \in DOMAIN Scenarios
  /\ Init /\ pattern \in Scenarios[scenario].patterns /\ options \in Scenarios[scenario].options
ScenarioNext == Next /\ InScenario /\ UNCHANGED scenario
ScenarioSpec == ScenarioInit /\ [][ScenarioNext]_<<vars, scenario>>
=============================================================================
