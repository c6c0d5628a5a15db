----------------------------- MODULE FieldRules -----------------------------
(***************************************************************************)
(* The validation rules of one field on their two ways out of the validate *)
(* tag: internal/validationrule parses it, internal/schema/tags.go turns   *)
(* the rules into keywords of the field's schema, and internal/validation  *)
(* applies them to the value a request brought.  The properties compare    *)
(* what the schema accepts with what the validation accepts.               *)
(***************************************************************************)
EXTENDS Integers, Sequences, FiniteSets

CONSTANTS
  FieldTypes,  \* Go types of the field
  Menu,        \* rules of its tag
  MaxRules,    \* bound: rules of the field
  Ids,         \* values, see ValueType
  Length,      \* the length of each string
  Formats,     \* the formats each string has
  Spaced,      \* the strings with spaces around an email address
  ArrayLen,    \* the length of an array type
  Precision,   \* numbers up to Precision have a float64 of their own
  Provides,    \* the values the schema of a SchemaProvider accepts
  Reads,       \* what a type's own method makes of each JSON value
  Nils         \* the ones of which it makes a nil slice or map

Numeric == {"int", "uint", "float"}
Scalar == Numeric \cup {"string", "bool"}
Kinds == Scalar \cup {"slice", "array", "map", "struct"}

JSONTypes == {"string", "number", "boolean", "array", "object"}

\* stringer: the type has a String or Error method, which prints none of its literals.
\* quoted: json:",string" applies.
\* described: the schema is that of the kind, that of a text (time.Time, UUID, a
\* TextMarshaler) or provided by the type (a SchemaProvider).
\* reads: "kind" where encoding/json decodes by the kind; else the JSON type that the
\* type's own UnmarshalJSON or UnmarshalText takes (of several, the one at hand), or
\* that encoding/json has for a []byte or a json.Number.
TypeType ==
  [kind : Kinds, pointers : 0 .. 2, stringer : BOOLEAN, quoted : BOOLEAN,
   described : {"kind", "text", "provided"}, reads : {"kind"} \cup JSONTypes]

RuleKinds == {"required", "min", "max", "len", "email", "uuid", "e164", "oneof", "gte", "lte"}
RuleType ==
  [kind : RuleKinds \cup {"malformed"}, n : Int, choices : SUBSET Int]

\* A value is a number, the length of a list, an array or an object, or the index
\* of a string (0 is the empty one) or a bool (0 is false).
ValueType == [given : {"absent", "null", "value"}, id : Ids]

ASSUME RulesAssumption ==
  /\ \A t \in FieldTypes : t \in TypeType /\ (t.quoted => t.kind \in Scalar /\ t.pointers <= 1)
  /\ \A r \in Menu : r \in RuleType
  /\ MaxRules \in Nat /\ ArrayLen \in Nat \ {0} /\ Precision \in Nat \ {0}
  /\ Ids \subseteq Int /\ 0 \in Ids
  /\ Length \in [{i \in Ids : i >= 0} -> Nat] /\ Length[0] = 0
  /\ Formats \in [{i \in Ids : i >= 0} -> SUBSET {"email", "uuid", "e164"}]
  /\ Spaced \subseteq Ids /\ Provides \subseteq Ids /\ Reads \in [Ids -> Ids]
  /\ Nils \subseteq {i \in Ids : Reads[i] = 0}

VARIABLES
  type, rules,
  phase,   \* "parse", "refused", "document", "documented", "check", "checked"
  at,      \* the next rule to document or to check
  schema,  \* the field's schema
  value,
  failed   \* the rules that produced a message

vars == <<type, rules, phase, at, schema, value, failed>>

---------------------------------------------------------------------------
(* validationrule/rule.go *)

Measured == Numeric \cup {"string", "slice", "array", "map"}

\* The literals ScalarValue reads back.
Canonical(kind) ==
  CASE kind = "bool" -> {0, 1}
    [] kind \in {"uint", "string"} -> {i \in Ids : i >= 0}
    [] OTHER -> Ids

RefusesRule(r) ==
  \/ r.kind = "malformed"
  \/ r.kind \in {"min", "max", "len"} /\ type.kind \notin Measured
  \/ r.kind \in {"email", "uuid", "e164"} /\ type.kind # "string"
  \/ r.kind = "oneof" /\ (type.kind \notin Scalar \/ r.choices = {}
                            \/ ~(r.choices \subseteq Canonical(type.kind)))
  \/ r.kind \in {"gte", "lte"} /\ type.kind \notin Numeric

ParseRule ==
  /\ phase = "parse" /\ Len(rules) < MaxRules
  /\ \E r \in Menu : ~RefusesRule(r) /\ rules' = Append(rules, r)
  /\ UNCHANGED <<type, phase, at, schema, value, failed>>

RefuseRule ==
  /\ phase = "parse" /\ Len(rules) < MaxRules
  /\ \E r \in Menu : RefusesRule(r)
  /\ phase' = "refused"
  /\ UNCHANGED <<type, rules, at, schema, value, failed>>

---------------------------------------------------------------------------
(* float64 *)

\* Numbers beyond Precision lose their last bit, to the nearest, ties to even.
Float(n) ==
  LET size == IF n < 0 THEN -n ELSE n
      half == size \div 2
      rounded == IF size <= Precision \/ size % 2 = 0 THEN size
                 ELSE IF half % 2 = 0 THEN 2 * half ELSE 2 * (half + 1)
  IN IF n < 0 THEN -rounded ELSE rounded

---------------------------------------------------------------------------
(* schema/reflector.go and tags.go *)

LowerKeyword(kind) ==
  CASE kind = "string" -> "minLength"
    [] kind \in {"slice", "array"} -> "minItems"
    [] kind = "map" -> "minProperties"
    [] OTHER -> "minimum"
UpperKeyword(kind) ==
  CASE kind = "string" -> "maxLength"
    [] kind \in {"slice", "array"} -> "maxItems"
    [] kind = "map" -> "maxProperties"
    [] OTHER -> "maximum"

JSONOf(kind) ==
  CASE kind = "string" -> "string"
    [] kind \in Numeric -> "number"
    [] kind = "bool" -> "boolean"
    [] kind \in {"slice", "array"} -> "array"
    [] OTHER -> "object"

\* bounds: the keywords that hold a number.  enum: none, or one set of values.
\* nullable: null satisfies exactly one branch of oneOf; of a pointer to a pointer two.
SchemaOf(t, json) ==
  [json |-> json,
   bounds |-> IF t.pointers > 0 \/ t.described # "kind" THEN [k \in {} |-> 0]
              ELSE CASE t.kind = "uint" -> [k \in {"minimum"} |-> 0]
                     [] t.kind = "array" -> [k \in {"minItems", "maxItems"} |-> ArrayLen]
                     [] OTHER -> [k \in {} |-> 0],
   enum |-> <<>>, format |-> "none", nullable |-> t.pointers = 1]

\* Mutant: a TextMarshaler is described by its kind.
SchemaForKind(t) == SchemaOf(t, JSONOf(t.kind))

\* A provider comes first, then time.Time, UUID and TextMarshaler, then the kind.
SchemaFor(t) ==
  SchemaOf(t, CASE t.described = "provided" -> "provided"
                   [] t.described = "text" -> "string"
                   [] t.described = "kind" -> JSONOf(t.kind))

Put(s, keyword, n) ==
  [s EXCEPT !.bounds = [k \in DOMAIN @ \cup {keyword} |-> IF k = keyword THEN n ELSE @[k]]]

\* The number as the schema states it.
Stated(kind, n) == IF kind \in Measured \ Numeric THEN n ELSE Float(n)

\* Mutant: an exact length is only a least one.
ApplyFieldTagLoose(s, r) ==
  CASE r.kind \in {"min", "gte", "len"} -> Put(s, LowerKeyword(type.kind), Stated(type.kind, r.n))
    [] r.kind \in {"max", "lte"} -> Put(s, UpperKeyword(type.kind), Stated(type.kind, r.n))
    [] r.kind = "oneof" -> [s EXCEPT !.enum = <<r.choices>>]
    [] r.kind \in {"email", "uuid"} -> [s EXCEPT !.format = r.kind]
    [] OTHER -> s

\* Mutant: a length is documented as a number.
ApplyFieldTagNumeric(s, r) ==
  CASE r.kind \in {"min", "gte"} -> Put(s, "minimum", Stated(type.kind, r.n))
    [] r.kind \in {"max", "lte"} -> Put(s, "maximum", Stated(type.kind, r.n))
    [] OTHER -> s

\* A later rule writes over an earlier one.
ApplyFieldTag(s, r) ==
  LET n == Stated(type.kind, r.n)
  IN CASE r.kind \in {"min", "gte"} -> Put(s, LowerKeyword(type.kind), n)
       [] r.kind \in {"max", "lte"} -> Put(s, UpperKeyword(type.kind), n)
       [] r.kind = "len" -> Put(Put(s, LowerKeyword(type.kind), n), UpperKeyword(type.kind), n)
       [] r.kind = "oneof" -> [s EXCEPT !.enum = <<r.choices>>]
       [] r.kind \in {"email", "uuid"} -> [s EXCEPT !.format = r.kind]
       [] r.kind \in {"required", "e164"} -> s

\* The string on the wire keeps an enum, and gives a pointer a null branch of its own.
ApplyQuoted(s) ==
  [s EXCEPT !.json = "string", !.bounds = [k \in {} |-> 0], !.format = "none"]

Describe ==
  /\ phase = "parse"
  /\ phase' = "document" /\ at' = 1 /\ schema' = SchemaFor(type)
  /\ UNCHANGED <<type, rules, value, failed>>

ApplyTag ==
  /\ phase = "document" /\ at <= Len(rules)
  /\ schema' = ApplyFieldTag(schema, rules[at]) /\ at' = at + 1
  /\ UNCHANGED <<type, rules, phase, value, failed>>

Finish ==
  /\ phase = "document" /\ at > Len(rules)
  /\ schema' = IF type.quoted THEN ApplyQuoted(schema) ELSE schema
  /\ phase' = "documented"
  /\ UNCHANGED <<type, rules, at, value, failed>>

---------------------------------------------------------------------------
(* validation/rules.go *)

\* Numbers of either sign, two booleans, and the rest counted from 0: an array of
\* any length, which decoding pads or cuts.
Fits(kind, id) ==
  CASE kind \in {"bool", "boolean"} -> id \in {0, 1}
    [] kind \in {"int", "float", "number"} -> TRUE
    [] OTHER -> id >= 0

\* Values the type can be given.
Possible(v) ==
  v.given = "value" =>
    IF type.reads = "kind" THEN Fits(type.kind, v.id)
    ELSE Fits(type.reads, v.id) /\ Fits(type.kind, Reads[v.id])

Receive ==
  /\ phase = "documented"
  /\ \E v \in ValueType : Possible(v) /\ (v.given # "value" => v.id = 0) /\ value' = v
  /\ phase' = "check" /\ at' = 1
  /\ UNCHANGED <<type, rules, schema, failed>>

\* What the field holds.  null is nothing to a type's own method.
Got == IF type.reads = "kind" \/ value.given # "value" THEN value.id ELSE Reads[value.id]

Nillable == type.pointers > 0 \/ type.kind \in {"slice", "map"}
IsNil ==
  Nillable /\ (value.given = "value" => type.pointers = 0 /\ type.reads # "kind" /\ value.id \in Nils)

\* A pointer, a slice or a map is zero only when it is nil; the elements that are
\* given are not zero themselves.
IsZero == IF Nillable THEN IsNil ELSE Got = 0

Size ==
  CASE type.kind = "string" -> Length[Got]
    [] type.kind = "array" -> ArrayLen
    [] OTHER -> Got
Measure == Float(Size)

\* fmt.Sprint prints a Stringer by its String method.
Prints(choices) == ~type.stringer /\ Got \in choices

\* Mutant: the upper bound itself is refused.
ValidateRuleStrict(r) ==
  CASE r.kind \in {"max", "lte"} -> ~IsNil /\ Measure >= Float(r.n)
    [] OTHER -> FALSE

\* The rule produces a message.
ValidateRule(r) ==
  IF r.kind = "required" THEN IsZero
  ELSE ~IsNil /\
    CASE r.kind \in {"min", "gte"} -> Measure < Float(r.n)
      [] r.kind \in {"max", "lte"} -> Measure > Float(r.n)
      [] r.kind = "len" -> Measure # Float(r.n)
      [] r.kind \in {"email", "uuid", "e164"} -> r.kind \notin Formats[Got]
      [] r.kind = "oneof" -> ~Prints(r.choices)

CheckRule ==
  /\ phase = "check" /\ at <= Len(rules)
  /\ failed' = IF ValidateRule(rules[at]) THEN failed \cup {at} ELSE failed
  /\ at' = at + 1
  /\ UNCHANGED <<type, rules, phase, schema, value>>

Checked ==
  /\ phase = "check" /\ at > Len(rules)
  /\ phase' = "checked"
  /\ UNCHANGED <<type, rules, at, schema, value, failed>>

Rest == phase \in {"refused", "checked"} /\ UNCHANGED vars

---------------------------------------------------------------------------
Init ==
  /\ type \in FieldTypes
  /\ rules = <<>> /\ phase = "parse" /\ at = 0
  /\ schema = SchemaFor(type)
  /\ value = [given |-> "absent", id |-> 0] /\ failed = {}

Next ==
  \/ ParseRule \/ RefuseRule \/ Describe \/ ApplyTag \/ Finish
  \/ Receive \/ CheckRule \/ Checked \/ Rest

Spec == Init /\ [][Next]_vars

---------------------------------------------------------------------------
(* What a JSON Schema validator makes of the property (external). *)

Has(kind) == \E i \in DOMAIN rules : rules[i].kind = kind

\* The JSON value that the type reads, inside the string when it is quoted.
Carried == IF type.reads = "kind" THEN JSONOf(type.kind) ELSE type.reads

\* The size a keyword looks at; a keyword for another JSON type says nothing.
SizeFor(keyword) ==
  CASE keyword \in {"minLength", "maxLength"} -> Length[value.id]
    [] OTHER -> value.id
Applies(keyword) ==
  /\ ~type.quoted /\ Carried = JSONOf(type.kind)
  /\ keyword \in {LowerKeyword(type.kind), UpperKeyword(type.kind)}

SchemaAccepts ==
  CASE value.given = "absent" -> ~Has("required")
    [] value.given = "null" -> schema.nullable /\ (schema.enum = <<>> \/ type.quoted)
    [] value.given = "value" ->
         /\ IF schema.json = "provided" THEN value.id \in Provides
            ELSE schema.json = IF type.quoted THEN "string" ELSE Carried
         /\ \A k \in {k \in DOMAIN schema.bounds : Applies(k)} :
              IF k \in {"minLength", "minItems", "minProperties", "minimum"}
              THEN SizeFor(k) >= schema.bounds[k]
              ELSE SizeFor(k) <= schema.bounds[k]
         /\ schema.enum # <<>> => Carried = JSONOf(type.kind) /\ value.id \in schema.enum[1]
         /\ schema.format # "none" /\ Carried = "string" =>
              /\ schema.format \in Formats[value.id]
              /\ schema.format = "email" => value.id \notin Spaced

---------------------------------------------------------------------------
(* Properties. *)

\* The cases in which the two differ, each by what the code does.
Bounding(side) == {i \in DOMAIN rules : rules[i].kind \in side \cup {"len"}}
Repeated ==
  \/ Cardinality(Bounding({"min", "gte"})) > 1 \/ Cardinality(Bounding({"max", "lte"})) > 1
  \/ \E i, j \in DOMAIN rules : i < j /\ rules[i].kind = rules[j].kind /\ rules[i].kind = "oneof"
  \/ Has("email") /\ Has("uuid")
  \/ type.kind = "array" /\ \E k \in {"min", "max", "len"} : Has(k)
Inexact == Measure # Size \/ \E i \in DOMAIN rules : Float(rules[i].n) # rules[i].n
Undocumented == Has("e164") \/ (type.quoted /\ \E k \in RuleKinds \ {"oneof", "required"} : Has(k))
ZeroForNothing ==
  \/ value.given = "absent" /\ ~Nillable
  \/ value.given = "null" /\ (type.pointers # 1 \/ Has("required") \/ (Has("oneof") /\ ~type.quoted))
  \/ value.given = "value" /\ Has("required") /\ IsZero
  \/ value.given = "value" /\ type.kind = "array" /\ value.id # ArrayLen
\* A schema of another JSON type than the one the type reads, or of the provider's
\* own making, which may accept null too.
Misdescribed ==
  value.given # "absent" /\ ~type.quoted /\
    CASE type.described = "kind" -> type.reads # "kind"
      [] type.described = "text" -> Carried # "string"
      [] type.described = "provided" -> TRUE
\* Rules measure what the type's own method read, keywords what was sent.
Converted ==
  value.given = "value" /\ type.reads # "kind" /\ \E k \in RuleKinds \ {"required"} : Has(k)
SpacedEmail == value.given = "value" /\ Has("email") /\ value.id \in Spaced
Looser == Inexact \/ Undocumented \/ Misdescribed \/ Converted \/ SpacedEmail
Differs == Looser \/ Repeated \/ ZeroForNothing \/ (type.stringer /\ Has("oneof"))

\* Outside these cases the schema of a property accepts a value exactly if the
\* validation does, for every kind of type, described by its kind, as a text or by
\* itself and read by its kind or by a method of its own, and for all rules in any
\* order; and rules given twice or that refuse a zero only make the validation the
\* stricter of the two.  Types with a schema or a JSON form of their own mostly are
\* among the cases: Misdescribed and Converted say exactly when.
RulesAgree ==
  phase = "checked" =>
    /\ ~Differs => (SchemaAccepts <=> failed = {})
    /\ failed = {} /\ ~Looser /\ value.given # "null" /\ type.kind # "array" => SchemaAccepts
=============================================================================
