--------------------------- MODULE RequestBinding ---------------------------
(***************************************************************************)
(* How a typed operation gets its input: internal/binding compiles an      *)
(* input struct and a route pattern into a plan, and Bind fills the struct *)
(* from a request, field by field, before typedEndpoint validates it and   *)
(* calls the handler.  A plan is compiled once and serves one request      *)
(* here: Bind keeps nothing between requests.                              *)
(***************************************************************************)
EXTENDS Integers, Sequences, FiniteSets

CONSTANTS
  Texts,       \* path segments, query and header values
  Scalars,     \* scalar types, "time" may be one
  Other,       \* the scalar that is none: setScalar refuses it
  Values,      \* what texts mean, and what a body decodes to
  Malformed,   \* what a text means that does not parse
  Scan,        \* setScalar: Scan[s][x] is what text x means as an s
  ScanDate,    \* the date layout, for a time under the constraint date
  Satisfies,   \* the texts each route constraint accepts
  ZeroOf,      \* the zero value of each scalar type
  Patterns,    \* routes: the constraint of each parameter
  Menu,        \* fields a struct may have
  MaxFields,   \* bound: fields of the struct
  Repeats,     \* bound: the lists of values a query or a header may have
  Bodies,      \* request bodies
  Options,     \* configurations
  MaxInt       \* the largest int64

Sources == {"path", "query", "header", "body"}
Kinds == {"plain", "pointer", "slice", "pair"}

\* skipped: the field has the tag json:"-".
FieldType ==
  [tags : SUBSET Sources, name : STRING, exported : BOOLEAN, skipped : BOOLEAN,
   kind : Kinds, scalar : Scalars, required : BOOLEAN]

\* declared: Content-Length, -1 if unknown.  length: the bytes that arrive before
\* the end or, unless whole, before the connection fails.
BodyType ==
  [declared : -1..MaxInt, length : 0..MaxInt, whole : BOOLEAN, blank : BOOLEAN,
   media : BOOLEAN, json : {"value", "null", "unknown", "invalid", "trailing"}]
NoBody ==
  [declared |-> 0, length |-> 0, whole |-> TRUE, blank |-> TRUE, media |-> FALSE,
   json |-> "invalid"]

OptionsType ==
  [limit : 1..MaxInt, disallowUnknown : BOOLEAN, validation : BOOLEAN, validator : BOOLEAN]

\* net/http hands out at most Content-Length bytes, and fails if there are fewer.
ASSUME BindingAssumption ==
  /\ Malformed \notin Values
  /\ Scan \in [Scalars -> [Texts -> Values \cup {Malformed}]]
  /\ ScanDate \in [Texts -> Values \cup {Malformed}]
  /\ ZeroOf \in [Scalars -> Values] /\ "decoded" \in Values
  /\ \A pattern \in Patterns : \A p \in DOMAIN pattern : pattern[p] \in DOMAIN Satisfies
  /\ \A f \in Menu : f \in FieldType
  /\ MaxInt \in Nat \ {0} /\ MaxFields \in Nat
  /\ \A r \in Repeats : r \in Seq(Texts)
  /\ \A b \in Bodies :
       /\ b \in BodyType
       /\ b.length = 0 => b.blank
       /\ b.declared >= 0 => b.length <= b.declared /\ b.whole = (b.length = b.declared)
  /\ \A o \in Options : o \in OptionsType

VARIABLES
  pattern, options,
  fields,      \* the input struct
  plan,        \* Plan.fields
  phase,
  at,          \* the next field to bind
  request,
  input,       \* the struct that is filled
  errs,        \* positions in the plan whose binding failed
  status       \* the answer: 200 stands for the handler's

vars == <<pattern, options, fields, plan, phase, at, request, input, errs, status>>

NoRequest == [path |-> <<>>, values |-> <<>>, body |-> NoBody]

---------------------------------------------------------------------------
(* Values of fields: nil, or the scalars they hold. *)

Nil == [nil |-> TRUE, elements |-> <<>>]
Holding(elements) == [nil |-> FALSE, elements |-> elements]

Zero(f) ==
  CASE f.kind = "plain" -> Holding(<<ZeroOf[f.scalar]>>)
    [] f.kind = "pair" -> Holding(<<ZeroOf[f.scalar], ZeroOf[f.scalar]>>)
    [] f.kind \in {"pointer", "slice"} -> Nil

---------------------------------------------------------------------------
(* compiler.go *)

\* A JSON body may not be a channel, a function and the like.
SupportedJSON(f) == f.scalar # Other \/ f.kind \in {"slice", "pair"}

Bound(source) == {fields[plan[i].of].name : i \in {i \in DOMAIN plan : plan[i].source = source}}

\* Mutant: a parameter may be bound twice.
RefusesFieldTwice(f) ==
  /\ f.tags # {}
  /\ \/ ~f.exported
     \/ f.name = ""
     \/ "path" \in f.tags /\ f.name \notin DOMAIN pattern
     \/ "body" \in f.tags /\ (f.name # "json" \/ Bound("body") # {} \/ ~SupportedJSON(f))
     \/ Cardinality(f.tags) > 1

RefusesField(f) ==
  /\ f.tags # {}
  /\ \/ ~f.exported
     \/ f.name = ""
     \/ "path" \in f.tags /\ (f.name \notin DOMAIN pattern \/ f.name \in Bound("path"))
     \/ "body" \in f.tags /\ (f.name # "json" \/ Bound("body") # {} \/ ~SupportedJSON(f))
     \/ Cardinality(f.tags) > 1

Planned(f, i) ==
  [of |-> i, source |-> CHOOSE s \in Sources : s \in f.tags,
   required |-> CASE "path" \in f.tags -> TRUE
                  [] "body" \in f.tags -> f.kind # "pointer"
                  [] OTHER -> f.required]

\* Documentation: what the document says is required.
DocumentedRequired(n) == plan[n].source = "path" \/ plan[n].required

Quiet == UNCHANGED <<pattern, options, at, request, input, errs, status>>

\* The next field of the struct is any field of the menu.
CompileField ==
  /\ phase = "compile" /\ Len(fields) < MaxFields
  /\ \E f \in Menu :
       /\ ~RefusesField(f)
       /\ fields' = Append(fields, f)
       /\ plan' = IF f.tags = {} THEN plan ELSE Append(plan, Planned(f, Len(fields) + 1))
  /\ UNCHANGED phase /\ Quiet

RefuseField ==
  /\ phase = "compile" /\ Len(fields) < MaxFields
  /\ \E f \in Menu : RefusesField(f) /\ fields' = Append(fields, f)
  /\ phase' = "refused"
  /\ UNCHANGED plan /\ Quiet

Missing == DOMAIN pattern \ Bound("path")

CompileEnd ==
  /\ phase = "compile"
  /\ phase' = IF Missing = {} THEN "compiled" ELSE "refused"
  /\ UNCHANGED <<fields, plan>> /\ Quiet

---------------------------------------------------------------------------
(* bind.go, scalar.go *)

\* A request with any value for whatever the plan reads.  ServeMux matches no
\* empty segment.
Receive ==
  /\ phase = "compiled"
  /\ \E path \in [DOMAIN pattern -> Texts \ {""}],
        values \in [({"query"} \X Bound("query")) \cup ({"header"} \X Bound("header")) -> Repeats],
        body \in IF Bound("body") = {} THEN {NoBody} ELSE Bodies :
       request' = [path |-> path, values |-> values, body |-> body]
  /\ input' = [i \in DOMAIN fields |-> Zero(fields[i])]
  /\ phase' = "bind" /\ at' = 1
  /\ UNCHANGED <<pattern, options, fields, plan, errs, status>>

\* Mutant: the first of several values counts.
AcceptsFirst(f, texts) ==
  CASE f.kind = "slice" -> TRUE
    [] f.kind = "pair" -> Len(texts) = 2
    [] f.kind \in {"plain", "pointer"} -> Len(texts) >= 1

Accepts(f, texts) ==
  CASE f.kind = "slice" -> TRUE
    [] f.kind = "pair" -> Len(texts) = 2
    [] f.kind \in {"plain", "pointer"} -> Len(texts) = 1

\* Mutant: the field is set before its texts are all parsed.
SetFieldEarly(texts, parsed) ==
  LET i == plan[at].of
      sound == Accepts(fields[i], texts) /\ \A n \in DOMAIN parsed : parsed[n] # Malformed
  IN /\ input' = [input EXCEPT ![i] = Holding(parsed)]
     /\ errs' = IF sound THEN errs ELSE errs \cup {at}

\* Field at has been bound to parsed values, or its error noted.  What a failed
\* conversion leaves in the input is never read.
SetField(texts, parsed) ==
  LET i == plan[at].of
      sound == Accepts(fields[i], texts) /\ \A n \in DOMAIN parsed : parsed[n] # Malformed
  IN /\ input' = IF sound THEN [input EXCEPT ![i] = Holding(parsed)] ELSE input
     /\ errs' = IF sound THEN errs ELSE errs \cup {at}

Binding(sources) == phase = "bind" /\ at <= Len(plan) /\ plan[at].source \in sources

Continue ==
  /\ at' = at + 1
  /\ UNCHANGED <<pattern, options, fields, plan, phase, request, status>>

SetScalar(scalar, x) == Scan[scalar][x]

ScanPath(scalar, constraint, x) ==
  IF scalar = "time" /\ constraint = "date" THEN ScanDate[x] ELSE SetScalar(scalar, x)

\* Mutant: the constraint is left to the conversion.
PathRefusedLate(raw, constraint) == raw = ""

PathRefused(raw, constraint) == raw = "" \/ raw \notin Satisfies[constraint]

BindPath ==
  /\ Binding({"path"})
  /\ LET f == fields[plan[at].of]
         raw == request.path[f.name]
         constraint == pattern[f.name]
     IN IF PathRefused(raw, constraint)
        THEN errs' = errs \cup {at} /\ UNCHANGED input
        ELSE SetField(<<raw>>, <<ScanPath(f.scalar, constraint, raw)>>)
  /\ Continue

\* A query parameter or header that is not there leaves its field alone.
BindValues ==
  /\ Binding({"query", "header"})
  /\ LET f == fields[plan[at].of]
         texts == request.values[<<plan[at].source, f.name>>]
     IN IF texts = <<>> THEN UNCHANGED <<input, errs>>
        ELSE SetField(texts, [n \in DOMAIN texts |-> SetScalar(f.scalar, texts[n])])
  /\ Continue

---------------------------------------------------------------------------
(* body.go *)

\* int64 addition.
Wrapped(n) == IF n > MaxInt THEN n - 2 * (MaxInt + 1) ELSE n

\* How many bytes ReadAll gets through the LimitReader.
Readable ==
  LET n == Wrapped(options.limit + 1)
  IN IF n <= 0 THEN 0 ELSE IF request.body.length < n THEN request.body.length ELSE n

\* The connection fails before the LimitReader has had enough.
ReadFails ==
  ~request.body.whole /\ request.body.length < Wrapped(options.limit + 1)

\* Mutant: only a declared length is measured.
TooLargeDeclared == request.body.declared > options.limit

TooLarge == request.body.declared > options.limit \/ Readable > options.limit

Absent == Readable = 0 \/ request.body.blank

Decodes ==
  \/ request.body.json \in {"value", "null"}
  \/ request.body.json = "unknown" /\ ~options.disallowUnknown

\* Null leaves a field as it is, and a pointer nil.
Decoded == IF request.body.json = "null" THEN Zero(fields[plan[at].of]) ELSE Holding(<<"decoded">>)

\* The outcomes that are the request's, not a field's: the rest is not bound.
Refusal(s) ==
  /\ phase' = "answered" /\ status' = s
  /\ UNCHANGED <<pattern, options, fields, plan, at, request, input, errs>>

BodyTooLarge == Binding({"body"}) /\ TooLarge /\ Refusal(413)

BodyUnsupported ==
  /\ Binding({"body"}) /\ ~TooLarge /\ ~ReadFails /\ ~Absent
  /\ ~request.body.media
  /\ Refusal(415)

BodyMissing ==
  /\ Binding({"body"}) /\ ~TooLarge /\ ~ReadFails /\ Absent
  /\ errs' = IF plan[at].required THEN errs \cup {at} ELSE errs
  /\ UNCHANGED input /\ Continue

BodyRead ==
  /\ Binding({"body"}) /\ ~TooLarge /\ ~ReadFails /\ ~Absent /\ request.body.media
  /\ IF Decodes
     THEN input' = [input EXCEPT ![plan[at].of] = Decoded] /\ UNCHANGED errs
     ELSE errs' = errs \cup {at} /\ UNCHANGED input
  /\ Continue

BodyUnreadable ==
  /\ Binding({"body"}) /\ ~TooLarge /\ ReadFails
  /\ errs' = errs \cup {at}
  /\ UNCHANGED input /\ Continue

---------------------------------------------------------------------------
(* typedEndpoint *)

Answer(s) ==
  /\ phase' = "answered" /\ status' = s
  /\ UNCHANGED <<pattern, options, fields, plan, at, request, input, errs>>

Done == phase = "bind" /\ at > Len(plan)

RefuseFields == Done /\ errs # {} /\ Answer(400)

\* Validation plans the exported fields, but none with json:"-" (compiler.go:57).
Validated(f) == f.exported /\ ~f.skipped

\* Mutant: required refuses what is nil only.
RequiredFailsNil ==
  \E i \in DOMAIN fields : Validated(fields[i]) /\ fields[i].required /\ input[i].nil

\* Of the validation rules only required: reflect's IsZero.
RequiredFails ==
  \E i \in DOMAIN fields :
    Validated(fields[i]) /\ fields[i].required /\ input[i] = Zero(fields[i])

\* The framework's rules, or the application's Validator, refuse the input.
RefuseInput ==
  /\ Done /\ errs = {} /\ options.validation
  /\ RequiredFails \/ options.validator
  /\ Answer(400)

Handle ==
  /\ Done /\ errs = {}
  /\ options.validation => ~RequiredFails
  /\ Answer(200)

Rest == phase \in {"refused", "answered"} /\ UNCHANGED vars

---------------------------------------------------------------------------
Init ==
  /\ pattern \in Patterns /\ options \in Options
  /\ fields = <<>> /\ plan = <<>> /\ phase = "compile" /\ at = 0
  /\ request = NoRequest /\ input = <<>> /\ errs = {} /\ status = 0

Next ==
  \/ CompileField \/ RefuseField \/ CompileEnd \/ Receive
  \/ BindPath \/ BindValues
  \/ BodyTooLarge \/ BodyUnsupported \/ BodyMissing \/ BodyRead \/ BodyUnreadable
  \/ RefuseFields \/ RefuseInput \/ Handle \/ Rest

Spec == Init /\ [][Next]_vars
---------------------------------------------------------------------------
(* Properties. *)

\* Every variable has its type; the input has the shape of the struct, and holds
\* nothing that did not parse.
TypeOK ==
  /\ pattern \in Patterns /\ options \in Options
  /\ \A i \in DOMAIN fields : fields[i] \in Menu
  /\ \A n \in DOMAIN plan :
       plan[n] \in [of : DOMAIN fields, source : Sources, required : BOOLEAN]
  /\ phase \in {"compile", "refused", "compiled", "bind", "answered"}
  /\ at \in 0..Len(plan) + 1 /\ errs \subseteq DOMAIN plan
  /\ request.body \in Bodies \cup {NoBody}
  /\ phase \in {"bind", "answered"} => DOMAIN input = DOMAIN fields
  /\ \A i \in DOMAIN input :
       input[i].nil \in BOOLEAN /\ \A n \in DOMAIN input[i].elements : input[i].elements[n] \in Values
  /\ status \in {0, 200, 400, 413, 415}

Tagged(source) == {i \in DOMAIN fields : source \in fields[i].tags}

\* What binding asks of a struct, whatever the order of its fields.
WellFormed ==
  /\ \A source \in Sources : \A i \in Tagged(source) :
       fields[i].exported /\ fields[i].name # "" /\ fields[i].tags = {source}
  /\ \A i \in Tagged("path") : fields[i].name \in DOMAIN pattern
  /\ \A p \in DOMAIN pattern : Cardinality({i \in Tagged("path") : fields[i].name = p}) = 1
  /\ Cardinality(Tagged("body")) <= 1
  /\ \A i \in Tagged("body") : fields[i].name = "json" /\ SupportedJSON(fields[i])

\* The one-pass compiler accepts exactly the structs that bind every parameter
\* of the route once and at most one body, and plans every tagged field once.
PlanVerdict ==
  /\ phase = "refused" => ~WellFormed
  /\ phase \in {"compiled", "bind", "answered"} =>
       /\ WellFormed
       /\ \A i \in DOMAIN fields :
            Cardinality({n \in DOMAIN plan : plan[n].of = i}) = Cardinality(fields[i].tags)

HasBody == \E n \in DOMAIN plan : plan[n].source = "body"

\* With the largest int64 as the limit nothing is read: limit + 1 overflows
\* (body.go:24), and whatever is sent counts as an empty body.
BodyUnread == HasBody /\ options.limit = MaxInt
Sent == ~request.body.blank /\ ~BodyUnread
Oversize ==
  HasBody /\ (request.body.declared > options.limit \/ request.body.length > options.limit)
Unsupported == HasBody /\ ~Oversize /\ request.body.whole /\ Sent /\ ~request.body.media

\* What is wrong with one field, without regard to the others.
Faulty(n) ==
  LET f == fields[plan[n].of]
      raw == request.path[f.name]
      texts == request.values[<<plan[n].source, f.name>>]
  IN CASE plan[n].source = "path" ->
            \/ raw \notin Satisfies[pattern[f.name]] \/ f.kind = "pair"
            \/ ScanPath(f.scalar, pattern[f.name], raw) = Malformed
       [] plan[n].source \in {"query", "header"} ->
            texts # <<>> /\
              \/ f.kind \in {"plain", "pointer"} /\ Len(texts) # 1
              \/ f.kind = "pair" /\ Len(texts) # 2
              \/ \E k \in DOMAIN texts : SetScalar(f.scalar, texts[k]) = Malformed
       [] plan[n].source = "body" ->
            \/ ~request.body.whole /\ ~BodyUnread
            \/ IF Sent THEN ~Decodes ELSE plan[n].required

\* The status depends on the request as a whole and not on the order in which
\* the fields are bound: 413 and 415 take precedence over any field, a handler
\* runs on no request with a faulty field, and nothing else is refused.  A body
\* whose limit overflows is answered like an empty one.
Verdict ==
  phase = "answered" =>
    LET faulty == \E n \in DOMAIN plan : Faulty(n)
    IN CASE Oversize -> status = 413
         [] Unsupported -> status = 415
         [] ~Oversize /\ ~Unsupported /\ faulty -> status = 400
         [] OTHER -> \/ status = 200
                     \/ status = 400 /\ options.validation /\ (RequiredFails \/ options.validator)

Present(n) ==
  CASE plan[n].source = "path" -> TRUE
    [] plan[n].source = "body" -> Sent
    [] OTHER -> request.values[<<plan[n].source, fields[plan[n].of].name>>] # <<>>

\* Documented as required (binding/compiler.go:75), and not in the validation
\* plan: a query parameter or header with json:"-".
Unenforced(n) ==
  plan[n].source \in {"query", "header"} /\ ~Validated(fields[plan[n].of])

\* The input a handler is called with holds, in every field, all of what the
\* request has for it, in its order, and the zero value where there is nothing;
\* with validation nothing the document calls required is missing (Bind skips an
\* absent parameter, and without validation nothing asks for it), but for the
\* parameters the validation plan leaves out.
HandlerSeesRequest ==
  status = 200 =>
    /\ options.validation =>
         \A n \in DOMAIN plan : DocumentedRequired(n) => Present(n) \/ Unenforced(n)
    /\ \A i \in DOMAIN fields : fields[i].tags = {} => input[i] = Zero(fields[i])
    /\ \A n \in DOMAIN plan :
         LET f == fields[plan[n].of]
             value == input[plan[n].of]
             raw == request.path[f.name]
             texts == request.values[<<plan[n].source, f.name>>]
         IN CASE plan[n].source = "path" ->
                   /\ raw \in Satisfies[pattern[f.name]]
                   /\ value.elements = <<ScanPath(f.scalar, pattern[f.name], raw)>>
              [] plan[n].source \in {"query", "header"} ->
                   IF texts = <<>> THEN value = Zero(f)
                   ELSE /\ value.elements = [k \in DOMAIN texts |-> SetScalar(f.scalar, texts[k])]
                        /\ f.kind \in {"plain", "pointer"} => Len(value.elements) = 1
              [] plan[n].source = "body" ->
                   IF Sent /\ request.body.json # "null"
                   THEN value = Holding(<<"decoded">>) /\ request.body.length <= options.limit
                   ELSE value = Zero(f)
=============================================================================
