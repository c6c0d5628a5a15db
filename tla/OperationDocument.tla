------------------------- MODULE OperationDocument -------------------------
(***************************************************************************)
(* The OpenAPI document of one build: compileOAS describes an operation,   *)
(* its declared responses in the order of a Go map, and                    *)
(* applyCompiledOperation puts it under its path and its security scheme   *)
(* into the components (internal/operation/openapi.go, openapi_build.go).  *)
(* A schema is abstracted to the Go type it describes: SchemaRegistry has  *)
(* what the registry makes of it.                                          *)
(***************************************************************************)
EXTENDS Routing, FiniteSets

CONSTANTS
  Definitions,    \* operations, see DefinitionType
  MaxOperations,  \* bound: operations of the App
  Types,
  Schemable,      \* the types the registry can describe
  FailureModel,   \* the model of Config.FailureFormatter
  Media, Essence, \* content types, and each without its parameters
  Schemes         \* what providers may answer when asked for their scheme

Statuses == 100..599
NoType == "none"
NoProvider == ""
Json == "application/json"
FailureMedia == "the formatter's content type"

FieldType ==
  [in : {"path", "query", "header", "body"}, name : STRING, required : BOOLEAN, type : Types]

\* raw: a handler without an input struct; fields: the tagged fields of the
\* others; consumes: the media types a raw handler says it reads.
IsDefinition(d) ==
  /\ DOMAIN d.responses \subseteq Statuses
  /\ \A s \in DOMAIN d.responses :
       d.responses[s] \in [kind : {"json", "problem", "raw", "custom"},
                           media : Media, type : Types \cup {NoType}]
  /\ d.fields \in Seq(FieldType)
  /\ d.raw => d.fields = <<>>
  /\ d.route.segs \in Seq([kind : {"literal", "param"}, name : STRING, constraint : STRING])
  /\ d.consumes \in SUBSET Media /\ (~d.raw => d.consumes = {})
  /\ d.feature \in BOOLEAN

ASSUME DocumentAssumption ==
  /\ \A d \in Definitions : IsDefinition(d) /\ ParseAccepts(d.route)
  /\ MaxOperations \in Nat
  /\ FailureModel \in Types
  /\ Schemable \subseteq Types
  /\ Essence \in [Media -> Media \cup {Json, FailureMedia}]

VARIABLES
  definitions,  \* the App's operations
  at,           \* the one being compiled
  phase,
  pending,      \* statuses range def.Responses has still to visit
  operation,    \* the oas31.Operation in the making
  paths,        \* Paths: path and method -> operation
  schemes,      \* Components.SecuritySchemes
  answers       \* history: the schemes each provider answered with

vars == <<definitions, at, phase, pending, operation, paths, schemes, answers>>

Def == definitions[at]

With(f, x, y) == [z \in DOMAIN f \cup {x} |-> IF z = x THEN y ELSE f[z]]

Blank == [of |-> 0, responses |-> <<>>, parameters |-> <<>>, body |-> {}, security |-> NoProvider]

Fail(error) ==
  phase' = error /\ UNCHANGED <<definitions, at, pending, operation, paths, schemes, answers>>

Stay == UNCHANGED <<definitions, at, paths, schemes, answers>>

---------------------------------------------------------------------------
(* What the builders and the plan let through. *)

\* Mutant: the legacy integration's name may be required like any other.
SecurityNameFree(name) == TRUE

\* normalizeSecurityName panics.
SecurityNameAccepted(name) == name # "bearerAuth"

Named(fields, in) == {fields[i].name : i \in {i \in DOMAIN fields : fields[i].in = in}}
Count(fields, in) == Cardinality({i \in DOMAIN fields : fields[i].in = in})

ParameterNames(route) == {s.name : s \in {s \in Segments(route) : s.kind = "param"}}
ConstraintOf(route, name) ==
  LET s == CHOOSE s \in Segments(route) : s.kind = "param" /\ s.name = name
  IN IF s.constraint = "" THEN "string" ELSE s.constraint

\* Every path parameter has one field, and there is one body.
PlanCompiles(d) ==
  d.raw \/ /\ Named(d.fields, "path") = ParameterNames(d.route)
           /\ Count(d.fields, "path") = Cardinality(Named(d.fields, "path"))
           /\ Count(d.fields, "body") <= 1

---------------------------------------------------------------------------
(* compileOAS *)

StatusAllowsBody(status) == status >= 200 /\ status \notin {204, 205, 304}

NoContent == [media |-> "", type |-> NoType]
Content(media, type) == [media |-> media, type |-> type]

\* What a declared response says of its body.
Declared(d, status) ==
  LET spec == d.responses[status]
  IN IF ~StatusAllowsBody(status) \/ spec.kind = "raw" THEN NoContent
     ELSE CASE spec.kind = "problem" -> Content(FailureMedia, FailureModel)
            [] spec.kind = "custom" -> Content(Essence[spec.media], spec.type)
            [] OTHER -> Content(Json, spec.type)

Describes(content) == content.type \in Schemable \cup {NoType}

BeginOperation ==
  /\ phase = "next" /\ at < Len(definitions)
  /\ LET d == definitions[at + 1]
     IN IF PlanCompiles(d)
        THEN /\ at' = at + 1 /\ pending' = DOMAIN d.responses
             /\ operation' = [Blank EXCEPT !.of = at + 1]
             /\ phase' = "responses"
             /\ UNCHANGED <<definitions, paths, schemes, answers>>
        ELSE Fail("binding")

DocumentResponse ==
  /\ phase = "responses"
  /\ \E status \in pending :
       LET content == Declared(Def, status)
       IN IF Describes(content)
          THEN /\ operation' = [operation EXCEPT !.responses = With(@, status, content)]
               /\ pending' = pending \ {status} /\ UNCHANGED phase /\ Stay
          ELSE Fail("schema")

\* The failures the framework may answer with itself.
FailureStatuses(d) ==
  (IF ~d.raw \/ \E name \in ParameterNames(d.route) : ConstraintOf(d.route, name) # "string"
   THEN {400} ELSE {})
    \cup (IF Count(d.fields, "body") > 0 THEN {413, 415} ELSE {})
    \cup (IF d.feature \/ d.security # NoProvider THEN {401} ELSE {})
    \cup (IF d.feature THEN {403} ELSE {})
    \cup {500}

Failure == Content(FailureMedia, FailureModel)

\* Mutant: over what was declared.
WithFailuresOver(responses, statuses) ==
  [s \in DOMAIN responses \cup statuses |-> IF s \in statuses THEN Failure ELSE responses[s]]

\* addFailureResponse: only where nothing was declared.
WithFailures(responses, statuses) ==
  [s \in DOMAIN responses \cup statuses |->
     IF s \in DOMAIN responses THEN responses[s] ELSE Failure]

Successful(status) == status \in 200..299

AddFailureResponses ==
  /\ phase = "responses" /\ pending = {}
  /\ IF ~ \E status \in DOMAIN Def.responses : Successful(status)
     THEN Fail("noSuccess")
     ELSE IF FailureStatuses(Def) \subseteq DOMAIN operation.responses \/ Describes(Failure)
     THEN /\ operation' = [operation EXCEPT
               !.responses = WithFailures(@, FailureStatuses(Def))]
          /\ phase' = "parameters" /\ UNCHANGED pending /\ Stay
     ELSE Fail("schema")

Parameter(name, in, required, schema) ==
  [name |-> name, in |-> in, required |-> required, schema |-> schema]

\* The schema of a path parameter is its constraint's.
FieldParameter(d, f) ==
  IF f.in = "path" THEN Parameter(f.name, "path", TRUE, ConstraintOf(d.route, f.name))
  ELSE Parameter(f.name, f.in, f.required, f.type)

IsParameter(f) == f.in # "body"

\* Mutant: the parameters are those of the input struct.
ParametersBound(d) ==
  [i \in {i \in DOMAIN d.fields : IsParameter(d.fields[i])} |-> FieldParameter(d, d.fields[i])]

\* Those of the plan, and for a raw handler those of the route, each at the
\* position of its field or segment: the array has them in this order.
Parameters(d) ==
  IF d.raw
  THEN [i \in {i \in DOMAIN d.route.segs : d.route.segs[i].kind = "param"} |->
          LET name == d.route.segs[i].name
          IN Parameter(name, "path", TRUE, ConstraintOf(d.route, name))]
  ELSE [i \in {i \in DOMAIN d.fields : IsParameter(d.fields[i])} |-> FieldParameter(d, d.fields[i])]

RequestBody(d) ==
  {Content(Json, d.fields[i].type) : i \in {i \in DOMAIN d.fields : d.fields[i].in = "body"}}
    \cup {Content(Essence[m], NoType) : m \in d.consumes}

\* A provider first: RequireSecurity wins over the legacy integration.
SecurityName(d) ==
  IF d.security # NoProvider THEN d.security
  ELSE IF d.feature THEN "bearerAuth" ELSE NoProvider

DescribeRequest ==
  /\ phase = "parameters"
  /\ IF \A f \in {Def.fields[i] : i \in DOMAIN Def.fields} :
          f.in # "path" => f.type \in Schemable
     THEN /\ operation' = [operation EXCEPT !.parameters = Parameters(Def),
                                            !.body = RequestBody(Def),
                                            !.security = SecurityName(Def)]
          /\ phase' = "apply" /\ UNCHANGED pending /\ Stay
     ELSE Fail("schema")

---------------------------------------------------------------------------
(* build and applyCompiledOperation *)

MuxPattern(d) == Pattern(d.method, ServeMuxPath(d.route))

\* Mutant: only what was registered just before is looked at.
MuxAcceptsNext == \A i \in {at - 1} \ {0} : ~Conflict(MuxPattern(definitions[i]), MuxPattern(Def))

MuxAccepts == \A i \in 1..(at - 1) : ~Conflict(MuxPattern(definitions[i]), MuxPattern(Def))

LegacyScheme ==
  [type |-> "http", scheme |-> "bearer", format |-> "JWT", name |-> "", in |-> ""]

\* The fields are trimmed first; Schemes has them trimmed.
SchemeAccepted(s) ==
  \/ /\ s.type = "http" /\ s.scheme # "" /\ s.name = "" /\ s.in = ""
     /\ s.format # "" => s.scheme = "bearer"
  \/ /\ s.type = "apiKey" /\ s.name # "" /\ s.in \in {"header", "query", "cookie"}
     /\ s.scheme = "" /\ s.format = ""

\* A provider is asked for every operation anew, and may answer differently.
SchemeFor(d) == IF d.security = NoProvider THEN {LegacyScheme} ELSE Schemes

DocumentedMethods == {"GET", "POST", "PUT", "PATCH", "DELETE", "OPTIONS", "HEAD", "TRACE"}

Publish ==
  /\ paths' = With(paths, <<OpenAPIPath(Def.route), Def.method>>, operation)
  /\ phase' = "next"

ApplyOperation ==
  /\ phase = "apply" /\ MuxAccepts /\ Def.method \in DocumentedMethods
  /\ UNCHANGED <<definitions, at, pending, operation>>
  /\ IF operation.security = NoProvider
     THEN Publish /\ UNCHANGED <<schemes, answers>>
     ELSE \E scheme \in SchemeFor(Def) :
            /\ answers' = answers \cup {<<operation.security, scheme>>}
            /\ IF SchemeAccepted(scheme)
               THEN Publish /\ schemes' = With(schemes, operation.security, scheme)
               ELSE phase' = "scheme" /\ UNCHANGED <<paths, schemes>>

RefusePattern == phase = "apply" /\ ~MuxAccepts /\ Fail("route")

\* setPathOperation: a Path Item has no other methods.
RefuseMethod ==
  phase = "apply" /\ MuxAccepts /\ Def.method \notin DocumentedMethods /\ Fail("method")

Finish ==
  /\ phase = "next" /\ at = Len(definitions)
  /\ phase' = "marshalled"
  /\ UNCHANGED <<definitions, at, pending, operation, paths, schemes, answers>>

Init ==
  /\ definitions \in UNION {[1..n -> Definitions] : n \in 0..MaxOperations}
  /\ \A i \in DOMAIN definitions : SecurityNameAccepted(definitions[i].security)
  /\ at = 0 /\ phase = "next" /\ pending = {} /\ operation = Blank
  /\ paths = <<>> /\ schemes = <<>> /\ answers = {}

Next ==
  \/ BeginOperation \/ DocumentResponse \/ AddFailureResponses \/ DescribeRequest
  \/ ApplyOperation \/ RefusePattern \/ RefuseMethod \/ Finish

Spec == Init /\ [][Next]_vars

---------------------------------------------------------------------------
(* What the document is for. *)

Errors == {"binding", "schema", "noSuccess", "route", "method", "scheme"}

\* The declared responses as declared, and failures.
KeepsResponses(responses, d) ==
  /\ DOMAIN d.responses \subseteq DOMAIN responses
  /\ \A s \in DOMAIN responses :
       IF s \in DOMAIN d.responses THEN responses[s] = Declared(d, s)
       ELSE s >= 400 /\ responses[s] = Failure

\* A failure the framework adds never takes the place of a declared response,
\* in whatever order the map is visited, and nothing else is added: a declared
\* 400 or 500 stays what its author said (openapi.go:34-57, 189-199).
ResponsesKept ==
  \A e \in DOMAIN paths : KeepsResponses(paths[e].responses, definitions[paths[e].of])

\* The path parameters an operation documents are those of the path it is
\* documented under, each once, required, and with the constraint its segment
\* has, whether they come from the input struct or, for a raw handler, from the
\* route (openapi.go:98-131, compiler.go:55-115).
ParametersMatchTemplate ==
  \A e \in DOMAIN paths :
    LET o == paths[e]
        inPath == {i \in DOMAIN o.parameters : o.parameters[i].in = "path"}
    IN /\ {o.parameters[i].name : i \in inPath} = ParameterNames(e[1])
       /\ Cardinality(inPath) = Cardinality(ParameterNames(e[1]))
       /\ \A i \in inPath :
            LET p == o.parameters[i]
            IN p.required /\ p.schema = ConstraintOf(definitions[o.of].route, p.name)

\* Every security requirement leads to a scheme, and to the scheme of whoever
\* will authenticate: the legacy integration's under its reserved name, or one
\* its provider answered with, though schemes are kept by name alone and a
\* provider is asked again for every operation (openapi_build.go:35-49,
\* security.go:28; README.md:330).
SecurityResolves ==
  \A e \in DOMAIN paths :
    LET d == definitions[paths[e].of]
        name == paths[e].security
    IN IF d.security = NoProvider
       THEN d.feature => name \in DOMAIN schemes /\ schemes[name] = LegacyScheme
       ELSE name \in DOMAIN schemes /\ <<d.security, schemes[name]>> \in answers

\* No scheme is left over, and no operation took another's place in Paths, which
\* are kept by the OpenAPI path while ServeMux compares its own patterns: every
\* scheme is required by an operation, every compiled operation is documented
\* (app.go:139-159, openapi_build.go:25-33).
NothingLeftOver ==
  /\ \A name \in DOMAIN schemes : \E e \in DOMAIN paths : paths[e].security = name
  /\ phase \in {"next", "marshalled"} =>
       \A i \in 1..at : \E e \in DOMAIN paths : paths[e].of = i
=============================================================================
