---------------------- MODULE OperationDocumentProofs ----------------------
(***************************************************************************)
(* Proofs about OperationDocument, for any operations, any number of them, *)
(* every order of their responses and every answer of the providers.       *)
(***************************************************************************)
EXTENDS OperationDocument, SequenceTheorems, FiniteSetTheorems, TLAPS

---------------------------------------------------------------------------
(* The inductive invariant. *)

Working == {"responses", "parameters", "apply"}
Phases == {"next", "marshalled"} \cup Working \cup Errors

OperationShape(o) ==
  o = [of |-> o.of, responses |-> o.responses, parameters |-> o.parameters,
       body |-> o.body, security |-> o.security]

\* Where the build is.
Cursor ==
  /\ definitions \in Seq(Definitions)
  /\ \A i \in DOMAIN definitions : SecurityNameAccepted(definitions[i].security)
  /\ at \in 0..Len(definitions)
  /\ phase \in Phases
  /\ phase \in Working => at \in DOMAIN definitions
  /\ phase \in Working => operation.of = at

\* How far the operation in the making is.
Making ==
  /\ OperationShape(operation)
  /\ phase = "responses" =>
       /\ DOMAIN operation.responses \cup pending = DOMAIN Def.responses
       /\ DOMAIN operation.responses \cap pending = {}
       /\ \A s \in DOMAIN operation.responses : operation.responses[s] = Declared(Def, s)
  /\ phase \in {"parameters", "apply"} =>
       pending = {} /\ KeepsResponses(operation.responses, Def)
  /\ phase = "apply" => operation.security = SecurityName(Def)

\* Whether Paths already has the n-th operation.
Documented(n) ==
  n \in 1..at /\ (n < at \/ phase \in {"next", "marshalled"})

Place(d) == <<OpenAPIPath(d.route), d.method>>

\* Paths has the operations before this one, each in its place.
Written ==
  /\ \A e \in DOMAIN paths :
       LET o == paths[e]
       IN /\ o.of \in 1..at
          /\ phase \in Working => o.of < at
          /\ e = Place(definitions[o.of])
          /\ o.security = SecurityName(definitions[o.of])
          /\ KeepsResponses(o.responses, definitions[o.of])
  /\ \A n \in 1..at :
       Documented(n) => \E e \in DOMAIN paths : paths[e].of = n

\* The components have the schemes of the operations in Paths, and no others.
Resolved ==
  /\ \A e \in DOMAIN paths : paths[e].security # NoProvider => paths[e].security \in DOMAIN schemes
  /\ \A name \in DOMAIN schemes :
       /\ <<name, schemes[name]>> \in answers
       /\ name = "bearerAuth" => schemes[name] = LegacyScheme
       /\ \E e \in DOMAIN paths : paths[e].security = name

Inductive == Cursor /\ Making /\ Written /\ Resolved

---------------------------------------------------------------------------
(* What the helpers return. *)

\* Declared responses that are all there, and failures where there is none, are
\* what an operation is to document.
LEMMA FailuresKeep ==
  ASSUME NEW d, NEW responses,
         DOMAIN responses = DOMAIN d.responses,
         \A s \in DOMAIN responses : responses[s] = Declared(d, s)
  PROVE  KeepsResponses(WithFailures(responses, FailureStatuses(d)), d)
<1> DEFINE all == WithFailures(responses, FailureStatuses(d))
<1>1. /\ DOMAIN all = DOMAIN responses \cup FailureStatuses(d)
      /\ \A s \in DOMAIN all :
           all[s] = IF s \in DOMAIN responses THEN responses[s] ELSE Failure
  BY DEF WithFailures
<1>2. \A s \in FailureStatuses(d) : s >= 400
  BY DEF FailureStatuses
<1> HIDE DEF all
<1>3. KeepsResponses(all, d)
  BY <1>1, <1>2 DEF KeepsResponses
<1> QED
  BY <1>3 DEF all

\* Two operations with one place in Paths have patterns that ServeMux refuses to
\* have together.
LEMMA OnePlaceConflicts ==
  ASSUME NEW c, NEW d, Place(c) = Place(d)
  PROVE  Conflict(MuxPattern(c), MuxPattern(d))
<1>1. OpenAPIPath(c.route) = OpenAPIPath(d.route) /\ c.method = d.method
  BY DEF Place
<1>2. /\ Unconstrained(c.route.segs) = Unconstrained(d.route.segs)
      /\ c.route.slash = d.route.slash
  BY <1>1 DEF OpenAPIPath, Path
<1>3. MuxPattern(c) = MuxPattern(d)
  BY <1>1, <1>2 DEF MuxPattern, ServeMuxPath, Pattern
<1> DEFINE p == MuxPattern(d)
<1>4. p.tail # "rest"
  BY DEF MuxPattern, ServeMuxPath, Pattern
<1>5. PathsMeet(p, p)
  BY <1>4 DEF PathsMeet, TailReaches, SegmentsMeet
<1>6. PatternsMeet(p, p)
  BY <1>5 DEF PatternsMeet, MethodCovers
<1>7. Conflict(p, p)
  BY <1>6 DEF Conflict
<1> QED
  BY <1>3, <1>7

---------------------------------------------------------------------------
(* Every step keeps it. *)

LEMMA InitHolds == Init => Inductive
<1> SUFFICES ASSUME Init PROVE Inductive
  OBVIOUS
<1>1. definitions \in Seq(Definitions)
  <2>1. PICK n \in 0..MaxOperations : definitions \in [1..n -> Definitions]
    BY DEF Init
  <2>2. n \in Nat
    BY DocumentAssumption
  <2> QED
    BY <2>1, <2>2, SeqDef
<1>2. Len(definitions) \in Nat
  BY <1>1, LenProperties
<1>3. Cursor
  BY <1>1, <1>2 DEF Init, Cursor, Phases, Working
<1>4. Making
  BY DEF Init, Making, OperationShape, Blank
<1>5. DOMAIN <<>> = {}
  OBVIOUS
<1>6. Written
  BY <1>5 DEF Init, Written
<1>7. Resolved
  BY <1>5 DEF Init, Resolved
<1> QED
  BY <1>3, <1>4, <1>6, <1>7 DEF Inductive

\* A build that fails has what it had.
LEMMA FailKeeps ==
  ASSUME Inductive, NEW error \in Errors, Fail(error)
  PROVE  Inductive'
<1> USE DEF Fail
<1>1. phase' \notin Working /\ phase' \notin {"next", "marshalled"}
  BY DEF Errors, Working
<1>2. Cursor'
  BY <1>1 DEF Inductive, Cursor, Phases
<1>3. Making'
  BY <1>1 DEF Inductive, Making, OperationShape, Working
<1>4. Written'
  BY <1>1 DEF Inductive, Written, Documented
<1>5. Resolved'
  BY DEF Inductive, Resolved
<1> QED
  BY <1>2, <1>3, <1>4, <1>5 DEF Inductive

\* A stutter, and the end of the build.
LEMMA QuietKeeps ==
  ASSUME Inductive, UNCHANGED <<definitions, at, pending, operation, paths, schemes, answers>>,
         phase' = phase \/ (phase = "next" /\ phase' = "marshalled")
  PROVE  Inductive'
<1>1. Cursor'
  BY DEF Inductive, Cursor, Phases, Working
<1>2. Making'
  BY DEF Inductive, Making, OperationShape, Def
<1>3. Written'
  BY DEF Inductive, Written, Documented, Working
<1>4. Resolved'
  BY DEF Inductive, Resolved
<1> QED
  BY <1>1, <1>2, <1>3, <1>4 DEF Inductive

LEMMA BeginOperationKeeps ==
  ASSUME Inductive, BeginOperation
  PROVE  Inductive'
<1>1. CASE PlanCompiles(definitions[at + 1])
  <2>1. /\ phase = "next" /\ phase' = "responses" /\ at < Len(definitions) /\ at' = at + 1
        /\ pending' = DOMAIN definitions[at + 1].responses
        /\ operation' = [Blank EXCEPT !.of = at + 1]
        /\ UNCHANGED <<definitions, paths, schemes, answers>>
    BY <1>1 DEF BeginOperation
  <2>2. /\ Len(definitions) \in Nat /\ DOMAIN definitions = 1..Len(definitions)
        /\ at \in 0..Len(definitions)
    BY LenProperties DEF Inductive, Cursor
  <2>3. at' \in DOMAIN definitions
    BY <2>1, <2>2
  <2>4. operation' = [Blank EXCEPT !.of = at'] /\ operation'.of = at' /\ operation'.responses = <<>>
    BY <2>1 DEF Blank
  <2>5. Cursor'
    BY <2>1, <2>2, <2>3, <2>4 DEF Inductive, Cursor, Phases, Working
  <2>6. DOMAIN <<>> = {}
    OBVIOUS
  <2>7. OperationShape(operation')
    BY <2>1 DEF Blank, OperationShape
  <2>8. Making'
    BY <2>1, <2>4, <2>6, <2>7 DEF Making, Def
  <2>9. Written'
    BY <2>1, <2>2 DEF Inductive, Written, Documented, Working
  <2>10. Resolved'
    BY <2>1 DEF Inductive, Resolved
  <2> QED
    BY <2>5, <2>8, <2>9, <2>10 DEF Inductive
<1>2. CASE ~PlanCompiles(definitions[at + 1])
  BY <1>2, FailKeeps DEF BeginOperation, Errors
<1> QED
  BY <1>1, <1>2

\* A step that works on the operation alone keeps what the document has.
LEMMA WorkKeepsDocument ==
  ASSUME Inductive, Stay, phase \in Working, phase' \in Working, operation'.of = operation.of
  PROVE  Cursor' /\ Written' /\ Resolved'
<1>1. Cursor'
  BY DEF Inductive, Cursor, Stay, Phases
<1>2. Written'
  BY DEF Inductive, Written, Stay, Documented, Working
<1>3. Resolved'
  BY DEF Inductive, Resolved, Stay
<1> QED
  BY <1>1, <1>2, <1>3

LEMMA DocumentResponseKeeps ==
  ASSUME Inductive, DocumentResponse
  PROVE  Inductive'
<1>1. PICK status \in pending :
        IF Describes(Declared(Def, status))
        THEN /\ operation' = [operation EXCEPT !.responses = With(@, status, Declared(Def, status))]
             /\ pending' = pending \ {status} /\ UNCHANGED phase /\ Stay
        ELSE Fail("schema")
  BY DEF DocumentResponse
<1>2. phase = "responses"
  BY DEF DocumentResponse
<1>3. CASE Describes(Declared(Def, status))
  <2> DEFINE longer == With(operation.responses, status, Declared(Def, status))
  <2>1. /\ operation' = [operation EXCEPT !.responses = longer]
        /\ pending' = pending \ {status} /\ phase' = phase /\ Stay
    BY <1>1, <1>3
  <2>2. OperationShape(operation)
    BY DEF Inductive, Making
  <2>3. OperationShape(operation') /\ operation'.responses = longer /\ operation'.of = operation.of
    BY <2>1, <2>2 DEF OperationShape
  <2>4. Def' = Def
    BY <2>1 DEF Stay, Def
  <2>5. Cursor' /\ Written' /\ Resolved'
    BY <1>2, <2>1, <2>3, WorkKeepsDocument DEF Working
  <2>6. /\ DOMAIN longer = DOMAIN operation.responses \cup {status}
        /\ longer[status] = Declared(Def, status)
        /\ \A z \in DOMAIN operation.responses : z # status => longer[z] = operation.responses[z]
    BY DEF With
  <2> HIDE DEF longer
  <2>7. /\ DOMAIN operation.responses \cup pending = DOMAIN Def.responses
        /\ DOMAIN operation.responses \cap pending = {}
        /\ \A s \in DOMAIN operation.responses : operation.responses[s] = Declared(Def, s)
    BY <1>2 DEF Inductive, Making
  <2>8. Making'
    BY <1>2, <2>1, <2>3, <2>4, <2>6, <2>7 DEF Making
  <2> QED
    BY <2>5, <2>8 DEF Inductive
<1>4. CASE ~Describes(Declared(Def, status))
  BY <1>1, <1>4, FailKeeps DEF Errors
<1> QED
  BY <1>3, <1>4

LEMMA AddFailureResponsesKeeps ==
  ASSUME Inductive, AddFailureResponses
  PROVE  Inductive'
<1> DEFINE all == WithFailures(operation.responses, FailureStatuses(Def))
<1>1. phase = "responses" /\ pending = {}
  BY DEF AddFailureResponses
<1>2. CASE Fail("noSuccess") \/ Fail("schema")
  BY <1>2, FailKeeps DEF Errors
<1>3. CASE /\ operation' = [operation EXCEPT !.responses = all]
           /\ phase' = "parameters" /\ UNCHANGED pending /\ Stay
  <2>1. OperationShape(operation)
    BY DEF Inductive, Making
  <2>2. OperationShape(operation') /\ operation'.responses = all /\ operation'.of = operation.of
    BY <1>3, <2>1 DEF OperationShape
  <2>3. Def' = Def
    BY <1>3 DEF Stay, Def
  <2>4. Cursor' /\ Written' /\ Resolved'
    BY <1>1, <1>3, <2>2, WorkKeepsDocument DEF Working
  <2>5. KeepsResponses(all, Def)
    BY <1>1, FailuresKeep DEF Inductive, Making
  <2> HIDE DEF all
  <2>6. Making'
    BY <1>1, <1>3, <2>2, <2>3, <2>5 DEF Making
  <2> QED
    BY <2>4, <2>6 DEF Inductive
<1> QED
  BY <1>2, <1>3 DEF AddFailureResponses

LEMMA DescribeRequestKeeps ==
  ASSUME Inductive, DescribeRequest
  PROVE  Inductive'
<1>1. phase = "parameters"
  BY DEF DescribeRequest
<1>2. CASE Fail("schema")
  BY <1>2, FailKeeps DEF Errors
<1>3. CASE /\ operation' = [operation EXCEPT !.parameters = Parameters(Def),
                                             !.body = RequestBody(Def),
                                             !.security = SecurityName(Def)]
           /\ phase' = "apply" /\ UNCHANGED pending /\ Stay
  <2>1. OperationShape(operation)
    BY DEF Inductive, Making
  <2>2. /\ OperationShape(operation') /\ operation'.of = operation.of
        /\ operation'.responses = operation.responses
        /\ operation'.security = SecurityName(Def)
    BY <1>3, <2>1 DEF OperationShape
  <2>3. Def' = Def
    BY <1>3 DEF Stay, Def
  <2>4. Cursor' /\ Written' /\ Resolved'
    BY <1>1, <1>3, <2>2, WorkKeepsDocument DEF Working
  <2>5. pending = {} /\ KeepsResponses(operation.responses, Def)
    BY <1>1 DEF Inductive, Making
  <2>6. Making'
    BY <1>3, <2>2, <2>3, <2>5 DEF Making
  <2> QED
    BY <2>4, <2>6 DEF Inductive
<1> QED
  BY <1>2, <1>3 DEF DescribeRequest

\* The operation is put in a place no other operation has.
LEMMA PublishKeeps ==
  ASSUME Inductive, phase = "apply", MuxAccepts, Publish,
         UNCHANGED <<definitions, at, pending, operation>>
  PROVE  /\ Cursor' /\ Making' /\ Written'
         /\ Place(Def) \notin DOMAIN paths
         /\ DOMAIN paths' = DOMAIN paths \cup {Place(Def)}
         /\ paths'[Place(Def)] = operation
         /\ \A e \in DOMAIN paths : paths'[e] = paths[e]
<1> DEFINE new == Place(Def)
<1>1. /\ paths' = With(paths, new, operation) /\ phase' = "next"
    BY DEF Publish, Place
<1>2. at \in DOMAIN definitions /\ at \in Nat /\ at # 0 /\ operation.of = at
  <2>1. DOMAIN definitions = 1..Len(definitions) /\ Len(definitions) \in Nat
    BY LenProperties DEF Inductive, Cursor
  <2> QED
    BY <2>1 DEF Inductive, Cursor, Working
<1>3. new \notin DOMAIN paths
  <2> SUFFICES ASSUME new \in DOMAIN paths PROVE FALSE
    OBVIOUS
  <2> DEFINE i == paths[new].of
  <2>1. i \in 1..(at - 1) /\ Place(definitions[i]) = Place(Def)
    BY <1>2 DEF Inductive, Written, Working
  <2>2. Conflict(MuxPattern(definitions[i]), MuxPattern(Def))
    BY <2>1, OnePlaceConflicts
  <2> QED
    BY <2>1, <2>2 DEF MuxAccepts
<1>4. /\ DOMAIN paths' = DOMAIN paths \cup {new}
      /\ paths'[new] = operation
      /\ \A e \in DOMAIN paths : paths'[e] = paths[e]
  BY <1>1, <1>3 DEF With
<1>5. Cursor'
  BY <1>1, <1>2 DEF Inductive, Cursor, Phases, Working
<1>6. Making'
  BY <1>1 DEF Inductive, Making, OperationShape
<1>7. /\ operation.security = SecurityName(Def) /\ KeepsResponses(operation.responses, Def)
  BY DEF Inductive, Making
<1>8. ASSUME NEW e \in DOMAIN paths'
      PROVE  /\ paths'[e].of \in 1..at
             /\ e = Place(definitions[paths'[e].of])
             /\ paths'[e].security = SecurityName(definitions[paths'[e].of])
             /\ KeepsResponses(paths'[e].responses, definitions[paths'[e].of])
  <2>1. CASE e = new
    BY <1>2, <1>4, <1>7, <2>1 DEF Def
  <2>2. CASE e \in DOMAIN paths
    BY <1>4, <2>2 DEF Inductive, Written
  <2> QED
    BY <1>4, <2>1, <2>2
<1>9. ASSUME NEW n \in 1..at
      PROVE  \E e \in DOMAIN paths' : paths'[e].of = n
  <2>1. CASE n = at
    BY <1>2, <1>4, <2>1
  <2>2. CASE n < at
    BY <1>4, <2>2 DEF Inductive, Written, Documented
  <2> QED
    BY <1>2, <2>1, <2>2
<1>10. Written'
  BY <1>1, <1>8, <1>9 DEF Written, Working
<1> QED
  BY <1>3, <1>4, <1>5, <1>6, <1>10

LEMMA ApplyOperationKeeps ==
  ASSUME Inductive, ApplyOperation
  PROVE  Inductive'
<1>1. phase = "apply" /\ MuxAccepts /\ UNCHANGED <<definitions, at, pending, operation>>
  BY DEF ApplyOperation
<1>2. operation.security = SecurityName(Def)
  BY <1>1 DEF Inductive, Making
<1>3. CASE operation.security = NoProvider
  <2>1. Publish /\ UNCHANGED <<schemes, answers>>
    BY <1>3 DEF ApplyOperation
  <2>2. Resolved'
    BY <1>1, <1>3, <2>1, PublishKeeps DEF Inductive, Resolved
  <2> QED
    BY <1>1, <2>1, <2>2, PublishKeeps DEF Inductive
<1>4. CASE operation.security # NoProvider
  <2> DEFINE name == operation.security
  <2>1. PICK scheme \in SchemeFor(Def) :
          /\ answers' = answers \cup {<<name, scheme>>}
          /\ IF SchemeAccepted(scheme)
             THEN Publish /\ schemes' = With(schemes, name, scheme)
             ELSE phase' = "scheme" /\ UNCHANGED <<paths, schemes>>
    BY <1>4 DEF ApplyOperation
  <2>2. CASE SchemeAccepted(scheme)
    <3>1. Publish /\ schemes' = With(schemes, name, scheme)
      BY <2>1, <2>2
    <3>2. /\ DOMAIN schemes' = DOMAIN schemes \cup {name}
          /\ schemes'[name] = scheme
          /\ \A n \in DOMAIN schemes : n # name => schemes'[n] = schemes[n]
      BY <3>1 DEF With
    <3>3. name = "bearerAuth" => scheme = LegacyScheme
      <4>1. at \in DOMAIN definitions
        BY <1>1 DEF Inductive, Cursor, Working
      <4>2. Def.security # "bearerAuth"
        BY <4>1 DEF Inductive, Cursor, SecurityNameAccepted, Def
      <4>3. name = "bearerAuth" => Def.security = NoProvider
        BY <1>2, <4>2 DEF SecurityName
      <4> QED
        BY <2>1, <4>3 DEF SchemeFor
    <3>4. /\ Cursor' /\ Making' /\ Written'
          /\ DOMAIN paths' = DOMAIN paths \cup {Place(Def)}
          /\ paths'[Place(Def)] = operation
          /\ \A e \in DOMAIN paths : paths'[e] = paths[e]
      BY <1>1, <3>1, PublishKeeps
    <3>5. ASSUME NEW e \in DOMAIN paths', paths'[e].security # NoProvider
          PROVE  paths'[e].security \in DOMAIN schemes'
      BY <3>2, <3>4, <3>5 DEF Inductive, Resolved
    <3>6. ASSUME NEW n \in DOMAIN schemes'
          PROVE  /\ <<n, schemes'[n]>> \in answers'
                 /\ n = "bearerAuth" => schemes'[n] = LegacyScheme
                 /\ \E e \in DOMAIN paths' : paths'[e].security = n
      <4>1. CASE n = name
        BY <2>1, <3>2, <3>3, <3>4, <4>1
      <4>2. CASE n # name
        <5>1. n \in DOMAIN schemes /\ schemes'[n] = schemes[n]
          BY <3>2, <4>2
        <5> QED
          BY <2>1, <3>4, <5>1 DEF Inductive, Resolved
      <4> QED
        BY <4>1, <4>2
    <3>7. Resolved'
      BY <3>5, <3>6 DEF Resolved
    <3> QED
      BY <3>4, <3>7 DEF Inductive
  <2>3. CASE ~SchemeAccepted(scheme)
    <3>1. phase' = "scheme" /\ UNCHANGED <<paths, schemes>>
      BY <2>1, <2>3
    <3>2. Cursor'
      BY <1>1, <3>1 DEF Inductive, Cursor, Phases, Working, Errors
    <3>3. Making'
      BY <1>1, <3>1 DEF Inductive, Making, OperationShape
    <3>4. Written'
      BY <1>1, <3>1 DEF Inductive, Written, Documented, Working
    <3>5. Resolved'
      BY <2>1, <3>1 DEF Inductive, Resolved
    <3> QED
      BY <3>2, <3>3, <3>4, <3>5 DEF Inductive
  <2> QED
    BY <2>2, <2>3
<1> QED
  BY <1>3, <1>4

LEMMA NextKeeps == Inductive /\ [Next]_vars => Inductive'
<1> SUFFICES ASSUME Inductive, [Next]_vars PROVE Inductive'
  OBVIOUS
<1>1. CASE BeginOperation
  BY <1>1, BeginOperationKeeps
<1>2. CASE DocumentResponse
  BY <1>2, DocumentResponseKeeps
<1>3. CASE AddFailureResponses
  BY <1>3, AddFailureResponsesKeeps
<1>4. CASE DescribeRequest
  BY <1>4, DescribeRequestKeeps
<1>5. CASE ApplyOperation
  BY <1>5, ApplyOperationKeeps
<1>6. CASE RefusePattern \/ RefuseMethod
  BY <1>6, FailKeeps DEF RefusePattern, RefuseMethod, Errors
<1>7. CASE Finish
  BY <1>7, QuietKeeps DEF Finish
<1>8. CASE UNCHANGED vars
  BY <1>8, QuietKeeps DEF vars
<1> QED
  BY <1>1, <1>2, <1>3, <1>4, <1>5, <1>6, <1>7, <1>8 DEF Next

---------------------------------------------------------------------------
(* The theorems. *)

\* The inductive invariant: the document has the operations before the present
\* one, each under its own path and with its own scheme.
THEOREM DocumentInvariant == Spec => []Inductive
<1>1. Init => Inductive
  BY InitHolds
<1>2. Inductive /\ [Next]_vars => Inductive'
  BY NextKeeps
<1> QED
  BY <1>1, <1>2, PTL DEF Spec

\* No declared response is lost to a failure the framework adds, in any order of
\* the map (openapi.go:34-57, 189-199).
THEOREM ResponsesStay == Spec => []ResponsesKept
<1>1. Inductive => ResponsesKept
  BY DEF Inductive, Written, ResponsesKept
<1> QED
  BY <1>1, DocumentInvariant, PTL

\* Every security requirement leads to the scheme of whoever authenticates
\* (openapi_build.go:35-49, security.go:28).
THEOREM RequirementsResolve == Spec => []SecurityResolves
<1>1. Inductive => SecurityResolves
  <2> SUFFICES ASSUME Inductive, NEW e \in DOMAIN paths
               PROVE  LET d == definitions[paths[e].of]
                          name == paths[e].security
                      IN IF d.security = NoProvider
                         THEN d.feature => name \in DOMAIN schemes /\ schemes[name] = LegacyScheme
                         ELSE name \in DOMAIN schemes /\ <<d.security, schemes[name]>> \in answers
    BY DEF SecurityResolves
  <2> DEFINE d == definitions[paths[e].of]
  <2>1. paths[e].security = SecurityName(d)
    BY DEF Inductive, Written
  <2>2. CASE d.security = NoProvider
    <3>1. d.feature => paths[e].security = "bearerAuth"
      BY <2>1, <2>2 DEF SecurityName
    <3> QED
      BY <2>2, <3>1 DEF Inductive, Resolved, NoProvider
  <2>3. CASE d.security # NoProvider
    <3>1. paths[e].security = d.security
      BY <2>1, <2>3 DEF SecurityName
    <3> QED
      BY <2>3, <3>1 DEF Inductive, Resolved
  <2> QED
    BY <2>2, <2>3
<1> QED
  BY <1>1, DocumentInvariant, PTL

\* Every compiled operation is documented, none in the place of another, and no
\* scheme without an operation that requires it (openapi_build.go:25-49).
THEOREM DocumentExact == Spec => []NothingLeftOver
<1>1. Inductive => NothingLeftOver
  BY DEF Inductive, Written, Documented, Resolved, NothingLeftOver
<1> QED
  BY <1>1, DocumentInvariant, PTL
---------------------------------------------------------------------------
(* Parameters. *)

\* The plan compiled, and the parameters are those of the definition.
Templated ==
  /\ phase \in Working => PlanCompiles(Def)
  /\ phase = "apply" => operation.parameters = Parameters(Def)
  /\ \A e \in DOMAIN paths :
       /\ PlanCompiles(definitions[paths[e].of])
       /\ paths[e].parameters = Parameters(definitions[paths[e].of])

LEMMA TemplatedKeeps ==
  ASSUME Inductive, Templated, [Next]_vars
  PROVE  Templated'
<1>1. CASE BeginOperation /\ PlanCompiles(definitions[at + 1])
  <2>1. /\ phase' = "responses" /\ at' = at + 1 /\ UNCHANGED <<definitions, paths>>
    BY <1>1 DEF BeginOperation
  <2>2. Def' = definitions[at + 1]
    BY <2>1 DEF Def
  <2> QED
    BY <1>1, <2>1, <2>2 DEF Templated, Working, PlanCompiles
<1>2. ASSUME NEW error \in Errors, Fail(error)
      PROVE  Templated'
  BY <1>2 DEF Templated, Fail, Errors, Working
<1>3. CASE Stay /\ phase \in Working /\ phase' \in Working /\ phase' # "apply"
  <2>1. UNCHANGED <<definitions, paths>> /\ Def' = Def
    BY <1>3 DEF Stay, Def
  <2> QED
    BY <1>3, <2>1 DEF Templated, PlanCompiles
<1>4. CASE BeginOperation
  BY <1>1, <1>2, <1>4 DEF BeginOperation, Errors
<1>5. CASE DocumentResponse
  <2>1. Fail("schema") \/ (Stay /\ phase = "responses" /\ phase' = phase)
    BY <1>5 DEF DocumentResponse
  <2> QED
    BY <1>2, <1>3, <2>1 DEF Errors, Working
<1>6. CASE AddFailureResponses
  <2>1. \/ Fail("schema") \/ Fail("noSuccess")
        \/ Stay /\ phase = "responses" /\ phase' = "parameters"
    BY <1>6 DEF AddFailureResponses
  <2> QED
    BY <1>2, <1>3, <2>1 DEF Errors, Working
<1>7. CASE DescribeRequest
  <2>1. CASE Fail("schema")
    BY <1>2, <2>1 DEF Errors
  <2>2. CASE /\ operation' = [operation EXCEPT !.parameters = Parameters(Def),
                                               !.body = RequestBody(Def),
                                               !.security = SecurityName(Def)]
             /\ phase' = "apply" /\ Stay
    <3>1. OperationShape(operation) /\ phase \in Working
      BY <1>7 DEF Inductive, Making, DescribeRequest, Working
    <3>2. operation'.parameters = Parameters(Def)
      BY <2>2, <3>1 DEF OperationShape
    <3>3. UNCHANGED <<definitions, paths>> /\ Def' = Def
      BY <2>2 DEF Stay, Def
    <3> QED
      BY <2>2, <3>1, <3>2, <3>3 DEF Templated
  <2> QED
    BY <1>7, <2>1, <2>2 DEF DescribeRequest
<1>8. CASE ApplyOperation
  <2>1. phase = "apply" /\ MuxAccepts /\ UNCHANGED <<definitions, at, pending, operation>>
    BY <1>8 DEF ApplyOperation
  <2>2. CASE Publish
    <3> DEFINE new == Place(Def)
    <3>1. /\ DOMAIN paths' = DOMAIN paths \cup {new}
          /\ paths'[new] = operation /\ \A e \in DOMAIN paths : paths'[e] = paths[e]
      BY <2>1, <2>2, PublishKeeps
    <3>2. operation.of = at /\ PlanCompiles(Def) /\ operation.parameters = Parameters(Def)
      BY <2>1 DEF Inductive, Cursor, Templated, Working
    <3> HIDE DEF new
    <3>3. \A e \in DOMAIN paths' :
            /\ PlanCompiles(definitions[paths'[e].of])
            /\ paths'[e].parameters = Parameters(definitions[paths'[e].of])
      BY <3>1, <3>2 DEF Templated, Def
    <3>4. phase' = "next"
      BY <2>2 DEF Publish
    <3> QED
      BY <2>1, <3>3, <3>4 DEF Templated, Working
  <2>3. CASE phase' = "scheme" /\ UNCHANGED paths
    BY <2>1, <2>3 DEF Templated, Working
  <2> QED
    BY <1>8, <2>2, <2>3 DEF ApplyOperation
<1>9. CASE RefusePattern \/ RefuseMethod
  BY <1>2, <1>9 DEF RefusePattern, RefuseMethod, Errors
<1>10. CASE Finish
  BY <1>10 DEF Finish, Templated, Working
<1>11. CASE UNCHANGED vars
  <2>1. UNCHANGED <<definitions, at, phase, operation, paths>> /\ Def' = Def
    BY <1>11 DEF vars, Def
  <2> QED
    BY <2>1 DEF Templated
<1> QED
  BY <1>4, <1>5, <1>6, <1>7, <1>8, <1>9, <1>10, <1>11 DEF Next

SegmentType == [kind : {"literal", "param"}, name : STRING, constraint : STRING]
ParamAt(route) == {i \in DOMAIN route.segs : route.segs[i].kind = "param"}

LEMMA NamesOfSegments ==
  ASSUME NEW route
  PROVE  /\ \A i \in ParamAt(route) : route.segs[i].name \in ParameterNames(route)
         /\ \A name \in ParameterNames(route) : \E i \in ParamAt(route) : route.segs[i].name = name
<1>1. \A i \in ParamAt(route) : route.segs[i] \in {s \in Segments(route) : s.kind = "param"}
  BY DEF ParamAt, Segments
<1>2. \A s \in Segments(route) : \E i \in DOMAIN route.segs : route.segs[i] = s
  BY DEF Segments
<1> QED
  BY <1>1, <1>2 DEF ParameterNames, ParamAt

\* Dropping the constraints of a path keeps its parameters.
LEMMA TemplateNames ==
  ASSUME NEW route, route.segs \in Seq(SegmentType)
  PROVE  ParameterNames(OpenAPIPath(route)) = ParameterNames(route)
<1> DEFINE segs == route.segs
           plain == OpenAPIPath(route).segs
<1>1. plain = [i \in DOMAIN segs |-> [segs[i] EXCEPT !.constraint = ""]]
  BY DEF OpenAPIPath, Path, Unconstrained
<1>2. ASSUME NEW i \in DOMAIN segs
      PROVE  plain[i].kind = segs[i].kind /\ plain[i].name = segs[i].name
  <2>1. segs[i] \in SegmentType
    BY <1>2, ElementOfSeq, LenProperties
  <2>2. plain[i] = [segs[i] EXCEPT !.constraint = ""]
    BY <1>1
  <2> HIDE DEF segs, plain
  <2> QED
    BY <2>1, <2>2 DEF SegmentType
<1>3. DOMAIN plain = DOMAIN segs
  BY <1>1
<1> HIDE DEF segs, plain
<1>4. ParamAt(OpenAPIPath(route)) = ParamAt(route)
  BY <1>2, <1>3 DEF ParamAt, segs, plain
<1>5. \A i \in ParamAt(route) : OpenAPIPath(route).segs[i].name = route.segs[i].name
  BY <1>2 DEF ParamAt, segs, plain
<1>6. ParameterNames(OpenAPIPath(route)) \subseteq ParameterNames(route)
  BY <1>4, <1>5, NamesOfSegments
<1>7. ParameterNames(route) \subseteq ParameterNames(OpenAPIPath(route))
  BY <1>4, <1>5, NamesOfSegments
<1> QED
  BY <1>6, <1>7

\* Things that are told apart by their names are as many as their names.
LEMMA AsManyAsNames ==
  ASSUME NEW S, NEW T, IsFiniteSet(S), NEW f \in [S -> T],
         \A x, y \in S : f[x] = f[y] => x = y,
         \A t \in T : \E x \in S : f[x] = t
  PROVE  Cardinality(S) = Cardinality(T)
<1>1. f \in Surjection(S, T) /\ f \in Injection(S, T)
  BY DEF Surjection, Injection, IsInjective
<1> QED
  BY <1>1, FS_Surjection

\* A route that parses has every name once.
LEMMA RouteParameters ==
  ASSUME NEW route, route.segs \in Seq(SegmentType), ParseAccepts(route)
  PROVE  /\ {route.segs[i].name : i \in ParamAt(route)} = ParameterNames(route)
         /\ Cardinality(ParamAt(route)) = Cardinality(ParameterNames(route))
<1> DEFINE f == [i \in ParamAt(route) |-> route.segs[i].name]
<1>1. \A i, j \in ParamAt(route) : route.segs[i].name = route.segs[j].name => i = j
  BY DEF ParamAt, ParseAccepts
<1>2. IsFiniteSet(ParamAt(route))
  <2>1. DOMAIN route.segs = 1..Len(route.segs) /\ Len(route.segs) \in Nat
    BY LenProperties
  <2>2. IsFiniteSet(1..Len(route.segs))
    BY <2>1, FS_Interval
  <2> QED
    BY <2>1, <2>2, FS_Subset DEF ParamAt
<1>3. /\ f \in [ParamAt(route) -> ParameterNames(route)]
      /\ \A i \in ParamAt(route) : f[i] = route.segs[i].name
  BY NamesOfSegments
<1> HIDE DEF f
<1>4. Cardinality(ParamAt(route)) = Cardinality(ParameterNames(route))
  <2>1. \A i, j \in ParamAt(route) : f[i] = f[j] => i = j
    BY <1>1, <1>3
  <2>2. \A name \in ParameterNames(route) : \E i \in ParamAt(route) : f[i] = name
    BY <1>3, NamesOfSegments
  <2> QED
    BY <1>2, <1>3, <2>1, <2>2, AsManyAsNames
<1> QED
  BY <1>4, NamesOfSegments

InPath(parameters) == {i \in DOMAIN parameters : parameters[i].in = "path"}
PathNames(parameters) == {parameters[i].name : i \in InPath(parameters)}

\* The parameters of an operation are those of its path.
LEMMA ParametersMatch ==
  ASSUME NEW d \in Definitions, PlanCompiles(d)
  PROVE  LET parameters == Parameters(d)
         IN /\ PathNames(parameters) = ParameterNames(d.route)
            /\ Cardinality(InPath(parameters)) = Cardinality(ParameterNames(d.route))
            /\ \A i \in InPath(parameters) :
                 /\ parameters[i].required
                 /\ parameters[i].schema = ConstraintOf(d.route, parameters[i].name)
<1> DEFINE parameters == Parameters(d)
           inPath == InPath(parameters)
           route == d.route
           fields == d.fields
<1>1. route.segs \in Seq(SegmentType) /\ ParseAccepts(route)
  BY DocumentAssumption DEF IsDefinition, SegmentType
<1> HIDE DEF route, fields, parameters, inPath
<1>4. parameters = Parameters(d) /\ inPath = {i \in DOMAIN parameters : parameters[i].in = "path"}
  BY DEF parameters, inPath, InPath
<1>2. CASE d.raw
  <2>1. /\ DOMAIN parameters = ParamAt(route)
        /\ \A i \in ParamAt(route) :
             parameters[i] = Parameter(route.segs[i].name, "path", TRUE,
                                       ConstraintOf(route, route.segs[i].name))
    BY <1>2, <1>4 DEF Parameters, ParamAt, route
  <2>2. \A i \in ParamAt(route) :
          /\ parameters[i].name = route.segs[i].name /\ parameters[i].in = "path"
          /\ parameters[i].required = TRUE
          /\ parameters[i].schema = ConstraintOf(route, route.segs[i].name)
    BY <2>1 DEF Parameter
  <2>3. inPath = ParamAt(route)
    BY <1>4, <2>1, <2>2
  <2>4. {parameters[i].name : i \in inPath} = {route.segs[i].name : i \in ParamAt(route)}
    BY <2>2, <2>3
  <2> QED
    BY <1>1, <2>2, <2>3, <2>4, RouteParameters DEF route, parameters, inPath, PathNames
<1>3. CASE ~d.raw
  <2> DEFINE bound == {i \in DOMAIN fields : fields[i].in = "path"}
  <2>1. /\ DOMAIN parameters = {i \in DOMAIN fields : fields[i].in # "body"}
        /\ \A i \in DOMAIN parameters : parameters[i] = FieldParameter(d, fields[i])
    BY <1>3, <1>4 DEF Parameters, IsParameter, fields
  <2>2. ASSUME NEW i \in DOMAIN parameters
        PROVE  /\ parameters[i].in = fields[i].in /\ parameters[i].name = fields[i].name
               /\ fields[i].in = "path" =>
                    /\ parameters[i].required = TRUE
                    /\ parameters[i].schema = ConstraintOf(route, fields[i].name)
    <3> DEFINE f == fields[i]
    <3>1. parameters[i] = FieldParameter(d, f)
      BY <2>1, <2>2
    <3> HIDE DEF f
    <3>2. CASE f.in = "path"
      <4>1. parameters[i] = Parameter(f.name, "path", TRUE, ConstraintOf(route, f.name))
        BY <3>1, <3>2 DEF FieldParameter, route
      <4> QED
        BY <3>2, <4>1 DEF Parameter, f
    <3>3. CASE f.in # "path"
      <4>1. parameters[i] = Parameter(f.name, f.in, f.required, f.type)
        BY <3>1, <3>3 DEF FieldParameter
      <4> QED
        BY <3>3, <4>1 DEF Parameter, f
    <3> QED
      BY <3>2, <3>3
  <2>3. inPath = bound
    BY <1>4, <2>1, <2>2
  <2>4. {parameters[i].name : i \in inPath} = Named(fields, "path")
    BY <2>1, <2>2, <2>3, ZenonT(60) DEF Named
  <2>5. /\ Named(fields, "path") = ParameterNames(route)
        /\ Count(fields, "path") = Cardinality(Named(fields, "path"))
    BY <1>3 DEF PlanCompiles, fields, route
  <2>6. Cardinality(inPath) = Count(fields, "path")
    BY <2>3 DEF Count
  <2> QED
    BY <2>1, <2>2, <2>3, <2>4, <2>5, <2>6 DEF route, parameters, inPath, PathNames
<1> QED
  BY <1>2, <1>3

\* The parameters documented for a path are those of its template, each once,
\* required, and with the constraint of its segment (openapi.go:98-131).
THEOREM ParametersHold == Spec => []ParametersMatchTemplate
<1>1. Init => Templated
  <2>1. DOMAIN <<>> = {}
    OBVIOUS
  <2> QED
    BY <2>1 DEF Init, Templated, Working
<1>2. Inductive /\ Templated /\ [Next]_vars => Templated'
  BY TemplatedKeeps
<1>3. Inductive /\ Templated => ParametersMatchTemplate
  <2> SUFFICES ASSUME Inductive, Templated, NEW e \in DOMAIN paths
               PROVE  LET o == paths[e]
                          inPath == {i \in DOMAIN o.parameters : o.parameters[i].in = "path"}
                      IN /\ {o.parameters[i].name : i \in inPath} = ParameterNames(e[1])
                         /\ Cardinality(inPath) = Cardinality(ParameterNames(e[1]))
                         /\ \A i \in inPath :
                              LET p == o.parameters[i]
                              IN p.required /\ p.schema = ConstraintOf(definitions[o.of].route, p.name)
    BY DEF ParametersMatchTemplate
  <2> DEFINE d == definitions[paths[e].of]
  <2>1. d \in Definitions /\ PlanCompiles(d) /\ paths[e].parameters = Parameters(d) /\ e = Place(d)
    <3>1. paths[e].of \in 1..at /\ at \in 0..Len(definitions) /\ definitions \in Seq(Definitions)
      BY DEF Inductive, Written, Cursor
    <3>2. paths[e].of \in DOMAIN definitions
      BY <3>1, LenProperties
    <3> QED
      BY <3>1, <3>2, ElementOfSeq DEF Templated, Inductive, Written
  <2>2. e[1] = OpenAPIPath(d.route)
    BY <2>1 DEF Place
  <2>3. ParameterNames(e[1]) = ParameterNames(d.route)
    <3>1. d.route.segs \in Seq(SegmentType)
      BY <2>1, DocumentAssumption DEF IsDefinition, SegmentType
    <3> QED
      BY <2>2, <3>1, TemplateNames
  <2> DEFINE parameters == paths[e].parameters
  <2> HIDE DEF d
  <2>4. /\ PathNames(parameters) = ParameterNames(d.route)
        /\ Cardinality(InPath(parameters)) = Cardinality(ParameterNames(d.route))
        /\ \A i \in InPath(parameters) :
             /\ parameters[i].required
             /\ parameters[i].schema = ConstraintOf(d.route, parameters[i].name)
    BY <2>1, ParametersMatch
  <2> QED
    BY <2>3, <2>4 DEF d, PathNames, InPath
<1> QED
  BY <1>1, <1>2, <1>3, DocumentInvariant, PTL DEF Spec

---------------------------------------------------------------------------
(* What a conflict of patterns is, in terms of requests. *)

\* The segments of a mux pattern, and a pattern, over these texts: what a request
\* may have between its slashes, and the names of segments and parameters.
MuxSegments(texts) == [kind : {"literal", "param"}, name : texts, constraint : {""}]
IsPattern(p, texts) == p.segs \in Seq(MuxSegments(texts)) /\ p.tail \in {"none", "end", "rest"}

\* Requests with these methods and these texts between the slashes.
Requests(methods, texts) == [method : methods, segs : Seq(texts), slash : BOOLEAN]

\* A pattern takes paths of n texts, with or without a final slash.
LengthFits(p, n, slash) ==
  IF p.tail = "rest" THEN n > Len(p.segs) \/ (n = Len(p.segs) /\ slash)
  ELSE n = Len(p.segs) /\ (slash <=> p.tail = "end")

\* A pattern serves a request.
Serves(p, r) ==
  /\ MethodCovers(p.method, r.method)
  /\ LengthFits(p, Len(r.segs), r.slash)
  /\ \A i \in DOMAIN p.segs : p.segs[i].kind = "param" \/ r.segs[i] = p.segs[i].name

\* A segment by its fields.
IsSegment(s, texts) ==
  /\ s.kind \in {"literal", "param"} /\ s.name \in texts
  /\ s = [kind |-> s.kind, name |-> s.name, constraint |-> ""]

\* p serves every request that q serves.
ServesAll(p, q, methods, texts) ==
  \A r \in Requests(methods, texts) : Serves(q, r) => Serves(p, r)

LEMMA SegmentParts ==
  ASSUME NEW texts, NEW s \in MuxSegments(texts)
  PROVE  IsSegment(s, texts)
BY DEF MuxSegments, IsSegment

LEMMA SegmentFields ==
  ASSUME NEW texts, NEW s, IsSegment(s, texts)
  PROVE  /\ s.kind \in {"literal", "param"} /\ s.name \in texts
         /\ (s.kind # "param") = (s.kind = "literal")
BY DEF IsSegment

LEMMA SameSegment ==
  ASSUME NEW texts, NEW s, NEW t, IsSegment(s, texts), IsSegment(t, texts),
         s.kind # "param", t.kind # "param", s.name = t.name
  PROVE  s = t
<1>1. s.kind = t.kind
  BY DEF IsSegment
<1> QED
  BY <1>1 DEF IsSegment

LEMMA PatternSegments ==
  ASSUME NEW texts, NEW p, IsPattern(p, texts)
  PROVE  /\ Len(p.segs) \in Nat /\ DOMAIN p.segs = 1 .. Len(p.segs)
         /\ p.tail \in {"none", "end", "rest"}
         /\ \A i \in 1 .. Len(p.segs) : IsSegment(p.segs[i], texts)
<1>1. /\ Len(p.segs) \in Nat /\ DOMAIN p.segs = 1 .. Len(p.segs)
      /\ \A i \in 1 .. Len(p.segs) : p.segs[i] \in MuxSegments(texts)
  BY LenProperties, ElementOfSeq DEF IsPattern
<1>2. \A i \in 1 .. Len(p.segs) : IsSegment(p.segs[i], texts)
  BY <1>1, SegmentParts
<1> QED
  BY <1>1, <1>2 DEF IsPattern

\* What a request is made of: n texts, those of a pattern where they are literal.
LEMMA FilledRequest ==
  ASSUME NEW methods, NEW texts, NEW m \in methods, NEW slash \in BOOLEAN,
         NEW n \in Nat, NEW fill \in [1 .. n -> texts]
  PROVE  LET r == [method |-> m, segs |-> fill, slash |-> slash]
         IN r \in Requests(methods, texts) /\ Len(r.segs) = n
<1>1. fill \in Seq(texts) /\ Len(fill) = n
  BY IsASeq
<1> QED
  BY <1>1 DEF Requests

\* A pattern covers another if it serves whatever that serves.
LEMMA CoversSound ==
  ASSUME NEW methods, NEW texts, NEW p, NEW q, IsPattern(p, texts), IsPattern(q, texts),
         PatternCovers(p, q), NEW r \in Requests(methods, texts), Serves(q, r)
  PROVE  Serves(p, r)
<1>1. /\ Len(p.segs) \in Nat /\ DOMAIN p.segs = 1 .. Len(p.segs)
      /\ Len(q.segs) \in Nat /\ DOMAIN q.segs = 1 .. Len(q.segs)
      /\ p.tail \in {"none", "end", "rest"} /\ q.tail \in {"none", "end", "rest"}
  BY PatternSegments
<1>2. Len(r.segs) \in Nat /\ r.slash \in BOOLEAN
  BY LenProperties DEF Requests
<1>3. MethodCovers(p.method, r.method)
  BY DEF PatternCovers, Serves, MethodCovers
<1>4. TailReaches(p, q) /\ LengthFits(q, Len(r.segs), r.slash)
  BY DEF PatternCovers, PathCovers, Serves
<1>5. LengthFits(p, Len(r.segs), r.slash) /\ Len(p.segs) <= Len(q.segs)
  BY <1>1, <1>2, <1>4 DEF TailReaches, LengthFits
<1>6. ASSUME NEW i \in DOMAIN p.segs, p.segs[i].kind # "param"
      PROVE  r.segs[i] = p.segs[i].name
  <2>1. i \in DOMAIN q.segs /\ p.segs[i] = q.segs[i]
    BY <1>1, <1>5, <1>6 DEF PatternCovers, PathCovers, SegmentCovers
  <2> QED
    BY <1>6, <2>1 DEF Serves
<1> QED
  BY <1>3, <1>5, <1>6 DEF Serves

\* The requests that have the texts of a pattern where it is literal, and the same
\* text elsewhere.
Filling(q, n, c) ==
  [i \in 1 .. n |-> IF i <= Len(q.segs) /\ q.segs[i].kind = "literal" THEN q.segs[i].name ELSE c]
Filled(q, n, c) == [method |-> q.method, segs |-> Filling(q, n, c), slash |-> q.tail # "none"]

\* A request of n texts is not too short or too long for the pattern.
Allowed(q, n) == n = Len(q.segs) \/ (q.tail = "rest" /\ n > Len(q.segs))

LEMMA FilledServed ==
  ASSUME NEW methods, NEW texts, NEW q, IsPattern(q, texts), q.method \in methods, NEW c \in texts,
         NEW n \in Nat, Allowed(q, n)
  PROVE  /\ Filled(q, n, c) \in Requests(methods, texts) /\ Len(Filled(q, n, c).segs) = n
         /\ Serves(q, Filled(q, n, c))
<1>1. /\ Len(q.segs) \in Nat /\ DOMAIN q.segs = 1 .. Len(q.segs)
      /\ q.tail \in {"none", "end", "rest"}
      /\ \A i \in 1 .. Len(q.segs) : IsSegment(q.segs[i], texts)
  BY PatternSegments
<1>2. ASSUME NEW i \in 1 .. n
      PROVE  Filling(q, n, c)[i] \in texts
  <2>1. CASE i <= Len(q.segs) /\ q.segs[i].kind = "literal"
    <3>1. q.segs[i].name \in texts
      <4>1. IsSegment(q.segs[i], texts)
        BY <1>1, <2>1
      <4> QED
        BY <4>1, SegmentFields
    <3> QED
      BY <2>1, <3>1 DEF Filling
  <2>2. CASE ~(i <= Len(q.segs) /\ q.segs[i].kind = "literal")
    BY <2>2 DEF Filling
  <2> QED
    BY <2>1, <2>2
<1>3. Filling(q, n, c) \in [1 .. n -> texts]
  BY <1>2 DEF Filling
<1>4. Filled(q, n, c) \in Requests(methods, texts) /\ Len(Filled(q, n, c).segs) = n
  <2> DEFINE fill == Filling(q, n, c)
             slash == (q.tail # "none")
  <2>1. fill \in [1 .. n -> texts] /\ slash \in BOOLEAN
    BY <1>3
  <2>2. Filled(q, n, c) = [method |-> q.method, segs |-> fill, slash |-> slash]
    BY DEF Filled
  <2> HIDE DEF fill, slash
  <2>3. /\ [method |-> q.method, segs |-> fill, slash |-> slash] \in Requests(methods, texts)
        /\ Len([method |-> q.method, segs |-> fill, slash |-> slash].segs) = n
    BY <2>1, FilledRequest
  <2> QED
    BY <2>2, <2>3
<1>5. LengthFits(q, n, q.tail # "none")
  BY <1>1 DEF LengthFits, Allowed
<1>6. MethodCovers(q.method, q.method)
  BY DEF MethodCovers
<1>7. ASSUME NEW i \in DOMAIN q.segs, q.segs[i].kind # "param"
      PROVE  Filling(q, n, c)[i] = q.segs[i].name
  <2>1. i \in 1 .. n /\ i <= Len(q.segs) /\ q.segs[i].kind = "literal"
    <3>1. i \in 1 .. n /\ i <= Len(q.segs) /\ IsSegment(q.segs[i], texts)
      BY <1>1, <1>7 DEF Allowed
    <3> QED
      BY <1>7, <3>1, SegmentFields
  <2> QED
    BY <2>1 DEF Filling
<1> QED
  BY <1>4, <1>5, <1>6, <1>7 DEF Serves, Filled

LEMMA CoversComplete ==
  ASSUME NEW methods, NEW texts, NEW p, NEW q, IsPattern(p, texts), IsPattern(q, texts),
         q.method \in methods, NEW a \in texts, NEW b \in texts, a # b,
         ServesAll(p, q, methods, texts)
  PROVE  PatternCovers(p, q)
<1> DEFINE n == Len(q.segs)
<1>1. /\ Len(p.segs) \in Nat /\ DOMAIN p.segs = 1 .. Len(p.segs)
      /\ n \in Nat /\ DOMAIN q.segs = 1 .. n
      /\ p.tail \in {"none", "end", "rest"} /\ q.tail \in {"none", "end", "rest"}
      /\ \A i \in 1 .. Len(p.segs) : IsSegment(p.segs[i], texts)
      /\ \A i \in 1 .. n : IsSegment(q.segs[i], texts)
  BY PatternSegments
<1>2. ASSUME NEW c \in texts
      PROVE  Serves(p, Filled(q, n, c)) /\ Len(Filled(q, n, c).segs) = n
  <2>1. n \in Nat /\ Allowed(q, n)
    BY <1>1 DEF Allowed
  <2> HIDE DEF n
  <2>2. /\ Filled(q, n, c) \in Requests(methods, texts) /\ Len(Filled(q, n, c).segs) = n
        /\ Serves(q, Filled(q, n, c))
    BY <2>1, FilledServed
  <2> QED
    BY <2>2 DEF ServesAll
<1>3. MethodCovers(p.method, q.method) /\ LengthFits(p, n, q.tail # "none")
  BY <1>2 DEF Serves, Filled
<1>4. ASSUME q.tail = "rest", p.tail # "rest"
      PROVE  FALSE
  <2>1. n + 1 \in Nat /\ n + 1 > n
    BY <1>1
  <2>2. Serves(p, Filled(q, n + 1, a)) /\ Len(Filled(q, n + 1, a).segs) = n + 1
    <3> DEFINE k == n + 1
    <3>1. k \in Nat /\ Allowed(q, k)
      BY <1>4, <2>1 DEF Allowed
    <3> HIDE DEF k
    <3>2. /\ Filled(q, k, a) \in Requests(methods, texts) /\ Len(Filled(q, k, a).segs) = k
          /\ Serves(q, Filled(q, k, a))
      BY <3>1, FilledServed
    <3>3. Serves(p, Filled(q, k, a))
      BY <3>2 DEF ServesAll
    <3> QED
      BY <3>2, <3>3 DEF k
  <2>3. LengthFits(p, n + 1, q.tail # "none")
    BY <2>2 DEF Serves, Filled
  <2> QED
    BY <1>1, <1>3, <1>4, <2>3 DEF LengthFits
<1>5. TailReaches(p, q) /\ Len(p.segs) <= n
  BY <1>1, <1>3, <1>4 DEF TailReaches, LengthFits
<1>6. ASSUME NEW i \in DOMAIN p.segs, p.segs[i].kind # "param"
      PROVE  p.segs[i] = q.segs[i]
  <2>1. i \in 1 .. n /\ i \in 1 .. Len(p.segs)
    BY <1>1, <1>5
  <2>2. ASSUME NEW c \in texts
        PROVE  Filling(q, n, c)[i] = p.segs[i].name
    BY <1>2, <1>6 DEF Serves, Filled
  <2>3. CASE q.segs[i].kind = "literal"
    <3>1. Filling(q, n, a)[i] = q.segs[i].name
      BY <1>1, <2>1, <2>3 DEF Filling
    <3>2. q.segs[i].name = p.segs[i].name
      BY <2>2, <3>1
    <3>3. IsSegment(p.segs[i], texts) /\ IsSegment(q.segs[i], texts)
      BY <1>1, <2>1
    <3> QED
      BY <1>6, <2>3, <3>2, <3>3, SameSegment
  <2>4. CASE q.segs[i].kind # "literal"
    <3>1. Filling(q, n, a)[i] = a /\ Filling(q, n, b)[i] = b
      BY <2>1, <2>4 DEF Filling
    <3> QED
      BY <2>2, <3>1
  <2> QED
    BY <2>3, <2>4
<1>7. PathCovers(p, q)
  BY <1>5, <1>6 DEF PathCovers, SegmentCovers
<1> QED
  BY <1>3, <1>7 DEF PatternCovers

\* Two patterns meet if they serve a common request.
LEMMA MeetsSound ==
  ASSUME NEW methods, NEW texts, NEW p, NEW q, IsPattern(p, texts), IsPattern(q, texts),
         NEW r \in Requests(methods, texts), Serves(p, r), Serves(q, r)
  PROVE  PatternsMeet(p, q)
<1>1. /\ Len(p.segs) \in Nat /\ DOMAIN p.segs = 1 .. Len(p.segs)
      /\ Len(q.segs) \in Nat /\ DOMAIN q.segs = 1 .. Len(q.segs)
      /\ p.tail \in {"none", "end", "rest"} /\ q.tail \in {"none", "end", "rest"}
      /\ \A i \in 1 .. Len(p.segs) : IsSegment(p.segs[i], texts)
      /\ \A i \in 1 .. Len(q.segs) : IsSegment(q.segs[i], texts)
  BY PatternSegments
<1>2. Len(r.segs) \in Nat /\ r.slash \in BOOLEAN
  BY LenProperties DEF Requests
<1>3. MethodCovers(p.method, q.method) \/ MethodCovers(q.method, p.method)
  BY DEF Serves, MethodCovers
<1>4. LengthFits(p, Len(r.segs), r.slash) /\ LengthFits(q, Len(r.segs), r.slash)
  BY DEF Serves
<1>5. TailReaches(p, q) \/ TailReaches(q, p)
  BY <1>1, <1>2, <1>4 DEF TailReaches, LengthFits
<1>6. ASSUME NEW i \in DOMAIN p.segs \cap DOMAIN q.segs,
             p.segs[i].kind # "param", q.segs[i].kind # "param"
      PROVE  p.segs[i] = q.segs[i]
  <2>1. p.segs[i].name = q.segs[i].name
    BY <1>6 DEF Serves
  <2>2. IsSegment(p.segs[i], texts) /\ IsSegment(q.segs[i], texts)
    BY <1>1
  <2> QED
    BY <1>6, <2>1, <2>2, SameSegment
<1> QED
  BY <1>3, <1>5, <1>6 DEF PatternsMeet, PathsMeet, SegmentsMeet

\* The request that both serve, when the length of q is one that p allows.
LEMMA MeetsComplete ==
  ASSUME NEW methods, NEW texts, NEW p, NEW q, IsPattern(p, texts), IsPattern(q, texts),
         p.method \in methods, q.method \in methods, NEW a \in texts,
         MethodCovers(p.method, q.method) \/ MethodCovers(q.method, p.method),
         TailReaches(p, q),
         \A i \in DOMAIN p.segs \cap DOMAIN q.segs : SegmentsMeet(p.segs[i], q.segs[i])
  PROVE  \E r \in Requests(methods, texts) : Serves(p, r) /\ Serves(q, r)
<1> DEFINE n == Len(q.segs)
           m == IF MethodCovers(p.method, q.method) THEN q.method ELSE p.method
           Text(i) == IF q.segs[i].kind = "literal" THEN q.segs[i].name
                      ELSE IF i <= Len(p.segs) /\ p.segs[i].kind = "literal" THEN p.segs[i].name
                      ELSE a
           fill == [i \in 1 .. n |-> Text(i)]
           r == [method |-> m, segs |-> fill, slash |-> q.tail # "none"]
<1>1. /\ Len(p.segs) \in Nat /\ DOMAIN p.segs = 1 .. Len(p.segs)
      /\ n \in Nat /\ DOMAIN q.segs = 1 .. n
      /\ p.tail \in {"none", "end", "rest"} /\ q.tail \in {"none", "end", "rest"}
      /\ \A i \in 1 .. Len(p.segs) : IsSegment(p.segs[i], texts)
      /\ \A i \in 1 .. n : IsSegment(q.segs[i], texts)
  BY PatternSegments
<1>2. ASSUME NEW i \in 1 .. n
      PROVE  Text(i) \in texts
  <2>1. q.segs[i].name \in texts
    BY <1>1, SegmentFields
  <2>2. i <= Len(p.segs) => p.segs[i].name \in texts
    <3>1. i <= Len(p.segs) => i \in 1 .. Len(p.segs)
      BY <1>1
    <3> QED
      BY <1>1, <3>1, SegmentFields
  <2> QED
    BY <2>1, <2>2
<1> HIDE DEF Text
<1>3. fill \in [1 .. n -> texts]
  BY <1>2
<1>4. m \in methods /\ (q.tail # "none") \in BOOLEAN
  OBVIOUS
<1> HIDE DEF m
<1>5. r \in Requests(methods, texts) /\ Len(fill) = n
  <2> DEFINE slash == (q.tail # "none")
  <2>1. slash \in BOOLEAN /\ n \in Nat
    BY <1>1
  <2> HIDE DEF fill, n, slash
  <2>2. LET t == [method |-> m, segs |-> fill, slash |-> slash]
        IN t \in Requests(methods, texts) /\ Len(t.segs) = n
    BY <1>3, <1>4, <2>1, FilledRequest
  <2> QED
    BY <2>2 DEF slash
<1>6. MethodCovers(p.method, m) /\ MethodCovers(q.method, m)
  BY DEF MethodCovers, m
<1>7. LengthFits(p, n, q.tail # "none") /\ LengthFits(q, n, q.tail # "none")
  BY <1>1 DEF TailReaches, LengthFits
<1>8. Len(p.segs) <= n
  BY <1>1 DEF TailReaches
<1>9. ASSUME NEW i \in DOMAIN q.segs, q.segs[i].kind # "param"
      PROVE  fill[i] = q.segs[i].name
  <2>1. i \in 1 .. n /\ q.segs[i].kind = "literal"
    BY <1>1, <1>9, SegmentFields
  <2> QED
    BY <2>1 DEF Text
<1>10. ASSUME NEW i \in DOMAIN p.segs, p.segs[i].kind # "param"
       PROVE  fill[i] = p.segs[i].name
  <2>1. /\ i \in 1 .. n /\ i \in 1 .. Len(p.segs) /\ i <= Len(p.segs)
        /\ p.segs[i].kind = "literal"
        /\ i \in DOMAIN p.segs \cap DOMAIN q.segs
    <3>1. i \in 1 .. n /\ i \in 1 .. Len(p.segs) /\ i <= Len(p.segs)
      BY <1>1, <1>8, <1>10
    <3>2. IsSegment(p.segs[i], texts)
      BY <1>1, <3>1
    <3> QED
      BY <1>1, <1>10, <3>1, <3>2, SegmentFields
  <2>2. q.segs[i].kind = "param" \/ p.segs[i] = q.segs[i]
    BY <1>10, <2>1 DEF SegmentsMeet
  <2> QED
    BY <2>1, <2>2 DEF Text
<1> HIDE DEF fill, n
<1> QED
  BY <1>5, <1>6, <1>7, <1>9, <1>10 DEF Serves

\* Conflict compares two patterns segment by segment; this is what it means.
\* ServeMux refuses two patterns of one build (app.go:223 hands it each) exactly
\* when some request is served by both and neither is more specific: each serves
\* all that the other serves, or neither does.  For patterns of any
\* length and any methods, over at least two texts.
THEOREM ConflictMeans ==
  ASSUME NEW methods, NEW texts, NEW a \in texts, NEW b \in texts, a # b,
         NEW p, NEW q, IsPattern(p, texts), IsPattern(q, texts),
         p.method \in methods, q.method \in methods
  PROVE  Conflict(p, q) <=>
           /\ \E r \in Requests(methods, texts) : Serves(p, r) /\ Serves(q, r)
           /\ ServesAll(p, q, methods, texts) <=> ServesAll(q, p, methods, texts)
<1>1. PatternCovers(p, q) <=> ServesAll(p, q, methods, texts)
  <2>1. ASSUME PatternCovers(p, q)
        PROVE  ServesAll(p, q, methods, texts)
    BY <2>1, CoversSound DEF ServesAll
  <2>2. ASSUME ServesAll(p, q, methods, texts)
        PROVE  PatternCovers(p, q)
    BY <2>2, CoversComplete
  <2> QED
    BY <2>1, <2>2
<1>2. PatternCovers(q, p) <=> ServesAll(q, p, methods, texts)
  <2>1. ASSUME PatternCovers(q, p)
        PROVE  ServesAll(q, p, methods, texts)
    BY <2>1, CoversSound DEF ServesAll
  <2>2. ASSUME ServesAll(q, p, methods, texts)
        PROVE  PatternCovers(q, p)
    BY <2>2, CoversComplete
  <2> QED
    BY <2>1, <2>2
<1>3. ASSUME PatternsMeet(p, q)
      PROVE  \E r \in Requests(methods, texts) : Serves(p, r) /\ Serves(q, r)
  <2>1. CASE TailReaches(p, q)
    BY <1>3, <2>1, MeetsComplete DEF PatternsMeet, PathsMeet
  <2>2. CASE TailReaches(q, p)
    <3>1. \A i \in DOMAIN q.segs \cap DOMAIN p.segs : SegmentsMeet(q.segs[i], p.segs[i])
      BY <1>3 DEF PatternsMeet, PathsMeet, SegmentsMeet
    <3>2. \E r \in Requests(methods, texts) : Serves(q, r) /\ Serves(p, r)
      BY <1>3, <2>2, <3>1, MeetsComplete DEF PatternsMeet
    <3> QED
      BY <3>2
  <2> QED
    BY <1>3, <2>1, <2>2 DEF PatternsMeet, PathsMeet
<1>4. PatternsMeet(p, q) <=> \E r \in Requests(methods, texts) : Serves(p, r) /\ Serves(q, r)
  BY <1>3, MeetsSound
<1> QED
  BY <1>1, <1>2, <1>4 DEF Conflict
=============================================================================
