-------------------------- MODULE RequestPipeline --------------------------
(***************************************************************************)
(* One request through the handler that App.Build returns: the carrier,    *)
(* panic recovery with its response state, the application middleware, the *)
(* ServeMux, the security check of the selected operation, its scoped      *)
(* middleware, and the typed or raw endpoint.  Middleware, raw handlers,   *)
(* providers and validators are user code: they write, flush, hijack, call *)
(* next again, hand on another context, panic and recover as they like,    *)
(* up to the bounds.  net/http is what the recovery layer writes to.       *)
(***************************************************************************)
EXTENDS Naturals

CONSTANTS
  Outer, Scoped,   \* how many application and how many scoped middlewares
  Operations,      \* the operations the router may select
  Principals, NoPrincipal, NoOperation,
  Results,         \* what a typed handler may return
  UserStatuses,    \* what user code may pass to WriteHeader
  Configs,         \* see ConfigType
  FreshContexts,   \* whether middleware may hand on a context without the carrier
  MaxActs,         \* bound: writes, flushes, hijacks and panics of user code
  MaxNext          \* bound: calls of next by one activation of a middleware

Router == Outer + 1
Endpoint == Router + Scoped + 1
MiddlewareLevels == (1..Endpoint) \ {Router, Endpoint}

Securities == {"none", "legacy", "bearer", "basic", "apiKey"}

\* authorization: a feature and a permission are required.  body: the input has a
\* JSON body.  checked: the route of a raw operation has a constraint but string.
OperationType ==
  [id : Nat, typed : BOOLEAN, security : Securities, authorization : BOOLEAN,
   validation : BOOLEAN, body : BOOLEAN, checked : BOOLEAN]

\* formatter: what Format and json.Marshal of its result do.
\* direct: the capabilities the writer below recovery itself has; it has the
\* others only behind Unwrap.
ConfigType ==
  [recovery : BOOLEAN, formatter : {"sound", "broken", "explosive"},
   handlerPanics : BOOLEAN, direct : SUBSET {"flush", "hijack"}]

\* payload: what json.Marshal makes of the body, or a Fail result.
ResultType ==
  [status : Nat, payload : {"none", "value", "error", "panic", "failure"}, noStore : BOOLEAN]

ASSUME ShapeAssumption ==
  /\ Outer \in Nat /\ Scoped \in Nat
  /\ MaxActs \in Nat /\ MaxNext \in Nat
  /\ FreshContexts \subseteq BOOLEAN /\ FALSE \in FreshContexts
  /\ UserStatuses \subseteq Nat
ASSUME OperationsAssumption ==
  /\ Operations \subseteq OperationType
  /\ \A o \in Operations : o.security = "legacy" => o.authorization
  /\ NoOperation \notin Operations /\ NoPrincipal \notin Principals
ASSUME ValuesAssumption == Results \subseteq ResultType /\ Configs \subseteq ConfigType

VARIABLES
  config,
  level, step,     \* which layer runs, and where in it
  panicking,       \* a panic is unwinding the stack
  acts, nexts,     \* what user code has left; calls of next per middleware
  operation, principal,   \* locals of the operation's entry handler
  cleared,         \* history: the gates this pass through the router has cleared
  result,          \* the typed handler's result, until it is written
  response,        \* the response state, and the wire behind it
  ctx,             \* the carrier each layer's context holds
  carriers         \* the carriers' contents

vars == <<config, level, step, panicking, acts, nexts, operation, principal, cleared,
          result, response, ctx, carriers>>
scope == <<operation, principal, cleared, result>>
contexts == <<ctx, carriers>>

CarrierNames == {"app", "operation"}
Gates == {"selected", "authenticated", "authorized", "bound", "validated", "constraints"}
Authors == {"user", "mux", "document", "failure", "result", "recovery", "server"}
ContentTypes == {"json", "failure", "problem"}
HeaderNames == ContentTypes \cup {"challenge", "result", "no-store"}
Ends == {"answered", "recovered", "escaped"}

ResponseType ==
  [status : Nat, author : Authors \cup {"nobody"}, body : SUBSET Authors, hijacked : BOOLEAN,
   header : SUBSET HeaderNames, sent : SUBSET HeaderNames, wroteHeader : BOOLEAN]

---------------------------------------------------------------------------
(* What net/http does with a response (external). *)

Interim(status) == status \in (100..199) \ {101}

ServerWriteHeader(r, status, who) ==
  IF r.hijacked \/ r.status # 0 \/ Interim(status)
  THEN r
  ELSE [r EXCEPT !.status = status, !.author = who, !.sent = r.header]

ServerPanics(r, status) == ~r.hijacked /\ r.status = 0 /\ status \notin 100..999

RefusesBody(r) == r.hijacked \/ r.status \in (100..199) \cup {204, 304}

ServerWrite(r, who) ==
  LET committed == ServerWriteHeader(r, 200, who)
  IN IF RefusesBody(committed) THEN committed ELSE [committed EXCEPT !.body = @ \cup {who}]

---------------------------------------------------------------------------
(* recovery.go: the response state.  Without recovery the layers write to  *)
(* the server themselves.                                                  *)

\* Mutant: every WriteHeader marks the state, a 103 Early Hints too.
WriteHeaderInterim(r, status, who) ==
  IF ~config.recovery THEN ServerWriteHeader(r, status, who)
  ELSE IF r.wroteHeader THEN r
  ELSE [ServerWriteHeader(r, status, who) EXCEPT !.wroteHeader = TRUE]

WriteHeader(r, status, who) ==
  IF ~config.recovery THEN ServerWriteHeader(r, status, who)
  ELSE IF r.wroteHeader THEN r
  ELSE [ServerWriteHeader(r, status, who) EXCEPT !.wroteHeader = ~Interim(status)]

Write(r, who) ==
  ServerWrite(IF r.wroteHeader THEN r ELSE WriteHeader(r, 200, who), who)

\* Mutant: the capability wrapper passes Flush straight on.
FlushThrough(r) == ServerWriteHeader(r, 200, "user")

\* http.ResponseController reaches a writer that cannot flush through Unwrap.
Flush(r) ==
  IF "flush" \in config.direct
  THEN IF r.wroteHeader THEN r ELSE WriteHeader(r, 200, "user")
  ELSE ServerWriteHeader(r, 200, "user")

Hijack(r) ==
  [r EXCEPT !.hijacked = TRUE,
            !.wroteHeader = @ \/ (config.recovery /\ "hijack" \in config.direct)]

SetHeader(r, names) ==
  [r EXCEPT !.header =
     (IF names \cap ContentTypes = {} THEN @ ELSE @ \ ContentTypes) \cup names]

---------------------------------------------------------------------------
(* Writing a failure.  What a write may lead to is a set of outcomes: the  *)
(* response it leaves, and whether it panicked.                            *)

Outcome(r, panics) == [response |-> r, panics |-> panics]

\* The body follows the status; when the connection refuses it, or is gone,
\* the error is reported.
Deliver(r, who, reportPanics) ==
  {Outcome(r, reportPanics)}
    \cup (IF RefusesBody(r) THEN {} ELSE {Outcome(Write(r, who), FALSE)})

\* Mutant: the headers are set once the status is out.
WritePayloadLate(r, status, type, who, reportPanics) ==
  Deliver(SetHeader(WriteHeader(r, status, who), {type, "no-store"}), who, reportPanics)

WritePayload(r, status, type, who, reportPanics) ==
  Deliver(WriteHeader(SetHeader(r, {type, "no-store"}), status, who), who, reportPanics)

Normalize(status) == IF status \in 400..599 THEN status ELSE 500

WriteResolved(r, status, who, reportPanics) ==
  CASE config.formatter = "sound" ->
         WritePayload(r, Normalize(status), "failure", who, reportPanics)
    [] config.formatter = "broken" ->
         IF reportPanics THEN {Outcome(r, TRUE)}
         ELSE WritePayload(r, 500, "problem", who, reportPanics)
    [] config.formatter = "explosive" -> {Outcome(r, TRUE)}

---------------------------------------------------------------------------
(* Moving between the layers. *)

Goto(l, s) == level' = l /\ step' = s

\* Mutant: a scoped middleware returns into the router.
BelowRouter(l) == l - 1

\* Nothing of the router and of the entry handler runs after next returns.
Below(l) == IF l = Router + 1 THEN Outer ELSE l - 1

Leave == LET l == Below(level) IN Goto(l, IF l = 0 THEN "server" ELSE "user")

\* Mutant: the entry handler makes a carrier of its own.
WithOperationInfoCopied(o) ==
  /\ ctx' = [ctx EXCEPT ![Router + 1] = "operation"]
  /\ carriers' = [carriers EXCEPT !["operation"] = [operation |-> o, principal |-> NoPrincipal]]

\* Mutant: a carrier that already names an operation keeps it.
WithOperationInfoOnce(o) ==
  LET c == IF ctx[Router] = "none" THEN "operation" ELSE ctx[Router]
  IN /\ ctx' = [ctx EXCEPT ![Router + 1] = c]
     /\ carriers' = [carriers EXCEPT ![c].operation = IF @ = NoOperation THEN o ELSE @]

\* The context the entry handler works with, and will hand on.
WithOperationInfo(o) ==
  IF ctx[Router] = "none"
  THEN /\ ctx' = [ctx EXCEPT ![Router + 1] = "operation"]
       /\ carriers' = [carriers EXCEPT !["operation"] = [operation |-> o, principal |-> NoPrincipal]]
  ELSE /\ ctx' = [ctx EXCEPT ![Router + 1] = ctx[Router]]
       /\ carriers' = [carriers EXCEPT ![ctx[Router]].operation = o]

\* Mutant: a carrier that already has a principal keeps it.
WithPrincipalOnce(p) ==
  carriers' = [carriers EXCEPT ![ctx[Router + 1]].principal = IF @ = NoPrincipal THEN p ELSE @]

WithPrincipal(p) ==
  carriers' = [carriers EXCEPT ![ctx[Router + 1]].principal = p]

\* Layer l starts, with the context c; n counts the calls of next so far.
Enter(l, c, n) ==
  /\ ctx' = [ctx EXCEPT ![l] = c]
  /\ nexts' = [k \in MiddlewareLevels |-> IF k = l THEN 0 ELSE n[k]]
  /\ Goto(l, CASE l = Router -> "route"
               [] l = Endpoint -> IF operation.typed THEN "bind" ELSE "constraints"
               [] OTHER -> "user")

\* A framework layer ends with one of the outcomes of its last write.
Answer(outcomes) ==
  /\ \E o \in outcomes : response' = o.response /\ panicking' = o.panics
  /\ Leave

Fail(status) == Answer(WriteResolved(response, status, "failure", config.handlerPanics))

FrameworkPanics == panicking' = TRUE /\ Leave /\ UNCHANGED response

---------------------------------------------------------------------------
(* User code: a middleware, or the handler of a raw operation.  Deferred   *)
(* functions run, and write, while a panic unwinds.                        *)

UserRuns == step = "user"

Act == UserRuns /\ acts > 0 /\ acts' = acts - 1

UserWriteHeader ==
  /\ Act
  /\ \E status \in UserStatuses :
       IF ServerPanics(response, status)
       THEN panicking' = TRUE /\ UNCHANGED response
       ELSE response' = WriteHeader(response, status, "user") /\ UNCHANGED panicking
  /\ UNCHANGED <<config, level, step, nexts, scope, contexts>>

UserWrite ==
  /\ Act
  /\ response' = Write(response, "user")
  /\ UNCHANGED <<config, level, step, panicking, nexts, scope, contexts>>

UserFlush ==
  /\ Act
  /\ response' = Flush(response)
  /\ UNCHANGED <<config, level, step, panicking, nexts, scope, contexts>>

\* A second Hijack fails and changes nothing.
UserHijack ==
  /\ Act
  /\ ~response.hijacked
  /\ response' = Hijack(response)
  /\ UNCHANGED <<config, level, step, panicking, nexts, scope, contexts>>

UserPanics ==
  /\ Act
  /\ panicking' = TRUE
  /\ UNCHANGED <<config, level, step, nexts, scope, response, contexts>>

UserRecovers ==
  /\ UserRuns /\ panicking
  /\ panicking' = FALSE
  /\ UNCHANGED <<config, level, step, acts, nexts, scope, response, contexts>>

UserReturns ==
  /\ UserRuns
  /\ Leave
  /\ UNCHANGED <<config, panicking, acts, nexts, scope, response, contexts>>

\* next.ServeHTTP.  A middleware that calls next again runs the inner layers again.
UserNext ==
  /\ UserRuns /\ ~panicking
  /\ level \in MiddlewareLevels /\ nexts[level] < MaxNext
  /\ \E fresh \in FreshContexts :
       Enter(level + 1, IF fresh THEN "none" ELSE ctx[level], [nexts EXCEPT ![level] = @ + 1])
  /\ cleared' = IF level = Outer THEN {} ELSE cleared \ {"bound", "validated", "constraints"}
  /\ UNCHANGED <<config, panicking, acts, operation, principal, result, response, carriers>>

---------------------------------------------------------------------------
(* operation/openapi.go: the failures an operation's document lists, beside *)
(* the responses the program declares.                                      *)

\* Mutant: only typed operations are refused.
DocumentedFailuresTyped(o) ==
  {500} \cup (IF o.typed THEN {400} ELSE {}) \cup (IF o.body THEN {413, 415} ELSE {})
    \cup (IF o.security # "none" THEN {401} ELSE {}) \cup (IF o.authorization THEN {403} ELSE {})

DocumentedFailures(o) ==
  {500}
    \cup (IF o.typed \/ o.checked THEN {400} ELSE {})
    \cup (IF o.typed /\ o.body THEN {413, 415} ELSE {})
    \cup (IF o.security # "none" THEN {401} ELSE {})
    \cup (IF o.authorization THEN {403} ELSE {})

---------------------------------------------------------------------------
(* The router, the documentation handlers and the entry handler. *)

At(s) == step = s

\* No pattern matches: ServeMux answers (external).
MuxAnswers ==
  /\ At("route")
  /\ \E status \in {307, 404, 405} :
       response' = Write(WriteHeader(response, status, "mux"), "mux")
  /\ Leave
  /\ UNCHANGED <<config, panicking, acts, nexts, scope, contexts>>

\* The OpenAPI document and Swagger UI: 200, 304 or 405, without a body to HEAD.
ServeDocument ==
  /\ At("route")
  /\ \E status \in {200, 304, 405}, head \in BOOLEAN :
       LET committed == WriteHeader(response, status, "document")
       IN response' = IF status = 304 \/ (head /\ status = 200)
                      THEN committed ELSE Write(committed, "document")
  /\ Leave
  /\ UNCHANGED <<config, panicking, acts, nexts, scope, contexts>>

SelectOperation ==
  /\ At("route")
  /\ \E o \in Operations : operation' = o /\ WithOperationInfo(o)
  /\ cleared' = {"selected"} /\ principal' = NoPrincipal
  /\ Goto(Router, "authenticate")
  /\ UNCHANGED <<config, panicking, acts, nexts, result, response>>

\* The challenge of a 401 or 403: always for legacy bearer security, for a
\* provider if its scheme is an http one (403: bearer).
Challenged(status) ==
  \/ operation.security \in {"legacy", "bearer"}
  \/ operation.security = "basic" /\ status = 401

\* Mutant: the challenge is left to the formatter.
SecurityFailureSilent(status) ==
  Answer(WriteResolved(response, status, "failure", config.handlerPanics))

SecurityFailure(status) ==
  Answer(WriteResolved(IF Challenged(status) THEN SetHeader(response, {"challenge"}) ELSE response,
                       status, "failure", config.handlerPanics))

Public ==
  /\ At("authenticate") /\ operation.security = "none"
  /\ Enter(Router + 1, ctx[Router + 1], nexts)
  /\ UNCHANGED <<config, panicking, acts, scope, response, carriers>>

\* A provider's principal is recorded before it is authorized.
Authenticate ==
  /\ At("authenticate") /\ operation.security # "none"
  /\ \E p \in Principals :
       /\ principal' = p
       /\ IF operation.security = "legacy" THEN UNCHANGED carriers ELSE WithPrincipal(p)
  /\ cleared' = cleared \cup {"authenticated"}
  /\ Goto(Router, "authorize")
  /\ UNCHANGED <<config, panicking, acts, nexts, operation, result, response, ctx>>

RefuseCredentials ==
  /\ At("authenticate") /\ operation.security # "none"
  /\ SecurityFailure(401)
  /\ UNCHANGED <<config, acts, nexts, scope, contexts>>

\* Without a feature and a permission there is nothing to authorize.
Authorize ==
  /\ At("authorize")
  /\ IF operation.security = "legacy" THEN WithPrincipal(principal) ELSE UNCHANGED carriers
  /\ cleared' = cleared \cup {"authorized"}
  /\ Enter(Router + 1, ctx[Router + 1], nexts)
  /\ UNCHANGED <<config, panicking, acts, operation, principal, result, response>>

\* Mutant: a refused principal is answered, and let in.
RefusePrincipalOpen ==
  /\ At("authorize") /\ operation.authorization
  /\ Enter(Router + 1, ctx[Router + 1], nexts)
  /\ UNCHANGED <<config, panicking, acts, scope, response, carriers>>

RefusePrincipal ==
  /\ At("authorize") /\ operation.authorization
  /\ SecurityFailure(403)
  /\ UNCHANGED <<config, acts, nexts, scope, contexts>>

\* The provider, the authenticator or the authorizer panics.
SecurityPanics ==
  /\ \/ At("authenticate") /\ operation.security # "none"
     \/ At("authorize") /\ operation.authorization
  /\ FrameworkPanics
  /\ UNCHANGED <<config, acts, nexts, scope, contexts>>

---------------------------------------------------------------------------
(* The endpoints. *)

Proceed(gate, s) ==
  /\ cleared' = cleared \cup {gate}
  /\ Goto(Endpoint, s)
  /\ UNCHANGED <<config, panicking, acts, nexts, operation, principal, result, response, contexts>>

Bind ==
  /\ At("bind")
  /\ Proceed("bound", IF operation.validation THEN "validate" ELSE "invoke")

\* A body too large or of another media type, or fields that do not bind.
RefuseRequest ==
  /\ At("bind")
  /\ \E status \in IF operation.body THEN {400, 413, 415} ELSE {400} : Fail(status)
  /\ UNCHANGED <<config, acts, nexts, scope, contexts>>

Validate == At("validate") /\ Proceed("validated", "invoke")

RefuseInput ==
  /\ At("validate")
  /\ Fail(400)
  /\ UNCHANGED <<config, acts, nexts, scope, contexts>>

CheckConstraints == At("constraints") /\ Proceed("constraints", "user")

RefuseParameters ==
  /\ At("constraints") /\ operation.checked
  /\ Fail(400)
  /\ UNCHANGED <<config, acts, nexts, scope, contexts>>

Invoke ==
  /\ At("invoke")
  /\ \E r \in Results : result' = r
  /\ Goto(Endpoint, "write")
  /\ UNCHANGED <<config, panicking, acts, nexts, operation, principal, cleared, response, contexts>>

NilResult ==
  /\ At("invoke")
  /\ Fail(500)
  /\ UNCHANGED <<config, acts, nexts, scope, contexts>>

\* An UnmarshalJSON, a validator or the typed handler panics.
EndpointPanics ==
  /\ step \in {"bind", "validate", "invoke"}
  /\ FrameworkPanics
  /\ UNCHANGED <<config, acts, nexts, scope, contexts>>

---------------------------------------------------------------------------
(* Result.WriteHTTPWithFailureFormatter. *)

StatusAllowsBody(status) == status \notin (100..199) \cup {204, 205, 304}

StatusOf(r) == IF r.status = 0 THEN 200 ELSE r.status

ValidStatus(r) == StatusOf(r) \in 200..599

Encodes(r) == StatusAllowsBody(StatusOf(r)) /\ r.payload # "none"

\* A result that cannot be written: the error is reported, then a 500 takes its place.
ReplaceResult(r) ==
  IF config.handlerPanics THEN {Outcome(r, TRUE)}
  ELSE WriteResolved(r, 500, "failure", config.handlerPanics)

\* Mutant: the status is committed before the body is encoded.
WriteResultEarly(r) ==
  LET typed == SetHeader(response, {"result", "json"})
      committed == WriteHeader(typed, StatusOf(r), "result")
  IN CASE r.payload = "error" -> ReplaceResult(committed)
       [] r.payload = "panic" -> {Outcome(committed, TRUE)}
       [] r.payload = "none" -> {Outcome(committed, FALSE)}
       [] r.payload = "failure" -> WriteResolved(response, StatusOf(r), "failure", config.handlerPanics)
       [] r.payload = "value" -> Deliver(committed, "result", config.handlerPanics)

WriteResult(r) ==
  LET tagged == SetHeader(response, {"result"})
      typed == IF StatusAllowsBody(StatusOf(r)) THEN SetHeader(tagged, {"json"}) ELSE tagged
      ready == IF r.noStore THEN SetHeader(typed, {"no-store"}) ELSE typed
      committed == WriteHeader(ready, StatusOf(r), "result")
  IN CASE ~ValidStatus(r) -> ReplaceResult(response)
       [] ValidStatus(r) /\ r.payload = "failure" ->
            WriteResolved(tagged, StatusOf(r), "failure", config.handlerPanics)
       [] ValidStatus(r) /\ r.payload = "error" /\ Encodes(r) -> ReplaceResult(tagged)
       [] ValidStatus(r) /\ r.payload = "panic" /\ Encodes(r) -> {Outcome(tagged, TRUE)}
       [] ValidStatus(r) /\ r.payload = "value" /\ Encodes(r) ->
            Deliver(committed, "result", config.handlerPanics)
       [] OTHER -> {Outcome(committed, FALSE)}

Respond ==
  /\ At("write")
  /\ Answer(WriteResult(result))
  /\ UNCHANGED <<config, acts, nexts, scope, contexts>>

---------------------------------------------------------------------------
(* Recovery, and the server's end of the request (external). *)

\* Mutant: the response state is not asked.
RecoverAlways ==
  /\ At("server") /\ panicking /\ config.recovery
  /\ \E o \in WriteResolved(response, 500, "recovery", FALSE) :
       /\ response' = o.response
       /\ panicking' = o.panics
       /\ step' = IF o.panics THEN "escaped" ELSE "recovered"
  /\ UNCHANGED <<config, level, acts, nexts, scope, contexts>>

\* The panic is reported under a recover of its own; the answer is not.
Recover ==
  /\ At("server") /\ panicking /\ config.recovery
  /\ \E o \in IF response.wroteHeader THEN {Outcome(response, FALSE)}
              ELSE WriteResolved(response, 500, "recovery", FALSE) :
       /\ response' = o.response
       /\ panicking' = o.panics
       /\ step' = IF o.panics THEN "escaped" ELSE "recovered"
  /\ UNCHANGED <<config, level, acts, nexts, scope, contexts>>

PanicEscapes ==
  /\ At("server") /\ panicking /\ ~config.recovery
  /\ step' = "escaped"
  /\ UNCHANGED <<config, level, panicking, acts, nexts, scope, response, contexts>>

\* net/http commits 200 for a handler that wrote nothing.
Finish ==
  /\ At("server") /\ ~panicking
  /\ response' = ServerWriteHeader(response, 200, "server")
  /\ step' = "answered"
  /\ UNCHANGED <<config, level, panicking, acts, nexts, scope, contexts>>

Ended == step \in Ends /\ UNCHANGED vars

---------------------------------------------------------------------------
Init ==
  /\ config \in Configs
  /\ level = 1 /\ step = IF Outer = 0 THEN "route" ELSE "user"
  /\ panicking = FALSE
  /\ acts = MaxActs /\ nexts = [l \in MiddlewareLevels |-> 0]
  /\ operation = NoOperation /\ principal = NoPrincipal
  /\ cleared = {} /\ result = [status |-> 0, payload |-> "none", noStore |-> FALSE]
  /\ response = [status |-> 0, author |-> "nobody", body |-> {}, hijacked |-> FALSE,
                 header |-> {}, sent |-> {}, wroteHeader |-> FALSE]
  /\ ctx = [l \in 1..Endpoint |-> IF l = 1 THEN "app" ELSE "none"]
  /\ carriers = [c \in CarrierNames |-> [operation |-> NoOperation, principal |-> NoPrincipal]]

User ==
  \/ UserWriteHeader \/ UserWrite \/ UserFlush \/ UserHijack
  \/ UserPanics \/ UserRecovers \/ UserReturns \/ UserNext

Entry ==
  \/ MuxAnswers \/ ServeDocument \/ SelectOperation \/ Public
  \/ Authenticate \/ RefuseCredentials \/ Authorize \/ RefusePrincipal \/ SecurityPanics

Handle ==
  \/ Bind \/ RefuseRequest \/ Validate \/ RefuseInput
  \/ CheckConstraints \/ RefuseParameters
  \/ Invoke \/ NilResult \/ EndpointPanics \/ Respond

Server == Recover \/ PanicEscapes \/ Finish \/ Ended

Next == User \/ Entry \/ Handle \/ Server

Spec == Init /\ [][Next]_vars

---------------------------------------------------------------------------
(* Properties. *)

Committed == response.status # 0 \/ response.hijacked

StepsAt(l) ==
  CASE l = 0 -> {"server"} \cup Ends
    [] l = Router -> {"route", "authenticate", "authorize"}
    [] l = Endpoint -> {"bind", "validate", "invoke", "write", "constraints", "user"}
    [] OTHER -> {"user"}

\* Every variable has its type, and the program point belongs to the layer that
\* runs: a scoped middleware never returns into the middle of the router.
TypeOK ==
  /\ config \in Configs
  /\ level \in 0..Endpoint /\ step \in StepsAt(level)
  /\ panicking \in BOOLEAN
  /\ acts \in 0..MaxActs /\ nexts \in [MiddlewareLevels -> 0..MaxNext]
  /\ operation \in Operations \cup {NoOperation}
  /\ principal \in Principals \cup {NoPrincipal}
  /\ cleared \subseteq Gates
  /\ result \in ResultType /\ response \in ResponseType
  /\ ctx \in [1..Endpoint -> CarrierNames \cup {"none"}]
  /\ carriers \in [CarrierNames -> [operation : Operations \cup {NoOperation},
                                    principal : Principals \cup {NoPrincipal}]]

\* While the request runs, recovery's wroteHeader says whether the response is
\* committed or the connection taken over: never when it is not, and always
\* when the writer below has Flush and Hijack itself (recovery.go).
StateFollowsWire ==
  config.recovery /\ step \notin Ends =>
    /\ response.wroteHeader => Committed
    /\ config.direct = {"flush", "hijack"} /\ Committed => response.wroteHeader

\* Recovery adds nothing to a response another layer has committed: a client
\* never gets the 500 behind the bytes of another answer.
OneResponse ==
  "recovery" \in response.body => response.author = "recovery"

\* A panic that reaches recovery is settled there: the request ends with a
\* response somebody committed or a hijacked connection, never with the
\* server's own empty 200 and never with the panic going on.
PanicAnswered ==
  step \in {"recovered", "escaped"} /\ config.recovery =>
    /\ step = "recovered" /\ Committed
    /\ response.author = "recovery" => response.status = 500

\* A result commits its status only if it is valid and its body was encoded, and
\* writes a body only under a status that allows one; what replaces it is a 4xx or 5xx.
NoFalseSuccess ==
  [][/\ response'.author = "result" /\ response.author # "result" =>
          /\ ValidStatus(result) /\ response'.status = StatusOf(result)
          /\ Encodes(result) => result.payload = "value"
          /\ "result" \in response'.body => StatusAllowsBody(response'.status)
     /\ response'.author = "failure" /\ response.author # "failure" =>
          response'.status \in 400..599]_vars

\* Scoped middleware and handlers of a secured operation run only in a pass that
\* authenticated and authorized, and see that operation and that very principal
\* in their context, whatever an earlier pass left in the carrier; a handler
\* runs only on a request that was bound and validated.
HandlerGuarded ==
  level > Router =>
    /\ operation.security # "none" => {"authenticated", "authorized"} \subseteq cleared
    /\ ctx[level] # "none" =>
         /\ carriers[ctx[level]].operation = operation
         /\ operation.security # "none" => carriers[ctx[level]].principal = principal
    /\ step \in {"invoke", "write"} =>
         "bound" \in cleared /\ (operation.validation => "validated" \in cleared)
    /\ level = Endpoint /\ step = "user" => "constraints" \in cleared

\* An application middleware whose carrier reached the router finds there, once
\* a pass that selected an operation has returned or panicked, that operation and
\* the principal a provider authenticated, however often next is called and with
\* which contexts; the legacy integration records a principal only with its
\* authorization (middleware.go:37).
OuterSeesRequest ==
  step = "user" /\ level <= Outer /\ "selected" \in cleared
    /\ ctx[Router] = "app" /\ ctx[level] = "app" =>
    /\ carriers["app"].operation = operation
    /\ principal # NoPrincipal /\ operation.security \in {"bearer", "basic", "apiKey"} =>
         carriers["app"].principal = principal

\* A failure the framework answers with is a 4xx or 5xx, in the formatter's (or
\* the fallback's) media type, and no cache may keep it, whatever headers were
\* pending when it was written.
FailureSealed ==
  response.author \in {"failure", "recovery"} =>
    /\ response.status \in 400..599
    /\ response.sent \cap ContentTypes \in {{"failure"}, {"problem"}}
    /\ "no-store" \in response.sent

\* Every status the framework refuses or fails a request with is in the document
\* of its operation: the compiler lists them without having seen the handlers.
FailuresDocumented ==
  [][response'.author \in {"failure", "recovery"} /\ response.author = "nobody"
       /\ operation # NoOperation
       /\ ~(step = "write" /\ result.payload = "failure")
     => response'.status \in DocumentedFailures(operation)]_vars

\* A 401 that answers missing or refused credentials carries its challenge when
\* the scheme of the operation is an http one.
ChallengeSent ==
  [][step = "authenticate" /\ operation.security \in {"legacy", "bearer", "basic"}
       /\ response'.author = "failure" /\ response.author # "failure"
       /\ response'.status = 401
     => "challenge" \in response'.sent]_vars
=============================================================================
