# A TLA+ model of oashttp

oashttp is a Go library: a program configures an `App` (middleware, groups,
typed and raw operations, documentation routes), calls `Build` once, and serves
the `http.Handler` it returns. This directory holds specifications of what is
stateful in it, the TLC configurations that check them and the TLAPS proofs
about them. Paths below are relative to the repository.

## Inventory

| Component | State | Operations | Talks to |
|---|---|---|---|
| App (`app.go`, `config.go`, `docs.go`) | `mu`, `buildOnce`, `config`, `frozen`, `middlewares`, `operations`, `openAPIPath`, `swagger`, `builtHandler`, `builtErr` | `New`, `Use`, `MapOpenAPI`, `MapSwaggerUI`, `Build`, `MustBuild` | compiles operations, registers with `ServeMux`, calls middleware factories and providers |
| Groups and builders (`group.go`, `group_registration.go`, `map.go`, `raw.go`, `operation.go`) | a group's prefix and middlewares; an operation's `Definition`, shared by pointer with the App | `App.Group`, `Group.Group`, `Group.Use`, `Map*`, `MapHandler`, the fluent methods | take `App.mu`, refuse or panic when frozen |
| Routes (`internal/route`) | none | `Parse`, the constraints | `ServeMux` patterns, OpenAPI paths |
| Operation compiler (`internal/operation`) | none (a registry per build) | `Compile`: definition, route, plans, document, handler | binding, validation, schema, failure |
| Document (`openapi_build.go`, `internal/oas31`) | the document being built | `applyCompiledOperation`, `setPathOperation`, `openAPISecurityScheme` | providers |
| Recovery (`recovery.go`) | `responseState.wroteHeader` | `WriteHeader`, `Write`, `Flush`, `Hijack`, `Unwrap`, recover | failure writer, `net/http` |
| Entry handler (`internal/operation/runtime.go`, `internal/security`) | one request's context, operation, principal | authenticate, authorize, challenge, endpoint | carrier, failure writer, providers |
| Carrier (`internal/core/operation.go`) | operation and principal of the request | `WithOperationCarrier`, `WithOperationInfo`, `WithPrincipal` | outer and scoped middleware read it |
| Results, failures (`result.go`, `internal/failure`) | pending headers | write a result, replace it, write a failure or the fallback | the response writer |
| Binding (`internal/binding`) | a compiled plan; the input being filled | `Compile`, `Bind`, `decodeBody`, the scalars | the route's constraints, the endpoint |
| Validation rules (`internal/validationrule`, `internal/validation`) | a compiled plan | parse a tag, compile a struct, validate a value | the schema's keywords, the endpoint |
| Schema registry (`internal/schema`) | components, names, types being described | `Ref`, component names, JSON fields, tags | the compiler, the document |

What is hard: goroutines that configure an App while another builds it, from
copies and shared pointers, after the lock is released; user code called in the
middle of a build, that calls back and panics; a build that judges a
configuration in one pass; and, per request, several layers of user code that
write, flush, hijack, panic, recover, call `next` again or swap the context,
around a recovery layer that has to know whether a response is out. The rest is
sequential, and hard in another way: recursive and embedded Go types walked by
three algorithms that must agree, names and paths told apart by several keys,
bounds that are integers of a width, and requests judged field by field.

What makes each component correct:

- App: nothing changes after the freeze and the build works on exactly what was
  frozen; every `Build` returns the same outcome; the outcome depends on the
  configuration only; no deadlock with user code.
- Groups, routes: the built handler serves, and the document describes, every
  operation; configurations that cannot be served are refused at build time.
- Recovery: it adds nothing to a response that is out, and every panic it sees
  is answered.
- Entry handler and carrier: handlers of secured operations run only after
  authentication and authorization, and every layer reads the operation and the
  principal of the present pass.
- Results and failures: no success status for a body that was not encoded; a
  failure is 4xx or 5xx, in its own media type, never cached, and documented.
- Binding: the verdict on a struct does not depend on the order of its fields,
  nor that on a request; a handler sees what was sent, all of it.
- Validation and schema: both accept the same values and constrain the same
  fields; the documented fields are those of `encoding/json`.
- Schema registry: a component per type, whatever the names and the recursion;
  every reference resolves; the descent ends.
- Document: nothing declared is lost, parameters are those of the path, every
  requirement has its scheme, every operation its place.

## Modules

| Module | What it is |
|---|---|
| `Routing` | Prefixes, joined paths, templates, `ServeMux` patterns and when two conflict. Operators only. |
| `AppLifecycle` | The App, its groups and operations, and `Build`, with any number of goroutines. |
| `FreezeOnce` | What an App promises: changeable until frozen, then judged at most once, by a verdict that depends on the frozen configuration alone. |
| `AppLifecycleProofs` | The proofs about `AppLifecycle`: the freeze, the lock, the snapshot, the once; what `Build` decides and leaves; that the App implements `FreezeOnce`. |
| `MCAppLifecycle` | Menus of calls and configurations for its runs. |
| `GroupInheritance` | `AppLifecycle` with a history of calls, and what an operation inherits by that history. |
| `GroupInheritanceProofs` | The proofs about `GroupInheritance`; extends `AppLifecycleProofs`. |
| `MCGroupInheritance` | Four scenarios of programs for the run `lifecycle_verdict`. |
| `RequestPipeline` | One request through carrier, recovery, application middleware, router, entry handler, scoped middleware and endpoint. |
| `RequestPipelineProofs` | The proofs about `RequestPipeline`: the response, the gates, what a step may write, what the application middlewares see. |
| `MCRequestPipeline`, `MCPipelineScenarios` | Operations, results and configurations for its runs; two scenarios in one run. |
| `RequestBinding`, `MCRequestBinding` | An input struct compiled to a plan, and one request bound to it, up to the handler. |
| `RequestBindingProofs` | The proofs about `RequestBinding`. |
| `StructFields`, `MCStructFields` | The fields of a struct that its schema documents and its validation plan visits, against `encoding/json`. |
| `StructFieldsProofs` | The proofs about `StructFields`. |
| `FieldRules`, `MCFieldRules` | The rules of one field: parsed, documented, applied to a value. |
| `FieldRulesProofs` | The proofs about `FieldRules`. |
| `SchemaRegistry`, `MCSchemaRegistry` | The registry: components, names and recursion. |
| `SchemaRegistryProofs` | The proofs about `SchemaRegistry`. |
| `OperationDocument`, `MCOperationDocument` | The OpenAPI document of one build: responses, parameters, bodies, security, paths. |
| `OperationDocumentProofs` | The proofs about `OperationDocument`, and what a conflict of `Routing`'s patterns is in terms of requests. |

`AppLifecycle` extends `Routing` and instantiates `FreezeOnce` under a
refinement mapping (`Promise`); `GroupInheritance` extends `AppLifecycle`, and
`OperationDocument` extends `Routing`. The others stand alone and meet at what
they take as an input: `AppLifecycle` takes from a Go type only who refuses it
(`shape`), `RequestPipeline` from a request whether it binds and validates,
`OperationDocument` from the registry which types have a schema.

### AppLifecycle and the code

The variables are the fields of `App` (`mu` is its owner or `Nobody`; `once` and
`runner` are the state of `buildOnce`), the `groups` handed out, the locals of
`build` (`snap`, `at`, `operationIDs`, `registered`, `compiled`, `document`,
`handler`) and, for each goroutine, where it is (`pc`), the call it makes and
what it returned. `returns` is a history of what `Build` returned.

A configuration call is two or three steps: it starts (or is refused by the
checks the code makes before it locks), waits for `mu` (`Lock`), and runs its
critical section as one step, which is what the deferred `Unlock` makes of it.
`build` is one step per iteration of its loops, cut where user code runs: the
factories and schema methods called while an operation is compiled, a provider's
`SecurityScheme`, a middleware factory. During such a cut (`pc = "user"`) the
goroutine may start configuration calls of its own, return, or panic. Between any two
steps every other goroutine may move. `operations` is not copied into `snap`:
the code copies pointers, so only how many there are is fixed.

A path is a sequence of segments, literal or parameter, and whether it ends in a
slash. A definition keeps what the build checks of it: what becomes of its Go
types is one field, `shape` (sound, or refused by binding, by the validation
rules or by the schema), its texts are one field, `notes`. A configuration keeps
whether its first checks pass, whether the formatter can be described, recovery, the
authenticator and the providers. Not modelled: calling `Build` from inside the
build, which `sync.Once` forbids; nil receivers and nil handlers, which panic
before anything happens.

### RequestPipeline and the code

One request, one goroutine. The stack of handlers is `level`, from 1 (the
outermost application middleware) through the router to the endpoint; 0 is
recovery and the server. `step` is where the current layer is. User code
(`step = "user"`) may write a status, write, flush, hijack, panic, recover,
return and call `next`, with the context it got or a fresh one. A panic unwinds
layer by layer, so a deferred function of a middleware can still write or
recover. `response` has both the recovery layer's view (`wroteHeader`) and the
wire (`status`, `author`, `body`, the headers `sent`), so that the two can be
compared; `ServerWriteHeader`, `ServerWrite` and the rest say what `net/http`
does. `config.direct` says which of `Flusher` and `Hijacker` the server's writer
has itself; it has the others behind `Unwrap`. `ctx` names the carrier in each
layer's context, `carriers` holds their contents. `cleared` is a history of the
gates the present pass has gone through.

A write of a body either succeeds or fails, and a failed one calls
`Config.ErrorHandler`, which may panic (`handlerPanics`).

### GroupInheritance and the code

`AppLifecycle` models what the code does: `Group.Group`, `registerGroupOperation`
and `OperationBuilder.Use` copy slices of middlewares when they are called.
`GroupInheritance` adds only a history: `log`, the calls that took effect in the
order of their critical sections, and which of them made each group (`made`) and
mapped each operation (`mapped`). From that alone it says which middlewares an
operation should have: a call reaches an operation (`Reaches`) if it gave them to
the operation, or if the operation's group hears it (`Hears`), because it is
that group's own or that of a group above (`Line`) from before the next group
below was made. The list must hold what those calls gave, in their order
(`Lists`). A copy made too early, too late or not at all shows as a difference.

### RequestBinding and the code

`CompileField`, `RefuseField` and `CompileEnd` are the loop of `binding.Compile`
over an arbitrary struct, one field a step; `Receive` takes any request for the
compiled plan; `BindPath`, `BindValues` and the `Body...` actions are one turn
of `Plan.Bind` each, in the order of the fields; `RefuseFields`, `RefuseInput`
and `Handle` are what `typedEndpoint` does with the outcome. The arithmetic on
the body limit wraps at `MaxInt` as `int64` does. Which text reads as which
scalar is a table (`Scan`), what a JSON document decodes to is one of five
outcomes; the connection may fail at any byte, before or after the limit. `required` is
documented for every field that binding compiles, and enforced for the fields that
the validation plan holds (`Validated`), which leaves out those tagged `json:"-"`.

### StructFields, FieldRules and the code

`StructFields` declares arbitrary struct types; one step, `Compile`, resolves the
JSON fields of one (`ResolveJSONFields`, as `jsonfields.go` does) and compiles its
validation plan (`CompileStruct`). Both walk down the type, and a walk is modelled by
the paths it goes: sequences of the places of fields, each in the type of the one
before, that come to a type at most once, which is what the code's stack of visited
types means (`Walks`). A field of the outcome is its path, as the code's index path is.
The two sides stop at different structs: the schema at those that describe themselves,
`time.Time`, `UUID` and those with a `MarshalText` (`SchemaLeaves`), the plan at package
`time`, `UUID` and those with an `UnmarshalText` (`PlanLeaves`). The lists are constants of
their own, so a struct may be on one, on both or on none.
`EncodingJSON` states level by level what `encoding/json` selects.

`FieldRules` takes one field with arbitrary rules: `ParseRule` and
`RefuseRule` are `validationrule`, `ApplyTag` and `Finish` the rule-by-rule
writing of keywords (`schema/tags.go`), `CheckRule` the rule-by-rule validation
of a value (`validation/rules.go`). Numbers go through `Float`, which loses the
last bit above `Precision` as `float64` does above 2^53. A type has a kind, which is
what rules and keywords go by; how the schema describes it (`described`: by the kind,
as a string, or by its own `JSONSchema`); and which JSON its values are read from
(`reads`: that of the kind, or what `UnmarshalJSON` or `UnmarshalText` take, whose
result is `Reads`). `SchemaAccepts` is what a JSON Schema validator makes of the outcome.

### SchemaRegistry and the code

The recursion of `schemaFor` and `structSchema` is a stack of `frames`, so a type
may be met again at any depth; `components`, `names` and `used` are the
registry's maps. `EnterNamed` puts the placeholder, `CloseNamed` fills it,
`Unwind` takes it back when an error goes up, and `Exhaust` is the end of a
goroutine's stack, at `MaxFrames`. A schema is the set of component names it
refers to. What it should refer to is `NamedIn`: the named structs that the inline
types it holds lead to, where the inline types are the least set closed under parts. `Ref` is called in any order, since the compiler visits responses in
the order of a Go map.

### OperationDocument and the code

One operation after another: `BeginOperation` (the checks that come before the
document), one `DocumentResponse` per declared response in any order,
`AddFailureResponses`, `DescribeRequest` (parameters, body, security), and
`ApplyOperation`, which writes into the path and the components, with a provider
that is asked again for its scheme each time and may answer otherwise. `answers`
is a history of those answers. A schema is the type it describes. The parameters of
an operation are a function by the place they come from (a field of the struct, a
segment of the route), since their order carries nothing.

## Runs

| Run | Instance | What it asks | States |
|---|---|---|---|
| `lifecycle_concurrent` | 2 goroutines, 3 calls each, 13 calls in the menu, user code that calls back and panics, fairness | interleaved configuration and builds: the freeze, the lock, the once, every call returns, refinement of `FreezeOnce` | 521,000 |
| `lifecycle_verdict` | four scenarios, see below | the verdict on routes, IDs, documentation routes and contracts; the document; what is built can be served; the order of the layers; inherited middleware | 849,000 |
| `pipeline` | 1 outer and 1 scoped middleware; `next` once and 3 acts of user code, or `next` twice and 2 acts; 5 operations, 10 results, 8 configurations | the response, the failures, the gates, the carrier | 2.5 million |
| `binding` | structs of up to 4 fields with every flaw; parameters of every kind; bodies of 0 to 4 bytes, declared or not, limits 1, 2, 6 and 7, the largest integer; fields tagged `json:"-"` | the plan, the answer, what the handler sees | 4.1 million |
| `fields` | up to seven types of up to two fields: shadowing and cycles, nesting with rules, diamonds, structs at which the schema, the plan or both stop | the selection of `encoding/json`; schema and plan constrain the same | 1.8 million |
| `rules_agree` | 99 types: every kind, pointers, quoted, with a schema or a JSON form of their own; up to 2 of 29 rules, 7 numbers, strings or lengths | schema and validation accept the same | 1.3 million |
| `registry` | 3,903 graphs of seven types, equal and colliding names, recursion, refused types; two calls of `Ref`; fairness | names, components, references; every call ends | 846,000 |
| `document` | up to three of thirteen operations | responses, parameters, security, paths | 31,000 |

Several questions share a run where they share a module. A variable `scenario`,
chosen at the start and never changed, then restricts what the *program* or the
*request* chooses; the steps of the code are unrestricted.

- `lifecycle_verdict`: `routes` (two operations on ten patterns that are equal,
  nested, overlapping or disjoint), `documentation` (two documentation routes
  beside an operation, with up to two middlewares of the App), `contracts` (one operation
  with security, responses, media types and input types, under 9 configurations that lack
  what it needs), each with one goroutine, and `groups` (two goroutines, three calls each,
  on a group of the App, its child and grandchild). With one goroutine the calls that set
  up an operation commute, so `Settles` lets it give the App its middlewares first, make
  one group, finish an operation before it maps the next, set the fields in one order, and
  stop at the freeze: every configuration is still reached, which is all those properties
  look at. Later calls to a frozen App
  are the matter of `lifecycle_concurrent`.
- `pipeline`: in `once` each middleware calls `next` once, and the rest is free; in
  `twice` it may call it again, with two acts of user code, two results, the default
  configuration and only contexts that carry a carrier.
- `binding`, `fields`: each scenario has its own menu, so that flaws of structs,
  values of parameters, and bodies are not multiplied with each other.

The bounds are `MaxCalls` (calls by one goroutine), the menus, `MaxActs`,
`MaxNext`, `MaxFields`, `MaxRules`, `MaxOperations`, and `MaxFrames`. A built operation takes
five calls (group, operation, ID, response, build); the two goroutines of
`lifecycle_concurrent` have six between them, which leaves a racing call beside a
built handler. Conflicts are between two patterns, so two routes
are enough, and eight calls build two operations. In the pipeline three acts allow
the sequences that matter: commit or interim status, then panic, then a write of
a deferred function; and one middleware on each side of the router is enough
because every layer meets only the next one. Two rules are enough for a rule to
write over another; three types suffice for every shape of shadowing but the
diamond, which has five of its own. `MaxFrames` is above the deepest descent into the
types that are not lists of themselves (a struct is open at most once, and there is
at most one list between two of them), so that only endless ones reach it.
`Rest`, `Done` and `Ended` make stopping a step: a program need not make another call,
and a finished request stays finished, so a deadlock found by TLC is a real one.
Only `document` goes without the deadlock check: a document that is finished or
refused has no next step.

Four runs show a disagreement between the code and what the repository says, and
TLC must find each:

- `lifecycle_prefixes`: `app.Group("").Group("")` has the prefix `/`, and a
  route under it gets an empty segment, which the build then refuses.
- `lifecycle_aborted`: a panic of user code inside the first `Build` leaves the
  once done with neither handler nor error, so the next `Build` returns
  `(nil, nil)`.
- `pipeline_unwrap`: when the writer below recovery only flushes behind
  `Unwrap`, a flush commits a response the recovery layer does not notice, and a
  panic makes it append the 500 body.
- `pipeline_explosive`: a failure body whose `MarshalJSON` panics gets past the
  fallback and past recovery.

The passing runs of the pipeline take the configurations in which the last two
do not arise (`direct = {"flush", "hijack"}`, no exploding formatter);
`BuildVerdict` does not ask for a handler or an error when user code may panic.

### Other disagreements met while modelling

Each of these is a named exception of a passing property, which holds of everything
else that the module models. (What the modules leave out is listed at the end.)

| Exception | What the code does |
|---|---|
| `Unenforced` (`HandlerSeesRequest`) | A query parameter or header tagged `json:"-"` and `required` is documented as required (`internal/binding/compiler.go:75`) and is not in the validation plan (`internal/validation/compiler.go:57`): the handler runs without it. |
| validation off (`HandlerSeesRequest`) | Without validation, an absent parameter that the document calls required reaches the handler (`internal/binding/bind.go:56`). |
| `RequiredFails` (`Verdict`) | `required` refuses a parameter that was sent with the zero value, `?q=0` (`internal/validation/rules.go:18-23`). |
| `Repeated` (`RulesAgree`) | Of two bounds on one side the schema keeps the last, the validation applies both (`internal/schema/tags.go:43`). |
| `Inexact` | Bounds and integers are compared as `float64` (`internal/validation/rules.go:37`), the document states the rounded bound (`internal/schema/tags.go:146`). |
| `Misdescribed` | The schema is of another JSON type than the value: `slog.Level`, whose `MarshalText` makes it a string beside the keywords of a number (`internal/schema/reflector.go:58`), a type with an `UnmarshalText` alone, a `[]byte`; and of a `SchemaProvider` it is whatever that returns (`reflector.go:47`). |
| `Converted` | Rules other than `required` measure what a type's own method has read, keywords what was sent (`internal/validation/rules.go:66`). |
| `SpacedEmail` | `email` trims spaces before it parses (`internal/validation/rules.go:44`); the format does not allow them. |
| `Undocumented` | `e164`, and the rules of a quoted field, have no keyword. |
| `ZeroForNothing` | A property that is left out is validated as its zero value (`internal/validation/rules.go:24`). `null` is documented for a pointer only, and not for a pointer to a pointer, where it satisfies two branches of a `oneOf` (`internal/schema/reflector.go:45`). |
| `stringer` | `oneof` compares what a `String` method prints with literals of the tag (`internal/validation/rules.go:58`). |
| `BelowDiamond` (`SelectsLikeEncodingJSON`) | A field two embeddings below a type that is embedded twice is dropped as ambiguous; `encoding/json` keeps it (`internal/schema/jsonfields.go:163`). |
| not `Ordinary` (`OrdinaryAgree`) | Rules on list elements are documented and never validated (`internal/validation/compiler.go:73-81`); hidden and ambiguous fields are validated and not documented (`compiler.go:50-72`); so is a rule on an embedded field whose own fields are promoted (`compiler.go:66`, `jsonfields.go:164`); of a struct at which only one side stops, the fields are enforced and not documented (`JSONSchema`, or `MarshalText` alone) or documented and not enforced (`UnmarshalText` alone; `reflector.go:47-61`, `compiler.go:77`). |
| `EndlessLists` (`RefEnds`) | `type Tree map[string]Tree` is described until the stack is exhausted (`internal/schema/reflector.go:90`). |
| legacy security (`OuterSeesRequest`) | A legacy bearer 403 leaves no principal for the application middleware, a provider's 403 does (`internal/security/middleware.go:37`). |

One is stated and not excepted: `limit+1` overflows when `JSONBodyLimit` is the largest
`int64`, nothing is read (`internal/binding/body.go:24`), and `Verdict` and
`HandlerSeesRequest` say that whatever is sent then counts as an empty body (`BodyUnread`).

Two more are not excepted because no property asks about them: two fields of one
query name become two parameters of one operation (`internal/binding/compiler.go:82`), and
`GET /users/{id}` with `POST /users/{user}` gives two Path Items that OpenAPI
calls identical (`openapi_build.go:26`).

## Fairness

`CallsReturn` (`AppLifecycle`) and `RefEnds` (`SchemaRegistry`) need it.
`Fairness` of `AppLifecycle` is strong fairness of `Proceed(g)` for each goroutine: one
that waits for the mutex and can take it again and again gets it (Go's
`sync.Mutex` hands over to a waiter that starves), one inside a critical section or
the build is scheduled, and user code called by the build returns or panics. `FairSpec`
of `SchemaRegistry` is weak fairness of `Step`: a function that can go on does. Neither
assumes that the program makes any call.

## Proofs

Eight modules of proofs; each theorem holds for every value of the constants that
meets the assumptions of the module (and the named condition, where it has one).
The assumptions say what the constants are: menus of calls, configurations, operations,
graphs and fields of their types; sentinels that are none of the values; bounds that are
numbers. Some say more: what the modelled code takes from code outside it. Legacy
security always authorizes (`OperationsAssumption`), `net/http` hands out at most
`Content-Length` bytes (`BindingAssumption`), a slice, map or pointer has one element type
(`GraphsAssumption`), `json:",string"` applies to scalars and pointers to them only (`RulesAssumption`), and
the operations that reach the document have routes that parse (`DocumentAssumption`).

| Theorem | States |
|---|---|
| `AppLifecycleProofs!InvariantHolds` | `Spec => []Inductive` |
| `TypeCorrect`, `MutexHeldInside`, `SnapshotHolds`, `CompiledHolds`, `UserCodeHolds`, `AgreementHolds` | `TypeOK`, `MutexOwner`, `SnapshotCurrent`, `CompiledCurrent`, `UserCodeUnlocked`, `BuildAgreement` |
| `FreezeHolds` | `FreezeBoundary`, an action property |
| `ProgressHolds` | `Spec => [](Inductive /\ Progress)` |
| `VerdictHolds`, `HandlerOrderHolds`, `DocumentHolds`, `ServableHolds` | `BuildVerdict`, `HandlerOrder`, `DocumentComplete`, `BuiltIsServable` |
| `PromiseHolds` | `PromiseKept`: the App implements `FreezeOnce` |
| `GroupInheritanceProofs!InheritedHolds` | `LoggedSpec => []Inherited` |
| `InheritanceHolds` | `MiddlewareInherited` |
| `RequestPipelineProofs!PipelineInvariant` | `Spec => []Inductive` |
| `PipelineTypes`, `HandlersGuarded`, `WireFollowed`, `FailuresSealed` | `TypeOK`, `HandlerGuarded`, `StateFollowsWire`, `FailureSealed` |
| `OneResponseHolds` | `OneResponse`, if every writer flushes and hijacks itself (`AllDirect`) |
| `PanicsAnswered` | `PanicAnswered`, if no formatter explodes (`NoneExplosive`) |
| `TracedHolds` | `Spec => []Traced` |
| `OuterSees` | `OuterSeesRequest` |
| `SuccessHolds`, `DocumentedHolds`, `ChallengeHolds` | `NoFalseSuccess`, `FailuresDocumented`, `ChallengeSent`, action properties |
| `RequestBindingProofs!BindingInvariant` | `Spec => []Inductive` |
| `BindingTypes`, `PlanHolds`, `VerdictHolds`, `InputHolds` | `TypeOK`, `PlanVerdict`, `Verdict`, `HandlerSeesRequest` |
| `FieldRulesProofs!RulesInvariant` | `Spec => []Inductive` |
| `RulesAlwaysAgree` | `RulesAgree` |
| `StructFieldsProofs!SelectsHolds`, `OrdinaryAgreeHolds` | `SelectsLikeEncodingJSON`, `OrdinaryAgree` |
| `SchemaRegistryProofs!RegistryInvariant` | `Spec => []Inductive` |
| `RegistryTypes`, `NamesStayApart`, `ComponentsStayOwned`, `ReferencesAlwaysResolve`, `ComponentsStayFaithful` | `TypeOK`, `NamesApart`, `ComponentsOwned`, `ReferencesResolve`, `ComponentsFaithful` |
| `StackHolds` | `StackSuffices`, if there are finitely many types: only a list of itself exhausts a stack of (n + 1) · n frames |
| `OperationDocumentProofs!DocumentInvariant` | `Spec => []Inductive` |
| `ResponsesStay`, `RequirementsResolve`, `DocumentExact`, `ParametersHold` | `ResponsesKept`, `SecurityResolves`, `NothingLeftOver`, `ParametersMatchTemplate` |
| `ConflictMeans` | two patterns conflict exactly when they serve a common request and neither is more specific |

*Lifecycle.* `UserCodeUnlocked` is no run's property: it follows from `MutexOwner`, which is. None of the properties is inductive alone. `SnapshotCurrent` needs that `frozen` is
exactly the stage after the snapshot (`FrozenByStage`) and that only the holder
of the mutex takes it (`MutexOwner`); the stage in turn needs that one goroutine
is inside the build (`OneBuilder`), also while user code makes calls from it
(`resume`); the types of `handler` and `document` need the cursor to be in range
(`CursorInRange`) and the call of a goroutine to be one that passed its checks
(`CallsReady`); and `BuildAgreement` follows from every returned outcome being
the one left behind (`ReturnsOutcome`). The proof has one lemma per conjunct,
each with a step per action that can disturb it; the actions that cannot are
dealt with by what they leave unchanged (`CallMoves`, `CriticalSectionMoves`,
`CompilationMoves`).

*Verdict.* `BuildVerdict` compares a finished build with one formula about the whole
configuration, and says nothing of a build on its way. `Progress` does: it gives
for each stage what the stages before it have established (the first checks passed;
the operations before the cursor compile, with IDs and patterns of their own and an
entry in the document; the documentation routes before it are mounted; the last
middlewares are wrapped). That the loops refuse exactly what the formula refuses
rests on patterns: a conflict is symmetric (`ConflictSymmetric`), and what is
registered, counted in the order of `Patterns`, is what the cursor has passed. `PromiseHolds` maps
each step to one of `FreezeOnce` or to a stutter: a call before the snapshot configures,
the snapshot freezes, the end of the build decides, by a handler, an error or the panic of
user code, and nothing else touches configuration, freeze or outcome.

*Inheritance.* The history grows with the calls, so the invariant is about a log that
never changes but at its end: `Recorded` says that it holds calls that took effect, and that
each group and operation has the one that made it; `GroupsListed` that the list of every
group is what the calls it hears gave, up to now. A new call is heard by no group but
the one it names, since a group below was made before (`Hears`), and a new group hears
what its parent has heard so far. An operation is mapped from its group's list, and the
calls its group hears afterwards come too late for it, so the list of an
operation follows. The proof extends that of the App: it needs that a call in its
critical section is one that passed its checks.

*Pipeline.* The response is followed by one predicate, `Sound`: typed, `wroteHeader`
agrees with the wire (`Wired`), a failure is sealed (`Sealed`), and nothing of the
recovery layer is on it yet. Lemmas show that each writer (status, body, flush,
hijack, failure, result) keeps it, once; the steps of the request then only cite
them. The conditions `AllDirect` and `NoneExplosive` are needed: `pipeline_unwrap`
and `pipeline_explosive` are what happens without them.

*What a step writes.* `Follows` says what a writer leaves of the response it found: a
status that is out stays, with its author and its headers. The action properties are about one
step, and need three facts about the state it starts in (`Traced`): no body is
behind a status that is not out (`Blank`), the endpoint that runs belongs to the operation
(`Typed`), and the carrier of the context that reached the router holds what the pass
has selected and whom it authenticated (`Told`). The attempt to prove `OuterSeesRequest` found
an earlier statement of it too strong: with a context that an outer middleware made
fresh, and `next` called again, the carrier still tells of the pass before until the entry
handler has selected the operation, hence the gate "selected" in it.

*Binding.* `Inductive` has five parts. `Planning`: the entries of the plan are those of
fields that compile, none twice, and a refused struct is not `WellFormed`. `Received`: the
request fits the plan. `Filled`: the fields before the cursor hold what was sent or are noted
as faulty, exactly one of the two, and the others are zero. `Answered`: what each status
says of the request. `Shape` is the types. `Verdict` is about the order in which a request is judged: 413 and 415
end the loop at the body, wherever its field stands, and 400 comes after the last field;
what makes it hold is that at most one field is a body (`Planning`). The limit is compared as
`int64` does, and where that wraps around, at `MaxInt`, every body is answered like
an empty one (`BodyUnread`). That a parameter documented as required is present when the
handler runs follows from the validation plan, hence the exception `Unenforced`.

*Rules.* A rule writes over the keyword an earlier one has written, so the invariant cannot
say what the schema *is*, only whose it is: `Tells` says that each keyword holds what some rule
of its kind before the cursor states, and what the type gives where there is none. `Judged` says the same
of the rules that failed. At the end a property without repeated bounds has one such rule
on each side, and `RulesAlwaysAgree` compares them rule by rule. That is for a value decoded by its kind;
one that the type's own method reads is compared only when its rules look no further than
`required` (`ConvertedAgrees`), so the theorem says little of such types.

*Struct fields.* `Compiled` says that the menu is respected and the outcome is that of
the declared types, a lemma from which all starts; the rest is about two ways of looking at a graph of types that may be cyclic.
A walk is recursive in the number of steps; `WalksMeans` says without
recursion where it goes: on every path that is no longer than there are types and comes once only
to a type that the walk enters once. For `OrdinaryAgree`, types that do not
hold themselves have no path that repeats a type, so both walks go the same ways, and
where nothing is hidden every part of such a path is selected. For `SelectsLikeEncodingJSON`,
the level of `encoding/json` on which a type is met is the length of the shortest paths to it;
a field it counts twice has two shortest paths (`Direct`), and so has a field that the code drops. The
converse fails in one way only: two shortest paths that come together above the last
embedding, which is `BelowDiamond`, the exception the property names.

*Registry.* That a placeholder is there exactly while its struct is open
(`ComponentsOwned`) needs that a named struct is open at most once (`OpenOnce`), which
in turn needs its name to be its own (`NamesApart`): with a shared name the second type
would find the first one's placeholder. `ReferencesResolve` follows because with an
empty stack nothing is open, and until an error nothing refers to what is not there
(`NoneDangling`). `ComponentsFaithful` is about a recursion that may go round in circles, and is proved
without induction over the types: an open type has the names of what its parts up to
the cursor contribute (`Gathering`), a struct contributes its own name, an inline
type what its parts do (`NamedFromParts`), which is what a least set is closed under.
`StackSuffices` is the safety half of `RefEnds`: activations of the descent are told apart
by their type and by how many structs are open below them, because between two that agree in
both there would be a list of itself. So there are at most (n + 1) · n of them for n types, and
a stack that deep is enough, for every program.

*Document.* `Cursor` (how far the build is), `Making` (the operation in the making has the
declared responses visited so far), `Written` (every compiled operation is in the
document) and `Resolved` (its requirement has a scheme). The heart is
`OnePlaceConflicts`: two operations with one path and method in the document have
conflicting `ServeMux` patterns, so `MuxAccepts` has refused the second. `ParametersHold`
adds `Templated`: the path parameters of what is written are those of its route, because a
plan that compiles has one field for each of the route's and no other.

*Conflicts.* `Conflict` compares patterns segment by segment. `ConflictMeans` gives its
meaning: `Serves` says when a pattern serves a request, and two patterns conflict exactly
when some request is served by both and each serves all that the other serves or neither does. A
pattern is separated from another by requests that fill its parameters with one text,
or another; two texts are therefore enough.

Model-checked only: the liveness properties `CallsReturn` and `RefEnds`, which are out of the
prover's reach; the safety half of the second is proved (`StackHolds`). Every other property of
the passing runs is stated by a theorem.

## Not modelled, and why

- The wording of errors, messages and descriptions; the `x-` extensions, servers and
  texts of the document; the Swagger page and its CSP; examples in schemas
  (`parseExample`), and the tags `format`, `description` and `example`: text. A `format`
  tag adds a constraint to the schema that the validation does not have.
- The schema that a `JSONSchema` method returns, beyond which values it accepts. `float32`,
  which rounds otherwise than `Float`, and bounds that are `NaN` or infinite, which `ParseFloat`
  takes and `json.Marshal` refuses. Which address `mail.ParseAddress` takes and the format
  `email` does not, beyond spaces around it.
- The reflection that reaches a nested field (`fieldByIndex`) and the validation of
  values inside it: a plan is the set of index paths.
- The marshalling of the document: one call of `encoding/json`; its error exit
  (`app.go:163-167`) is no branch of the build.
- The refusal of a path parameter with an empty text (`internal/operation/runtime.go:118-121`):
  `ServeMux` matches none.
- `internal/core/uuid.go`: the parsing of one string. The characters of a path
  segment, and which of them a constraint accepts.
- The carrier's `RWMutex`: handlers that start goroutines of their own are not
  modelled, and within one goroutine it has no effect.
- `net/http` itself, beyond what is written to it and which patterns it takes.
- The examples: programs that use the library.

## Plan

What is left:

1. `OperationDocument` composed with `SchemaRegistry`: references of the whole
   document, with the registry shared by all operations of a build.
2. An abstract response (committed once, by one author) that `RequestPipeline`
   implements.
