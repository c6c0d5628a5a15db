---------------------------- MODULE AppLifecycle ----------------------------
(***************************************************************************)
(* The configuration lifecycle of an App: goroutines that add middleware,  *)
(* groups, operations and documentation routes under a.mu, and Build,      *)
(* which freezes the configuration under the same mutex and compiles it,   *)
(* once, after releasing it.  User code (middleware factories, schema and  *)
(* security-scheme methods) runs inside the build: it may call the App     *)
(* again and it may panic.                                                 *)
(***************************************************************************)
EXTENDS Integers, Sequences, Routing

CONSTANTS
  Goroutines,      \* the goroutines that hold the App
  Nobody,          \* the owner of an unlocked mutex
  Middlewares,     \* the non-nil Middleware values
  Nil,             \* the nil Middleware
  Strings,         \* the strings it passes: methods, IDs, names of segments, texts
  SecurityNames,   \* the names RequireSecurity may be given and providers have
  Statuses,        \* the response statuses an operation may declare
  Configs,         \* the configurations New may be given
  Menu,            \* the calls the program may make
  MaxCalls,        \* bound: calls one goroutine makes
  CallbackPanics   \* whether user code may panic inside the build

VARIABLES
  mu,              \* owner of a.mu
  config, frozen, middlewares, operations, openAPIPath, swagger,
  groups,          \* every Group value handed out so far
  once, runner,    \* a.buildOnce: its state and who runs build
  builtHandler, builtErr,
  snap,            \* build's copies, taken under the lock
  at, resume, operationIDs, registered, compiled, document, handler,
  pc, call, left, result,
  returns          \* history: what Build has returned, to anyone

settings == <<middlewares, operations, openAPIPath, swagger>>
locals == <<at, resume, operationIDs, registered, compiled, document, handler>>
built == <<once, runner, builtHandler, builtErr>>
control == <<pc, call, left, result>>
vars == <<mu, config, frozen, settings, groups, built, snap, locals, control, returns>>

---------------------------------------------------------------------------
(* Values. *)

SegmentType == 
  [kind : {"literal", "param"}, name : Strings \cup {""},
   constraint : Constraints \cup {"", "unknown"}]
PathType == [segs : Seq(SegmentType), slash : BOOLEAN]
PatternType ==
  [method : Strings \cup {"GET"}, segs : Seq(SegmentType), tail : {"none", "end", "rest"}]

\* What a response declaration is, as far as the build checks it.
ResponseKinds == {"json", "problem", "raw", "custom", "badCustom"}

Responses == [Statuses -> ResponseKinds \cup {"undeclared"}]

\* internal/operation.Definition.  "shape" stands for what compilation makes
\* of the input and output types: the binding plan, the validation rules and
\* the schemas.
Shapes == {"sound", "badBinding", "badRules", "badOutput"}

Definitions ==
  [method : Strings, route : PathType, raw : BOOLEAN,
   shape : Shapes,
   id : Strings \cup {""}, middlewares : Seq(Middlewares), security : SecurityNames \cup {""},
   feature : BOOLEAN, permission : BOOLEAN, validation : BOOLEAN,
   responses : Responses, consumes : {"none", "valid", "invalid"}, notes : Strings \cup {""}]

GroupType == [prefix : PathType, middlewares : Seq(Middlewares)]

\* "page" stands for whether NewSwaggerHandler accepts the SwaggerUIConfig.
SwaggerType == [path : PathType, page : BOOLEAN]

SnapshotType ==
  [operations : Nat, middlewares : Seq(Middlewares),
   openAPIPath : PathType, swagger : Seq(SwaggerType)]

Layers == Middlewares \cup {"mux", "recovery", "carrier"}

(* The calls of the public API. *)
ReservedSecurityName == "bearerAuth"

MutateValues ==
  [field : {"id", "notes"}, value : Strings \cup {""}]
    \cup [field : {"security"}, value : SecurityNames \cup {"", ReservedSecurityName}]
    \cup [field : {"rights"}, feature : BOOLEAN, permission : BOOLEAN]
    \cup [field : {"validation"}]
    \cup [field : {"consumes"}, value : {"valid", "invalid"}]
    \cup [field : {"responses"}, status : Statuses, value : ResponseKinds]
    \cup [field : {"middlewares"}, values : Seq(Middlewares \cup {Nil})]

Calls ==
  [kind : {"Use"}, middleware : Middlewares \cup {Nil}]
    \cup [kind : {"AppGroup"}, prefix : PathType]
    \cup [kind : {"Group"}, group : Nat \ {0}, prefix : PathType]
    \cup [kind : {"GroupUse"}, group : Nat \ {0}, middleware : Middlewares \cup {Nil}]
    \cup [kind : {"Map"}, group : Nat \ {0}, method : Strings, path : PathType,
          raw : BOOLEAN, shape : Shapes]
    \cup [kind : {"Mutate"}, operation : Nat \ {0}, set : MutateValues]
    \cup [kind : {"MapOpenAPI"}, path : PathType]
    \cup [kind : {"MapSwaggerUI"}, path : PathType, page : BOOLEAN]
    \cup [kind : {"Build"}]

\* info: whether the first checks of build pass; formatter: whether Describe
\* accepts it (its model is assumed to have a schema).
ConfigType ==
  [info : BOOLEAN, formatter : BOOLEAN, recovery : BOOLEAN,
   authenticator : BOOLEAN, providers : [SecurityNames -> {"absent", "valid", "invalid"}]]

ASSUME ConstantsAssumption ==
  /\ Nobody \notin Goroutines
  /\ Nil \notin Middlewares
  /\ Middlewares \cap {"mux", "recovery", "carrier"} = {}
  /\ "" \notin Strings
  /\ SecurityNames \cap {"", ReservedSecurityName} = {}
  /\ Statuses \subseteq Int
  /\ Menu \subseteq Calls
  /\ MaxCalls \in Nat
  /\ CallbackPanics \in BOOLEAN

ASSUME ConfigsAssumption == Configs # {} /\ Configs \subseteq ConfigType
---------------------------------------------------------------------------
(* What a call needs, and what it is refused for before it takes the lock. *)

\* The program holds the Group or the builder the call is made on.
HandleExists(c) ==
  /\ c.kind \in {"Group", "GroupUse", "Map"} => c.group \in DOMAIN groups
  /\ c.kind = "Mutate" => c.operation \in DOMAIN operations

\* The typed and the raw builder do not have the same methods.
BuilderOffers(d, set) ==
  /\ set.field = "validation" => ~d.raw
  /\ set.field = "consumes" => d.raw
  /\ set.field = "responses" => set.value # (IF d.raw THEN "json" ELSE "raw")

DocumentationPathAccepted(path) ==
  path # NoPath /\ \A s \in Segments(path) : s.kind = "literal" /\ s # EmptySegment

Refused(c) ==
  \/ c.kind \in {"Use", "GroupUse"} /\ c.middleware = Nil
  \/ c.kind \in {"AppGroup", "Group"} /\ ~PrefixAccepted(c.prefix)
  \/ c.kind \in {"MapOpenAPI", "MapSwaggerUI"} /\ ~DocumentationPathAccepted(c.path)
  \/ /\ c.kind = "Mutate" /\ c.set.field = "security"
     /\ c.set.value \in {"", ReservedSecurityName}

\* Where g goes when a call returns: back into the callback it made the call
\* from, if it is the goroutine that runs the build.
Home(g) == IF once = "running" /\ runner = g THEN "user" ELSE "idle"

Finish(g, r) ==
  /\ pc' = [pc EXCEPT ![g] = Home(g)]
  /\ result' = [result EXCEPT ![g] = r]

\* The critical section of c ends: the deferred Unlock runs on every way out.
Leave(g, r) == Finish(g, r) /\ mu' = Nobody /\ UNCHANGED <<call, left>>

Inside(g, kind) == pc[g] = "locked" /\ call[g].kind = kind

---------------------------------------------------------------------------
(* Starting a call. *)

MayCall(g, c) ==
  /\ pc[g] \in {"idle", "user"}
  /\ left[g] > 0
  /\ HandleExists(c)
  /\ c.kind = "Mutate" => BuilderOffers(operations[c.operation], c.set)
  /\ left' = [left EXCEPT ![g] = @ - 1]
  /\ call' = [call EXCEPT ![g] = c]

RefuseCall(g, c) ==
  /\ MayCall(g, c)
  /\ Refused(c)
  /\ result' = [result EXCEPT ![g] = "refused"]
  /\ UNCHANGED <<mu, config, frozen, settings, groups, built, snap, locals, pc, returns>>

\* App.Group only reads its argument: no lock.
AppGroup(g, c) ==
  /\ MayCall(g, c)
  /\ c.kind = "AppGroup" /\ ~Refused(c)
  /\ groups' = Append(groups, [prefix |-> NormalizePrefix(c.prefix), middlewares |-> <<>>])
  /\ result' = [result EXCEPT ![g] = "ok"]
  /\ UNCHANGED <<mu, config, frozen, settings, built, snap, locals, pc, returns>>

\* Every other configuration call waits for a.mu.
StartLocked(g, c) ==
  /\ MayCall(g, c)
  /\ c.kind \notin {"AppGroup", "Build"} /\ ~Refused(c)
  /\ pc' = [pc EXCEPT ![g] = "lock"]
  /\ UNCHANGED <<mu, config, frozen, settings, groups, built, snap, locals, result, returns>>

\* sync.Once forbids calling Do from its own function: user code that runs
\* inside the build is assumed not to call Build.
StartBuild(g, c) ==
  /\ MayCall(g, c)
  /\ c.kind = "Build" /\ pc[g] = "idle"
  /\ pc' = [pc EXCEPT ![g] = "once"]
  /\ UNCHANGED <<mu, config, frozen, settings, groups, built, snap, locals, result, returns>>

Lock(g) ==
  /\ pc[g] \in {"lock", "freeze"}
  /\ mu = Nobody
  /\ mu' = g
  /\ pc' = [pc EXCEPT ![g] = IF @ = "lock" THEN "locked" ELSE "snapshot"]
  /\ UNCHANGED <<config, frozen, settings, groups, built, snap, locals,
                 call, left, result, returns>>

---------------------------------------------------------------------------
(* The critical sections of the configuration calls. *)

\* Mutant: Use forgets the freeze boundary.
UseUnchecked(g) ==
  /\ Inside(g, "Use")
  /\ middlewares' = Append(middlewares, call[g].middleware)
  /\ Leave(g, "ok")
  /\ UNCHANGED <<config, frozen, operations, openAPIPath, swagger, groups, built, snap,
                 locals, returns>>

Use(g) ==
  /\ Inside(g, "Use")
  /\ IF frozen
     THEN Leave(g, "ErrFrozen") /\ UNCHANGED middlewares
     ELSE /\ middlewares' = Append(middlewares, call[g].middleware)
          /\ Leave(g, "ok")
  /\ UNCHANGED <<config, frozen, operations, openAPIPath, swagger, groups, built, snap,
                 locals, returns>>

\* Mutant: GroupUse forgets the freeze boundary.
GroupUseUnchecked(g) ==
  /\ Inside(g, "GroupUse")
  /\ groups' = [groups EXCEPT ![call[g].group].middlewares = Append(@, call[g].middleware)]
  /\ Leave(g, "ok")
  /\ UNCHANGED <<config, frozen, settings, built, snap, locals, returns>>

\* Mutant: groups share an array, and appending to one writes over what another
\* has at that index.
GroupUseAliased(g) ==
  /\ Inside(g, "GroupUse")
  /\ LET m == call[g].middleware
         used == groups[call[g].group].middlewares
         n == Len(used) + 1
     IN IF frozen
        THEN Leave(g, "ErrFrozen") /\ UNCHANGED groups
        ELSE /\ groups' = [i \in DOMAIN groups |->
                  [groups[i] EXCEPT !.middlewares =
                     IF i = call[g].group THEN Append(used, m)
                     ELSE IF n \in DOMAIN @ THEN [@ EXCEPT ![n] = m] ELSE @]]
             /\ Leave(g, "ok")
  /\ UNCHANGED <<config, frozen, settings, built, snap, locals, returns>>

GroupUse(g) ==
  /\ Inside(g, "GroupUse")
  /\ IF frozen
     THEN Leave(g, "ErrFrozen") /\ UNCHANGED groups
     ELSE /\ groups' = [groups EXCEPT ![call[g].group].middlewares =
                                        Append(@, call[g].middleware)]
          /\ Leave(g, "ok")
  /\ UNCHANGED <<config, frozen, settings, built, snap, locals, returns>>

\* Group.Group never looks at a.frozen: it copies its parent's middleware.
ChildGroup(g) ==
  /\ Inside(g, "Group")
  /\ LET parent == groups[call[g].group]
     IN groups' = Append(groups,
                    [prefix |-> JoinPaths(parent.prefix, NormalizePrefix(call[g].prefix)),
                     middlewares |-> parent.middlewares])
  /\ Leave(g, "ok")
  /\ UNCHANGED <<config, frozen, settings, built, snap, locals, returns>>

NewDefinition(c) ==
  [method |-> c.method, route |-> JoinPaths(groups[c.group].prefix, c.path), raw |-> c.raw,
   shape |-> c.shape, id |-> "", middlewares |-> groups[c.group].middlewares,
   security |-> "", feature |-> FALSE, permission |-> FALSE, validation |-> FALSE,
   responses |-> [s \in Statuses |-> "undeclared"], consumes |-> "none", notes |-> ""]

\* MapGet ... MapDelete and MapHandler, through registerGroupOperation.
Map(g) ==
  /\ Inside(g, "Map")
  /\ IF frozen
     THEN Leave(g, "ErrFrozen") /\ UNCHANGED operations
     ELSE operations' = Append(operations, NewDefinition(call[g])) /\ Leave(g, "ok")
  /\ UNCHANGED <<config, frozen, middlewares, openAPIPath, swagger, groups, built, snap,
                 locals, returns>>

\* Mutant: the nil check comes after the append.
UpToNilAll(values) == values

\* The middlewares a fluent Use appends before it meets a nil one and panics.
UpToNil(values) ==
  SubSeq(values, 1, CHOOSE n \in 0 .. Len(values) :
                      /\ \A i \in 1 .. n : values[i] # Nil
                      /\ n < Len(values) => values[n + 1] = Nil)

HasNil(set) == set.field = "middlewares" /\ \E i \in DOMAIN set.values : set.values[i] = Nil

\* The fluent methods of OperationBuilder and RawOperationBuilder.
Mutated(d, set) ==
  CASE set.field = "id" -> [d EXCEPT !.id = set.value]
    [] set.field = "security" -> [d EXCEPT !.security = set.value]
    [] set.field = "notes" -> [d EXCEPT !.notes = set.value]
    [] set.field = "rights" -> [d EXCEPT !.feature = set.feature, !.permission = set.permission]
    [] set.field = "validation" -> [d EXCEPT !.validation = TRUE]
    [] set.field = "consumes" -> [d EXCEPT !.consumes = set.value]
    [] set.field = "responses" ->
         [d EXCEPT !.responses = [@ EXCEPT ![set.status] = set.value]]
    [] set.field = "middlewares" -> [d EXCEPT !.middlewares = @ \o UpToNil(set.values)]

\* Mutants: a plain Unlock that the panic of a frozen App skips, and a fluent
\* call that forgets the freeze boundary.
MutateKeepsLock(g) ==
  /\ Inside(g, "Mutate")
  /\ LET c == call[g]
     IN IF frozen
        THEN Finish(g, "ErrFrozen") /\ UNCHANGED <<mu, call, left, operations>>
        ELSE /\ operations' = [operations EXCEPT ![c.operation] = Mutated(@, c.set)]
             /\ Leave(g, IF HasNil(c.set) THEN "nilMiddleware" ELSE "ok")
  /\ UNCHANGED <<config, frozen, middlewares, openAPIPath, swagger, groups, built, snap,
                 locals, returns>>

MutateUnchecked(g) ==
  /\ Inside(g, "Mutate")
  /\ operations' = [operations EXCEPT ![call[g].operation] = Mutated(@, call[g].set)]
  /\ Leave(g, IF HasNil(call[g].set) THEN "nilMiddleware" ELSE "ok")
  /\ UNCHANGED <<config, frozen, middlewares, openAPIPath, swagger, groups, built, snap,
                 locals, returns>>

MutateOperation(g) ==
  /\ Inside(g, "Mutate")
  /\ LET c == call[g]
     IN IF frozen
        THEN Leave(g, "ErrFrozen") /\ UNCHANGED operations
        ELSE /\ operations' = [operations EXCEPT ![c.operation] = Mutated(@, c.set)]
             /\ Leave(g, IF HasNil(c.set) THEN "nilMiddleware" ELSE "ok")
  /\ UNCHANGED <<config, frozen, middlewares, openAPIPath, swagger, groups, built, snap,
                 locals, returns>>

MapOpenAPI(g) ==
  /\ Inside(g, "MapOpenAPI")
  /\ IF frozen
     THEN Leave(g, "ErrFrozen") /\ UNCHANGED openAPIPath
     ELSE IF openAPIPath # NoPath
          THEN Leave(g, "duplicate") /\ UNCHANGED openAPIPath
          ELSE openAPIPath' = call[g].path /\ Leave(g, "ok")
  /\ UNCHANGED <<config, frozen, middlewares, operations, swagger, groups, built, snap,
                 locals, returns>>

MapSwaggerUI(g) ==
  /\ Inside(g, "MapSwaggerUI")
  /\ IF frozen
     THEN Leave(g, "ErrFrozen") /\ UNCHANGED swagger
     ELSE IF \E i \in DOMAIN swagger : swagger[i].path = call[g].path
          THEN Leave(g, "duplicate") /\ UNCHANGED swagger
          ELSE /\ swagger' = Append(swagger, [path |-> call[g].path, page |-> call[g].page])
               /\ Leave(g, "ok")
  /\ UNCHANGED <<config, frozen, middlewares, operations, openAPIPath, groups, built, snap,
                 locals, returns>>
---------------------------------------------------------------------------
(* What compiling one operation checks: internal/operation. *)

StatusAllowsBody(status) == status >= 200 /\ status \notin {204, 205, 304}

ResponseAccepted(d, status) ==
  d.responses[status] # "undeclared" =>
    /\ status \in 100 .. 599
    /\ ~d.raw => status >= 200
    /\ ~(d.responses[status] = "badCustom" /\ StatusAllowsBody(status))

\* Mutant: an operation with rights and no security is not asked for an
\* Authenticator.
DefinitionAcceptedOpen(cfg, d) ==
  /\ d.id # ""
  /\ d.feature <=> d.permission
  /\ d.security # "" => cfg.providers[d.security] # "absent"
  /\ \A status \in Statuses : ResponseAccepted(d, status)
  /\ d.consumes # "invalid"

DefinitionAccepted(cfg, d) ==
  /\ d.id # ""
  /\ d.feature <=> d.permission
  /\ d.security # "" => cfg.providers[d.security] # "absent"
  /\ d.feature /\ d.security = "" => cfg.authenticator
  /\ \A status \in Statuses : ResponseAccepted(d, status)
  /\ d.consumes # "invalid"

RequestPlansCompile(d) ==
  d.raw \/ /\ d.shape # "badBinding"
           /\ d.validation => d.shape # "badRules"

\* The document must have a success response of every operation, and the
\* schema of what a JSON response carries.
DocumentAccepts(d) ==
  /\ \E status \in Statuses \cap 200 .. 299 : d.responses[status] # "undeclared"
  /\ d.shape = "badOutput" =>
       \A status \in Statuses : d.responses[status] = "json" => ~StatusAllowsBody(status)

Compiles(cfg, d) ==
  /\ DefinitionAccepted(cfg, d) /\ ParseAccepts(d.route)
  /\ RequestPlansCompile(d) /\ DocumentAccepts(d)

DocumentedMethods ==
  {"GET", "POST", "PUT", "PATCH", "DELETE", "OPTIONS", "HEAD", "TRACE"}

OperationPattern(d) == Pattern(d.method, ServeMuxPath(d.route))

\* What mux.Handle accepts after the patterns already registered.
MuxAccepts(pattern) == \A p \in registered : ~Conflict(p, pattern)

---------------------------------------------------------------------------
(* Build. *)

\* The builder runs build, and is at its step named here.
Building(g, step) == once = "running" /\ runner = g /\ pc[g] = step

Goto(g, step) == pc' = [pc EXCEPT ![g] = step] /\ UNCHANGED <<call, left, result>>

\* User code runs next, and build goes on at the step named here.
CallUser(g, step) == Goto(g, "user") /\ resume' = step

\* build returns: Do marks the Once done and Build goes on to its return.
Return(g) == once' = "done" /\ Goto(g, "once") /\ UNCHANGED runner

Fail(g, error) ==
  /\ builtErr' = error
  /\ Return(g)
  /\ UNCHANGED <<builtHandler, resume>>

Outcome == [handler |-> builtHandler, err |-> builtErr]

\* The first caller of Do runs build; the others wait until it has returned.
EnterOnce(g) ==
  /\ pc[g] = "once" /\ once = "new"
  /\ once' = "running" /\ runner' = g
  /\ Goto(g, "freeze")
  /\ UNCHANGED <<mu, config, frozen, settings, groups, builtHandler, builtErr, snap,
                 locals, returns>>

\* Mutant: a flag instead of the Once, so a second caller does not wait.
ReturnFromBuildEarly(g) ==
  /\ pc[g] = "once" /\ once # "new"
  /\ returns' = returns \cup {Outcome}
  /\ pc' = [pc EXCEPT ![g] = "idle"]
  /\ result' = [result EXCEPT ![g] = "built"]
  /\ UNCHANGED <<mu, config, frozen, settings, groups, built, snap, locals, call, left>>

ReturnFromBuild(g) ==
  /\ pc[g] = "once" /\ once = "done"
  /\ returns' = returns \cup {Outcome}
  /\ pc' = [pc EXCEPT ![g] = "idle"]
  /\ result' = [result EXCEPT ![g] = "built"]
  /\ UNCHANGED <<mu, config, frozen, settings, groups, built, snap, locals, call, left>>

\* Mutants: the lock is held through the build; the App is not frozen.
TakeSnapshotHeld(g) ==
  /\ Building(g, "snapshot")
  /\ frozen' = TRUE
  /\ snap' = [operations |-> Len(operations), middlewares |-> middlewares,
              openAPIPath |-> openAPIPath, swagger |-> swagger]
  /\ Goto(g, "config")
  /\ UNCHANGED <<mu, config, settings, groups, built, locals, returns>>

TakeSnapshotThawed(g) ==
  /\ Building(g, "snapshot")
  /\ snap' = [operations |-> Len(operations), middlewares |-> middlewares,
              openAPIPath |-> openAPIPath, swagger |-> swagger]
  /\ mu' = Nobody
  /\ Goto(g, "config")
  /\ UNCHANGED <<frozen, config, settings, groups, built, locals, returns>>

\* operations is copied as pointers: the snapshot fixes how many there are,
\* the definitions themselves stay shared.
TakeSnapshot(g) ==
  /\ Building(g, "snapshot")
  /\ frozen' = TRUE
  /\ snap' = [operations |-> Len(operations), middlewares |-> middlewares,
              openAPIPath |-> openAPIPath, swagger |-> swagger]
  /\ mu' = Nobody
  /\ Goto(g, "config")
  /\ UNCHANGED <<config, settings, groups, built, locals, returns>>

\* The four checks of the configuration, then Describe, which asks the
\* FailureFormatter under a recover of its own.
CheckConfig(g) ==
  /\ Building(g, "config")
  /\ IF config.info /\ config.formatter
     THEN Goto(g, "compile") /\ at' = 1 /\ UNCHANGED <<built, resume>>
     ELSE Fail(g, "config") /\ UNCHANGED at
  /\ UNCHANGED <<mu, config, frozen, settings, groups, snap, operationIDs, registered,
                 compiled, document, handler, returns>>

\* Mutant: operation IDs are not compared.
CompileOperationTwice(g) ==
  /\ Building(g, "compile") /\ at <= snap.operations
  /\ LET d == operations[at]
     IN IF ~Compiles(config, d)
        THEN Fail(g, "operation") /\ UNCHANGED <<operationIDs, compiled>>
        ELSE /\ operationIDs' = operationIDs \cup {d.id}
             /\ compiled' = Append(compiled, d)
             /\ CallUser(g, "register")
             /\ UNCHANGED built
  /\ UNCHANGED <<mu, config, frozen, settings, groups, snap, at, registered, document,
                 handler, returns>>

\* Middleware factories and schema methods run while the operation compiles.
CompileOperation(g) ==
  /\ Building(g, "compile") /\ at <= snap.operations
  /\ LET d == operations[at]
     IN IF d.id \in operationIDs \/ ~Compiles(config, d)
        THEN Fail(g, "operation") /\ UNCHANGED <<operationIDs, compiled>>
        ELSE /\ operationIDs' = operationIDs \cup {d.id}
             /\ compiled' = Append(compiled, d)
             /\ CallUser(g, "register")
             /\ UNCHANGED built
  /\ UNCHANGED <<mu, config, frozen, settings, groups, snap, at, registered, document,
                 handler, returns>>

\* Mutant: a path item that keeps one operation.
SetPathOperationAlone(doc, method, path, n) ==
  {e \in doc : e.path # path} \cup {[method |-> method, path |-> path, operation |-> n]}

\* The path item of path gets operation n under method.
SetPathOperation(doc, method, path, n) ==
  {e \in doc : ~(e.method = method /\ e.path = path)}
    \cup {[method |-> method, path |-> path, operation |-> n]}

\* The duplicate and conflict checks, and the entry of the document.  A
\* named provider is then asked for its scheme.
RegisterOperation(g) ==
  /\ Building(g, "register")
  /\ LET d == operations[at]
         pattern == OperationPattern(d)
     IN IF pattern \in registered \/ ~MuxAccepts(pattern) \/ d.method \notin DocumentedMethods
        THEN Fail(g, "route") /\ UNCHANGED <<at, registered, document>>
        ELSE /\ registered' = registered \cup {pattern}
             /\ document' = SetPathOperation(document, d.method, OpenAPIPath(d.route), at)
             /\ IF d.security = ""
                THEN Goto(g, "compile") /\ at' = at + 1 /\ UNCHANGED resume
                ELSE CallUser(g, "scheme") /\ UNCHANGED at
             /\ UNCHANGED built
  /\ UNCHANGED <<mu, config, frozen, settings, groups, snap, operationIDs, compiled,
                 handler, returns>>

\* Mutant: what the provider calls its scheme is taken as it is.
CheckSchemeNever(g) ==
  /\ Building(g, "scheme")
  /\ Goto(g, "compile") /\ at' = at + 1
  /\ UNCHANGED <<mu, config, frozen, settings, groups, built, snap, resume, operationIDs,
                 registered, compiled, document, handler, returns>>

CheckScheme(g) ==
  /\ Building(g, "scheme")
  /\ IF config.providers[operations[at].security] = "valid"
     THEN Goto(g, "compile") /\ at' = at + 1 /\ UNCHANGED <<built, resume>>
     ELSE Fail(g, "scheme") /\ UNCHANGED at
  /\ UNCHANGED <<mu, config, frozen, settings, groups, snap, operationIDs, registered,
                 compiled, document, handler, returns>>

\* Mutant: only a route with the very same pattern is refused.
RegisterDocumentationOpen(g, path, step) ==
  LET pattern == DocumentationPattern(path)
  IN IF pattern \in registered
     THEN Fail(g, "documentation") /\ UNCHANGED registered
     ELSE registered' = registered \cup {pattern} /\ Goto(g, step) /\ UNCHANGED <<built, resume>>

\* One documentation route: it must not be registered and the mux must take
\* it.
RegisterDocumentation(g, path, step) ==
  LET pattern == DocumentationPattern(path)
  IN IF pattern \in registered \/ ~MuxAccepts(pattern)
     THEN Fail(g, "documentation") /\ UNCHANGED registered
     ELSE registered' = registered \cup {pattern} /\ Goto(g, step) /\ UNCHANGED <<built, resume>>

MountOpenAPI(g) ==
  /\ Building(g, "compile") /\ at > snap.operations
  /\ at' = 1
  /\ IF snap.openAPIPath = NoPath
     THEN Goto(g, "swagger") /\ UNCHANGED <<built, resume, registered>>
     ELSE RegisterDocumentation(g, snap.openAPIPath, "swagger")
  /\ UNCHANGED <<mu, config, frozen, settings, groups, snap, operationIDs, compiled,
                 document, handler, returns>>

MountSwagger(g) ==
  /\ Building(g, "swagger") /\ at <= Len(snap.swagger)
  /\ at' = at + 1
  /\ IF ~snap.swagger[at].page
     THEN Fail(g, "swagger") /\ UNCHANGED registered
     ELSE RegisterDocumentation(g, snap.swagger[at].path, "swagger")
  /\ UNCHANGED <<mu, config, frozen, settings, groups, snap, operationIDs, compiled,
                 document, handler, returns>>

\* The middlewares are applied from the last to the first, around the mux.
StartWrapping(g) ==
  /\ Building(g, "swagger") /\ at > Len(snap.swagger)
  /\ at' = Len(snap.middlewares)
  /\ handler' = <<"mux">>
  /\ Goto(g, "wrap")
  /\ UNCHANGED <<mu, config, frozen, settings, groups, built, snap, resume, operationIDs,
                 registered, compiled, document, returns>>

\* Mutant: the middlewares are applied from the first to the last.
WrapForward(g) ==
  /\ Building(g, "wrap") /\ at > 0
  /\ handler' = <<snap.middlewares[Len(snap.middlewares) + 1 - at]>> \o handler
  /\ at' = at - 1
  /\ CallUser(g, "wrap")
  /\ UNCHANGED <<mu, config, frozen, settings, groups, built, snap, operationIDs,
                 registered, compiled, document, returns>>

Wrap(g) ==
  /\ Building(g, "wrap") /\ at > 0
  /\ handler' = <<snap.middlewares[at]>> \o handler
  /\ at' = at - 1
  /\ CallUser(g, "wrap")
  /\ UNCHANGED <<mu, config, frozen, settings, groups, built, snap, operationIDs,
                 registered, compiled, document, returns>>

Recovery == IF config.recovery THEN <<"recovery">> ELSE <<>>

PublishHandler(g) ==
  /\ Building(g, "wrap") /\ at = 0
  /\ builtHandler' = <<"carrier">> \o Recovery \o handler
  /\ Return(g)
  /\ UNCHANGED <<mu, config, frozen, settings, groups, builtErr, snap, locals, returns>>

---------------------------------------------------------------------------
(* User code called by build.  The calls it makes on the App are those of  *)
(* the section above, from pc = "user".                                    *)

UserReturns(g) ==
  /\ Building(g, "user")
  /\ Goto(g, resume)
  /\ UNCHANGED <<mu, config, frozen, settings, groups, built, snap, locals, returns>>

\* Mutant: a hand-written Once that a panic leaves running.
UserPanicsForgetful(g) ==
  /\ CallbackPanics
  /\ Building(g, "user")
  /\ pc' = [pc EXCEPT ![g] = "idle"]
  /\ result' = [result EXCEPT ![g] = "panicked"]
  /\ UNCHANGED <<mu, config, frozen, settings, groups, built, snap, locals, call, left,
                 returns>>

\* The panic leaves build and Do, which marks the Once done all the same,
\* and reaches the caller of Build.
UserPanics(g) ==
  /\ CallbackPanics
  /\ Building(g, "user")
  /\ once' = "done"
  /\ pc' = [pc EXCEPT ![g] = "idle"]
  /\ result' = [result EXCEPT ![g] = "panicked"]
  /\ UNCHANGED <<mu, config, frozen, settings, groups, runner, builtHandler, builtErr, snap,
                 locals, call, left, returns>>

---------------------------------------------------------------------------
Init ==
  /\ mu = Nobody
  /\ config \in Configs
  /\ frozen = FALSE
  /\ middlewares = <<>> /\ operations = <<>> /\ openAPIPath = NoPath /\ swagger = <<>>
  /\ groups = <<>>
  /\ once = "new" /\ runner = Nobody
  /\ builtHandler = <<>> /\ builtErr = ""
  /\ snap = [operations |-> 0, middlewares |-> <<>>, openAPIPath |-> NoPath, swagger |-> <<>>]
  /\ at = 0 /\ resume = "none"
  /\ operationIDs = {} /\ registered = {} /\ compiled = <<>> /\ document = {}
  /\ handler = <<>>
  /\ pc = [g \in Goroutines |-> "idle"]
  /\ call = [g \in Goroutines |-> [kind |-> "Build"]]
  /\ left = [g \in Goroutines |-> MaxCalls]
  /\ result = [g \in Goroutines |-> "none"]
  /\ returns = {}

Makes(g, c) == RefuseCall(g, c) \/ AppGroup(g, c) \/ StartLocked(g, c) \/ StartBuild(g, c)

Call(g) == \E c \in Menu : Makes(g, c)

CriticalSection(g) ==
  \/ Use(g) \/ GroupUse(g) \/ ChildGroup(g) \/ Map(g) \/ MutateOperation(g)
  \/ MapOpenAPI(g) \/ MapSwaggerUI(g)

Build(g) ==
  \/ EnterOnce(g) \/ ReturnFromBuild(g) \/ TakeSnapshot(g) \/ CheckConfig(g)
  \/ CompileOperation(g) \/ RegisterOperation(g) \/ CheckScheme(g)
  \/ MountOpenAPI(g) \/ MountSwagger(g) \/ StartWrapping(g) \/ Wrap(g) \/ PublishHandler(g)

Proceed(g) ==
  Lock(g) \/ CriticalSection(g) \/ Build(g) \/ UserReturns(g) \/ UserPanics(g)

\* The program makes no further call.
Rest == (\A g \in Goroutines : pc[g] = "idle") /\ UNCHANGED vars

Next == Rest \/ \E g \in Goroutines : Call(g) \/ Proceed(g)

Spec == Init /\ [][Next]_vars

\* A goroutine that can go on again and again does: the scheduler runs it, the
\* mutex is granted to a waiter (it hands over to the oldest one), and user code
\* returns or panics.  A program need never make another call.
Fairness == \A g \in Goroutines : SF_vars(Proceed(g))

FairSpec == Spec /\ Fairness

---------------------------------------------------------------------------
(* Properties. *)

BuildSteps ==
  {"freeze", "snapshot", "config", "compile", "register", "scheme", "swagger", "wrap", "user"}
Steps == {"idle", "lock", "locked", "once"} \cup BuildSteps

Results ==
  {"none", "ok", "refused", "duplicate", "nilMiddleware", "ErrFrozen", "built", "panicked"}
Errors == {"", "config", "operation", "route", "scheme", "documentation", "swagger"}

DocumentEntries == [method : Strings, path : PathType, operation : Nat]

\* The type of every variable of the App, of the build and of its callers.
TypeOK ==
  /\ mu \in Goroutines \cup {Nobody} /\ runner \in Goroutines \cup {Nobody}
  /\ config \in Configs /\ frozen \in BOOLEAN
  /\ middlewares \in Seq(Middlewares) /\ operations \in Seq(Definitions)
  /\ openAPIPath \in PathType /\ swagger \in Seq(SwaggerType)
  /\ groups \in Seq(GroupType)
  /\ once \in {"new", "running", "done"}
  /\ builtHandler \in Seq(Layers) /\ builtErr \in Errors
  /\ snap \in SnapshotType
  /\ at \in Nat /\ resume \in BuildSteps \cup {"none"}
  /\ operationIDs \subseteq Strings /\ registered \subseteq PatternType
  /\ compiled \in Seq(Definitions) /\ document \subseteq DocumentEntries
  /\ handler \in Seq(Layers)
  /\ pc \in [Goroutines -> Steps] /\ call \in [Goroutines -> Calls]
  /\ left \in [Goroutines -> 0 .. MaxCalls] /\ result \in [Goroutines -> Results]
  /\ returns \subseteq [handler : Seq(Layers), err : Errors]

\* a.mu is held by exactly the goroutine inside a critical section, on every
\* way out of one: the refusals and the panic of a fluent call release it too.
MutexOwner == \A g \in Goroutines : mu = g <=> pc[g] \in {"locked", "snapshot"}

\* docs/architecture.md rule 8, the freeze boundary: once frozen, no call of
\* any goroutine changes a setting, an operation or an existing group, and
\* the App is never thawed.
FreezeBoundary ==
  [][frozen => /\ frozen'
               /\ UNCHANGED settings
               /\ \A i \in DOMAIN groups : groups'[i] = groups[i]]_vars

\* build reads its copies long after it released a.mu: they still are the
\* configuration, the shared definitions included.
SnapshotCurrent ==
  frozen => snap = [operations |-> Len(operations), middlewares |-> middlewares,
                    openAPIPath |-> openAPIPath, swagger |-> swagger]

\* An operation is compiled in steps between which user code runs and other
\* goroutines call the App: what was compiled and what is served is the
\* definition as it stands.
CompiledCurrent ==
  /\ Len(compiled) <= Len(operations)
  /\ \A i \in DOMAIN compiled : compiled[i] = operations[i]

\* Every Build and MustBuild, whoever calls it and however often, returns the
\* same handler and the same error.
BuildAgreement == \A o, p \in returns : o = p

\* A Build that returns gives a handler or an error.
BuildYieldsHandlerOrError == \A o \in returns : o.handler # <<>> \/ o.err # ""

\* The configuration of an App, and what it must be for the App to build.
Configuration ==
  [config |-> config, middlewares |-> middlewares, operations |-> operations,
   openAPIPath |-> openAPIPath, swagger |-> swagger]

DocumentationPaths(c) ==
  (IF c.openAPIPath = NoPath THEN <<>> ELSE <<c.openAPIPath>>)
    \o [i \in DOMAIN c.swagger |-> c.swagger[i].path]

Patterns(c) ==
  [i \in DOMAIN c.operations |-> OperationPattern(c.operations[i])]
    \o [i \in DOMAIN DocumentationPaths(c) |-> DocumentationPattern(DocumentationPaths(c)[i])]

WellFormed(c) ==
  /\ c.config.info /\ c.config.formatter
  /\ \A i \in DOMAIN c.operations :
       LET d == c.operations[i]
       IN /\ Compiles(c.config, d)
          /\ d.method \in DocumentedMethods
          /\ d.security # "" => c.config.providers[d.security] = "valid"
          /\ \A j \in DOMAIN c.operations \ {i} : d.id # c.operations[j].id
  /\ \A i, j \in DOMAIN Patterns(c) : i # j => ~Conflict(Patterns(c)[i], Patterns(c)[j])
  /\ \A i \in DOMAIN c.swagger : c.swagger[i].page

\* The build accepts exactly the well-formed configurations: its one pass,
\* with the sets it accumulates, misses no bad pair and invents none.
BuildVerdict ==
  /\ builtHandler # <<>> => WellFormed(Configuration) /\ builtErr = ""
  /\ builtErr # "" => ~WellFormed(Configuration)
  /\ once = "done" /\ ~CallbackPanics => builtHandler # <<>> \/ builtErr # ""

\* The handler a successful Build returns has the effective order the README
\* states: carrier, recovery, application middleware in the order of the Use
\* calls, router.
HandlerOrder ==
  builtHandler # <<>> =>
    builtHandler = <<"carrier">> \o Recovery \o middlewares \o <<"mux">>

\* The document and the router describe the same operations: no operation is
\* lost to another one with the same documented path and method.
DocumentComplete ==
  builtHandler # <<>> =>
    \A i \in DOMAIN operations :
      /\ OperationPattern(operations[i]) \in registered
      /\ \E e \in document : /\ e.operation = i /\ e.method = operations[i].method
                             /\ e.path = OpenAPIPath(operations[i].route)

\* What the request path takes for granted of an operation it serves: the
\* provider it is secured with is there and named soundly, an Authenticator
\* is there for rights without a provider, and only a raw operation declares
\* an informational status.
BuiltIsServable ==
  builtHandler # <<>> =>
    \A i \in DOMAIN operations :
      LET d == operations[i]
      IN /\ d.security # "" => config.providers[d.security] = "valid"
         /\ (d.feature \/ d.permission) => d.feature /\ (d.security # "" \/ config.authenticator)
         /\ \A status \in Statuses :
              status < 200 /\ d.responses[status] # "undeclared" => d.raw

\* group.go refuses a prefix with an empty segment, so a route joined from
\* accepted prefixes and a clean path has none.
RoutesHaveNoEmptySegment ==
  \A i \in DOMAIN operations : EmptySegment \notin Segments(operations[i].route)

\* Every call on the App returns: no goroutine waits forever for a.mu or for
\* the Once.
CallsReturn == \A g \in Goroutines : []<>(pc[g] = "idle")

\* The App implements FreezeOnce.
Promise == INSTANCE FreezeOnce WITH
  Verdict <- LAMBDA c : IF WellFormed(c) THEN "accepted" ELSE "rejected",
  Aborted <- "aborted", Pending <- "pending",
  configuration <- Configuration,
  outcome <- IF once # "done" THEN "pending"
             ELSE IF builtHandler # <<>> THEN "accepted"
             ELSE IF builtErr # "" THEN "rejected" ELSE "aborted"
PromiseKept == Promise!Spec
=============================================================================
