------------------------- MODULE AppLifecycleProofs -------------------------
(***************************************************************************)
(* Proofs about AppLifecycle, for every set of goroutines, middlewares,    *)
(* calls and configurations.                                               *)
(***************************************************************************)
EXTENDS AppLifecycle, SequenceTheorems, WellFoundedInduction, TLAPS

---------------------------------------------------------------------------
(* The inductive invariant. *)

\* Where the build is: before it, after it, or its own next step when user
\* code runs and may be inside a call of its own.
Stage ==
  IF once # "running" THEN once
  ELSE IF pc[runner] \in {"user", "lock", "locked"} THEN resume ELSE pc[runner]

\* A call that waits for the lock or holds it passed the checks before it.
CallsReady ==
  \A g \in Goroutines :
    pc[g] \in {"lock", "locked"} =>
      /\ call[g].kind \notin {"AppGroup", "Build"}
      /\ ~Refused(call[g]) /\ HandleExists(call[g])

\* Only the goroutine sync.Once chose is inside build.
OneBuilder ==
  /\ once = "running" => /\ runner \in Goroutines
                         /\ pc[runner] \in BuildSteps \cup {"lock", "locked"}
  /\ \A g \in Goroutines : pc[g] \in BuildSteps => once = "running" /\ runner = g
  /\ once = "running" /\ pc[runner] \in {"user", "lock", "locked"} =>
       resume \in {"register", "scheme", "wrap"}

FrozenByStage == frozen <=> Stage \notin {"new", "freeze", "snapshot"}

\* The build's cursor is inside the sequence it walks, and compiled has one
\* entry per operation compiled.
CursorInRange ==
  /\ ~frozen \/ Stage = "config" => compiled = <<>>
  /\ Stage \in {"compile", "register", "scheme"} => at \in 1 .. snap.operations + 1
  /\ Stage = "compile" => Len(compiled) = at - 1
  /\ Stage \in {"register", "scheme"} => at <= snap.operations /\ Len(compiled) = at
  /\ Stage = "scheme" => operations[at].security # ""
  /\ Stage = "swagger" => at > 0
  /\ Stage = "wrap" => at <= Len(snap.middlewares)

\* Middleware factories and provider methods never run under a.mu, so they
\* can call the App's configuration methods without deadlock.
UserCodeUnlocked == \A g \in Goroutines : pc[g] = "user" => mu # g

\* Build returns what the finished build left behind.
ReturnsOutcome ==
  /\ once # "done" => returns = {}
  /\ \A o \in returns : o = Outcome

\* The inductive invariant of the proofs.
Inductive ==
  /\ TypeOK /\ CallsReady /\ MutexOwner /\ OneBuilder /\ FrozenByStage
  /\ SnapshotCurrent /\ CursorInRange /\ CompiledCurrent /\ ReturnsOutcome

---------------------------------------------------------------------------
(* What the helpers return. *)

\* A sequence has a longest prefix without a nil.
LEMMA FirstNil ==
  ASSUME NEW values \in Seq(Middlewares \cup {Nil})
  PROVE  \E n \in 0 .. Len(values) :
           /\ \A i \in 1 .. n : values[i] # Nil
           /\ n < Len(values) => values[n + 1] = Nil
<1> DEFINE Stops == {n \in 0 .. Len(values) : n < Len(values) => values[n + 1] = Nil}
           Less == {ss \in Nat \X Nat : ss[1] < ss[2]}
<1>1. Len(values) \in Nat /\ Len(values) \in Stops
  BY LenProperties
<1>2. PICK n \in Stops : \A m \in Stops : ~(<<m, n>> \in Less)
  <2>1. Stops \subseteq Nat /\ Stops # {}
    BY <1>1
  <2>2. IsWellFoundedOn(Less, Nat)
    BY NatLessThanWellFounded, Zenon DEF OpToRel
  <2> HIDE DEF Stops, Less
  <2> QED
    BY <2>1, <2>2, WFMin, Zenon
<1>3. ASSUME NEW m \in Stops, m < n
      PROVE  FALSE
  <2>1. m \in Nat /\ n \in Nat
    BY <1>1
  <2>2. <<m, n>> \in Less
    BY <1>3, <2>1
  <2> QED
    BY <1>2, <2>2
<1>4. ASSUME NEW i \in 1 .. n, values[i] = Nil
      PROVE  FALSE
  BY <1>1, <1>3, <1>4, i - 1 \in Stops, i - 1 < n
<1> QED
  BY <1>1, <1>4

\* What a fluent Use keeps of its arguments: the values before the first nil.
LEMMA UpToNilType ==
  ASSUME NEW values \in Seq(Middlewares \cup {Nil})
  PROVE  UpToNil(values) \in Seq(Middlewares)
<1> DEFINE Cut(n) == /\ \A i \in 1 .. n : values[i] # Nil
                     /\ n < Len(values) => values[n + 1] = Nil
           cut == CHOOSE n \in 0 .. Len(values) : Cut(n)
<1>1. cut \in 0 .. Len(values) /\ Cut(cut)
  <2>1. \E n \in 0 .. Len(values) : Cut(n)
    BY FirstNil
  <2> HIDE DEF Cut
  <2> QED
    BY <2>1
<1>2. UpToNil(values) = SubSeq(values, 1, cut)
  BY DEF UpToNil
<1> HIDE DEF cut
<1>3. \A i \in 1 .. cut : values[i] \in Middlewares
  BY <1>1, ElementOfSeq, LenProperties
<1> QED
  BY <1>1, <1>2, <1>3, SubSeqProperties, LenProperties

\* A fluent call keeps a definition a definition.
LEMMA MutatedType ==
  ASSUME NEW d \in Definitions, NEW set \in MutateValues,
         set.field = "security" => set.value \notin {"", ReservedSecurityName}
  PROVE  Mutated(d, set) \in Definitions
<1>1. CASE set.field \in {"id", "notes"}
  BY <1>1 DEF Mutated, Definitions, MutateValues
<1>2. CASE set.field = "security"
  BY <1>2 DEF Mutated, Definitions, MutateValues
<1>3. CASE set.field = "rights"
  BY <1>3 DEF Mutated, Definitions, MutateValues
<1>4. CASE set.field \in {"validation", "consumes"}
  BY <1>4 DEF Mutated, Definitions, MutateValues
<1>5. CASE set.field = "responses"
  <2>1. [d.responses EXCEPT ![set.status] = set.value] \in Responses
    BY <1>5 DEF Definitions, Responses, MutateValues
  <2> QED
    BY <1>5, <2>1 DEF Mutated, Definitions
<1>6. CASE set.field = "middlewares"
  <2>1. set.values \in Seq(Middlewares \cup {Nil})
    BY <1>6 DEF MutateValues
  <2>2. d.middlewares \o UpToNil(set.values) \in Seq(Middlewares)
    BY <2>1, UpToNilType, ConcatProperties DEF Definitions
  <2> QED
    BY <1>6, <2>2 DEF Mutated, Definitions
<1> QED
  BY <1>1, <1>2, <1>3, <1>4, <1>5, <1>6 DEF MutateValues

\* Joining a prefix and a path gives a path.
LEMMA JoinPathsType ==
  ASSUME NEW prefix \in PathType, NEW path \in PathType
  PROVE  JoinPaths(prefix, path) \in PathType
<1>1. <<EmptySegment>> \in Seq(SegmentType)
  <2>1. EmptySegment \in SegmentType
    BY DEF EmptySegment, Literal, SegmentType
  <2> HIDE DEF EmptySegment
  <2> QED
    BY <2>1
<1>2. RootPath \in PathType
  BY DEF RootPath, Path, PathType
<1>3. prefix.segs \o (IF prefix.slash THEN <<EmptySegment>> ELSE <<>>) \o path.segs
        \in Seq(SegmentType)
  BY <1>1, ConcatProperties, EmptySeq DEF PathType
<1> QED
  BY <1>2, <1>3 DEF JoinPaths, Path, PathType

LEMMA NormalizePrefixType ==
  ASSUME NEW prefix \in PathType
  PROVE  NormalizePrefix(prefix) \in PathType
BY DEF NormalizePrefix, Path, PathType
\* The arguments of each kind of call.
LEMMA CallShape ==
  ASSUME NEW c \in Calls
  PROVE  /\ c.kind = "Use" => c.middleware \in Middlewares \cup {Nil}
         /\ c.kind = "AppGroup" => c.prefix \in PathType
         /\ c.kind = "Group" => c.group \in Nat \ {0} /\ c.prefix \in PathType
         /\ c.kind = "GroupUse" =>
              c.group \in Nat \ {0} /\ c.middleware \in Middlewares \cup {Nil}
         /\ c.kind = "Map" => /\ c.group \in Nat \ {0} /\ c.method \in Strings
                              /\ c.path \in PathType /\ c.raw \in BOOLEAN
                              /\ c.shape \in Shapes
         /\ c.kind = "Mutate" => c.operation \in Nat \ {0} /\ c.set \in MutateValues
         /\ c.kind = "MapOpenAPI" => c.path \in PathType
         /\ c.kind = "MapSwaggerUI" => c.path \in PathType /\ c.page \in BOOLEAN
BY DEF Calls

\* The parts of TypeOK that a call's way out of its critical section changes.
LEMMA LeaveType ==
  ASSUME TypeOK, NEW g \in Goroutines, NEW r \in Results, Leave(g, r)
  PROVE  /\ mu' \in Goroutines \cup {Nobody}
         /\ pc' \in [Goroutines -> Steps] /\ result' \in [Goroutines -> Results]
         /\ call' = call /\ left' = left
<1>1. Home(g) \in Steps
  BY DEF Home, Steps, BuildSteps
<1> QED
  BY <1>1 DEF TypeOK, Leave, Finish

\* MayCall only spends a call.
LEMMA MayCallType ==
  ASSUME TypeOK, NEW g \in Goroutines, NEW c \in Menu, MayCall(g, c)
  PROVE  call' \in [Goroutines -> Calls] /\ left' \in [Goroutines -> 0 .. MaxCalls]
<1>1. left[g] \in 0 .. MaxCalls /\ left[g] > 0
  BY DEF TypeOK, MayCall
<1>2. MaxCalls \in Nat /\ c \in Calls
  BY ConstantsAssumption
<1>3. left[g] - 1 \in 0 .. MaxCalls
  BY <1>1, <1>2
<1> QED
  BY <1>2, <1>3 DEF TypeOK, MayCall
---------------------------------------------------------------------------
(* Type correctness, one action at a time. *)

LEMMA CallTypes ==
  ASSUME TypeOK, NEW g \in Goroutines, Call(g)
  PROVE  TypeOK'
<1>1. PICK c \in Menu : \/ RefuseCall(g, c) \/ AppGroup(g, c)
                        \/ StartLocked(g, c) \/ StartBuild(g, c)
  BY DEF Call, Makes
<1> USE DEF settings, built, locals
<1>2. CASE RefuseCall(g, c)
  BY <1>2, MayCallType DEF RefuseCall, TypeOK, Results
<1>3. CASE AppGroup(g, c)
  <2>1. c \in Calls
    BY ConstantsAssumption
  <2>2. NormalizePrefix(c.prefix) \in PathType
    BY <1>3, <2>1, CallShape, NormalizePrefixType DEF AppGroup
  <2>3. [prefix |-> NormalizePrefix(c.prefix), middlewares |-> <<>>] \in GroupType
    BY <2>2 DEF GroupType
  <2>4. groups' \in Seq(GroupType)
    BY <1>3, <2>3 DEF AppGroup, TypeOK
  <2> QED
    BY <1>3, <2>4, MayCallType DEF AppGroup, TypeOK, Results
<1>4. CASE StartLocked(g, c)
  BY <1>4, MayCallType DEF StartLocked, TypeOK, Steps
<1>5. CASE StartBuild(g, c)
  BY <1>5, MayCallType DEF StartBuild, TypeOK, Steps
<1> QED
  BY <1>1, <1>2, <1>3, <1>4, <1>5

LEMMA CriticalSectionTypes ==
  ASSUME TypeOK, CallsReady, NEW g \in Goroutines, CriticalSection(g)
  PROVE  TypeOK'
<1> DEFINE c == call[g]
<1>1. /\ c \in Calls /\ pc[g] = "locked" /\ ~Refused(c) /\ HandleExists(c)
      /\ mu \in Goroutines \cup {Nobody}
  BY DEF TypeOK, CallsReady, CriticalSection, Use, GroupUse, ChildGroup, Map, MutateOperation,
         MapOpenAPI, MapSwaggerUI, Inside
<1> USE DEF settings, built, locals
<1>2. CASE Use(g)
  <2>1. c.middleware \in Middlewares
    BY <1>1, <1>2, CallShape DEF Use, Inside, Refused
  <2>2. middlewares' \in Seq(Middlewares)
    <3>1. middlewares' = middlewares \/ middlewares' = Append(middlewares, c.middleware)
      BY <1>2 DEF Use
    <3>2. middlewares \in Seq(Middlewares)
      BY DEF TypeOK
    <3> QED
      BY <2>1, <3>1, <3>2, AppendProperties
  <2>3. PICK r \in Results : Leave(g, r)
    BY <1>2 DEF Use, Results
  <2> QED
    BY <1>2, <2>2, <2>3, LeaveType DEF Use, TypeOK
<1>3. CASE GroupUse(g)
  <2>1. c.middleware \in Middlewares /\ c.group \in DOMAIN groups
    BY <1>1, <1>3, CallShape DEF GroupUse, Inside, Refused, HandleExists
  <2>2. groups' \in Seq(GroupType)
    <3> DEFINE h == [groups[c.group] EXCEPT !.middlewares = Append(@, c.middleware)]
    <3>1. groups \in Seq(GroupType) /\ groups[c.group] \in GroupType
      BY <2>1 DEF TypeOK
    <3>2. h \in GroupType
      <4>1. Append(groups[c.group].middlewares, c.middleware) \in Seq(Middlewares)
        BY <2>1, <3>1, AppendProperties DEF GroupType
      <4> QED
        BY <3>1, <4>1 DEF GroupType
    <3>3. groups' = groups \/ groups' = [groups EXCEPT ![c.group] = h]
      BY <1>3 DEF GroupUse
    <3> HIDE DEF h
    <3> QED
      BY <2>1, <3>1, <3>2, <3>3
  <2>3. PICK r \in Results : Leave(g, r)
    BY <1>3 DEF GroupUse, Results
  <2> QED
    BY <1>3, <2>2, <2>3, LeaveType DEF GroupUse, TypeOK
<1>4. CASE ChildGroup(g)
  <2>1. c.group \in DOMAIN groups /\ c.prefix \in PathType
    BY <1>1, <1>4, CallShape DEF ChildGroup, Inside, HandleExists
  <2>2. groups \in Seq(GroupType) /\ groups[c.group] \in GroupType
    BY <2>1 DEF TypeOK
  <2>3. JoinPaths(groups[c.group].prefix, NormalizePrefix(c.prefix)) \in PathType
    BY <2>1, <2>2, JoinPathsType, NormalizePrefixType DEF GroupType
  <2>4. groups' \in Seq(GroupType)
    BY <1>4, <2>2, <2>3 DEF ChildGroup, GroupType
  <2>5. Leave(g, "ok") /\ "ok" \in Results
    BY <1>4 DEF ChildGroup, Results
  <2> QED
    BY <1>4, <2>4, <2>5, LeaveType DEF ChildGroup, TypeOK
<1>5. CASE Map(g)
  <2>1. c.kind = "Map" /\ c.group \in DOMAIN groups
    BY <1>1, <1>5 DEF Map, Inside, HandleExists
  <2>2. groups[c.group] \in GroupType
    BY <2>1 DEF TypeOK
  <2>3. NewDefinition(c) \in Definitions
    <3>1. JoinPaths(groups[c.group].prefix, c.path) \in PathType
      BY <1>1, <2>1, <2>2, CallShape, JoinPathsType DEF GroupType
    <3>2. [s \in Statuses |-> "undeclared"] \in Responses
      BY DEF Responses
    <3> QED
      BY <1>1, <2>1, <2>2, <3>1, <3>2, CallShape DEF NewDefinition, Definitions, GroupType
  <2>4. operations' \in Seq(Definitions)
    <3>1. operations' = operations \/ operations' = Append(operations, NewDefinition(c))
      BY <1>5 DEF Map
    <3>2. operations \in Seq(Definitions)
      BY DEF TypeOK
    <3> QED
      BY <2>3, <3>1, <3>2, AppendProperties
  <2>5. PICK r \in Results : Leave(g, r)
    BY <1>5 DEF Map, Results
  <2> QED
    BY <1>5, <2>4, <2>5, LeaveType DEF Map, TypeOK
<1>6. CASE MutateOperation(g)
  <2>1. c.kind = "Mutate" /\ c.operation \in DOMAIN operations /\ c.set \in MutateValues
    BY <1>1, <1>6, CallShape DEF MutateOperation, Inside, HandleExists
  <2>2. operations \in Seq(Definitions) /\ operations[c.operation] \in Definitions
    BY <2>1 DEF TypeOK
  <2>3. Mutated(operations[c.operation], c.set) \in Definitions
    BY <1>1, <2>1, <2>2, MutatedType DEF Refused
  <2>4. operations' \in Seq(Definitions)
    BY <1>6, <2>1, <2>2, <2>3 DEF MutateOperation
  <2>5. PICK r \in Results : Leave(g, r)
    BY <1>6 DEF MutateOperation, Results
  <2> QED
    BY <1>6, <2>4, <2>5, LeaveType DEF MutateOperation, TypeOK
<1>7. CASE MapOpenAPI(g)
  <2>1. c.path \in PathType
    BY <1>1, <1>7, CallShape DEF MapOpenAPI, Inside
  <2>2. PICK r \in Results : Leave(g, r)
    BY <1>7 DEF MapOpenAPI, Results
  <2> QED
    BY <1>7, <2>1, <2>2, LeaveType DEF MapOpenAPI, TypeOK
<1>8. CASE MapSwaggerUI(g)
  <2>1. [path |-> c.path, page |-> c.page] \in SwaggerType
    BY <1>1, <1>8, CallShape DEF MapSwaggerUI, Inside, SwaggerType
  <2>2. swagger' \in Seq(SwaggerType)
    <3>1. swagger' = swagger \/ swagger' = Append(swagger, [path |-> c.path, page |-> c.page])
      BY <1>8 DEF MapSwaggerUI
    <3>2. swagger \in Seq(SwaggerType)
      BY DEF TypeOK
    <3> QED
      BY <2>1, <3>1, <3>2, AppendProperties
  <2>3. PICK r \in Results : Leave(g, r)
    BY <1>8 DEF MapSwaggerUI, Results
  <2> QED
    BY <1>8, <2>2, <2>3, LeaveType DEF MapSwaggerUI, TypeOK
<1> QED
  BY <1>2, <1>3, <1>4, <1>5, <1>6, <1>7, <1>8 DEF CriticalSection
\* Dropping the constraints of segments leaves segments.
LEMMA UnconstrainedType ==
  ASSUME NEW segs \in Seq(SegmentType)
  PROVE  Unconstrained(segs) \in Seq(SegmentType)
<1>1. Len(segs) \in Nat /\ DOMAIN segs = 1 .. Len(segs)
  BY LenProperties
<1>2. ASSUME NEW i \in 1 .. Len(segs)
      PROVE  [segs[i] EXCEPT !.constraint = ""] \in SegmentType
  <2>1. segs[i] \in SegmentType
    BY ElementOfSeq
  <2> QED
    BY <2>1 DEF SegmentType
<1>3. Unconstrained(segs) \in [1 .. Len(segs) -> SegmentType]
  BY <1>1, <1>2 DEF Unconstrained
<1> QED
  BY <1>1, <1>3

LEMMA OperationPatternType ==
  ASSUME NEW d \in Definitions
  PROVE  OperationPattern(d) \in PatternType /\ OpenAPIPath(d.route) \in PathType
<1>1. d.route \in PathType /\ d.method \in Strings
  BY DEF Definitions
<1>2. Unconstrained(d.route.segs) \in Seq(SegmentType) /\ d.route.slash \in BOOLEAN
  BY <1>1, UnconstrainedType DEF PathType
<1> QED
  BY <1>1, <1>2 DEF OperationPattern, Pattern, ServeMuxPath, OpenAPIPath, Path, PatternType,
                    PathType

LEMMA DocumentationPatternType ==
  ASSUME NEW path \in PathType
  PROVE  DocumentationPattern(path) \in PatternType
BY DEF DocumentationPattern, PathType, PatternType

\* The step a builder is at is the stage, and after the snapshot the App is
\* frozen.
LEMMA BuilderStage ==
  ASSUME Inductive, NEW g \in Goroutines, NEW step, Building(g, step),
         step \notin {"user", "lock", "locked"}
  PROVE  /\ Stage = step
         /\ step \in BuildSteps \ {"freeze", "snapshot"} => frozen
BY DEF Building, Stage, Inductive, FrozenByStage, BuildSteps

\* While an operation is worked on, it is one of the App's.
LEMMA CurrentOperation ==
  ASSUME Inductive, NEW g \in Goroutines,
         \/ Building(g, "compile") /\ at <= snap.operations
         \/ Building(g, "register") \/ Building(g, "scheme")
  PROVE  /\ at \in 1 .. Len(operations) /\ operations[at] \in Definitions
         /\ snap.operations = Len(operations) /\ frozen
<1>1. frozen
  BY BuilderStage DEF BuildSteps
<1>2. snap.operations = Len(operations) /\ Len(operations) \in Nat
      /\ operations \in Seq(Definitions)
  BY <1>1, LenProperties DEF Inductive, SnapshotCurrent, TypeOK
<1>3. at \in 1 .. snap.operations
  <2>1. CASE Building(g, "compile") /\ at <= snap.operations
    <3>1. Stage = "compile"
      BY <2>1, BuilderStage
    <3>2. at \in 1 .. snap.operations + 1
      BY <3>1 DEF Inductive, CursorInRange
    <3> QED
      BY <1>2, <2>1, <3>2
  <2>2. CASE Building(g, "register") \/ Building(g, "scheme")
    <3>1. Stage \in {"register", "scheme"}
      BY <2>2, BuilderStage
    <3>2. at \in 1 .. snap.operations + 1 /\ at <= snap.operations
      BY <3>1 DEF Inductive, CursorInRange
    <3> QED
      BY <1>2, <3>2
  <2> QED
    BY <2>1, <2>2
<1> QED
  BY <1>1, <1>2, <1>3, ElementOfSeq
\* The way a build step moves on keeps the types of what it changes.
LEMMA MoveTypes ==
  ASSUME TypeOK, NEW g \in Goroutines, NEW step \in BuildSteps \cup {"once"}, Goto(g, step)
  PROVE  /\ pc' \in [Goroutines -> Steps]
         /\ call' = call /\ left' = left /\ result' = result
BY DEF TypeOK, Goto, Steps

LEMMA FailTypes ==
  ASSUME TypeOK, NEW g \in Goroutines, NEW error \in Errors, Fail(g, error)
  PROVE  /\ pc' \in [Goroutines -> Steps] /\ once' \in {"new", "running", "done"}
         /\ builtErr' \in Errors
         /\ call' = call /\ left' = left /\ result' = result
         /\ runner' = runner /\ builtHandler' = builtHandler /\ resume' = resume
BY DEF TypeOK, Fail, Return, Goto, Steps

LEMMA CallUserTypes ==
  ASSUME TypeOK, NEW g \in Goroutines, NEW step \in BuildSteps, CallUser(g, step)
  PROVE  /\ pc' \in [Goroutines -> Steps] /\ resume' \in BuildSteps
         /\ call' = call /\ left' = left /\ result' = result
BY DEF TypeOK, CallUser, Goto, Steps, BuildSteps

\* Registering a documentation route fails, or moves on with its pattern.
LEMMA RegisterDocumentationTypes ==
  ASSUME TypeOK, NEW g \in Goroutines, NEW path \in PathType,
         RegisterDocumentation(g, path, "swagger")
  PROVE  /\ pc' \in [Goroutines -> Steps] /\ once' \in {"new", "running", "done"}
         /\ builtErr' \in Errors /\ registered' \subseteq PatternType
         /\ call' = call /\ left' = left /\ result' = result
         /\ runner' = runner /\ builtHandler' = builtHandler /\ resume' = resume
<1>1. CASE Fail(g, "documentation") /\ UNCHANGED registered
  BY <1>1, FailTypes DEF TypeOK, Errors
<1>2. CASE /\ registered' = registered \cup {DocumentationPattern(path)}
           /\ Goto(g, "swagger") /\ UNCHANGED <<built, resume>>
  <2>1. registered' \subseteq PatternType
    BY <1>2, DocumentationPatternType DEF TypeOK
  <2>2. "swagger" \in BuildSteps
    BY DEF BuildSteps
  <2> QED
    BY <1>2, <2>1, <2>2, MoveTypes DEF TypeOK, built
<1> QED
  BY <1>1, <1>2 DEF RegisterDocumentation
LEMMA BuildTypes ==
  ASSUME Inductive, NEW g \in Goroutines, Build(g)
  PROVE  TypeOK'
<1>1. TypeOK
  BY DEF Inductive
<1> USE DEF settings, built, locals
<1>2. CASE EnterOnce(g)
  BY <1>1, <1>2 DEF EnterOnce, Goto, TypeOK, Steps, BuildSteps
<1>3. CASE ReturnFromBuild(g)
  <2>1. Outcome \in [handler : Seq(Layers), err : Errors]
    BY <1>1 DEF Outcome, TypeOK
  <2>2. pc' \in [Goroutines -> Steps] /\ result' \in [Goroutines -> Results]
    BY <1>1, <1>3 DEF ReturnFromBuild, TypeOK, Steps, Results
  <2>3. returns' \subseteq [handler : Seq(Layers), err : Errors]
    BY <1>1, <1>3, <2>1 DEF ReturnFromBuild, TypeOK
  <2> QED
    BY <1>1, <1>3, <2>2, <2>3 DEF ReturnFromBuild, TypeOK
<1>4. CASE TakeSnapshot(g)
  <2>1. Len(operations) \in Nat
    BY <1>1, LenProperties DEF TypeOK
  <2>2. snap' \in SnapshotType
    BY <1>1, <1>4, <2>1 DEF TakeSnapshot, TypeOK, SnapshotType
  <2>3. Goto(g, "config") /\ "config" \in BuildSteps
    BY <1>4 DEF TakeSnapshot, BuildSteps
  <2> QED
    BY <1>1, <1>4, <2>2, <2>3, MoveTypes DEF TakeSnapshot, TypeOK
<1>5. CASE CheckConfig(g)
  <2>1. CASE Goto(g, "compile") /\ at' = 1 /\ UNCHANGED <<built, resume>>
    <3>1. "compile" \in BuildSteps
      BY DEF BuildSteps
    <3> QED
      BY <1>1, <1>5, <2>1, <3>1, MoveTypes DEF CheckConfig, TypeOK
  <2>2. CASE Fail(g, "config") /\ UNCHANGED at
    <3>1. "config" \in Errors
      BY DEF Errors
    <3> QED
      BY <1>1, <1>5, <2>2, <3>1, FailTypes DEF CheckConfig, TypeOK
  <2> QED
    BY <1>5, <2>1, <2>2 DEF CheckConfig
<1>6. CASE CompileOperation(g)
  <2>1. operations[at] \in Definitions
    BY <1>6, CurrentOperation DEF CompileOperation
  <2>2. CASE Fail(g, "operation") /\ UNCHANGED <<operationIDs, compiled>>
    <3>1. "operation" \in Errors
      BY DEF Errors
    <3> QED
      BY <1>1, <1>6, <2>2, <3>1, FailTypes DEF CompileOperation, TypeOK
  <2>3. CASE /\ Compiles(config, operations[at])
             /\ operationIDs' = operationIDs \cup {operations[at].id}
             /\ compiled' = Append(compiled, operations[at])
             /\ CallUser(g, "register") /\ UNCHANGED built
    <3>1. operations[at].id \in Strings
      BY <2>1, <2>3 DEF Compiles, DefinitionAccepted, Definitions
    <3>2. operationIDs' \subseteq Strings
      BY <1>1, <2>3, <3>1 DEF TypeOK
    <3>3. compiled' \in Seq(Definitions)
      BY <1>1, <2>1, <2>3, AppendProperties DEF TypeOK
    <3>4. "register" \in BuildSteps
      BY DEF BuildSteps
    <3> QED
      BY <1>1, <1>6, <2>3, <3>2, <3>3, <3>4, CallUserTypes DEF CompileOperation, TypeOK
  <2> QED
    BY <1>6, <2>2, <2>3 DEF CompileOperation
<1>7. CASE RegisterOperation(g)
  <2> DEFINE d == operations[at]
             entry == [method |-> d.method, path |-> OpenAPIPath(d.route), operation |-> at]
             kept == {e \in document : ~(e.method = d.method /\ e.path = OpenAPIPath(d.route))}
  <2>1. d \in Definitions /\ at \in Nat
    BY <1>1, <1>7, CurrentOperation DEF RegisterOperation, TypeOK
  <2>2. CASE Fail(g, "route") /\ UNCHANGED <<at, registered, document>>
    <3>1. "route" \in Errors
      BY DEF Errors
    <3> QED
      BY <1>1, <1>7, <2>2, <3>1, FailTypes DEF RegisterOperation, TypeOK
  <2>3. CASE /\ registered' = registered \cup {OperationPattern(d)}
             /\ document' = kept \cup {entry}
             /\ IF d.security = ""
                THEN Goto(g, "compile") /\ at' = at + 1 /\ UNCHANGED resume
                ELSE CallUser(g, "scheme") /\ UNCHANGED at
             /\ UNCHANGED built
    <3>1. registered' \subseteq PatternType
      BY <1>1, <2>1, <2>3, OperationPatternType DEF TypeOK
    <3>2. entry \in DocumentEntries
      BY <2>1, OperationPatternType DEF DocumentEntries, Definitions
    <3>3. document' \subseteq DocumentEntries
      <4> HIDE DEF entry
      <4> QED
        BY <1>1, <2>3, <3>2 DEF TypeOK
    <3>4. "compile" \in BuildSteps /\ "scheme" \in BuildSteps
      BY DEF BuildSteps
    <3>5. /\ pc' \in [Goroutines -> Steps] /\ resume' \in BuildSteps \cup {"none"}
          /\ call' = call /\ left' = left /\ result' = result /\ at' \in Nat
      <4>1. CASE Goto(g, "compile") /\ at' = at + 1 /\ UNCHANGED resume
        BY <1>1, <2>1, <3>4, <4>1, MoveTypes DEF TypeOK
      <4>2. CASE CallUser(g, "scheme") /\ UNCHANGED at
        BY <1>1, <2>1, <3>4, <4>2, CallUserTypes DEF TypeOK
      <4> QED
        BY <2>3, <4>1, <4>2
    <3> QED
      BY <1>1, <1>7, <2>3, <3>1, <3>3, <3>5 DEF RegisterOperation, TypeOK
  <2> QED
    BY <1>7, <2>2, <2>3 DEF RegisterOperation, SetPathOperation
<1>8. CASE CheckScheme(g)
  <2>1. CASE Goto(g, "compile") /\ at' = at + 1 /\ UNCHANGED <<built, resume>>
    <3>1. "compile" \in BuildSteps /\ at' \in Nat
      BY <1>1, <2>1 DEF BuildSteps, TypeOK
    <3> QED
      BY <1>1, <1>8, <2>1, <3>1, MoveTypes DEF CheckScheme, TypeOK
  <2>2. CASE Fail(g, "scheme") /\ UNCHANGED at
    <3>1. "scheme" \in Errors
      BY DEF Errors
    <3> QED
      BY <1>1, <1>8, <2>2, <3>1, FailTypes DEF CheckScheme, TypeOK
  <2> QED
    BY <1>8, <2>1, <2>2 DEF CheckScheme
<1>9. CASE MountOpenAPI(g)
  <2>1. CASE Goto(g, "swagger") /\ UNCHANGED <<built, resume, registered>>
    <3>1. "swagger" \in BuildSteps
      BY DEF BuildSteps
    <3> QED
      BY <1>1, <1>9, <2>1, <3>1, MoveTypes DEF MountOpenAPI, TypeOK
  <2>2. CASE RegisterDocumentation(g, snap.openAPIPath, "swagger")
    <3>1. snap.openAPIPath \in PathType
      BY <1>1 DEF TypeOK, SnapshotType
    <3> QED
      BY <1>1, <1>9, <2>2, <3>1, RegisterDocumentationTypes DEF MountOpenAPI, TypeOK
  <2> QED
    BY <1>9, <2>1, <2>2 DEF MountOpenAPI
<1>10. CASE MountSwagger(g)
  <2>1. at \in 1 .. Len(snap.swagger) /\ snap.swagger \in Seq(SwaggerType)
    <3>1. Stage = "swagger"
      BY <1>10, BuilderStage DEF MountSwagger
    <3>2. at > 0 /\ at \in Nat /\ snap.swagger \in Seq(SwaggerType)
      BY <1>1, <3>1 DEF Inductive, CursorInRange, TypeOK, SnapshotType
    <3> QED
      BY <1>10, <3>2, LenProperties DEF MountSwagger
  <2>2. snap.swagger[at].path \in PathType /\ at' \in Nat
    <3>1. snap.swagger[at] \in SwaggerType
      BY <2>1, ElementOfSeq
    <3>2. at' = at + 1
      BY <1>10 DEF MountSwagger
    <3> QED
      BY <2>1, <3>1, <3>2 DEF SwaggerType
  <2>3. CASE Fail(g, "swagger") /\ UNCHANGED registered
    <3>1. "swagger" \in Errors
      BY DEF Errors
    <3> QED
      BY <1>1, <1>10, <2>2, <2>3, <3>1, FailTypes DEF MountSwagger, TypeOK
  <2>4. CASE RegisterDocumentation(g, snap.swagger[at].path, "swagger")
    BY <1>1, <1>10, <2>2, <2>4, RegisterDocumentationTypes DEF MountSwagger, TypeOK
  <2> QED
    BY <1>10, <2>3, <2>4 DEF MountSwagger
<1>11. CASE StartWrapping(g)
  <2>1. Len(snap.middlewares) \in Nat
    BY <1>1, LenProperties DEF TypeOK, SnapshotType
  <2>2. <<"mux">> \in Seq(Layers)
    <3>1. "mux" \in Layers
      BY DEF Layers
    <3> QED
      BY <3>1
  <2>3. Goto(g, "wrap") /\ "wrap" \in BuildSteps
    BY <1>11 DEF StartWrapping, BuildSteps
  <2> QED
    BY <1>1, <1>11, <2>1, <2>2, <2>3, MoveTypes DEF StartWrapping, TypeOK
<1>12. CASE Wrap(g)
  <2>1. at \in 1 .. Len(snap.middlewares) /\ snap.middlewares \in Seq(Middlewares)
    <3>1. Stage = "wrap"
      BY <1>12, BuilderStage DEF Wrap
    <3>2. at <= Len(snap.middlewares) /\ at \in Nat /\ snap.middlewares \in Seq(Middlewares)
      BY <1>1, <3>1 DEF Inductive, CursorInRange, TypeOK, SnapshotType
    <3> QED
      BY <1>12, <3>2, LenProperties DEF Wrap
  <2>2. snap.middlewares[at] \in Layers
    BY <2>1, ElementOfSeq DEF Layers
  <2>3. handler' \in Seq(Layers)
    <3>1. <<snap.middlewares[at]>> \in Seq(Layers) /\ handler \in Seq(Layers)
      BY <1>1, <2>2 DEF TypeOK
    <3> QED
      BY <1>12, <3>1, ConcatProperties DEF Wrap
  <2>4. CallUser(g, "wrap") /\ "wrap" \in BuildSteps /\ at' \in Nat
    BY <1>12, <2>1 DEF Wrap, BuildSteps
  <2> QED
    BY <1>1, <1>12, <2>3, <2>4, CallUserTypes DEF Wrap, TypeOK
<1>13. CASE PublishHandler(g)
  <2>1. <<"carrier">> \in Seq(Layers) /\ Recovery \in Seq(Layers)
    <3>1. "carrier" \in Layers /\ "recovery" \in Layers
      BY DEF Layers
    <3>2. <<"carrier">> \in Seq(Layers) /\ <<"recovery">> \in Seq(Layers)
      BY <3>1
    <3> QED
      BY <3>2, EmptySeq DEF Recovery
  <2>2. builtHandler' \in Seq(Layers)
    <3>1. builtHandler' = <<"carrier">> \o Recovery \o handler /\ handler \in Seq(Layers)
      BY <1>1, <1>13 DEF PublishHandler, TypeOK
    <3>2. <<"carrier">> \o Recovery \in Seq(Layers)
      BY <2>1, ConcatProperties
    <3> QED
      BY <3>1, <3>2, ConcatProperties
  <2>3. once' \in {"new", "running", "done"} /\ Goto(g, "once")
    BY <1>13 DEF PublishHandler, Return
  <2> QED
    BY <1>1, <1>13, <2>2, <2>3, MoveTypes DEF PublishHandler, Return, TypeOK
<1> QED
  BY <1>2, <1>3, <1>4, <1>5, <1>6, <1>7, <1>8, <1>9, <1>10, <1>11, <1>12, <1>13 DEF Build
LEMMA ProceedTypes ==
  ASSUME Inductive, NEW g \in Goroutines, Proceed(g)
  PROVE  TypeOK'
<1>1. TypeOK /\ CallsReady
  BY DEF Inductive
<1> USE DEF settings, built, locals
<1>2. CASE Lock(g)
  BY <1>1, <1>2 DEF Lock, TypeOK, Steps, BuildSteps
<1>3. CASE CriticalSection(g)
  BY <1>1, <1>3, CriticalSectionTypes
<1>4. CASE Build(g)
  BY <1>4, BuildTypes
<1>5. CASE UserReturns(g)
  <2>1. resume \in BuildSteps
    BY <1>5 DEF UserReturns, Building, Inductive, OneBuilder, BuildSteps
  <2> QED
    BY <1>1, <1>5, <2>1, MoveTypes DEF UserReturns, TypeOK
<1>6. CASE UserPanics(g)
  BY <1>1, <1>6 DEF UserPanics, TypeOK, Steps, Results
<1> QED
  BY <1>2, <1>3, <1>4, <1>5, <1>6 DEF Proceed

LEMMA StepTypes ==
  ASSUME Inductive, [Next]_vars
  PROVE  TypeOK'
<1>1. TypeOK
  BY DEF Inductive
<1>2. CASE UNCHANGED vars
  BY <1>1, <1>2 DEF vars, settings, locals, built, control, TypeOK
<1>3. CASE Next
  <2>1. CASE Rest
    BY <1>1, <2>1 DEF Rest, vars, settings, locals, built, control, TypeOK
  <2>2. ASSUME NEW g \in Goroutines, Call(g) \/ Proceed(g)
        PROVE  TypeOK'
    BY <1>1, <2>2, CallTypes, ProceedTypes
  <2> QED
    BY <1>3, <2>1, <2>2 DEF Next
<1> QED
  BY <1>2, <1>3
---------------------------------------------------------------------------
(* How each kind of step moves the goroutines. *)

LEMMA CallMoves ==
  ASSUME TypeOK, NEW g \in Goroutines, Call(g)
  PROVE  \E c \in Menu :
           /\ pc[g] \in {"idle", "user"} /\ HandleExists(c)
           /\ call' = [call EXCEPT ![g] = c]
           /\ \/ pc' = pc
              \/ /\ pc' = [pc EXCEPT ![g] = "lock"]
                 /\ c.kind \notin {"AppGroup", "Build"} /\ ~Refused(c)
              \/ pc' = [pc EXCEPT ![g] = "once"] /\ pc[g] = "idle"
           /\ UNCHANGED <<mu, config, frozen, settings, built, snap, locals, returns>>
<1>1. PICK c \in Menu : \/ RefuseCall(g, c) \/ AppGroup(g, c)
                        \/ StartLocked(g, c) \/ StartBuild(g, c)
  BY DEF Call, Makes
<1>2. CASE RefuseCall(g, c)
  BY <1>2 DEF RefuseCall, MayCall
<1>3. CASE AppGroup(g, c)
  BY <1>3 DEF AppGroup, MayCall
<1>4. CASE StartLocked(g, c)
  BY <1>4 DEF StartLocked, MayCall
<1>5. CASE StartBuild(g, c)
  BY <1>5 DEF StartBuild, MayCall
<1> QED
  BY <1>1, <1>2, <1>3, <1>4, <1>5

LEMMA CriticalSectionMoves ==
  ASSUME NEW g \in Goroutines, CriticalSection(g)
  PROVE  /\ pc[g] = "locked" /\ pc' = [pc EXCEPT ![g] = Home(g)] /\ mu' = Nobody
         /\ call' = call
         /\ UNCHANGED <<config, frozen, built, snap, locals, returns>>
<1> USE DEF Leave, Finish, Inside
<1>1. CASE Use(g)
  BY <1>1 DEF Use
<1>2. CASE GroupUse(g)
  BY <1>2 DEF GroupUse
<1>3. CASE ChildGroup(g)
  BY <1>3 DEF ChildGroup
<1>4. CASE Map(g)
  BY <1>4 DEF Map
<1>5. CASE MutateOperation(g)
  BY <1>5 DEF MutateOperation
<1>6. CASE MapOpenAPI(g)
  BY <1>6 DEF MapOpenAPI
<1>7. CASE MapSwaggerUI(g)
  BY <1>7 DEF MapSwaggerUI
<1> QED
  BY <1>1, <1>2, <1>3, <1>4, <1>5, <1>6, <1>7 DEF CriticalSection
\* The steps of build after the snapshot.
Compilation(g) ==
  \/ CheckConfig(g) \/ CompileOperation(g) \/ RegisterOperation(g) \/ CheckScheme(g)
  \/ MountOpenAPI(g) \/ MountSwagger(g) \/ StartWrapping(g) \/ Wrap(g) \/ PublishHandler(g)

LEMMA CompilationMoves ==
  ASSUME NEW g \in Goroutines, Compilation(g)
  PROVE  /\ once = "running" /\ runner = g
         /\ pc[g] \in {"config", "compile", "register", "scheme", "swagger", "wrap"}
         /\ UNCHANGED <<mu, config, frozen, settings, groups, runner, snap, call, returns>>
         /\ \/ /\ once' = once /\ resume' = resume
               /\ pc' = [pc EXCEPT ![g] = "compile"] \/ pc' = [pc EXCEPT ![g] = "swagger"]
                  \/ pc' = [pc EXCEPT ![g] = "wrap"]
            \/ /\ once' = once /\ resume' \in {"register", "scheme", "wrap"}
               /\ pc' = [pc EXCEPT ![g] = "user"]
            \/ once' = "done" /\ pc' = [pc EXCEPT ![g] = "once"]
<1> USE DEF Goto, Fail, Return, CallUser, Building, RegisterDocumentation, built
<1>1. CASE CheckConfig(g)
  BY <1>1 DEF CheckConfig
<1>2. CASE CompileOperation(g)
  BY <1>2 DEF CompileOperation
<1>3. CASE RegisterOperation(g)
  BY <1>3 DEF RegisterOperation
<1>4. CASE CheckScheme(g)
  BY <1>4 DEF CheckScheme
<1>5. CASE MountOpenAPI(g)
  BY <1>5 DEF MountOpenAPI
<1>6. CASE MountSwagger(g)
  BY <1>6 DEF MountSwagger
<1>7. CASE StartWrapping(g)
  BY <1>7 DEF StartWrapping
<1>8. CASE Wrap(g)
  BY <1>8 DEF Wrap
<1>9. CASE PublishHandler(g)
  BY <1>9 DEF PublishHandler
<1> QED
  BY <1>1, <1>2, <1>3, <1>4, <1>5, <1>6, <1>7, <1>8, <1>9 DEF Compilation

\* The kinds of step, for the lemmas that only look at how a step moves.
LEMMA StepKinds ==
  ASSUME [Next]_vars
  PROVE  \/ UNCHANGED vars
         \/ \E g \in Goroutines :
              \/ Call(g) \/ Lock(g) \/ CriticalSection(g)
              \/ EnterOnce(g) \/ ReturnFromBuild(g) \/ TakeSnapshot(g) \/ Compilation(g)
              \/ UserReturns(g) \/ UserPanics(g)
BY DEF Next, Rest, Proceed, Build, Compilation

LEMMA StepMutex ==
  ASSUME Inductive, [Next]_vars
  PROVE  MutexOwner'
<1>1. MutexOwner /\ pc \in [Goroutines -> Steps] /\ Nobody \notin Goroutines
  BY ConstantsAssumption DEF Inductive, TypeOK
<1>2. CASE UNCHANGED vars
  BY <1>1, <1>2 DEF vars, control, MutexOwner
<1>3. ASSUME NEW g \in Goroutines, Call(g)
      PROVE  MutexOwner'
  BY <1>1, <1>3, CallMoves DEF MutexOwner, Inductive
<1>4. ASSUME NEW g \in Goroutines, Lock(g)
      PROVE  MutexOwner'
  BY <1>1, <1>4 DEF Lock, MutexOwner
<1>5. ASSUME NEW g \in Goroutines, CriticalSection(g)
      PROVE  MutexOwner'
  BY <1>1, <1>5, CriticalSectionMoves DEF MutexOwner, Home
<1>6. ASSUME NEW g \in Goroutines, EnterOnce(g) \/ ReturnFromBuild(g)
      PROVE  MutexOwner'
  BY <1>1, <1>6 DEF EnterOnce, ReturnFromBuild, Goto, MutexOwner
<1>7. ASSUME NEW g \in Goroutines, TakeSnapshot(g)
      PROVE  MutexOwner'
  BY <1>1, <1>7 DEF TakeSnapshot, Building, Goto, MutexOwner
<1>8. ASSUME NEW g \in Goroutines, Compilation(g)
      PROVE  MutexOwner'
  BY <1>1, <1>8, CompilationMoves DEF MutexOwner
<1>9. ASSUME NEW g \in Goroutines, UserReturns(g)
      PROVE  MutexOwner'
  BY <1>1, <1>9 DEF UserReturns, Building, Goto, MutexOwner, Inductive, OneBuilder
<1>10. ASSUME NEW g \in Goroutines, UserPanics(g)
       PROVE  MutexOwner'
  BY <1>1, <1>10 DEF UserPanics, Building, MutexOwner
<1> QED
  BY StepKinds, <1>2, <1>3, <1>4, <1>5, <1>6, <1>7, <1>8, <1>9, <1>10

LEMMA StepBuilder ==
  ASSUME Inductive, [Next]_vars
  PROVE  OneBuilder'
<1>1. OneBuilder /\ pc \in [Goroutines -> Steps]
  BY DEF Inductive, TypeOK
<1> USE DEF OneBuilder, BuildSteps
<1>2. CASE UNCHANGED vars
  BY <1>1, <1>2 DEF vars, control, built, locals
<1>3. ASSUME NEW g \in Goroutines, Call(g)
      PROVE  OneBuilder'
  BY <1>1, <1>3, CallMoves DEF Inductive, built, locals
<1>4. ASSUME NEW g \in Goroutines, Lock(g)
      PROVE  OneBuilder'
  BY <1>1, <1>4 DEF Lock, built, locals
<1>5. ASSUME NEW g \in Goroutines, CriticalSection(g)
      PROVE  OneBuilder'
  BY <1>1, <1>5, CriticalSectionMoves DEF Home, built, locals
<1>6. ASSUME NEW g \in Goroutines, EnterOnce(g) \/ ReturnFromBuild(g)
      PROVE  OneBuilder'
  BY <1>1, <1>6 DEF EnterOnce, ReturnFromBuild, Goto, built, locals
<1>7. ASSUME NEW g \in Goroutines, TakeSnapshot(g)
      PROVE  OneBuilder'
  BY <1>1, <1>7 DEF TakeSnapshot, Building, Goto, built, locals
<1>8. ASSUME NEW g \in Goroutines, Compilation(g)
      PROVE  OneBuilder'
  BY <1>1, <1>8, CompilationMoves
<1>9. ASSUME NEW g \in Goroutines, UserReturns(g)
      PROVE  OneBuilder'
  BY <1>1, <1>9 DEF UserReturns, Building, Goto, built, locals
<1>10. ASSUME NEW g \in Goroutines, UserPanics(g)
       PROVE  OneBuilder'
  BY <1>1, <1>10 DEF UserPanics, Building, locals
<1> QED
  BY StepKinds, <1>2, <1>3, <1>4, <1>5, <1>6, <1>7, <1>8, <1>9, <1>10
---------------------------------------------------------------------------
(* The freeze boundary. *)

\* What holds of the settings and the groups across any step: handles stay
\* valid, and nothing that exists changes once the App is frozen.
Boundary ==
  /\ DOMAIN groups \subseteq DOMAIN groups'
  /\ DOMAIN operations \subseteq DOMAIN operations'
  /\ frozen => /\ UNCHANGED settings
               /\ \A i \in DOMAIN groups : groups'[i] = groups[i]

LEMMA AppendKeeps ==
  ASSUME NEW S, NEW s \in Seq(S), NEW e \in S
  PROVE  /\ DOMAIN s \subseteq DOMAIN Append(s, e)
         /\ \A i \in DOMAIN s : Append(s, e)[i] = s[i]
<1>1. Len(s) \in Nat /\ DOMAIN s = 1 .. Len(s)
  BY LenProperties
<1>2. Append(s, e) \in Seq(S) /\ Len(Append(s, e)) = Len(s) + 1
  BY AppendProperties
<1>3. DOMAIN Append(s, e) = 1 .. Len(s) + 1
  BY <1>2, LenProperties
<1>4. \A i \in 1 .. Len(s) : Append(s, e)[i] = s[i]
  BY AppendProperties
<1> QED
  BY <1>1, <1>3, <1>4

LEMMA CallBoundary ==
  ASSUME TypeOK, NEW g \in Goroutines, Call(g)
  PROVE  Boundary
<1>1. PICK c \in Menu : \/ RefuseCall(g, c) \/ AppGroup(g, c)
                        \/ StartLocked(g, c) \/ StartBuild(g, c)
  BY DEF Call, Makes
<1>2. CASE AppGroup(g, c)
  <2>1. c \in Calls
    BY ConstantsAssumption
  <2>2. NormalizePrefix(c.prefix) \in PathType
    BY <1>2, <2>1, CallShape, NormalizePrefixType DEF AppGroup
  <2> DEFINE new == [prefix |-> NormalizePrefix(c.prefix), middlewares |-> <<>>]
  <2>3. new \in GroupType /\ groups \in Seq(GroupType)
    BY <2>2 DEF GroupType, TypeOK
  <2>4. groups' = Append(groups, new) /\ UNCHANGED settings
    BY <1>2 DEF AppGroup
  <2> HIDE DEF new
  <2> QED
    BY <2>3, <2>4, AppendKeeps DEF Boundary, settings
<1>3. CASE RefuseCall(g, c) \/ StartLocked(g, c) \/ StartBuild(g, c)
  BY <1>3 DEF RefuseCall, StartLocked, StartBuild, Boundary, settings
<1> QED
  BY <1>1, <1>2, <1>3

LEMMA CriticalSectionBoundary ==
  ASSUME TypeOK, CallsReady, NEW g \in Goroutines, CriticalSection(g)
  PROVE  Boundary
<1> DEFINE c == call[g]
<1>1. TypeOK'
  BY CriticalSectionTypes
<1>2. /\ c \in Calls /\ pc[g] = "locked" /\ ~Refused(c) /\ HandleExists(c)
  BY CriticalSectionMoves DEF TypeOK, CallsReady
<1> USE DEF Boundary, settings
<1>3. CASE Use(g)
  BY <1>3 DEF Use
<1>4. CASE GroupUse(g)
  BY <1>4 DEF GroupUse
<1>5. CASE ChildGroup(g)
  <2> DEFINE new == [prefix |-> JoinPaths(groups[c.group].prefix, NormalizePrefix(c.prefix)),
                     middlewares |-> groups[c.group].middlewares]
  <2>1. c.group \in DOMAIN groups /\ c.prefix \in PathType
    BY <1>2, <1>5, CallShape DEF ChildGroup, Inside, HandleExists
  <2>2. groups[c.group] \in GroupType /\ groups \in Seq(GroupType)
    BY <2>1 DEF TypeOK
  <2>3. new \in GroupType
    BY <2>1, <2>2, JoinPathsType, NormalizePrefixType DEF GroupType
  <2>4. groups' = Append(groups, new) /\ UNCHANGED settings
    BY <1>5 DEF ChildGroup
  <2> HIDE DEF new
  <2> QED
    BY <2>2, <2>3, <2>4, AppendKeeps
<1>6. CASE Map(g)
  <2>1. operations \in Seq(Definitions) /\ operations' \in Seq(Definitions)
    BY <1>1 DEF TypeOK
  <2>2. operations' = operations \/ operations' = Append(operations, NewDefinition(c))
    BY <1>6 DEF Map
  <2>3. DOMAIN operations \subseteq DOMAIN operations'
    BY <2>1, <2>2, LenProperties
  <2> QED
    BY <1>6, <2>3 DEF Map
<1>7. CASE MutateOperation(g)
  <2>1. DOMAIN operations \subseteq DOMAIN operations'
    BY <1>7 DEF MutateOperation
  <2> QED
    BY <1>7, <2>1 DEF MutateOperation
<1>8. CASE MapOpenAPI(g)
  BY <1>8 DEF MapOpenAPI
<1>9. CASE MapSwaggerUI(g)
  BY <1>9 DEF MapSwaggerUI
<1> QED
  BY <1>3, <1>4, <1>5, <1>6, <1>7, <1>8, <1>9 DEF CriticalSection

LEMMA StepBoundary ==
  ASSUME Inductive, [Next]_vars
  PROVE  Boundary
<1>1. TypeOK /\ CallsReady
  BY DEF Inductive
<1>2. CASE UNCHANGED vars
  BY <1>2 DEF vars, settings, Boundary
<1>3. ASSUME NEW g \in Goroutines, Call(g) \/ CriticalSection(g)
      PROVE  Boundary
  BY <1>1, <1>3, CallBoundary, CriticalSectionBoundary
<1>4. ASSUME NEW g \in Goroutines,
             \/ Lock(g) \/ EnterOnce(g) \/ ReturnFromBuild(g) \/ TakeSnapshot(g)
             \/ Compilation(g) \/ UserReturns(g) \/ UserPanics(g)
      PROVE  Boundary
  <2>1. UNCHANGED <<settings, groups>>
    BY <1>4, CompilationMoves
       DEF Lock, EnterOnce, ReturnFromBuild, TakeSnapshot, UserReturns, UserPanics
  <2> QED
    BY <2>1 DEF Boundary, settings
<1> QED
  BY StepKinds, <1>2, <1>3, <1>4

LEMMA StepReady ==
  ASSUME Inductive, [Next]_vars
  PROVE  CallsReady'
<1>1. CallsReady /\ pc \in [Goroutines -> Steps] /\ call \in [Goroutines -> Calls]
  BY DEF Inductive, TypeOK
<1>2. \A c : HandleExists(c) => HandleExists(c)'
  BY StepBoundary DEF Boundary, HandleExists
<1>3. CASE UNCHANGED vars
  BY <1>1, <1>3 DEF vars, control, settings, CallsReady, HandleExists
<1>4. ASSUME NEW g \in Goroutines, Call(g)
      PROVE  CallsReady'
  <2>1. TypeOK
    BY DEF Inductive
  <2>2. PICK c \in Menu :
           /\ HandleExists(c) /\ call' = [call EXCEPT ![g] = c] /\ pc[g] \in {"idle", "user"}
           /\ \/ pc' = pc
              \/ /\ pc' = [pc EXCEPT ![g] = "lock"]
                 /\ c.kind \notin {"AppGroup", "Build"} /\ ~Refused(c)
              \/ pc' = [pc EXCEPT ![g] = "once"]
    BY <1>4, <2>1, CallMoves
  <2>3. HandleExists(c)'
    BY <1>2, <2>2
  <2>4. ASSUME NEW h \in Goroutines, pc'[h] \in {"lock", "locked"}
        PROVE  call'[h].kind \notin {"AppGroup", "Build"} /\ ~Refused(call'[h])
               /\ HandleExists(call[h])'
    <3>1. CASE h = g
      BY <1>1, <2>2, <2>3, <2>4, <3>1 DEF HandleExists
    <3>2. CASE h # g
      <4>1. pc'[h] = pc[h] /\ call'[h] = call[h]
        BY <1>1, <2>2, <3>2
      <4> QED
        BY <1>1, <1>2, <2>4, <4>1 DEF CallsReady, HandleExists
    <3> QED
      BY <3>1, <3>2
  <2> QED
    BY <2>4 DEF CallsReady
<1>5. ASSUME call' = call, \A h \in Goroutines : pc'[h] \in {"lock", "locked"} =>
                                                 pc[h] \in {"lock", "locked"}
      PROVE  CallsReady'
  BY <1>1, <1>2, <1>5 DEF CallsReady, HandleExists
<1>6. ASSUME NEW g \in Goroutines,
             \/ Lock(g) \/ CriticalSection(g) \/ EnterOnce(g) \/ ReturnFromBuild(g)
             \/ TakeSnapshot(g) \/ Compilation(g) \/ UserReturns(g) \/ UserPanics(g)
      PROVE  CallsReady'
  <2>1. call' = call
    BY <1>6, CriticalSectionMoves, CompilationMoves
       DEF Lock, EnterOnce, ReturnFromBuild, TakeSnapshot, UserReturns, UserPanics, Goto, control
  <2>2. ASSUME NEW h \in Goroutines, pc'[h] \in {"lock", "locked"}
        PROVE  pc[h] \in {"lock", "locked"}
    <3>1. CASE Lock(g)
      BY <1>1, <2>2, <3>1 DEF Lock
    <3>2. CASE CriticalSection(g)
      BY <1>1, <2>2, <3>2, CriticalSectionMoves DEF Home
    <3>3. CASE EnterOnce(g) \/ ReturnFromBuild(g) \/ TakeSnapshot(g) \/ UserPanics(g)
      BY <1>1, <2>2, <3>3 DEF EnterOnce, ReturnFromBuild, TakeSnapshot, UserPanics, Goto
    <3>4. CASE Compilation(g)
      BY <1>1, <2>2, <3>4, CompilationMoves
    <3>5. CASE UserReturns(g)
      BY <1>1, <2>2, <3>5 DEF UserReturns, Building, Goto, Inductive, OneBuilder
    <3> QED
      BY <1>6, <3>1, <3>2, <3>3, <3>4, <3>5
  <2> QED
    BY <1>5, <2>1, <2>2
<1> QED
  BY StepKinds, <1>3, <1>4, <1>6
---------------------------------------------------------------------------
(* How the steps move the stage of the build. *)

LEMMA QuietStage ==
  ASSUME Inductive, NEW g \in Goroutines,
         \/ UNCHANGED vars \/ Call(g) \/ CriticalSection(g) \/ UserReturns(g)
         \/ ReturnFromBuild(g) \/ (Lock(g) /\ pc[g] = "lock")
  PROVE  Stage' = Stage /\ UNCHANGED <<config, frozen, snap, built, locals>>
<1>1. TypeOK /\ pc \in [Goroutines -> Steps] /\ OneBuilder
  BY DEF Inductive, TypeOK
<1> USE DEF OneBuilder, BuildSteps, Stage
<1>2. CASE UNCHANGED vars
  BY <1>1, <1>2 DEF vars, control, built, locals
<1>3. CASE Call(g)
  BY <1>1, <1>3, CallMoves DEF built, locals
<1>4. CASE CriticalSection(g)
  BY <1>1, <1>4, CriticalSectionMoves DEF built, locals, Home
<1>5. CASE UserReturns(g)
  BY <1>1, <1>5 DEF UserReturns, Building, Goto, built, locals
<1>6. CASE ReturnFromBuild(g)
  BY <1>1, <1>6 DEF ReturnFromBuild, built, locals
<1>7. CASE Lock(g) /\ pc[g] = "lock"
  BY <1>1, <1>7 DEF Lock, built, locals
<1> QED
  BY <1>2, <1>3, <1>4, <1>5, <1>6, <1>7

LEMMA FreezingStage ==
  ASSUME Inductive, NEW g \in Goroutines
  PROVE  /\ EnterOnce(g) => Stage = "new" /\ Stage' = "freeze"
         /\ Lock(g) /\ pc[g] = "freeze" => Stage = "freeze" /\ Stage' = "snapshot"
         /\ TakeSnapshot(g) => Stage = "snapshot" /\ Stage' = "config"
         /\ UserPanics(g) => Stage \in {"register", "scheme", "wrap"} /\ Stage' = "done"
<1>1. pc \in [Goroutines -> Steps] /\ OneBuilder
  BY DEF Inductive, TypeOK
<1> USE DEF OneBuilder, BuildSteps, Stage
<1>2. EnterOnce(g) => Stage = "new" /\ Stage' = "freeze"
  BY <1>1 DEF EnterOnce, Goto
<1>3. Lock(g) /\ pc[g] = "freeze" => Stage = "freeze" /\ Stage' = "snapshot"
  BY <1>1 DEF Lock, built
<1>4. TakeSnapshot(g) => Stage = "snapshot" /\ Stage' = "config"
  BY <1>1 DEF TakeSnapshot, Building, Goto, built
<1>5. UserPanics(g) => Stage \in {"register", "scheme", "wrap"} /\ Stage' = "done"
  BY <1>1 DEF UserPanics, Building
<1> QED
  BY <1>2, <1>3, <1>4, <1>5

\* After a compilation step the stage is the step it goes to, the step after
\* the user code it calls, or the end.
LEMMA CompilationStage ==
  ASSUME Inductive, NEW g \in Goroutines, Compilation(g)
  PROVE  /\ Stage = pc[g] /\ frozen
         /\ \/ once' = "done" /\ Stage' = "done"
            \/ /\ once' = "running" /\ pc'[g] = "user"
               /\ Stage' = resume' /\ resume' \in {"register", "scheme", "wrap"}
            \/ once' = "running" /\ pc'[g] \in {"compile", "swagger", "wrap"} /\ Stage' = pc'[g]
<1>1. pc \in [Goroutines -> Steps]
  BY DEF Inductive, TypeOK
<1>2. /\ once = "running" /\ runner = g /\ runner' = g
      /\ pc[g] \in {"config", "compile", "register", "scheme", "swagger", "wrap"}
  BY CompilationMoves
<1>3. Stage = pc[g] /\ frozen
  BY <1>2 DEF Stage, Inductive, FrozenByStage
<1> QED
  BY <1>1, <1>2, <1>3, CompilationMoves DEF Stage

LEMMA StepFrozen ==
  ASSUME Inductive, [Next]_vars
  PROVE  FrozenByStage'
<1>1. FrozenByStage
  BY DEF Inductive
<1>2. CASE UNCHANGED vars
  BY <1>1, <1>2 DEF vars, control, built, locals, Stage, FrozenByStage
<1>3. ASSUME NEW g \in Goroutines,
             Call(g) \/ CriticalSection(g) \/ UserReturns(g) \/ ReturnFromBuild(g)
      PROVE  FrozenByStage'
  <2>1. Stage' = Stage /\ frozen' = frozen
    BY <1>3, QuietStage
  <2> QED
    BY <1>1, <2>1 DEF FrozenByStage
<1>4. ASSUME NEW g \in Goroutines, Lock(g)
      PROVE  FrozenByStage'
  <2>1. CASE pc[g] = "lock"
    BY <1>1, <1>4, <2>1, QuietStage DEF FrozenByStage
  <2>2. CASE pc[g] = "freeze"
    BY <1>1, <1>4, <2>2, FreezingStage DEF Lock, FrozenByStage
  <2> QED
    BY <1>4, <2>1, <2>2 DEF Lock
<1>5. ASSUME NEW g \in Goroutines, EnterOnce(g)
      PROVE  FrozenByStage'
  BY <1>1, <1>5, FreezingStage DEF EnterOnce, FrozenByStage
<1>6. ASSUME NEW g \in Goroutines, TakeSnapshot(g)
      PROVE  FrozenByStage'
  BY <1>6, FreezingStage DEF TakeSnapshot, FrozenByStage
<1>7. ASSUME NEW g \in Goroutines, UserPanics(g)
      PROVE  FrozenByStage'
  BY <1>1, <1>7, FreezingStage DEF UserPanics, FrozenByStage
<1>8. ASSUME NEW g \in Goroutines, Compilation(g)
      PROVE  FrozenByStage'
  <2>1. frozen' = frozen /\ frozen
    BY <1>8, CompilationStage, CompilationMoves
  <2>2. Stage' \notin {"new", "freeze", "snapshot"}
    BY <1>8, CompilationStage
  <2> QED
    BY <2>1, <2>2 DEF FrozenByStage
<1> QED
  BY StepKinds, <1>2, <1>3, <1>4, <1>5, <1>6, <1>7, <1>8

\* A step that is not the snapshot leaves the snapshot and the flag alone.
LEMMA SnapshotOnlyOnce ==
  ASSUME Inductive, [Next]_vars
  PROVE  \/ \E g \in Goroutines : TakeSnapshot(g)
         \/ UNCHANGED <<frozen, snap>>
<1>1. ASSUME NEW g \in Goroutines, Call(g) \/ CriticalSection(g) \/ Compilation(g)
      PROVE  UNCHANGED <<frozen, snap>>
  BY <1>1, CallMoves, CriticalSectionMoves, CompilationMoves DEF Inductive
<1>2. ASSUME NEW g \in Goroutines,
             Lock(g) \/ EnterOnce(g) \/ ReturnFromBuild(g) \/ UserReturns(g) \/ UserPanics(g)
      PROVE  UNCHANGED <<frozen, snap>>
  BY <1>2 DEF Lock, EnterOnce, ReturnFromBuild, UserReturns, UserPanics
<1>3. CASE UNCHANGED vars
  BY <1>3 DEF vars
<1> QED
  BY StepKinds, <1>1, <1>2, <1>3

LEMMA StepSnapshot ==
  ASSUME Inductive, [Next]_vars
  PROVE  SnapshotCurrent'
<1>1. ASSUME NEW g \in Goroutines, TakeSnapshot(g)
      PROVE  SnapshotCurrent'
  BY <1>1 DEF TakeSnapshot, SnapshotCurrent, settings
<1>2. CASE UNCHANGED <<frozen, snap>>
  <2>1. CASE frozen
    <3>1. UNCHANGED settings
      BY <2>1, StepBoundary DEF Boundary
    <3> QED
      BY <1>2, <3>1 DEF Inductive, SnapshotCurrent, settings
  <2>2. CASE ~frozen
    BY <1>2, <2>2 DEF SnapshotCurrent
  <2> QED
    BY <2>1, <2>2
<1> QED
  BY SnapshotOnlyOnce, <1>1, <1>2

\* Steps that leave the build's locals, the stage and the operations alone
\* keep the cursor in range.
LEMMA QuietCursor ==
  ASSUME Inductive, Stage' = Stage, UNCHANGED <<frozen, snap, locals>>, Boundary
  PROVE  CursorInRange'
<1>1. CursorInRange /\ FrozenByStage
  BY DEF Inductive
<1>2. Stage = "scheme" => operations' = operations
  BY <1>1 DEF FrozenByStage, Boundary, settings
<1> QED
  BY <1>1, <1>2 DEF CursorInRange, locals

LEMMA CompilationCursor ==
  ASSUME Inductive, NEW g \in Goroutines, Compilation(g)
  PROVE  CursorInRange'
<1>1. /\ TypeOK /\ pc \in [Goroutines -> Steps]
      /\ snap.operations \in Nat /\ compiled \in Seq(Definitions)
      /\ Len(compiled) \in Nat /\ Len(snap.middlewares) \in Nat
  BY LenProperties DEF Inductive, TypeOK, SnapshotType
<1>2. /\ Stage = pc[g] /\ frozen /\ frozen' /\ snap' = snap
      /\ operations' = operations
  BY CompilationStage, CompilationMoves DEF settings
<1>3. at' \in Nat /\ at \in Nat
  <2>1. TypeOK'
    BY BuildTypes DEF Compilation, Build
  <2> QED
    BY <1>1, <2>1 DEF TypeOK
<1>4. CursorInRange
  BY DEF Inductive
<1> USE DEF CursorInRange
<1>5. CASE once' = "done"
  <2>1. Stage' = "done" /\ frozen'
    BY <1>2, <1>5 DEF Stage
  <2> QED
    BY <2>1
<1>6. ASSUME once' # "done"
      PROVE  \/ pc'[g] = "user" /\ Stage' = resume'
             \/ pc'[g] = "compile" /\ Stage' = "compile"
             \/ pc'[g] = "swagger" /\ Stage' = "swagger"
             \/ pc'[g] = "wrap" /\ Stage' = "wrap"
  BY <1>6, CompilationStage
<1>7. CASE CheckConfig(g) /\ once' # "done"
  <2>1. at' = 1 /\ pc'[g] = "compile" /\ compiled' = compiled /\ pc[g] = "config"
    BY <1>1, <1>7 DEF CheckConfig, Building, Goto, Fail, Return
  <2>2. compiled = <<>>
    BY <1>2, <1>4, <2>1
  <2>3. Stage' = "compile"
    BY <1>6, <1>7, <2>1
  <2> QED
    BY <1>1, <1>2, <1>3, <2>2, <2>1, <2>3
<1>8. CASE CompileOperation(g) /\ once' # "done"
  <2>1. operations[at] \in Definitions
    BY <1>8, CurrentOperation DEF CompileOperation
  <2>2. /\ at' = at /\ at <= snap.operations /\ pc'[g] = "user" /\ resume' = "register"
        /\ compiled' = Append(compiled, operations[at]) /\ pc[g] = "compile"
    BY <1>1, <1>8 DEF CompileOperation, Building, CallUser, Goto, Fail, Return
  <2>3. Len(compiled') = Len(compiled) + 1
    BY <1>1, <2>1, <2>2, AppendProperties
  <2> QED
    BY <1>1, <1>2, <1>3, <1>4, <1>6, <1>8, <2>2, <2>3
<1>9. CASE RegisterOperation(g) /\ once' # "done"
  <2>1. /\ compiled' = compiled /\ pc[g] = "register"
        /\ \/ at' = at + 1 /\ pc'[g] = "compile"
           \/ /\ at' = at /\ pc'[g] = "user" /\ resume' = "scheme"
              /\ operations[at].security # ""
    BY <1>1, <1>9 DEF RegisterOperation, Building, CallUser, Goto, Fail, Return
  <2>2. (pc'[g] = "compile" => Stage' = "compile") /\ (pc'[g] = "user" => Stage' = resume')
    BY <1>6, <1>9
  <2>3. at \in 1 .. snap.operations /\ Len(compiled) = at
    <3>1. Stage = "register"
      BY <1>2, <2>1
    <3>2. at \in 1 .. snap.operations + 1 /\ at <= snap.operations /\ Len(compiled) = at
      BY <1>4, <3>1
    <3> QED
      BY <1>1, <1>3, <3>2
  <2>4. CASE at' = at + 1 /\ pc'[g] = "compile"
    <3>1. /\ frozen' /\ at' \in 1 .. snap'.operations + 1
          /\ Len(compiled') = at' - 1 /\ Stage' = "compile"
      BY <1>1, <1>2, <1>3, <2>1, <2>2, <2>3, <2>4
    <3> QED
      BY <3>1
  <2>5. CASE at' = at /\ Stage' = "scheme" /\ operations[at].security # ""
    <3>1. frozen' /\ operations'[at'].security # ""
      BY <1>2, <2>5
    <3>2. compiled' = compiled /\ at' = at /\ snap' = snap
      BY <1>2, <2>1, <2>5
    <3>3. /\ at' \in 1 .. snap'.operations + 1 /\ at' <= snap'.operations
          /\ Len(compiled') = at'
      BY <1>1, <1>3, <2>3, <3>2
    <3> QED
      BY <2>5, <3>1, <3>3
  <2> QED
    BY <2>1, <2>2, <2>4, <2>5
<1>10. CASE CheckScheme(g) /\ once' # "done"
  <2>1. compiled' = compiled /\ pc[g] = "scheme" /\ at' = at + 1 /\ pc'[g] = "compile"
    BY <1>1, <1>10 DEF CheckScheme, Building, Goto, Fail, Return
  <2>2. Stage' = "compile"
    BY <1>6, <1>10, <2>1
  <2>3. at <= snap.operations /\ Len(compiled) = at
    BY <1>2, <1>4, <2>1
  <2>4. /\ frozen' /\ at' \in 1 .. snap'.operations + 1
        /\ Len(compiled') = at' - 1
    BY <1>1, <1>2, <1>3, <2>1, <2>3
  <2> QED
    BY <2>2, <2>4
<1>11. CASE MountOpenAPI(g) /\ once' # "done"
  <2>1. at' = 1 /\ pc'[g] = "swagger"
    BY <1>1, <1>11 DEF MountOpenAPI, RegisterDocumentation, Building, Goto, Fail, Return
  <2>2. Stage' = "swagger"
    BY <1>6, <1>11, <2>1
  <2> QED
    BY <1>1, <1>2, <1>3, <2>1, <2>2
<1>12. CASE MountSwagger(g) /\ once' # "done"
  <2>1. at' = at + 1 /\ pc'[g] = "swagger"
    BY <1>1, <1>12 DEF MountSwagger, RegisterDocumentation, Building, Goto, Fail, Return
  <2>2. Stage' = "swagger"
    BY <1>6, <1>12, <2>1
  <2>3. frozen' /\ at' > 0
    BY <1>2, <1>3, <2>1
  <2> QED
    BY <2>2, <2>3
<1>13. CASE StartWrapping(g) /\ once' # "done"
  <2>1. at' = Len(snap.middlewares) /\ pc'[g] = "wrap"
    BY <1>1, <1>13 DEF StartWrapping, Building, Goto
  <2>2. Stage' = "wrap"
    BY <1>6, <1>13, <2>1
  <2> QED
    BY <1>1, <1>2, <1>3, <2>1, <2>2
<1>14. CASE Wrap(g) /\ once' # "done"
  <2>1. /\ at' = at - 1 /\ at > 0 /\ pc[g] = "wrap" /\ pc'[g] = "user" /\ resume' = "wrap"
    BY <1>1, <1>14 DEF Wrap, Building, CallUser, Goto
  <2> QED
    BY <1>1, <1>2, <1>3, <1>4, <1>6, <1>14, <2>1
<1>15. CASE PublishHandler(g) /\ once' # "done"
  BY <1>15 DEF PublishHandler, Return
<1> QED
  BY <1>5, <1>7, <1>8, <1>9, <1>10, <1>11, <1>12, <1>13, <1>14, <1>15 DEF Compilation

LEMMA StepCursor ==
  ASSUME Inductive, [Next]_vars
  PROVE  CursorInRange'
<1>1. CursorInRange /\ FrozenByStage /\ Boundary
  BY StepBoundary DEF Inductive
<1>2. CASE UNCHANGED vars
  <2>1. Stage' = Stage /\ UNCHANGED <<frozen, snap, locals>>
    BY <1>2 DEF vars, control, built, locals, Stage
  <2> QED
    BY <1>1, <2>1, QuietCursor
<1>3. ASSUME NEW g \in Goroutines,
             Call(g) \/ CriticalSection(g) \/ UserReturns(g) \/ ReturnFromBuild(g)
      PROVE  CursorInRange'
  <2>1. Stage' = Stage /\ UNCHANGED <<frozen, snap, locals>>
    BY <1>3, QuietStage
  <2> QED
    BY <1>1, <2>1, QuietCursor
<1>4. ASSUME NEW g \in Goroutines, Lock(g)
      PROVE  CursorInRange'
  <2>1. CASE pc[g] = "lock"
    <3>1. Stage' = Stage /\ UNCHANGED <<frozen, snap, locals>>
      BY <1>4, <2>1, QuietStage
    <3> QED
      BY <1>1, <3>1, QuietCursor
  <2>2. CASE pc[g] = "freeze"
    <3>1. Stage = "freeze" /\ Stage' = "snapshot" /\ ~frozen /\ compiled' = compiled
      BY <1>1, <1>4, <2>2, FreezingStage DEF Lock, FrozenByStage, locals
    <3> QED
      BY <1>1, <3>1 DEF CursorInRange
  <2> QED
    BY <1>4, <2>1, <2>2 DEF Lock
<1>5. ASSUME NEW g \in Goroutines, EnterOnce(g) \/ TakeSnapshot(g)
      PROVE  CursorInRange'
  <2>1. Stage \in {"new", "snapshot"} /\ Stage' \in {"freeze", "config"} /\ compiled' = compiled
    BY <1>5, FreezingStage DEF EnterOnce, TakeSnapshot, locals
  <2>2. compiled = <<>>
    BY <1>1, <2>1 DEF FrozenByStage, CursorInRange
  <2> QED
    BY <2>1, <2>2 DEF CursorInRange
<1>6. ASSUME NEW g \in Goroutines, UserPanics(g)
      PROVE  CursorInRange'
  <2>1. Stage' = "done" /\ frozen'
    BY <1>1, <1>6, FreezingStage DEF UserPanics, FrozenByStage
  <2> QED
    BY <2>1 DEF CursorInRange
<1>7. ASSUME NEW g \in Goroutines, Compilation(g)
      PROVE  CursorInRange'
  BY <1>7, CompilationCursor
<1> QED
  BY StepKinds, <1>2, <1>3, <1>4, <1>5, <1>6, <1>7

LEMMA StepCompiled ==
  ASSUME Inductive, [Next]_vars
  PROVE  CompiledCurrent'
<1>1. /\ CompiledCurrent /\ TypeOK /\ operations \in Seq(Definitions)
      /\ compiled \in Seq(Definitions) /\ CursorInRange
  BY DEF Inductive, TypeOK
<1>2. ASSUME compiled' = compiled
      PROVE  CompiledCurrent'
  <2>1. CASE frozen
    BY <1>1, <1>2, <2>1, StepBoundary DEF Boundary, settings, CompiledCurrent
  <2>2. CASE ~frozen
    <3>1. compiled' = <<>> /\ operations' \in Seq(Definitions)
      BY <1>1, <1>2, <2>2, StepTypes DEF CursorInRange, TypeOK
    <3> QED
      BY <3>1, LenProperties DEF CompiledCurrent
  <2> QED
    BY <2>1, <2>2
<1>3. ASSUME NEW g \in Goroutines, CompileOperation(g), compiled' # compiled
      PROVE  CompiledCurrent'
  <2>1. /\ at \in 1 .. Len(operations) /\ operations[at] \in Definitions
        /\ snap.operations = Len(operations)
    BY <1>3, CurrentOperation DEF CompileOperation
  <2>2. Stage = "compile"
    BY <1>3, BuilderStage DEF CompileOperation
  <2>3. Len(compiled) = at - 1
    BY <1>1, <2>2 DEF CursorInRange
  <2>4. compiled' = Append(compiled, operations[at]) /\ operations' = operations
    BY <1>3 DEF CompileOperation, settings
  <2>5. /\ Len(compiled') = Len(compiled) + 1 /\ compiled'[at] = operations[at]
        /\ \A i \in 1 .. Len(compiled) : compiled'[i] = compiled[i]
        /\ DOMAIN compiled = 1 .. Len(compiled) /\ DOMAIN compiled' = 1 .. Len(compiled')
        /\ Len(compiled) \in Nat /\ Len(operations) \in Nat
    BY <1>1, <2>1, <2>3, <2>4, AppendProperties, LenProperties
  <2> QED
    BY <1>1, <2>1, <2>3, <2>4, <2>5 DEF CompiledCurrent
<1>4. ASSUME NEW g \in Goroutines, Compilation(g), ~CompileOperation(g)
      PROVE  compiled' = compiled
  BY <1>4 DEF Compilation, CheckConfig, RegisterOperation, CheckScheme, MountOpenAPI,
              MountSwagger, StartWrapping, Wrap, PublishHandler, locals
<1>5. ASSUME NEW g \in Goroutines,
             \/ Call(g) \/ Lock(g) \/ CriticalSection(g) \/ EnterOnce(g) \/ ReturnFromBuild(g)
             \/ TakeSnapshot(g) \/ UserReturns(g) \/ UserPanics(g)
      PROVE  compiled' = compiled
  BY <1>1, <1>5, CallMoves, CriticalSectionMoves
     DEF Lock, EnterOnce, ReturnFromBuild, TakeSnapshot, UserReturns, UserPanics, locals
<1>6. CASE UNCHANGED vars
  BY <1>2, <1>6 DEF vars, locals
<1>7. ASSUME NEW g \in Goroutines, Compilation(g)
      PROVE  CompiledCurrent'
  BY <1>2, <1>3, <1>4, <1>7
<1> QED
  BY StepKinds, <1>2, <1>5, <1>6, <1>7

LEMMA StepReturns ==
  ASSUME Inductive, [Next]_vars
  PROVE  ReturnsOutcome'
<1>1. ReturnsOutcome /\ TypeOK /\ OneBuilder
  BY DEF Inductive
<1>2. CASE UNCHANGED vars
  BY <1>1, <1>2 DEF vars, built, ReturnsOutcome, Outcome
<1>3. ASSUME NEW g \in Goroutines, Call(g) \/ CriticalSection(g) \/ UserReturns(g) \/ Lock(g)
      PROVE  ReturnsOutcome'
  <2>1. UNCHANGED <<built, returns>>
    BY <1>1, <1>3, CallMoves, CriticalSectionMoves DEF UserReturns, Lock
  <2> QED
    BY <1>1, <2>1 DEF built, ReturnsOutcome, Outcome
<1>4. ASSUME NEW g \in Goroutines, EnterOnce(g) \/ TakeSnapshot(g)
      PROVE  ReturnsOutcome'
  BY <1>1, <1>4 DEF EnterOnce, TakeSnapshot, Building, built, ReturnsOutcome, Outcome
<1>5. ASSUME NEW g \in Goroutines, Compilation(g) \/ UserPanics(g)
      PROVE  ReturnsOutcome'
  <2>1. returns = {} /\ returns' = returns
    BY <1>1, <1>5, CompilationMoves DEF UserPanics, Building, ReturnsOutcome
  <2> QED
    BY <2>1 DEF ReturnsOutcome
<1>6. ASSUME NEW g \in Goroutines, ReturnFromBuild(g)
      PROVE  ReturnsOutcome'
  BY <1>1, <1>6 DEF ReturnFromBuild, built, ReturnsOutcome, Outcome
<1> QED
  BY StepKinds, <1>2, <1>3, <1>4, <1>5, <1>6
---------------------------------------------------------------------------
(* The inductive invariant, and what follows from it. *)

LEMMA InitInductive ==
  ASSUME Init
  PROVE  Inductive
<1>1. TypeOK
  <2>1. NoPath \in PathType
    BY EmptySeq DEF NoPath, Path, PathType
  <2>2. snap \in SnapshotType
    BY <2>1, EmptySeq DEF Init, SnapshotType
  <2>3. [kind |-> "Build"] \in Calls
    BY DEF Calls
  <2>4. call \in [Goroutines -> Calls]
    BY <2>3 DEF Init
  <2>5. left \in [Goroutines -> 0 .. MaxCalls]
    <3>1. MaxCalls \in Nat
      BY ConstantsAssumption
    <3>2. MaxCalls \in 0 .. MaxCalls
      BY <3>1
    <3> QED
      BY <3>2 DEF Init
  <2>6. pc \in [Goroutines -> Steps] /\ result \in [Goroutines -> Results]
    BY DEF Init, Steps, Results
  <2>7. /\ middlewares \in Seq(Middlewares) /\ operations \in Seq(Definitions)
        /\ swagger \in Seq(SwaggerType) /\ groups \in Seq(GroupType)
        /\ builtHandler \in Seq(Layers) /\ handler \in Seq(Layers)
        /\ compiled \in Seq(Definitions)
    BY EmptySeq DEF Init
  <2> QED
    BY <2>1, <2>2, <2>4, <2>5, <2>6, <2>7 DEF Init, TypeOK, Errors
<1>2. CallsReady /\ MutexOwner /\ OneBuilder
  BY ConstantsAssumption DEF Init, CallsReady, MutexOwner, OneBuilder, BuildSteps
<1>3. Stage = "new"
  BY DEF Init, Stage
<1>4. FrozenByStage /\ SnapshotCurrent /\ CursorInRange
  BY <1>3 DEF Init, FrozenByStage, SnapshotCurrent, CursorInRange
<1>5. CompiledCurrent
  <2>1. compiled = <<>> /\ operations = <<>>
    BY DEF Init
  <2> QED
    BY <2>1 DEF CompiledCurrent
<1>6. ReturnsOutcome
  BY DEF Init, ReturnsOutcome
<1> QED
  BY <1>1, <1>2, <1>4, <1>5, <1>6 DEF Inductive

\* The inductive invariant: what each goroutine has checked, who owns the
\* mutex and the Once, how the freeze, the snapshot and the compiled
\* operations go with the stage of the build.
THEOREM InvariantHolds == Spec => []Inductive
<1>1. Init => Inductive
  BY InitInductive
<1>2. Inductive /\ [Next]_vars => Inductive'
  BY StepTypes, StepReady, StepMutex, StepBuilder, StepFrozen, StepSnapshot, StepCursor,
     StepCompiled, StepReturns DEF Inductive
<1> QED
  BY <1>1, <1>2, PTL DEF Spec

\* Every variable of the App and of the build keeps its type, however many
\* goroutines configure it.
THEOREM TypeCorrect == Spec => []TypeOK
<1>1. Inductive => TypeOK
  BY DEF Inductive
<1> QED
  BY <1>1, InvariantHolds, PTL

\* a.mu is held by exactly the goroutine in a critical section: no way out of
\* a configuration call, refusals and the fluent panic included, keeps it.
THEOREM MutexHeldInside == Spec => []MutexOwner
<1>1. Inductive => MutexOwner
  BY DEF Inductive
<1> QED
  BY <1>1, InvariantHolds, PTL

\* The freeze boundary of docs/architecture.md: a step from a frozen App
\* leaves it frozen, and its settings, operations and groups as they are.
THEOREM FreezeHolds == Spec => FreezeBoundary
<1>1. Inductive /\ [Next]_vars =>
        (frozen => /\ frozen' /\ UNCHANGED settings
                   /\ \A i \in DOMAIN groups : groups'[i] = groups[i])
  <2> SUFFICES ASSUME Inductive, [Next]_vars, frozen
               PROVE  frozen' /\ Boundary
    BY DEF Boundary
  <2>1. frozen'
    BY SnapshotOnlyOnce DEF TakeSnapshot
  <2> QED
    BY <2>1, StepBoundary
<1> QED
  BY <1>1, InvariantHolds, PTL DEF Spec, FreezeBoundary

\* What build copied under the lock is the configuration for as long as the
\* build runs, and after it.
THEOREM SnapshotHolds == Spec => []SnapshotCurrent
<1>1. Inductive => SnapshotCurrent
  BY DEF Inductive
<1> QED
  BY <1>1, InvariantHolds, PTL

\* The definitions the handlers were compiled from are the App's, although
\* build reads them without the lock while other goroutines call the App.
THEOREM CompiledHolds == Spec => []CompiledCurrent
<1>1. Inductive => CompiledCurrent
  BY DEF Inductive
<1> QED
  BY <1>1, InvariantHolds, PTL

\* User code that build calls runs without a.mu, so it may call the App.
THEOREM UserCodeHolds == Spec => []UserCodeUnlocked
<1>1. Inductive => UserCodeUnlocked
  BY DEF Inductive, MutexOwner, UserCodeUnlocked
<1> QED
  BY <1>1, InvariantHolds, PTL

\* All callers of Build, at any time, get the same handler and error.
THEOREM AgreementHolds == Spec => []BuildAgreement
<1>1. Inductive => BuildAgreement
  BY DEF Inductive, ReturnsOutcome, BuildAgreement
<1> QED
  BY <1>1, InvariantHolds, PTL

---------------------------------------------------------------------------
(***************************************************************************)
(* What Build decides: that it accepts exactly well-formed configurations, *)
(* that the handler and the document it leaves are those of the            *)
(* configuration, and that the App keeps the promise of FreezeOnce.        *)
(***************************************************************************)

\* What each stage of the build has established, for the proofs of the
\* verdict: about the configuration as it stands, whatever was copied of it.
Working == {"compile", "register", "scheme", "swagger", "wrap"}

\* How many of Patterns the mux has, and how many operations are done with.
Mounted ==
  CASE Stage \in {"compile", "register"} -> at - 1
    [] Stage = "scheme" -> at
    [] Stage = "swagger" -> Len(Patterns(Configuration)) - Len(swagger) + at - 1
    [] OTHER -> Len(Patterns(Configuration))

Settled == IF Stage \in {"compile", "register", "scheme"} THEN at - 1 ELSE Len(operations)

NothingYet ==
  Stage \in {"new", "freeze", "snapshot", "config"} =>
    operationIDs = {} /\ registered = {} /\ document = {}

CompiledSound ==
  Stage \in Working =>
    /\ config.info /\ config.formatter
    /\ operationIDs = {operations[i].id : i \in DOMAIN compiled}
    /\ \A i \in DOMAIN compiled :
         /\ Compiles(config, operations[i])
         /\ \A j \in DOMAIN compiled \ {i} : operations[i].id # operations[j].id
    /\ Stage \in {"swagger", "wrap"} => Len(compiled) = Len(operations)

RegisteredSound ==
  Stage \in Working =>
    LET patterns == Patterns(Configuration)
    IN /\ registered = {patterns[i] : i \in 1 .. Mounted}
       /\ \A i, j \in 1 .. Mounted : i # j => ~Conflict(patterns[i], patterns[j])

DocumentSound ==
  Stage \in Working =>
    \A i \in DOMAIN operations \cap 1 .. Mounted :
      /\ operations[i].method \in DocumentedMethods
      /\ \E e \in document : /\ e.operation = i /\ e.method = operations[i].method
                             /\ e.path = OpenAPIPath(operations[i].route)

SchemesSound ==
  Stage \in Working =>
    \A i \in 1 .. Settled :
      operations[i].security # "" => config.providers[operations[i].security] = "valid"

PagesSound ==
  /\ Stage = "swagger" => at <= Len(swagger) + 1 /\ \A i \in 1 .. at - 1 : swagger[i].page
  /\ Stage = "wrap" => \A i \in DOMAIN swagger : swagger[i].page

HandlerWrapped ==
  Stage = "wrap" =>
    /\ at \in 0 .. Len(middlewares)
    /\ handler = SubSeq(middlewares, at + 1, Len(middlewares)) \o <<"mux">>

\* There is no outcome before the end, and one at the end unless user code panicked.
OutcomeLast ==
  /\ Stage # "done" => Outcome = [handler |-> <<>>, err |-> ""]
  /\ Stage = "done" => builtHandler # <<>> \/ builtErr # "" \/ CallbackPanics

Progress ==
  /\ NothingYet /\ CompiledSound /\ RegisteredSound /\ DocumentSound /\ SchemesSound
  /\ PagesSound /\ HandlerWrapped /\ OutcomeLast
  /\ BuildVerdict /\ DocumentComplete /\ HandlerOrder

---------------------------------------------------------------------------
(* Patterns. *)

\* Two patterns conflict whichever is registered first.
LEMMA ConflictSymmetric ==
  ASSUME NEW p, NEW q, Conflict(p, q)
  PROVE  Conflict(q, p)
<1>1. ASSUME NEW s, NEW t, SegmentsMeet(s, t)
      PROVE  SegmentsMeet(t, s)
  BY <1>1 DEF SegmentsMeet
<1>2. PathsMeet(p, q) => PathsMeet(q, p)
  BY <1>1 DEF PathsMeet
<1>3. PatternsMeet(p, q) => PatternsMeet(q, p)
  BY <1>2 DEF PatternsMeet
<1> QED
  BY <1>3 DEF Conflict

\* The same pattern twice is a conflict.
LEMMA ConflictSelf ==
  ASSUME NEW p \in PatternType
  PROVE  Conflict(p, p)
<1>1. TailReaches(p, p)
  BY DEF TailReaches, PatternType
<1>2. PathsMeet(p, p)
  BY <1>1 DEF PathsMeet, SegmentsMeet
<1> QED
  BY <1>2 DEF Conflict, PatternsMeet, MethodCovers

\* The paths of the documentation routes: the document's, then the pages'.
Documents(c) == IF c.openAPIPath = NoPath THEN 0 ELSE 1

LEMMA DocumentationShape ==
  ASSUME NEW c, c.openAPIPath \in PathType, c.swagger \in Seq(SwaggerType)
  PROVE  /\ DocumentationPaths(c) \in Seq(PathType)
         /\ Len(DocumentationPaths(c)) = Documents(c) + Len(c.swagger)
         /\ Documents(c) = 1 => DocumentationPaths(c)[1] = c.openAPIPath
         /\ \A i \in DOMAIN c.swagger :
              DocumentationPaths(c)[Documents(c) + i] = c.swagger[i].path
<1> DEFINE first == IF c.openAPIPath = NoPath THEN <<>> ELSE <<c.openAPIPath>>
           pages == [i \in DOMAIN c.swagger |-> c.swagger[i].path]
<1>1. /\ Len(c.swagger) \in Nat /\ DOMAIN c.swagger = 1 .. Len(c.swagger)
      /\ \A i \in DOMAIN c.swagger : c.swagger[i].path \in PathType
  <2>1. Len(c.swagger) \in Nat /\ DOMAIN c.swagger = 1 .. Len(c.swagger)
    BY LenProperties
  <2>2. \A i \in DOMAIN c.swagger : c.swagger[i] \in SwaggerType
    BY <2>1, ElementOfSeq
  <2> QED
    BY <2>1, <2>2 DEF SwaggerType
<1>2. pages \in Seq(PathType) /\ Len(pages) = Len(c.swagger)
  BY <1>1
<1>3. first \in Seq(PathType) /\ Len(first) = Documents(c)
      /\ (Documents(c) = 1 => first[1] = c.openAPIPath)
  BY DEF Documents
<1>4. DocumentationPaths(c) = first \o pages
  BY DEF DocumentationPaths
<1>5. \A i \in DOMAIN c.swagger : pages[i] = c.swagger[i].path
  OBVIOUS
<1>6. Documents(c) \in {0, 1}
  BY DEF Documents
<1> HIDE DEF first, pages
<1>7. /\ first \o pages \in Seq(PathType)
      /\ Len(first \o pages) = Len(first) + Len(pages)
      /\ \A i \in 1 .. Len(first) + Len(pages) :
           (first \o pages)[i] = IF i <= Len(first) THEN first[i] ELSE pages[i - Len(first)]
  BY <1>2, <1>3, ConcatProperties, ZenonT(60)
<1>8. ASSUME NEW i \in DOMAIN c.swagger
      PROVE  (first \o pages)[Documents(c) + i] = c.swagger[i].path
  BY <1>1, <1>2, <1>3, <1>5, <1>6, <1>7
<1> QED
  BY <1>1, <1>2, <1>3, <1>4, <1>6, <1>7, <1>8

LEMMA PatternsShape ==
  ASSUME NEW c, c.openAPIPath \in PathType, c.swagger \in Seq(SwaggerType),
         c.operations \in Seq(Definitions)
  PROVE  /\ Patterns(c) \in Seq(PatternType)
         /\ Len(Patterns(c)) = Len(c.operations) + Documents(c) + Len(c.swagger)
         /\ \A i \in DOMAIN c.operations : Patterns(c)[i] = OperationPattern(c.operations[i])
         /\ Documents(c) = 1 =>
              Patterns(c)[Len(c.operations) + 1] = DocumentationPattern(c.openAPIPath)
         /\ \A i \in DOMAIN c.swagger :
              Patterns(c)[Len(c.operations) + Documents(c) + i]
                = DocumentationPattern(c.swagger[i].path)
<1> DEFINE n == Len(c.operations)
           paths == DocumentationPaths(c)
           routes == [i \in DOMAIN c.operations |-> OperationPattern(c.operations[i])]
           documentation == [i \in DOMAIN paths |-> DocumentationPattern(paths[i])]
<1>1. n \in Nat /\ DOMAIN c.operations = 1 .. n
  BY LenProperties
<1>2. routes \in Seq(PatternType) /\ Len(routes) = n
  <2>1. \A i \in 1 .. n : OperationPattern(c.operations[i]) \in PatternType
    BY <1>1, ElementOfSeq, OperationPatternType
  <2> QED
    BY <1>1, <2>1
<1>3. /\ paths \in Seq(PathType) /\ Len(paths) = Documents(c) + Len(c.swagger)
      /\ Documents(c) \in {0, 1} /\ Len(c.swagger) \in Nat
      /\ DOMAIN c.swagger = 1 .. Len(c.swagger)
  BY DocumentationShape, LenProperties DEF Documents
<1>4. /\ documentation \in Seq(PatternType) /\ Len(documentation) = Documents(c) + Len(c.swagger)
      /\ \A i \in 1 .. Documents(c) + Len(c.swagger) :
           documentation[i] = DocumentationPattern(paths[i])
  <2>1. DOMAIN paths = 1 .. Documents(c) + Len(c.swagger)
    BY <1>3, LenProperties
  <2>2. \A i \in DOMAIN paths : DocumentationPattern(paths[i]) \in PatternType
    BY <1>3, <2>1, ElementOfSeq, DocumentationPatternType
  <2> HIDE DEF paths
  <2> QED
    BY <1>3, <2>1, <2>2
<1>5. Patterns(c) = routes \o documentation
  BY DEF Patterns
<1>6. \A i \in DOMAIN c.operations : routes[i] = OperationPattern(c.operations[i])
  OBVIOUS
<1> HIDE DEF routes, documentation, paths, n
<1>7. /\ routes \o documentation \in Seq(PatternType)
      /\ Len(routes \o documentation) = Len(routes) + Len(documentation)
      /\ \A i \in 1 .. Len(routes) + Len(documentation) :
           (routes \o documentation)[i] =
             IF i <= Len(routes) THEN routes[i] ELSE documentation[i - Len(routes)]
  BY <1>2, <1>4, ConcatProperties, ZenonT(60)
<1>8. ASSUME NEW i \in 1 .. Documents(c) + Len(c.swagger)
      PROVE  Patterns(c)[n + i] = DocumentationPattern(paths[i])
  BY <1>1, <1>2, <1>3, <1>4, <1>5, <1>7
<1>9. /\ Patterns(c) \in Seq(PatternType) /\ Len(Patterns(c)) = n + Documents(c) + Len(c.swagger)
      /\ \A i \in DOMAIN c.operations : Patterns(c)[i] = OperationPattern(c.operations[i])
  BY <1>1, <1>2, <1>3, <1>4, <1>5, <1>6, <1>7, SMTT(60)
<1>10. Documents(c) = 1 => Patterns(c)[n + 1] = DocumentationPattern(c.openAPIPath)
  BY <1>3, <1>8, DocumentationShape DEF paths
<1>11. ASSUME NEW i \in DOMAIN c.swagger
       PROVE  Patterns(c)[n + Documents(c) + i] = DocumentationPattern(c.swagger[i].path)
  <2>1. Documents(c) + i \in 1 .. Documents(c) + Len(c.swagger)
    BY <1>3
  <2>2. Patterns(c)[n + (Documents(c) + i)] = DocumentationPattern(paths[Documents(c) + i])
    BY <1>8, <2>1
  <2>3. i \in Nat /\ Documents(c) \in Nat
    BY <1>3
  <2>4. n + (Documents(c) + i) = n + Documents(c) + i
    BY <1>1, <2>3
  <2> QED
    BY <2>2, <2>4, DocumentationShape DEF paths
<1> QED
  BY <1>9, <1>10, <1>11 DEF n

\* The mux has the first k patterns, none of which conflict.
Holds(patterns, k) ==
  /\ registered = {patterns[i] : i \in 1 .. k}
  /\ \A i, j \in 1 .. k : i # j => ~Conflict(patterns[i], patterns[j])

\* The next pattern is refused only for a conflict with an earlier one, and if
\* it is not, there is none up to it.
LEMMA NextPattern ==
  ASSUME NEW patterns \in Seq(PatternType), NEW k \in Nat, k < Len(patterns),
         Holds(patterns, k)
  PROVE  LET pattern == patterns[k + 1]
         IN /\ pattern \in registered \/ ~MuxAccepts(pattern) =>
                 \E i, j \in DOMAIN patterns : i # j /\ Conflict(patterns[i], patterns[j])
            /\ /\ MuxAccepts(pattern)
               /\ registered' = registered \cup {pattern}
               => Holds(patterns, k + 1)'
<1> DEFINE pattern == patterns[k + 1]
<1>1. /\ Len(patterns) \in Nat /\ DOMAIN patterns = 1 .. Len(patterns)
      /\ \A i \in 1 .. Len(patterns) : patterns[i] \in PatternType
  BY LenProperties, ElementOfSeq
<1>2. ASSUME pattern \in registered \/ ~MuxAccepts(pattern)
      PROVE  \E i, j \in DOMAIN patterns : i # j /\ Conflict(patterns[i], patterns[j])
  <2>1. PICK i \in 1 .. k : Conflict(patterns[i], pattern)
    <3>1. CASE pattern \in registered
      BY <1>1, <3>1, ConflictSelf DEF Holds
    <3>2. CASE ~MuxAccepts(pattern)
      BY <3>2 DEF MuxAccepts, Holds
    <3> QED
      BY <1>2, <3>1, <3>2
  <2>2. i \in DOMAIN patterns /\ k + 1 \in DOMAIN patterns /\ i # k + 1
    BY <1>1
  <2> QED
    BY <2>1, <2>2
<1>3. ASSUME MuxAccepts(pattern), registered' = registered \cup {pattern}
      PROVE  Holds(patterns, k + 1)'
  <2>1. 1 .. k + 1 = 1 .. k \cup {k + 1}
    OBVIOUS
  <2>2. registered' = {patterns[i] : i \in 1 .. k + 1}
    BY <1>3, <2>1 DEF Holds
  <2>3. \A i \in 1 .. k : ~Conflict(patterns[i], pattern) /\ ~Conflict(pattern, patterns[i])
    BY <1>3, ConflictSymmetric DEF Holds, MuxAccepts
  <2>4. \A i, j \in 1 .. k + 1 : i # j => ~Conflict(patterns[i], patterns[j])
    BY <2>1, <2>3 DEF Holds
  <2> QED
    BY <2>2, <2>4 DEF Holds
<1> QED
  BY <1>2, <1>3

---------------------------------------------------------------------------
(* What steps leave alone. *)

\* New's argument is never written.
LEMMA ConfigKept ==
  ASSUME Inductive, [Next]_vars
  PROVE  config' = config
<1>1. ASSUME NEW g \in Goroutines, Call(g) \/ CriticalSection(g) \/ Compilation(g)
      PROVE  config' = config
  BY <1>1, CallMoves, CriticalSectionMoves, CompilationMoves DEF Inductive
<1>2. ASSUME NEW g \in Goroutines,
             \/ Lock(g) \/ EnterOnce(g) \/ ReturnFromBuild(g) \/ TakeSnapshot(g)
             \/ UserReturns(g) \/ UserPanics(g)
      PROVE  config' = config
  BY <1>2 DEF Lock, EnterOnce, ReturnFromBuild, TakeSnapshot, UserReturns, UserPanics
<1>3. CASE UNCHANGED vars
  BY <1>3 DEF vars
<1> QED
  BY StepKinds, <1>1, <1>2, <1>3

\* A frozen App keeps the configuration it is judged by.
LEMMA ConfigurationKept ==
  ASSUME Inductive, [Next]_vars, frozen
  PROVE  /\ UNCHANGED <<config, middlewares, operations, openAPIPath, swagger>>
         /\ Configuration' = Configuration
<1>1. UNCHANGED settings /\ config' = config
  BY StepBoundary, ConfigKept DEF Boundary
<1> QED
  BY <1>1 DEF settings, Configuration

\* The build is at its end exactly when the Once is.
LEMMA EndStage ==
  ASSUME TypeOK, OneBuilder
  PROVE  Stage = "done" <=> once = "done"
BY DEF Stage, TypeOK, Steps, BuildSteps, OneBuilder

\* Before the build looks at the configuration, there is little to keep.
LEMMA EarlyProgress ==
  ASSUME Stage' \in {"new", "freeze", "snapshot", "config"}, once' # "done",
         NothingYet', OutcomeLast'
  PROVE  Progress'
<1>1. builtHandler' = <<>> /\ builtErr' = ""
  BY DEF OutcomeLast, Outcome
<1>2. BuildVerdict' /\ DocumentComplete' /\ HandlerOrder'
  BY <1>1 DEF BuildVerdict, DocumentComplete, HandlerOrder
<1>3. CompiledSound' /\ RegisteredSound' /\ DocumentSound' /\ SchemesSound'
  BY DEF CompiledSound, RegisteredSound, DocumentSound, SchemesSound, Working
<1>4. PagesSound' /\ HandlerWrapped'
  BY DEF PagesSound, HandlerWrapped
<1> QED
  BY <1>2, <1>3, <1>4 DEF Progress

\* At the end, only the outcome and what it says of the configuration matter.
LEMMA EndProgress ==
  ASSUME Stage' = "done", BuildVerdict', DocumentComplete', HandlerOrder',
         builtHandler' # <<>> \/ builtErr' # "" \/ CallbackPanics
  PROVE  Progress'
<1>1. NothingYet' /\ OutcomeLast'
  BY DEF NothingYet, OutcomeLast
<1>2. CompiledSound' /\ RegisteredSound' /\ DocumentSound' /\ SchemesSound'
  BY DEF CompiledSound, RegisteredSound, DocumentSound, SchemesSound, Working
<1>3. PagesSound' /\ HandlerWrapped'
  BY DEF PagesSound, HandlerWrapped
<1> QED
  BY <1>1, <1>2, <1>3 DEF Progress

\* A step that leaves the build where it is.
LEMMA QuietProgress ==
  ASSUME Inductive, Progress, [Next]_vars, Inductive', Stage' = Stage,
         UNCHANGED <<frozen, built, locals>>
  PROVE  Progress'
<1>1. CASE ~frozen
  <2>1. Stage' \in {"new", "freeze", "snapshot"}
    BY <1>1 DEF Inductive, FrozenByStage
  <2>2. NothingYet' /\ OutcomeLast'
    BY <2>1 DEF Progress, NothingYet, OutcomeLast, Outcome, built, locals
  <2>3. once' # "done"
    <3>1. TypeOK' /\ OneBuilder'
      BY DEF Inductive
    <3> QED
      BY <2>1, <3>1 DEF Stage
  <2> QED
    BY <2>1, <2>2, <2>3, EarlyProgress
<1>2. CASE frozen
  <2>1. /\ UNCHANGED <<config, middlewares, operations, openAPIPath, swagger>>
        /\ Configuration' = Configuration
    BY <1>2, ConfigurationKept
  <2>2. /\ UNCHANGED <<at, operationIDs, registered, compiled, document, handler>>
        /\ UNCHANGED <<once, builtHandler, builtErr>>
    BY DEF built, locals
  <2>3. Mounted' = Mounted /\ Settled' = Settled
    BY <2>1, <2>2 DEF Mounted, Settled
  <2>4. NothingYet' /\ CompiledSound'
    BY <2>1, <2>2 DEF Progress, NothingYet, CompiledSound
  <2>5. RegisteredSound'
    BY <2>1, <2>2, <2>3 DEF Progress, RegisteredSound
  <2>6. DocumentSound' /\ SchemesSound'
    BY <2>1, <2>2, <2>3 DEF Progress, DocumentSound, SchemesSound
  <2>7. PagesSound' /\ HandlerWrapped' /\ OutcomeLast'
    BY <2>1, <2>2 DEF Progress, PagesSound, HandlerWrapped, OutcomeLast, Outcome
  <2>8. BuildVerdict' /\ DocumentComplete' /\ HandlerOrder'
    BY <2>1, <2>2 DEF Progress, BuildVerdict, DocumentComplete, HandlerOrder, Recovery
  <2> QED
    BY <2>4, <2>5, <2>6, <2>7, <2>8 DEF Progress
<1> QED
  BY <1>1, <1>2

---------------------------------------------------------------------------
(* The steps of the compilation. *)

\* What every one of them finds.
LEMMA CompilationFinds ==
  ASSUME Inductive, Progress, NEW g \in Goroutines, Compilation(g)
  PROVE  /\ TypeOK /\ frozen /\ Stage = pc[g] /\ pc[g] \in Working \cup {"config"}
         /\ pc \in [Goroutines -> Steps]
         /\ UNCHANGED <<config, middlewares, operations, openAPIPath, swagger>>
         /\ Configuration' = Configuration
         /\ snap = [operations |-> Len(operations), middlewares |-> middlewares,
                    openAPIPath |-> openAPIPath, swagger |-> swagger]
         /\ builtHandler = <<>> /\ builtErr = "" /\ once = "running"
         /\ at \in Nat
<1>1. /\ once = "running"
      /\ pc[g] \in {"config", "compile", "register", "scheme", "swagger", "wrap"}
  BY CompilationMoves
<1>2. Stage = pc[g] /\ frozen
  BY CompilationStage
<1>3. UNCHANGED <<config, middlewares, operations, openAPIPath, swagger>>
  BY CompilationMoves DEF settings
<1>4. Configuration' = Configuration
  BY <1>3 DEF Configuration
<1>5. TypeOK /\ at \in Nat /\ pc \in [Goroutines -> Steps] /\ SnapshotCurrent
  BY DEF Inductive, TypeOK
<1>6. builtHandler = <<>> /\ builtErr = ""
  BY <1>1, <1>2 DEF Progress, OutcomeLast, Outcome
<1> QED
  BY <1>1, <1>2, <1>3, <1>4, <1>5, <1>6 DEF SnapshotCurrent, Working

\* What the sequences of the configuration are.
LEMMA ConfigurationTypes ==
  ASSUME TypeOK
  PROVE  /\ operations \in Seq(Definitions) /\ Len(operations) \in Nat
         /\ DOMAIN operations = 1 .. Len(operations)
         /\ middlewares \in Seq(Middlewares) /\ Len(middlewares) \in Nat
         /\ swagger \in Seq(SwaggerType) /\ Len(swagger) \in Nat
         /\ DOMAIN swagger = 1 .. Len(swagger)
         /\ openAPIPath \in PathType
         /\ compiled \in Seq(Definitions) /\ Len(compiled) \in Nat
         /\ DOMAIN compiled = 1 .. Len(compiled)
BY LenProperties DEF TypeOK

\* The patterns of the App's own configuration.
LEMMA PatternsFound ==
  ASSUME TypeOK
  PROVE  LET patterns == Patterns(Configuration)
             documents == IF openAPIPath = NoPath THEN 0 ELSE 1
         IN /\ patterns \in Seq(PatternType)
            /\ Len(patterns) = Len(operations) + documents + Len(swagger)
            /\ \A i \in DOMAIN operations : patterns[i] = OperationPattern(operations[i])
            /\ documents = 1 =>
                 patterns[Len(operations) + 1] = DocumentationPattern(openAPIPath)
            /\ \A i \in DOMAIN swagger :
                 patterns[Len(operations) + documents + i] = DocumentationPattern(swagger[i].path)
<1> DEFINE c == Configuration
<1>1. /\ c.operations = operations /\ c.openAPIPath = openAPIPath /\ c.swagger = swagger
  BY DEF Configuration
<1>2. /\ openAPIPath \in PathType /\ swagger \in Seq(SwaggerType)
      /\ operations \in Seq(Definitions)
  BY DEF TypeOK
<1> HIDE DEF c
<1>3. c.openAPIPath \in PathType /\ c.swagger \in Seq(SwaggerType)
      /\ c.operations \in Seq(Definitions)
  BY <1>1, <1>2
<1>4. Documents(c) = IF openAPIPath = NoPath THEN 0 ELSE 1
  BY <1>1 DEF Documents
<1>5. /\ Patterns(c) \in Seq(PatternType)
      /\ Len(Patterns(c)) = Len(operations) + Documents(c) + Len(swagger)
      /\ \A i \in DOMAIN operations : Patterns(c)[i] = OperationPattern(operations[i])
      /\ Documents(c) = 1 => Patterns(c)[Len(operations) + 1] = DocumentationPattern(openAPIPath)
      /\ \A i \in DOMAIN swagger :
           Patterns(c)[Len(operations) + Documents(c) + i] = DocumentationPattern(swagger[i].path)
  BY <1>1, <1>3, PatternsShape
<1> QED
  BY <1>4, <1>5 DEF c

\* A build that fails is right to, if the configuration is not well-formed.
LEMMA FailProgress ==
  ASSUME Inductive, Progress, NEW g \in Goroutines, Compilation(g),
         NEW error \in Errors \ {""}, Fail(g, error), ~WellFormed(Configuration)
  PROVE  Progress'
<1>1. /\ builtHandler = <<>> /\ Configuration' = Configuration
  BY CompilationFinds
<1>2. once' = "done" /\ builtErr' = error /\ builtHandler' = <<>>
  BY <1>1 DEF Fail, Return
<1>3. Stage' = "done"
  BY <1>2 DEF Stage
<1>4. BuildVerdict' /\ DocumentComplete' /\ HandlerOrder'
  BY <1>1, <1>2 DEF BuildVerdict, DocumentComplete, HandlerOrder
<1> QED
  BY <1>2, <1>3, <1>4, EndProgress

\* A step that goes on with the build.
LEMMA WorkProgress ==
  ASSUME Stage' \in Working, once' # "done", builtHandler' = <<>>, builtErr' = "",
         CompiledSound', RegisteredSound', DocumentSound', SchemesSound', PagesSound',
         HandlerWrapped'
  PROVE  Progress'
<1>1. NothingYet'
  BY DEF NothingYet, Working
<1>2. OutcomeLast'
  BY DEF OutcomeLast, Outcome, Working
<1>3. BuildVerdict' /\ DocumentComplete' /\ HandlerOrder'
  BY DEF BuildVerdict, DocumentComplete, HandlerOrder
<1> QED
  BY <1>1, <1>2, <1>3 DEF Progress

LEMMA CheckConfigProgress ==
  ASSUME Inductive, Progress, NEW g \in Goroutines, CheckConfig(g)
  PROVE  Progress'
<1>1. Compilation(g)
  BY DEF Compilation
<1>2. CASE ~(config.info /\ config.formatter)
  <2>1. ~WellFormed(Configuration)
    BY <1>2 DEF WellFormed, Configuration
  <2>2. Fail(g, "config") /\ "config" \in Errors \ {""}
    BY <1>2 DEF CheckConfig, Errors
  <2> QED
    BY <1>1, <2>1, <2>2, FailProgress
<1>3. CASE config.info /\ config.formatter
  <2>1. /\ Stage = "config" /\ pc'[g] = "compile" /\ at' = 1
        /\ UNCHANGED <<once, runner, builtHandler, builtErr, compiled, operationIDs, registered,
                       document>>
    <3>1. pc \in [Goroutines -> Steps] /\ Stage = pc[g]
      BY <1>1, CompilationFinds
    <3> QED
      BY <1>3, <3>1 DEF CheckConfig, Goto, Building, built
  <2>2. /\ once = "running" /\ runner = g /\ builtHandler = <<>> /\ builtErr = ""
        /\ UNCHANGED <<config, operations>>
    BY <1>1, CompilationFinds, CompilationMoves
  <2>3. Stage' = "compile"
    BY <2>1, <2>2 DEF Stage
  <2>4. operationIDs' = {} /\ registered' = {} /\ document' = {} /\ compiled' = <<>>
    BY <2>1 DEF Progress, NothingYet, Inductive, CursorInRange
  <2>5. Mounted' = 0 /\ Settled' = 0
    BY <2>1, <2>3 DEF Mounted, Settled
  <2>6. CompiledSound'
    <3>1. DOMAIN compiled' = {}
      BY <2>4
    <3>2. operationIDs' = {operations'[i].id : i \in DOMAIN compiled'}
      BY <2>4, <3>1
    <3> QED
      BY <1>3, <2>2, <2>3, <3>1, <3>2 DEF CompiledSound
  <2>7. RegisteredSound'
    BY <2>4, <2>5 DEF RegisteredSound
  <2>8. DocumentSound' /\ SchemesSound'
    BY <2>5 DEF DocumentSound, SchemesSound
  <2>9. PagesSound' /\ HandlerWrapped'
    BY <2>3 DEF PagesSound, HandlerWrapped
  <2> QED
    BY <2>1, <2>2, <2>3, <2>6, <2>7, <2>8, <2>9, WorkProgress DEF Working
<1> QED
  BY <1>2, <1>3

LEMMA CompileOperationProgress ==
  ASSUME Inductive, Progress, NEW g \in Goroutines, CompileOperation(g)
  PROVE  Progress'
<1> DEFINE d == operations[at]
<1>1. Compilation(g)
  BY DEF Compilation
<1>2. /\ at \in 1 .. Len(operations) /\ Len(operations) \in Nat
      /\ DOMAIN operations = 1 .. Len(operations)
      /\ compiled \in Seq(Definitions) /\ Len(compiled) \in Nat
      /\ DOMAIN compiled = 1 .. Len(compiled) /\ d \in Definitions
  BY CurrentOperation, ConfigurationTypes DEF CompileOperation, Inductive
<1>3. Stage = "compile" /\ Len(compiled) = at - 1
  BY <1>1, CompilationFinds DEF CompileOperation, Building, Inductive, CursorInRange
<1>4. /\ operationIDs = {operations[i].id : i \in DOMAIN compiled}
      /\ \A i \in DOMAIN compiled :
           /\ Compiles(config, operations[i])
           /\ \A j \in DOMAIN compiled \ {i} : operations[i].id # operations[j].id
      /\ config.info /\ config.formatter
  BY <1>3 DEF Progress, CompiledSound, Working
<1>5. CASE d.id \in operationIDs \/ ~Compiles(config, d)
  <2>1. ~WellFormed(Configuration)
    <3>1. CASE ~Compiles(config, d)
      BY <1>2, <3>1 DEF WellFormed, Configuration
    <3>2. CASE d.id \in operationIDs
      <4>1. PICK i \in DOMAIN compiled : d.id = operations[i].id
        BY <1>4, <3>2
      <4>2. i \in DOMAIN operations \ {at} /\ at \in DOMAIN operations
        BY <1>2, <1>3
      <4> QED
        BY <4>1, <4>2 DEF WellFormed, Configuration
    <3> QED
      BY <1>5, <3>1, <3>2
  <2>2. Fail(g, "operation") /\ "operation" \in Errors \ {""}
    BY <1>5 DEF CompileOperation, Errors
  <2> QED
    BY <1>1, <2>1, <2>2, FailProgress
<1>6. CASE d.id \notin operationIDs /\ Compiles(config, d)
  <2>1. /\ pc'[g] = "user" /\ resume' = "register" /\ at' = at
        /\ operationIDs' = operationIDs \cup {d.id} /\ compiled' = Append(compiled, d)
        /\ UNCHANGED <<once, runner, builtHandler, builtErr, registered, document>>
    BY <1>1, <1>6, CompilationFinds DEF CompileOperation, CallUser, Goto, Building, built
  <2>2. /\ once = "running" /\ runner = g /\ builtHandler = <<>> /\ builtErr = ""
        /\ UNCHANGED <<config, operations>> /\ Configuration' = Configuration
    BY <1>1, CompilationFinds, CompilationMoves
  <2>3. Stage' = "register"
    BY <2>1, <2>2 DEF Stage
  <2>4. Mounted' = Mounted /\ Settled' = Settled
    BY <1>3, <2>1, <2>3 DEF Mounted, Settled
  <2>5. CompiledSound'
    <3>1. DOMAIN compiled' = DOMAIN compiled \cup {at} /\ at \notin DOMAIN compiled
      <4>1. compiled' \in Seq(Definitions) /\ Len(compiled') = at
        BY <1>2, <1>3, <2>1, AppendProperties
      <4>2. DOMAIN compiled' = 1 .. at
        BY <4>1, LenProperties
      <4> QED
        BY <1>2, <1>3, <4>2
    <3>2. operationIDs' = {operations[i].id : i \in DOMAIN compiled'}
      BY <1>4, <2>1, <3>1
    <3>3. \A i \in DOMAIN compiled' :
            /\ Compiles(config, operations[i])
            /\ \A j \in DOMAIN compiled' \ {i} : operations[i].id # operations[j].id
      BY <1>4, <1>6, <3>1
    <3>4. Stage' \notin {"swagger", "wrap"} /\ operations' = operations /\ config' = config
      BY <2>2, <2>3
    <3> HIDE DEF d
    <3> QED
      BY <1>4, <3>2, <3>3, <3>4 DEF CompiledSound
  <2>6. RegisteredSound' /\ DocumentSound' /\ SchemesSound'
    <3>1. RegisteredSound /\ DocumentSound /\ SchemesSound /\ Stage \in Working
      BY <1>3 DEF Progress, Working
    <3>2. RegisteredSound'
      BY <2>1, <2>2, <2>4, <3>1 DEF RegisteredSound
    <3>3. DocumentSound'
      BY <2>1, <2>2, <2>4, <3>1 DEF DocumentSound
    <3>4. SchemesSound'
      BY <2>2, <2>4, <3>1 DEF SchemesSound
    <3> QED
      BY <3>2, <3>3, <3>4
  <2>7. PagesSound' /\ HandlerWrapped'
    BY <2>3 DEF PagesSound, HandlerWrapped
  <2> QED
    BY <2>1, <2>2, <2>3, <2>5, <2>6, <2>7, WorkProgress DEF Working
<1> QED
  BY <1>5, <1>6

\* What the registration of the next pattern means for the build.
LEMMA NextRegistered ==
  ASSUME Inductive, RegisteredSound, Stage \in Working, NEW k \in Nat, Mounted = k,
         k < Len(Patterns(Configuration)), Configuration' = Configuration
  PROVE  LET pattern == Patterns(Configuration)[k + 1]
         IN /\ pattern \in registered \/ ~MuxAccepts(pattern) => ~WellFormed(Configuration)
            /\ /\ pattern \notin registered /\ MuxAccepts(pattern)
               /\ registered' = registered \cup {pattern} /\ Mounted' = k + 1
               => RegisteredSound'
<1> DEFINE patterns == Patterns(Configuration)
<1>1. TypeOK /\ patterns \in Seq(PatternType)
  BY PatternsFound DEF Inductive
<1>2. Holds(patterns, k)
  BY DEF RegisteredSound, Holds
<1>3. patterns' = patterns
  OBVIOUS
<1>4. ASSUME \E i, j \in DOMAIN patterns : i # j /\ Conflict(patterns[i], patterns[j])
      PROVE  ~WellFormed(Configuration)
  BY <1>4 DEF WellFormed
<1>5. ASSUME Holds(patterns, k + 1)', Mounted' = k + 1
      PROVE  RegisteredSound'
  BY <1>3, <1>5 DEF RegisteredSound, Holds
<1> HIDE DEF patterns
<1>6. /\ patterns[k + 1] \in registered \/ ~MuxAccepts(patterns[k + 1]) => ~WellFormed(Configuration)
      /\ /\ MuxAccepts(patterns[k + 1]) /\ registered' = registered \cup {patterns[k + 1]}
         => Holds(patterns, k + 1)'
  BY <1>1, <1>2, <1>3, <1>4, NextPattern DEF patterns
<1> QED
  BY <1>5, <1>6 DEF patterns

LEMMA RegisterOperationProgress ==
  ASSUME Inductive, Progress, NEW g \in Goroutines, RegisterOperation(g)
  PROVE  Progress'
<1> DEFINE d == operations[at]
           patterns == Patterns(Configuration)
           pattern == OperationPattern(d)
<1>1. Compilation(g) /\ TypeOK
  BY DEF Compilation, Inductive
<1>2. /\ at \in 1 .. Len(operations) /\ Len(operations) \in Nat
      /\ DOMAIN operations = 1 .. Len(operations) /\ d \in Definitions
  BY <1>1, CurrentOperation, ConfigurationTypes DEF RegisterOperation
<1>3. /\ Stage = "register" /\ Mounted = at - 1 /\ Settled = at - 1
      /\ pc \in [Goroutines -> Steps]
  <2>1. Stage = "register" /\ pc \in [Goroutines -> Steps]
    <3>1. Building(g, "register")
      BY DEF RegisterOperation
    <3> QED
      BY <1>1, <3>1, BuilderStage DEF TypeOK
  <2> QED
    BY <2>1 DEF Mounted, Settled
<1>4. /\ at - 1 \in Nat /\ at - 1 < Len(patterns) /\ patterns[at] = pattern
      /\ \A i \in DOMAIN operations : patterns[i] = OperationPattern(operations[i])
  <2>1. /\ Len(patterns) \in Nat /\ Len(patterns) >= Len(operations)
        /\ \A i \in DOMAIN operations : patterns[i] = OperationPattern(operations[i])
    BY <1>1, ConfigurationTypes, PatternsFound
  <2> QED
    BY <1>2, <2>1
<1>5. /\ once = "running" /\ runner = g /\ builtHandler = <<>> /\ builtErr = ""
      /\ UNCHANGED <<config, operations>> /\ Configuration' = Configuration
  BY <1>1, CompilationFinds, CompilationMoves
<1>6. /\ CompiledSound /\ RegisteredSound /\ DocumentSound /\ SchemesSound /\ Stage \in Working
  BY <1>3 DEF Progress, Working
<1>7. /\ pattern \in registered \/ ~MuxAccepts(pattern) => ~WellFormed(Configuration)
      /\ /\ pattern \notin registered /\ MuxAccepts(pattern)
         /\ registered' = registered \cup {pattern} /\ Mounted' = at
         => RegisteredSound'
  <2>1. at - 1 + 1 = at
    BY <1>2
  <2> QED
    BY <1>3, <1>4, <1>5, <1>6, <2>1, NextRegistered
<1>8. CASE pattern \in registered \/ ~MuxAccepts(pattern) \/ d.method \notin DocumentedMethods
  <2>1. ~WellFormed(Configuration)
    <3>1. CASE d.method \notin DocumentedMethods
      BY <1>2, <3>1 DEF WellFormed, Configuration
    <3> QED
      BY <1>7, <1>8, <3>1
  <2>2. Fail(g, "route") /\ "route" \in Errors \ {""}
    BY <1>8 DEF RegisterOperation, Errors
  <2> QED
    BY <1>1, <2>1, <2>2, FailProgress
<1>9. CASE pattern \notin registered /\ MuxAccepts(pattern) /\ d.method \in DocumentedMethods
  <2>1. /\ registered' = registered \cup {pattern}
        /\ document' = SetPathOperation(document, d.method, OpenAPIPath(d.route), at)
        /\ UNCHANGED <<once, runner, builtHandler, builtErr, compiled, operationIDs>>
        /\ \/ d.security = "" /\ pc'[g] = "compile" /\ at' = at + 1
           \/ d.security # "" /\ pc'[g] = "user" /\ resume' = "scheme" /\ at' = at
    BY <1>3, <1>9 DEF RegisterOperation, CallUser, Goto, Building, built
  <2>2. \/ d.security = "" /\ Stage' = "compile" /\ at' = at + 1
        \/ d.security # "" /\ Stage' = "scheme" /\ at' = at
    BY <1>5, <2>1 DEF Stage
  <2>3. Mounted' = at /\ ((Settled' = at /\ d.security = "") \/ Settled' = at - 1)
    <3>1. CASE d.security = "" /\ Stage' = "compile" /\ at' = at + 1
      <4>1. at' - 1 = at
        <5>1. at \in Int
          BY <1>2
        <5>2. at' = at + 1
          BY <3>1
        <5> QED
          BY <5>1, <5>2
      <4>2. Mounted' = at' - 1 /\ Settled' = at' - 1
        BY <3>1 DEF Mounted, Settled
      <4> QED
        BY <3>1, <4>1, <4>2
    <3>2. CASE Stage' = "scheme" /\ at' = at
      BY <3>2 DEF Mounted, Settled
    <3> QED
      BY <2>2, <3>1, <3>2
  <2>4. RegisteredSound'
    BY <1>7, <1>9, <2>1, <2>3
  <2>5. CompiledSound'
    BY <1>5, <1>6, <2>1, <2>2 DEF CompiledSound
  <2>6. SchemesSound'
    <3>1. ASSUME NEW i \in 1 .. Settled'
          PROVE  i \in 1 .. at - 1 \/ (i = at /\ d.security = "")
      <4>1. CASE Settled' = at - 1
        BY <4>1
      <4>2. CASE Settled' = at /\ d.security = ""
        <5>1. i \in 1 .. at
          BY <4>2
        <5>2. i \in 1 .. at - 1 \/ i = at
          BY <1>2, <5>1
        <5> QED
          BY <4>2, <5>2
      <4> QED
        BY <2>3, <4>1, <4>2
    <3> QED
      BY <1>3, <1>5, <1>6, <3>1 DEF SchemesSound
  <2>7. DocumentSound'
    <3>1. ASSUME NEW i \in DOMAIN operations \cap 1 .. at
          PROVE  /\ operations[i].method \in DocumentedMethods
                 /\ \E e \in document' : /\ e.operation = i /\ e.method = operations[i].method
                                         /\ e.path = OpenAPIPath(operations[i].route)
      <4>1. CASE i = at
        <5> DEFINE e == [method |-> d.method, path |-> OpenAPIPath(d.route), operation |-> at]
        <5>1. e \in document'
          BY <2>1 DEF SetPathOperation
        <5>2. e.operation = i /\ e.method = d.method /\ e.path = OpenAPIPath(d.route)
          BY <4>1
        <5> QED
          BY <1>9, <4>1, <5>1, <5>2
      <4>2. CASE i # at
        <5>1. i \in DOMAIN operations \cap 1 .. at - 1
          BY <1>2, <4>2
        <5>2. PICK e \in document : /\ e.operation = i /\ e.method = operations[i].method
                                    /\ e.path = OpenAPIPath(operations[i].route)
          BY <1>3, <1>6, <5>1 DEF DocumentSound
        <5>3. operations[i].method \in DocumentedMethods
          BY <1>3, <1>6, <5>1 DEF DocumentSound
        <5>4. OperationPattern(operations[i]) # pattern
          <6>1. patterns[i] \in registered
            BY <1>3, <1>6, <5>1 DEF RegisteredSound
          <6> QED
            BY <1>4, <1>9, <5>1, <6>1
        <5>5. ~(e.method = d.method /\ e.path = OpenAPIPath(d.route))
          BY <5>2, <5>4 DEF OperationPattern, Pattern, OpenAPIPath, ServeMuxPath, Path
        <5>6. e \in document'
          BY <2>1, <5>2, <5>5 DEF SetPathOperation
        <5> QED
          BY <5>2, <5>3, <5>6
      <4> QED
        BY <4>1, <4>2
    <3> QED
      BY <1>5, <2>3, <3>1 DEF DocumentSound
  <2>8. PagesSound' /\ HandlerWrapped'
    BY <2>2 DEF PagesSound, HandlerWrapped
  <2> QED
    BY <1>5, <2>1, <2>2, <2>4, <2>5, <2>6, <2>7, <2>8, WorkProgress DEF Working
<1> QED
  BY <1>8, <1>9

LEMMA CheckSchemeProgress ==
  ASSUME Inductive, Progress, NEW g \in Goroutines, CheckScheme(g)
  PROVE  Progress'
<1> DEFINE name == operations[at].security
<1>1. Compilation(g) /\ TypeOK
  BY DEF Compilation, Inductive
<1>2. /\ at \in 1 .. Len(operations) /\ Len(operations) \in Nat
      /\ DOMAIN operations = 1 .. Len(operations)
  BY <1>1, CurrentOperation, ConfigurationTypes DEF CheckScheme
<1>3. /\ Stage = "scheme" /\ Mounted = at /\ Settled = at - 1 /\ name # ""
      /\ pc \in [Goroutines -> Steps]
  <2>1. Stage = "scheme" /\ pc \in [Goroutines -> Steps]
    <3>1. Building(g, "scheme")
      BY DEF CheckScheme
    <3> QED
      BY <1>1, <3>1, BuilderStage DEF TypeOK
  <2>2. name # ""
    BY <2>1 DEF Inductive, CursorInRange
  <2> QED
    BY <2>1, <2>2 DEF Mounted, Settled
<1>4. /\ once = "running" /\ runner = g /\ builtHandler = <<>> /\ builtErr = ""
      /\ UNCHANGED <<config, operations>> /\ Configuration' = Configuration
  BY <1>1, CompilationFinds, CompilationMoves
<1>5. /\ CompiledSound /\ RegisteredSound /\ DocumentSound /\ SchemesSound /\ Stage \in Working
  BY <1>3 DEF Progress, Working
<1>6. CASE config.providers[name] # "valid"
  <2>1. ~WellFormed(Configuration)
    BY <1>2, <1>3, <1>6 DEF WellFormed, Configuration
  <2>2. Fail(g, "scheme") /\ "scheme" \in Errors \ {""}
    BY <1>6 DEF CheckScheme, Errors
  <2> QED
    BY <1>1, <2>1, <2>2, FailProgress
<1>7. CASE config.providers[name] = "valid"
  <2>1. /\ pc'[g] = "compile" /\ at' = at + 1
        /\ UNCHANGED <<once, runner, builtHandler, builtErr, compiled, operationIDs, registered,
                       document>>
    BY <1>3, <1>7 DEF CheckScheme, Goto, Building, built
  <2>2. Stage' = "compile"
    BY <1>4, <2>1 DEF Stage
  <2>3. Mounted' = at /\ Settled' = at
    BY <1>2, <2>1, <2>2 DEF Mounted, Settled
  <2>4. CompiledSound'
    BY <1>4, <1>5, <2>1, <2>2 DEF CompiledSound
  <2>5. RegisteredSound' /\ DocumentSound'
    <3>1. RegisteredSound'
      BY <1>3, <1>4, <1>5, <2>1, <2>3 DEF RegisteredSound
    <3>2. DocumentSound'
      BY <1>3, <1>4, <1>5, <2>1, <2>3 DEF DocumentSound
    <3> QED
      BY <3>1, <3>2
  <2>6. SchemesSound'
    <3>1. \A i \in 1 .. at : i \in 1 .. at - 1 \/ i = at
      BY <1>2
    <3> QED
      BY <1>3, <1>4, <1>5, <1>7, <2>3, <3>1 DEF SchemesSound
  <2>7. PagesSound' /\ HandlerWrapped'
    BY <2>2 DEF PagesSound, HandlerWrapped
  <2> QED
    BY <1>4, <2>1, <2>2, <2>4, <2>5, <2>6, <2>7, WorkProgress DEF Working
<1> QED
  BY <1>6, <1>7

\* A documentation route is the next pattern.
LEMMA RegisterDocumentationSound ==
  ASSUME Inductive, RegisteredSound, Stage \in Working, NEW k \in Nat, Mounted = k,
         k < Len(Patterns(Configuration)), Configuration' = Configuration,
         NEW g \in Goroutines, NEW path, NEW step, RegisterDocumentation(g, path, step),
         Patterns(Configuration)[k + 1] = DocumentationPattern(path)
  PROVE  \/ Fail(g, "documentation") /\ ~WellFormed(Configuration)
         \/ /\ Goto(g, step) /\ UNCHANGED <<built, resume>>
            /\ Mounted' = k + 1 => RegisteredSound'
<1> DEFINE pattern == DocumentationPattern(path)
<1>1. /\ pattern \in registered \/ ~MuxAccepts(pattern) => ~WellFormed(Configuration)
      /\ /\ pattern \notin registered /\ MuxAccepts(pattern)
         /\ registered' = registered \cup {pattern} /\ Mounted' = k + 1
         => RegisteredSound'
  BY NextRegistered
<1>2. CASE pattern \in registered \/ ~MuxAccepts(pattern)
  BY <1>1, <1>2 DEF RegisterDocumentation
<1>3. CASE pattern \notin registered /\ MuxAccepts(pattern)
  BY <1>1, <1>3 DEF RegisterDocumentation
<1> QED
  BY <1>2, <1>3

\* What is left of a step that goes on with documentation routes: the pages.
LEMMA MountProgress ==
  ASSUME Inductive, Progress, NEW g \in Goroutines, Compilation(g),
         Goto(g, "swagger"), UNCHANGED <<built, resume>>,
         UNCHANGED <<compiled, operationIDs, document>>,
         Stage \in {"compile", "swagger"}, Stage = "compile" => at = Len(operations) + 1,
         RegisteredSound', PagesSound'
  PROVE  Progress'
<1>1. /\ once = "running" /\ runner = g /\ builtHandler = <<>> /\ builtErr = ""
      /\ UNCHANGED <<config, operations, openAPIPath, swagger>> /\ Configuration' = Configuration
      /\ pc \in [Goroutines -> Steps] /\ TypeOK
  BY CompilationFinds, CompilationMoves
<1>2. UNCHANGED <<once, runner, builtHandler, builtErr>> /\ Stage' = "swagger"
  BY <1>1 DEF Goto, built, Stage
<1>3. /\ CompiledSound /\ DocumentSound /\ SchemesSound /\ Stage \in Working
  BY DEF Progress, Working
<1>4. /\ Len(operations) \in Nat /\ DOMAIN operations = 1 .. Len(operations)
      /\ Len(swagger) \in Nat /\ Len(Patterns(Configuration)) \in Nat
      /\ Len(Patterns(Configuration)) - Len(swagger) >= Len(operations)
  <2> DEFINE patterns == Patterns(Configuration)
             documents == IF openAPIPath = NoPath THEN 0 ELSE 1
  <2>1. Len(patterns) = Len(operations) + documents + Len(swagger)
    BY <1>1, PatternsFound
  <2>2. documents \in Nat
    OBVIOUS
  <2>3. /\ Len(operations) \in Nat /\ DOMAIN operations = 1 .. Len(operations)
        /\ Len(swagger) \in Nat
    BY <1>1, ConfigurationTypes
  <2>4. Len(patterns) \in Nat /\ Len(patterns) - Len(swagger) >= Len(operations)
    <3> HIDE DEF patterns, documents
    <3> QED
      BY <2>1, <2>2, <2>3
  <2> QED
    BY <2>3, <2>4
<1>5. Len(compiled) = Len(operations)
  <2>1. CASE Stage = "compile"
    <3>1. Len(compiled) = at - 1
      BY <2>1 DEF Inductive, CursorInRange
    <3> QED
      BY <1>4, <2>1, <3>1
  <2>2. CASE Stage = "swagger"
    BY <1>3, <2>2 DEF CompiledSound
  <2> QED
    BY <2>1, <2>2
<1>6. CompiledSound'
  BY <1>1, <1>2, <1>3, <1>5 DEF CompiledSound
<1>7. DOMAIN operations \subseteq 1 .. Mounted /\ Settled = Len(operations)
  <2>1. CASE Stage = "compile"
    <3>1. at - 1 = Len(operations)
      BY <1>4, <2>1
    <3>2. Mounted = at - 1 /\ Settled = at - 1
      BY <2>1 DEF Mounted, Settled
    <3> QED
      BY <1>4, <3>1, <3>2
  <2>2. CASE Stage = "swagger"
    <3>1. at > 0 /\ at \in Nat
      BY <1>1, <2>2 DEF Inductive, CursorInRange, TypeOK
    <3>2. Mounted = Len(Patterns(Configuration)) - Len(swagger) + at - 1
      BY <2>2 DEF Mounted
    <3>3. Mounted \in Nat /\ Mounted >= Len(operations)
      BY <1>4, <3>1, <3>2
    <3> QED
      BY <1>4, <2>2, <3>3 DEF Settled
  <2> QED
    BY <2>1, <2>2
<1>8. DocumentSound'
  BY <1>1, <1>3, <1>7 DEF DocumentSound
<1>9. SchemesSound'
  <2>1. Settled' = Len(operations)
    BY <1>1, <1>2 DEF Settled
  <2> QED
    BY <1>1, <1>3, <1>7, <2>1 DEF SchemesSound
<1>10. HandlerWrapped'
  BY <1>2 DEF HandlerWrapped
<1> QED
  BY <1>1, <1>2, <1>6, <1>8, <1>9, <1>10, WorkProgress DEF Working

LEMMA MountOpenAPIProgress ==
  ASSUME Inductive, Progress, NEW g \in Goroutines, MountOpenAPI(g)
  PROVE  Progress'
<1> DEFINE patterns == Patterns(Configuration)
<1>1. Compilation(g) /\ TypeOK
  BY DEF Compilation, Inductive
<1>2. /\ Building(g, "compile") /\ at > snap.operations /\ at' = 1
      /\ UNCHANGED <<compiled, operationIDs, document>>
  BY DEF MountOpenAPI
<1>3. Stage = "compile" /\ RegisteredSound /\ Stage \in Working
  BY <1>2, BuilderStage DEF Progress, Working
<1>4. /\ UNCHANGED <<openAPIPath, swagger>> /\ Configuration' = Configuration
      /\ snap.operations = Len(operations) /\ snap.openAPIPath = openAPIPath
      /\ once = "running" /\ runner = g /\ pc \in [Goroutines -> Steps]
  <2>1. snap = [operations |-> Len(operations), middlewares |-> middlewares,
                openAPIPath |-> openAPIPath, swagger |-> swagger]
    BY <1>1, CompilationFinds
  <2>2. snap.operations = Len(operations) /\ snap.openAPIPath = openAPIPath
    BY <2>1
  <2>3. /\ UNCHANGED <<openAPIPath, swagger>> /\ Configuration' = Configuration
        /\ pc \in [Goroutines -> Steps]
    BY <1>1, CompilationFinds
  <2> QED
    BY <1>2, <2>2, <2>3 DEF Building
<1>5. at = Len(operations) + 1
  <2>1. at \in 1 .. snap.operations + 1
    BY <1>3 DEF Inductive, CursorInRange
  <2> QED
    BY <1>1, <1>2, <1>4, <2>1, ConfigurationTypes
<1>6. Mounted = Len(operations)
  <2>1. Mounted = at - 1
    BY <1>3 DEF Mounted
  <2> QED
    BY <1>1, <1>5, <2>1, ConfigurationTypes
<1>7. ASSUME Goto(g, "swagger"), UNCHANGED <<built, resume>>,
             Mounted' = Len(patterns) - Len(swagger) => RegisteredSound'
      PROVE  Progress'
  <2>1. Stage' = "swagger"
    BY <1>4, <1>7 DEF Goto, built, Stage
  <2>2. Mounted' = Len(patterns) - Len(swagger)
    <3>1. Mounted' = Len(patterns) - Len(swagger) + at' - 1
      BY <1>4, <2>1 DEF Mounted
    <3>2. Len(patterns) \in Nat /\ Len(swagger) \in Nat
      BY <1>1, ConfigurationTypes, PatternsFound
    <3> HIDE DEF patterns
    <3> QED
      BY <1>2, <3>1, <3>2
  <2>3. PagesSound'
    BY <1>1, <1>2, <1>4, <2>1, ConfigurationTypes DEF PagesSound
  <2> QED
    BY <1>1, <1>2, <1>3, <1>5, <1>7, <2>2, <2>3, MountProgress
<1>8. CASE openAPIPath = NoPath
  <2>1. Goto(g, "swagger") /\ UNCHANGED <<built, resume, registered>>
    BY <1>4, <1>8 DEF MountOpenAPI
  <2>2. Len(patterns) - Len(swagger) = Len(operations)
    <3>1. Len(patterns) = Len(operations) + 0 + Len(swagger)
      BY <1>1, <1>8, PatternsFound
    <3> QED
      BY <1>1, <3>1, ConfigurationTypes
  <2>3. Mounted' = Mounted => RegisteredSound'
    BY <1>3, <1>4, <2>1 DEF RegisteredSound
  <2> QED
    BY <1>6, <1>7, <2>1, <2>2, <2>3
<1>9. CASE openAPIPath # NoPath
  <2>1. /\ Len(patterns) = Len(operations) + 1 + Len(swagger)
        /\ patterns[Len(operations) + 1] = DocumentationPattern(openAPIPath)
    BY <1>1, <1>9, PatternsFound
  <2>2. /\ Len(operations) \in Nat /\ Len(operations) < Len(patterns)
        /\ Len(patterns) - Len(swagger) = Len(operations) + 1
    BY <1>1, <2>1, ConfigurationTypes
  <2>3. RegisterDocumentation(g, openAPIPath, "swagger")
    BY <1>4, <1>9 DEF MountOpenAPI
  <2>4. \/ Fail(g, "documentation") /\ ~WellFormed(Configuration)
        \/ /\ Goto(g, "swagger") /\ UNCHANGED <<built, resume>>
           /\ Mounted' = Len(operations) + 1 => RegisteredSound'
    BY <1>3, <1>4, <1>6, <2>1, <2>2, <2>3, RegisterDocumentationSound
  <2>5. "documentation" \in Errors \ {""}
    BY DEF Errors
  <2> QED
    BY <1>1, <1>7, <2>2, <2>4, <2>5, FailProgress
<1> QED
  BY <1>8, <1>9

LEMMA MountSwaggerProgress ==
  ASSUME Inductive, Progress, NEW g \in Goroutines, MountSwagger(g)
  PROVE  Progress'
<1> DEFINE patterns == Patterns(Configuration)
           k == Len(patterns) - Len(swagger) + at - 1
<1>1. Compilation(g) /\ TypeOK
  BY DEF Compilation, Inductive
<1>2. /\ Building(g, "swagger") /\ at <= Len(snap.swagger) /\ at' = at + 1
      /\ UNCHANGED <<compiled, operationIDs, document>>
  BY DEF MountSwagger
<1>3. Stage = "swagger" /\ RegisteredSound /\ PagesSound /\ Stage \in Working
  BY <1>2, BuilderStage DEF Progress, Working
<1>4. /\ UNCHANGED <<openAPIPath, swagger>> /\ Configuration' = Configuration
      /\ snap.swagger = swagger
      /\ once = "running" /\ runner = g /\ pc \in [Goroutines -> Steps]
  <2>1. snap = [operations |-> Len(operations), middlewares |-> middlewares,
                openAPIPath |-> openAPIPath, swagger |-> swagger]
    BY <1>1, CompilationFinds
  <2>2. snap.swagger = swagger
    BY <2>1
  <2>3. /\ UNCHANGED <<openAPIPath, swagger>> /\ Configuration' = Configuration
        /\ pc \in [Goroutines -> Steps]
    BY <1>1, CompilationFinds
  <2> QED
    BY <1>2, <2>2, <2>3 DEF Building
<1>5. /\ at \in 1 .. Len(swagger) /\ at \in DOMAIN swagger /\ Len(swagger) \in Nat
      /\ DOMAIN swagger = 1 .. Len(swagger)
  <2>1. at \in Nat /\ at > 0
    BY <1>1, <1>3 DEF TypeOK, Inductive, CursorInRange
  <2> QED
    BY <1>1, <1>2, <1>4, <2>1, ConfigurationTypes
<1>6. /\ k \in Nat /\ k < Len(patterns) /\ Len(patterns) \in Nat
      /\ patterns[k + 1] = DocumentationPattern(swagger[at].path)
  <2> DEFINE documents == IF openAPIPath = NoPath THEN 0 ELSE 1
  <2>1. /\ Len(patterns) = Len(operations) + documents + Len(swagger)
        /\ patterns[Len(operations) + documents + at] = DocumentationPattern(swagger[at].path)
    BY <1>1, <1>5, PatternsFound
  <2>2. Len(operations) \in Nat /\ documents \in Nat
    BY <1>1, ConfigurationTypes
  <2>3. k + 1 = Len(operations) + documents + at
    <3> HIDE DEF patterns, documents
    <3> QED
      BY <1>5, <2>1, <2>2
  <2>4. k \in Nat /\ k < Len(patterns) /\ Len(patterns) \in Nat
    <3> HIDE DEF patterns, documents
    <3> QED
      BY <1>5, <2>1, <2>2
  <2> QED
    BY <2>1, <2>3, <2>4
<1>7. Mounted = k
  BY <1>3 DEF Mounted
<1>8. CASE ~swagger[at].page
  <2>1. ~WellFormed(Configuration)
    BY <1>5, <1>8 DEF WellFormed, Configuration
  <2>2. Fail(g, "swagger") /\ "swagger" \in Errors \ {""}
    BY <1>4, <1>8 DEF MountSwagger, Errors
  <2> QED
    BY <1>1, <2>1, <2>2, FailProgress
<1>9. CASE swagger[at].page
  <2>1. RegisterDocumentation(g, swagger[at].path, "swagger")
    BY <1>4, <1>9 DEF MountSwagger
  <2>2. \/ Fail(g, "documentation") /\ ~WellFormed(Configuration)
        \/ /\ Goto(g, "swagger") /\ UNCHANGED <<built, resume>>
           /\ Mounted' = k + 1 => RegisteredSound'
    BY <1>3, <1>4, <1>6, <1>7, <2>1, RegisterDocumentationSound
  <2>3. CASE Fail(g, "documentation") /\ ~WellFormed(Configuration)
    BY <1>1, <2>3, FailProgress DEF Errors
  <2>4. CASE /\ Goto(g, "swagger") /\ UNCHANGED <<built, resume>>
             /\ Mounted' = k + 1 => RegisteredSound'
    <3>1. Stage' = "swagger"
      BY <1>4, <2>4 DEF Goto, built, Stage
    <3>2. Mounted' = Len(patterns) - Len(swagger) + at' - 1
      BY <1>4, <3>1 DEF Mounted
    <3>3. Mounted' = k + 1
      <4> HIDE DEF patterns
      <4> QED
        BY <1>2, <1>5, <1>6, <3>2
    <3>4. PagesSound'
      <4>1. at' <= Len(swagger) + 1 /\ \A i \in 1 .. at' - 1 : i \in 1 .. at - 1 \/ i = at
        BY <1>2, <1>5
      <4>2. \A i \in 1 .. at - 1 : swagger[i].page
        BY <1>3 DEF PagesSound
      <4> QED
        BY <1>4, <1>9, <3>1, <4>1, <4>2 DEF PagesSound
    <3> QED
      BY <1>1, <1>2, <1>3, <2>4, <3>3, <3>4, MountProgress
  <2> QED
    BY <2>2, <2>3, <2>4
<1> QED
  BY <1>8, <1>9

\* Putting a layer around the mux is undoing one of the Use calls left.
LEMMA WrapOne ==
  ASSUME NEW S, NEW s \in Seq(S), NEW n \in 1 .. Len(s), NEW tail \in Seq(S)
  PROVE  <<s[n]>> \o (SubSeq(s, n + 1, Len(s)) \o tail) = SubSeq(s, n, Len(s)) \o tail
<1>1. Len(s) \in Nat /\ \A i \in 1 .. Len(s) : s[i] \in S
  BY LenProperties, ElementOfSeq
<1>2. /\ SubSeq(s, n + 1, Len(s)) \in Seq(S) /\ Len(SubSeq(s, n + 1, Len(s))) = Len(s) - n
      /\ \A i \in 1 .. Len(s) - n : SubSeq(s, n + 1, Len(s))[i] = s[n + i]
  BY <1>1, SubSeqProperties
<1>3. /\ SubSeq(s, n, Len(s)) \in Seq(S) /\ Len(SubSeq(s, n, Len(s))) = Len(s) - n + 1
      /\ \A i \in 1 .. Len(s) - n + 1 : SubSeq(s, n, Len(s))[i] = s[n + i - 1]
  BY <1>1, SubSeqProperties
<1> DEFINE rest == SubSeq(s, n + 1, Len(s))
           all == SubSeq(s, n, Len(s))
<1>4. <<s[n]>> \o rest = all
  BY <1>1, <1>2, <1>3
<1>5. <<s[n]>> \in Seq(S) /\ rest \in Seq(S)
  BY <1>1, <1>2
<1> HIDE DEF rest, all
<1>6. (<<s[n]>> \o rest) \o tail = <<s[n]>> \o (rest \o tail)
  BY <1>5, ConcatAssociative
<1> QED
  BY <1>4, <1>6 DEF rest, all

\* The layers of a handler, as sequences of one set.
LEMMA LayersType ==
  ASSUME TypeOK
  PROVE  /\ middlewares \in Seq(Layers) /\ <<"mux">> \in Seq(Layers)
         /\ <<"carrier">> \in Seq(Layers) /\ Recovery \in Seq(Layers)
<1>1. /\ Middlewares \subseteq Layers /\ "mux" \in Layers /\ "carrier" \in Layers
      /\ "recovery" \in Layers
  BY DEF Layers
<1>2. middlewares \in Seq(Layers)
  <2>1. middlewares \in Seq(Middlewares)
    BY DEF TypeOK
  <2> QED
    BY <1>1, <2>1
<1> QED
  BY <1>1, <1>2 DEF Recovery

\* What the build knows of the operations when the documentation is mounted.
LEMMA AllMounted ==
  ASSUME Inductive, Progress, Stage = "swagger", at = Len(swagger) + 1
  PROVE  Mounted = Len(Patterns(Configuration))
<1>1. TypeOK
  BY DEF Inductive
<1> DEFINE patterns == Patterns(Configuration)
<1>2. Len(patterns) \in Nat /\ Len(swagger) \in Nat
  BY <1>1, ConfigurationTypes, PatternsFound
<1>3. Mounted = Len(patterns) - Len(swagger) + at - 1
  BY DEF Mounted
<1> HIDE DEF patterns
<1>4. Mounted = Len(patterns)
  BY <1>2, <1>3
<1> QED
  BY <1>4 DEF patterns

\* A step of the wrapping keeps what the build established before it.
LEMMA KeepsWrapping ==
  ASSUME Inductive, Progress, NEW g \in Goroutines, Compilation(g),
         Stage \in {"swagger", "wrap"}, Mounted = Len(Patterns(Configuration)),
         Stage' = "wrap", once' = once,
         UNCHANGED <<builtHandler, builtErr, operationIDs, registered, compiled, document>>,
         \A i \in DOMAIN swagger : swagger[i].page, HandlerWrapped'
  PROVE  Progress'
<1>1. /\ once = "running" /\ builtHandler = <<>> /\ builtErr = ""
      /\ UNCHANGED <<config, operations, swagger>> /\ Configuration' = Configuration
  BY CompilationFinds
<1>2. CompiledSound /\ RegisteredSound /\ DocumentSound /\ SchemesSound /\ Stage \in Working
  BY DEF Progress, Working
<1>3. Mounted' = Mounted /\ Settled' = Len(operations) /\ Settled = Len(operations)
  BY <1>1 DEF Mounted, Settled
<1>4. CompiledSound'
  BY <1>1, <1>2 DEF CompiledSound
<1>5. RegisteredSound'
  BY <1>1, <1>2, <1>3 DEF RegisteredSound
<1>6. DocumentSound'
  BY <1>1, <1>2, <1>3 DEF DocumentSound
<1>7. SchemesSound'
  BY <1>1, <1>2, <1>3 DEF SchemesSound
<1>8. PagesSound'
  BY <1>1 DEF PagesSound
<1> QED
  BY <1>1, <1>4, <1>5, <1>6, <1>7, <1>8, WorkProgress DEF Working

LEMMA StartWrappingProgress ==
  ASSUME Inductive, Progress, NEW g \in Goroutines, StartWrapping(g)
  PROVE  Progress'
<1>1. Compilation(g) /\ TypeOK
  BY DEF Compilation, Inductive
<1>2. /\ Building(g, "swagger") /\ at > Len(snap.swagger) /\ at' = Len(snap.middlewares)
      /\ handler' = <<"mux">> /\ Goto(g, "wrap")
      /\ UNCHANGED <<builtHandler, builtErr, operationIDs, registered, compiled, document>>
      /\ UNCHANGED <<once, runner>>
  BY DEF StartWrapping, built
<1>3. Stage = "swagger" /\ PagesSound
  BY <1>2, BuilderStage DEF Progress
<1>4. /\ UNCHANGED middlewares /\ snap.swagger = swagger /\ snap.middlewares = middlewares
      /\ pc \in [Goroutines -> Steps] /\ at \in Nat
  <2>1. snap = [operations |-> Len(operations), middlewares |-> middlewares,
                openAPIPath |-> openAPIPath, swagger |-> swagger]
    BY <1>1, CompilationFinds
  <2>2. snap.swagger = swagger /\ snap.middlewares = middlewares
    BY <2>1
  <2> QED
    BY <1>1, <2>2, CompilationFinds
<1>5. at = Len(swagger) + 1 /\ \A i \in DOMAIN swagger : swagger[i].page
  <2>1. at <= Len(swagger) + 1 /\ \A i \in 1 .. at - 1 : swagger[i].page
    BY <1>3 DEF PagesSound
  <2>2. at = Len(swagger) + 1
    BY <1>1, <1>2, <1>4, <2>1, ConfigurationTypes
  <2>3. at - 1 = Len(swagger) /\ DOMAIN swagger = 1 .. Len(swagger)
    BY <1>1, <2>2, ConfigurationTypes
  <2> QED
    BY <2>1, <2>2, <2>3
<1>6. Stage' = "wrap"
  BY <1>2, <1>4 DEF Goto, Building, Stage
<1>7. HandlerWrapped'
  <2>1. Len(middlewares) \in Nat /\ middlewares \in Seq(Layers) /\ <<"mux">> \in Seq(Layers)
    BY <1>1, ConfigurationTypes, LayersType
  <2>2. SubSeq(middlewares, Len(middlewares) + 1, Len(middlewares)) = <<>>
    BY <2>1, SubSeqEmpty
  <2>3. <<>> \o <<"mux">> = <<"mux">>
    BY <2>1, ConcatEmptySeq
  <2>4. at' = Len(middlewares) /\ at' \in 0 .. Len(middlewares)
    BY <1>2, <1>4, <2>1
  <2> QED
    BY <1>2, <1>4, <2>2, <2>3, <2>4 DEF HandlerWrapped
<1>8. Mounted = Len(Patterns(Configuration))
  BY <1>3, <1>5, AllMounted
<1> QED
  BY <1>1, <1>2, <1>3, <1>5, <1>6, <1>7, <1>8, KeepsWrapping

LEMMA WrapProgress ==
  ASSUME Inductive, Progress, NEW g \in Goroutines, Wrap(g)
  PROVE  Progress'
<1>1. Compilation(g) /\ TypeOK
  BY DEF Compilation, Inductive
<1>2. /\ Building(g, "wrap") /\ at > 0 /\ at' = at - 1
      /\ handler' = <<snap.middlewares[at]>> \o handler /\ CallUser(g, "wrap")
      /\ UNCHANGED <<builtHandler, builtErr, operationIDs, registered, compiled, document>>
      /\ UNCHANGED <<once, runner>>
  BY DEF Wrap, built
<1>3. Stage = "wrap" /\ PagesSound /\ HandlerWrapped
  BY <1>2, BuilderStage DEF Progress
<1>4. /\ UNCHANGED middlewares /\ snap.middlewares = middlewares
      /\ pc \in [Goroutines -> Steps] /\ at \in Nat
  <2>1. snap = [operations |-> Len(operations), middlewares |-> middlewares,
                openAPIPath |-> openAPIPath, swagger |-> swagger]
    BY <1>1, CompilationFinds
  <2>2. snap.middlewares = middlewares
    BY <2>1
  <2> QED
    BY <1>1, <2>2, CompilationFinds
<1>5. Stage' = "wrap"
  BY <1>2, <1>4 DEF CallUser, Goto, Building, Stage
<1>6. HandlerWrapped'
  <2>1. /\ at \in 1 .. Len(middlewares) /\ Len(middlewares) \in Nat
        /\ handler = SubSeq(middlewares, at + 1, Len(middlewares)) \o <<"mux">>
    BY <1>1, <1>2, <1>3, ConfigurationTypes, SMTT(60) DEF HandlerWrapped
  <2>2. middlewares \in Seq(Layers) /\ <<"mux">> \in Seq(Layers)
    BY <1>1, LayersType
  <2>3. handler' = SubSeq(middlewares, at, Len(middlewares)) \o <<"mux">>
    BY <1>2, <1>4, <2>1, <2>2, WrapOne
  <2>4. at' + 1 = at /\ at' \in 0 .. Len(middlewares)
    BY <1>2, <2>1
  <2> QED
    BY <1>4, <2>3, <2>4 DEF HandlerWrapped
<1>7. Mounted = Len(Patterns(Configuration)) /\ \A i \in DOMAIN swagger : swagger[i].page
  BY <1>3 DEF Mounted, PagesSound
<1> QED
  BY <1>1, <1>2, <1>3, <1>5, <1>6, <1>7, KeepsWrapping

\* When the wrapping is done, everything WellFormed asks for has been checked.
LEMMA WrappedIsWellFormed ==
  ASSUME Inductive, Progress, Stage = "wrap"
  PROVE  WellFormed(Configuration)
<1> DEFINE patterns == Patterns(Configuration)
<1>1. /\ TypeOK /\ CompiledSound /\ RegisteredSound /\ DocumentSound /\ SchemesSound
      /\ PagesSound /\ Stage \in Working
  BY DEF Inductive, Progress, Working
<1>2. /\ Mounted = Len(patterns) /\ Settled = Len(operations)
  BY DEF Mounted, Settled
<1>3. /\ DOMAIN operations = 1 .. Len(operations) /\ DOMAIN compiled = DOMAIN operations
  BY <1>1, ConfigurationTypes DEF CompiledSound
<1>4. DOMAIN patterns = 1 .. Len(patterns) /\ DOMAIN operations \subseteq 1 .. Len(patterns)
  <2> DEFINE documents == IF openAPIPath = NoPath THEN 0 ELSE 1
  <2>1. Len(patterns) = Len(operations) + documents + Len(swagger) /\ patterns \in Seq(PatternType)
    BY <1>1, PatternsFound
  <2>2. documents \in Nat /\ Len(operations) \in Nat /\ Len(swagger) \in Nat
    BY <1>1, ConfigurationTypes
  <2>3. DOMAIN patterns = 1 .. Len(patterns)
    BY <2>1, LenProperties
  <2> HIDE DEF patterns, documents
  <2> QED
    BY <1>3, <2>1, <2>2, <2>3
<1>5. config.info /\ config.formatter
  BY <1>1 DEF CompiledSound
<1>6. ASSUME NEW i \in DOMAIN operations
      PROVE  /\ Compiles(config, operations[i])
             /\ operations[i].method \in DocumentedMethods
             /\ operations[i].security # "" => config.providers[operations[i].security] = "valid"
             /\ \A j \in DOMAIN operations \ {i} : operations[i].id # operations[j].id
  <2>1. /\ Compiles(config, operations[i])
        /\ \A j \in DOMAIN operations \ {i} : operations[i].id # operations[j].id
    BY <1>1, <1>3 DEF CompiledSound
  <2>2. operations[i].method \in DocumentedMethods
    BY <1>1, <1>2, <1>4 DEF DocumentSound
  <2>3. operations[i].security # "" => config.providers[operations[i].security] = "valid"
    BY <1>1, <1>2, <1>3 DEF SchemesSound
  <2> QED
    BY <2>1, <2>2, <2>3
<1>7. \A i, j \in DOMAIN patterns : i # j => ~Conflict(patterns[i], patterns[j])
  BY <1>1, <1>2, <1>4 DEF RegisteredSound
<1>8. \A i \in DOMAIN swagger : swagger[i].page
  BY <1>1 DEF PagesSound
<1> DEFINE c == Configuration
<1>9. /\ c.config = config /\ c.operations = operations /\ c.swagger = swagger
  BY DEF Configuration
<1>10. \A i, j \in DOMAIN Patterns(c) : i # j => ~Conflict(Patterns(c)[i], Patterns(c)[j])
  BY <1>7
<1> HIDE DEF c, patterns
<1>11. WellFormed(c)
  BY <1>5, <1>6, <1>8, <1>9, <1>10 DEF WellFormed
<1> QED
  BY <1>11 DEF c

LEMMA PublishHandlerProgress ==
  ASSUME Inductive, Progress, NEW g \in Goroutines, PublishHandler(g)
  PROVE  Progress'
<1>1. Compilation(g) /\ TypeOK
  BY DEF Compilation, Inductive
<1>2. /\ Building(g, "wrap") /\ at = 0 /\ once' = "done" /\ builtErr' = builtErr
      /\ builtHandler' = <<"carrier">> \o Recovery \o handler
      /\ UNCHANGED <<registered, document>>
  BY DEF PublishHandler, Return, locals
<1>3. Stage = "wrap" /\ HandlerWrapped /\ DocumentSound /\ RegisteredSound /\ Stage \in Working
  BY <1>2, BuilderStage DEF Progress, Working
<1>4. /\ builtErr = "" /\ Configuration' = Configuration
      /\ UNCHANGED <<config, middlewares, operations>>
  BY <1>1, CompilationFinds
<1>5. Stage' = "done"
  BY <1>2 DEF Stage
<1>6. builtHandler' = <<"carrier">> \o Recovery \o middlewares \o <<"mux">>
      /\ builtHandler' # <<>>
  <2>1. /\ middlewares \in Seq(Layers) /\ <<"mux">> \in Seq(Layers)
        /\ <<"carrier">> \in Seq(Layers) /\ Recovery \in Seq(Layers)
    BY <1>1, LayersType
  <2>2. handler = middlewares \o <<"mux">>
    <3>1. SubSeq(middlewares, 1, Len(middlewares)) = middlewares
      BY <2>1
    <3> QED
      BY <1>2, <1>3, <3>1 DEF HandlerWrapped
  <2> DEFINE front == <<"carrier">> \o Recovery
  <2>3. front \in Seq(Layers) /\ Len(front) >= 1
    <3>1. /\ front \in Seq(Layers) /\ Len(front) = Len(<<"carrier">>) + Len(Recovery)
      BY <2>1, ConcatProperties
    <3>2. Len(Recovery) \in Nat /\ Len(<<"carrier">>) = 1
      BY <2>1, LenProperties
    <3> HIDE DEF front
    <3> QED
      BY <3>1, <3>2
  <2> HIDE DEF front
  <2>4. front \o (middlewares \o <<"mux">>) = (front \o middlewares) \o <<"mux">>
    BY <2>1, <2>3, ConcatAssociative
  <2>5. front \o handler # <<>>
    <3>1. handler \in Seq(Layers)
      BY <2>1, <2>2, ConcatProperties
    <3>2. front # <<>>
      BY <2>3
    <3> QED
      BY <2>3, <3>1, <3>2, ConcatEqualIffEmpty
  <2> QED
    BY <1>2, <2>2, <2>4, <2>5 DEF front
<1>7. BuildVerdict'
  <2>1. WellFormed(Configuration)'
    BY <1>3, <1>4, WrappedIsWellFormed
  <2> QED
    BY <1>2, <1>4, <1>6, <2>1 DEF BuildVerdict
<1>8. HandlerOrder'
  BY <1>4, <1>6 DEF HandlerOrder, Recovery
<1>9. DocumentComplete'
  <2> DEFINE patterns == Patterns(Configuration)
  <2>1. Mounted = Len(patterns)
    BY <1>3 DEF Mounted
  <2>2. /\ DOMAIN operations \subseteq 1 .. Len(patterns)
        /\ \A i \in DOMAIN operations : patterns[i] = OperationPattern(operations[i])
    <3> DEFINE documents == IF openAPIPath = NoPath THEN 0 ELSE 1
    <3>1. /\ Len(patterns) = Len(operations) + documents + Len(swagger)
          /\ \A i \in DOMAIN operations : patterns[i] = OperationPattern(operations[i])
      BY <1>1, PatternsFound
    <3>2. /\ documents \in Nat /\ Len(operations) \in Nat /\ Len(swagger) \in Nat
          /\ DOMAIN operations = 1 .. Len(operations)
      BY <1>1, ConfigurationTypes
    <3> HIDE DEF patterns, documents
    <3> QED
      BY <3>1, <3>2
  <2>3. ASSUME NEW i \in DOMAIN operations
        PROVE  /\ OperationPattern(operations[i]) \in registered
               /\ \E e \in document : /\ e.operation = i /\ e.method = operations[i].method
                                      /\ e.path = OpenAPIPath(operations[i].route)
    <3>1. patterns[i] \in registered
      BY <1>3, <2>1, <2>2 DEF RegisteredSound
    <3>2. \E e \in document : /\ e.operation = i /\ e.method = operations[i].method
                              /\ e.path = OpenAPIPath(operations[i].route)
      BY <1>3, <2>1, <2>2 DEF DocumentSound
    <3> QED
      BY <2>2, <3>1, <3>2
  <2> QED
    BY <1>2, <1>4, <2>3 DEF DocumentComplete
<1> QED
  BY <1>5, <1>6, <1>7, <1>8, <1>9, EndProgress

\* A panic of user code ends the build without an outcome.
LEMMA UserPanicsProgress ==
  ASSUME Inductive, Progress, NEW g \in Goroutines, UserPanics(g)
  PROVE  Progress'
<1>1. Stage # "done" /\ Stage' = "done"
  BY FreezingStage
<1>2. builtHandler' = <<>> /\ builtErr' = "" /\ CallbackPanics
  BY <1>1 DEF Progress, OutcomeLast, Outcome, UserPanics
<1>3. BuildVerdict' /\ DocumentComplete' /\ HandlerOrder'
  BY <1>2 DEF BuildVerdict, DocumentComplete, HandlerOrder
<1> QED
  BY <1>1, <1>2, <1>3, EndProgress

\* The steps up to the snapshot: nothing is built yet.
LEMMA FreezingProgress ==
  ASSUME Inductive, Progress, NEW g \in Goroutines,
         EnterOnce(g) \/ (Lock(g) /\ pc[g] = "freeze") \/ TakeSnapshot(g)
  PROVE  Progress'
<1>1. Stage \in {"new", "freeze", "snapshot"} /\ Stage' \in {"freeze", "snapshot", "config"}
  BY FreezingStage
<1>2. UNCHANGED <<builtHandler, builtErr, locals>>
  BY DEF EnterOnce, Lock, TakeSnapshot, built
<1>3. NothingYet'
  BY <1>1, <1>2 DEF Progress, NothingYet, locals
<1>4. OutcomeLast'
  BY <1>1, <1>2 DEF Progress, OutcomeLast, Outcome
<1>5. once' # "done"
  <2>1. CASE EnterOnce(g)
    BY <2>1 DEF EnterOnce
  <2>2. CASE Lock(g) \/ TakeSnapshot(g)
    <3>1. UNCHANGED once
      BY <2>2 DEF Lock, TakeSnapshot, built
    <3>2. once # "done"
      BY <1>1, EndStage DEF Inductive
    <3> QED
      BY <3>1, <3>2
  <2> QED
    BY <2>1, <2>2
<1> QED
  BY <1>1, <1>3, <1>4, <1>5, EarlyProgress

LEMMA CompilationProgress ==
  ASSUME Inductive, Progress, NEW g \in Goroutines, Compilation(g)
  PROVE  Progress'
BY CheckConfigProgress, CompileOperationProgress, RegisterOperationProgress, CheckSchemeProgress,
   MountOpenAPIProgress, MountSwaggerProgress, StartWrappingProgress, WrapProgress,
   PublishHandlerProgress DEF Compilation

LEMMA StepInductive ==
  ASSUME Inductive, [Next]_vars
  PROVE  Inductive'
BY StepTypes, StepReady, StepMutex, StepBuilder, StepFrozen, StepSnapshot, StepCursor,
   StepCompiled, StepReturns DEF Inductive

LEMMA StepProgress ==
  ASSUME Inductive, Progress, [Next]_vars
  PROVE  Progress'
<1>1. Inductive' /\ TypeOK
  BY StepInductive DEF Inductive
<1>2. ASSUME NEW g \in Goroutines,
             \/ UNCHANGED vars \/ Call(g) \/ CriticalSection(g) \/ UserReturns(g)
             \/ ReturnFromBuild(g) \/ (Lock(g) /\ pc[g] = "lock")
      PROVE  Progress'
  <2>1. Stage' = Stage /\ UNCHANGED <<frozen, built, locals>>
    BY <1>2, QuietStage
  <2> QED
    BY <1>1, <2>1, QuietProgress
<1>3. ASSUME NEW g \in Goroutines,
             EnterOnce(g) \/ (Lock(g) /\ pc[g] = "freeze") \/ TakeSnapshot(g)
      PROVE  Progress'
  BY <1>3, FreezingProgress
<1>4. ASSUME NEW g \in Goroutines, Lock(g)
      PROVE  pc[g] = "lock" \/ pc[g] = "freeze"
  BY <1>4 DEF Lock
<1>5. CASE UNCHANGED vars
  <2>1. UNCHANGED <<frozen, built, locals, pc, once, runner, resume>>
    BY <1>5 DEF vars, control, built, locals
  <2>2. Stage' = Stage
    BY <2>1 DEF Stage
  <2> QED
    BY <1>1, <2>1, <2>2, QuietProgress
<1> QED
  BY <1>2, <1>3, <1>4, <1>5, StepKinds, CompilationProgress, UserPanicsProgress

LEMMA InitProgress ==
  ASSUME Init
  PROVE  Progress
<1>1. Stage = "new" /\ once = "new" /\ builtHandler = <<>> /\ builtErr = ""
  BY DEF Init, Stage
<1>2. NothingYet /\ OutcomeLast
  BY <1>1 DEF Init, NothingYet, OutcomeLast, Outcome
<1>3. BuildVerdict /\ DocumentComplete /\ HandlerOrder
  BY <1>1 DEF BuildVerdict, DocumentComplete, HandlerOrder
<1>4. CompiledSound /\ RegisteredSound /\ DocumentSound /\ SchemesSound
  BY <1>1 DEF CompiledSound, RegisteredSound, DocumentSound, SchemesSound, Working
<1>5. PagesSound /\ HandlerWrapped
  BY <1>1 DEF PagesSound, HandlerWrapped
<1> QED
  BY <1>2, <1>3, <1>4, <1>5 DEF Progress

---------------------------------------------------------------------------
(* Theorems. *)

\* The invariant behind the theorems below: what the build has established at
\* each of its stages, for every program and every interleaving.
THEOREM ProgressHolds == Spec => [](Inductive /\ Progress)
<1>1. Init => Inductive /\ Progress
  BY InitInductive, InitProgress
<1>2. Inductive /\ Progress /\ [Next]_vars => (Inductive /\ Progress)'
  BY StepInductive, StepProgress
<1> QED
  BY <1>1, <1>2, PTL DEF Spec

\* Build accepts the well-formed configurations and no other, whatever the
\* other goroutines and the user code it runs do meanwhile.
THEOREM VerdictHolds == Spec => []BuildVerdict
<1>1. Inductive /\ Progress => BuildVerdict
  BY DEF Progress
<1> QED
  BY <1>1, ProgressHolds, PTL

\* The handler Build leaves is the mux inside every middleware of Use, in
\* order, with recovery and the carrier around them.
THEOREM HandlerOrderHolds == Spec => []HandlerOrder
<1>1. Inductive /\ Progress => HandlerOrder
  BY DEF Progress
<1> QED
  BY <1>1, ProgressHolds, PTL

\* Every operation of a built App is in the router and in the document, under
\* its own method and path.
THEOREM DocumentHolds == Spec => []DocumentComplete
<1>1. Inductive /\ Progress => DocumentComplete
  BY DEF Progress
<1> QED
  BY <1>1, ProgressHolds, PTL

\* What the request path takes for granted of an operation holds of every
\* operation of a built App.
THEOREM ServableHolds == Spec => []BuiltIsServable
<1>1. ASSUME Inductive, Progress
      PROVE  BuiltIsServable
  <2>1. SUFFICES ASSUME builtHandler # <<>>, NEW i \in DOMAIN operations
        PROVE  LET d == operations[i]
               IN /\ d.security # "" => config.providers[d.security] = "valid"
                  /\ (d.feature \/ d.permission) =>
                       d.feature /\ (d.security # "" \/ config.authenticator)
                  /\ \A status \in Statuses :
                       status < 200 /\ d.responses[status] # "undeclared" => d.raw
    BY DEF BuiltIsServable
  <2>2. /\ Compiles(config, operations[i])
        /\ operations[i].security # "" => config.providers[operations[i].security] = "valid"
    <3>1. WellFormed(Configuration)
      BY <1>1, <2>1 DEF Progress, BuildVerdict
    <3> QED
      BY <2>1, <3>1 DEF WellFormed, Configuration
  <2>3. operations[i] \in Definitions
    BY <1>1, <2>1, ElementOfSeq, ConfigurationTypes DEF Inductive
  <2>4. \A status \in Statuses : status \in Int
    BY ConstantsAssumption
  <2> DEFINE d == operations[i]
  <2>5. /\ d.feature <=> d.permission
        /\ d.feature /\ d.security = "" => config.authenticator
        /\ \A status \in Statuses : ResponseAccepted(d, status)
    BY <2>2 DEF Compiles, DefinitionAccepted
  <2>6. d.feature \in BOOLEAN /\ d.permission \in BOOLEAN
    BY <2>3 DEF Definitions
  <2>7. ASSUME NEW status \in Statuses, status < 200, d.responses[status] # "undeclared"
        PROVE  d.raw
    <3>1. ~d.raw => status >= 200
      BY <2>5, <2>7 DEF ResponseAccepted
    <3>2. ~(status >= 200)
      BY <2>4, <2>7
    <3> QED
      BY <3>1, <3>2
  <2>8. d.feature \/ d.permission => d.feature
    BY <2>5, <2>6
  <2>9. d.feature /\ d.security = "" => config.authenticator
    BY <2>5
  <2> HIDE DEF d
  <2> QED
    BY <2>2, <2>7, <2>8, <2>9 DEF d
<1> QED
  BY <1>1, ProgressHolds, PTL

\* What was decided stays decided.
LEMMA DecidedOnce ==
  ASSUME Inductive, [Next]_vars, once = "done"
  PROVE  UNCHANGED <<once, builtHandler, builtErr>>
<1>1. ASSUME NEW g \in Goroutines,
             Call(g) \/ CriticalSection(g) \/ UserReturns(g) \/ ReturnFromBuild(g) \/ Lock(g)
      PROVE  UNCHANGED built
  <2>1. CASE Lock(g)
    BY <2>1 DEF Lock
  <2>2. CASE Call(g) \/ CriticalSection(g) \/ UserReturns(g) \/ ReturnFromBuild(g)
    BY <2>2, QuietStage
  <2> QED
    BY <1>1, <2>1, <2>2
<1>2. ASSUME NEW g \in Goroutines,
             EnterOnce(g) \/ TakeSnapshot(g) \/ Compilation(g) \/ UserPanics(g)
      PROVE  FALSE
  BY <1>2, CompilationMoves DEF EnterOnce, TakeSnapshot, UserPanics, Building
<1>3. ASSUME UNCHANGED vars
      PROVE  UNCHANGED built
  BY <1>3 DEF vars
<1>4. UNCHANGED built
  BY <1>1, <1>2, <1>3, StepKinds
<1> QED
  BY <1>4 DEF built

\* The outcome FreezeOnce sees.
Decided ==
  IF once # "done" THEN "pending"
  ELSE IF builtHandler # <<>> THEN "accepted"
  ELSE IF builtErr # "" THEN "rejected" ELSE "aborted"

LEMMA StepKeepsPromise ==
  ASSUME Inductive, Progress, [Next]_vars
  PROVE  \/ UNCHANGED <<Configuration, frozen, Decided>>
         \/ ~frozen /\ Configuration' # Configuration /\ UNCHANGED <<frozen, Decided>>
         \/ ~frozen /\ frozen' = TRUE /\ UNCHANGED <<Configuration, Decided>>
         \/ /\ frozen /\ Decided = "pending"
            /\ Decided' \in {IF WellFormed(Configuration) THEN "accepted" ELSE "rejected", "aborted"}
            /\ UNCHANGED <<Configuration, frozen>>
<1>1. Inductive' /\ Progress' /\ TypeOK /\ OneBuilder
  BY StepInductive, StepProgress DEF Inductive
<1>2. frozen \in BOOLEAN /\ frozen' \in BOOLEAN
  BY <1>1 DEF Inductive, TypeOK
<1>3. ~frozen => Decided = "pending"
  <2>1. ~frozen => Stage \in {"new", "freeze", "snapshot"}
    BY DEF Inductive, FrozenByStage
  <2> QED
    BY <1>1, <2>1, EndStage DEF Decided
<1>4. ~frozen' => Decided' = "pending"
  <2>1. ~frozen' => Stage' \in {"new", "freeze", "snapshot"}
    BY <1>1 DEF Inductive, FrozenByStage
  <2> QED
    BY <1>1, <2>1 DEF Decided, Stage, Inductive
<1>5. CASE ~frozen /\ ~frozen'
  <2>1. UNCHANGED <<frozen, Decided>>
    BY <1>2, <1>3, <1>4, <1>5
  <2> QED
    BY <1>5, <2>1
<1>6. CASE ~frozen /\ frozen'
  <2>1. PICK g \in Goroutines : TakeSnapshot(g)
    BY <1>6, SnapshotOnlyOnce
  <2>2. UNCHANGED <<config, settings, once>>
    BY <2>1 DEF TakeSnapshot, built
  <2>3. Configuration' = Configuration
    BY <2>2 DEF Configuration, settings
  <2>4. Decided' = "pending"
    BY <2>1, <2>2 DEF TakeSnapshot, Building, Decided
  <2> QED
    BY <1>2, <1>3, <1>6, <2>3, <2>4
<1>7. CASE frozen
  <2>1. Configuration' = Configuration /\ frozen' = frozen
    BY <1>2, <1>7, ConfigurationKept, SnapshotOnlyOnce DEF TakeSnapshot
  <2>2. CASE once = "done"
    <3>1. Decided' = Decided
      BY <2>2, DecidedOnce DEF Decided
    <3> QED
      BY <2>1, <3>1
  <2>3. CASE once # "done" /\ once' # "done"
    BY <2>1, <2>3 DEF Decided
  <2>4. CASE once # "done" /\ once' = "done"
    <3>1. /\ builtHandler' # <<>> => WellFormed(Configuration) /\ builtErr' = ""
          /\ builtErr' # "" => ~WellFormed(Configuration)
      BY <1>1, <2>1 DEF Progress, BuildVerdict
    <3>2. Decided' \in {IF WellFormed(Configuration) THEN "accepted" ELSE "rejected", "aborted"}
      BY <2>4, <3>1 DEF Decided
    <3> QED
      BY <1>7, <2>1, <2>4, <3>2 DEF Decided
  <2> QED
    BY <2>2, <2>3, <2>4
<1> QED
  BY <1>2, <1>5, <1>6, <1>7

\* The App implements FreezeOnce: its configuration changes only until it is
\* frozen, and then it is judged once, for what it is.
THEOREM PromiseHolds == Spec => PromiseKept
<1>1. Init => Promise!Init
  BY DEF Init, Promise!Init
<1>2. ASSUME Inductive, Progress, [Next]_vars
      PROVE  [Promise!Next]_(Promise!vars)
  BY <1>2, StepKeepsPromise
     DEF Decided, Promise!Next, Promise!vars, Promise!Configure, Promise!Freeze, Promise!Decide
<1> QED
  BY <1>1, <1>2, ProgressHolds, PTL DEF Spec, PromiseKept, Promise!Spec

=============================================================================
