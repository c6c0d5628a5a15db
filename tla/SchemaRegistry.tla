--------------------------- MODULE SchemaRegistry ---------------------------
(***************************************************************************)
(* The registry that collects the component schemas of one build           *)
(* (internal/schema/reflector.go and names.go): Ref descends a Go type,    *)
(* gives every named struct one component, and answers with a schema that  *)
(* refers to components.  A schema is abstracted to the set of component   *)
(* names it refers to; the recursion of schemaFor is a stack of frames.    *)
(***************************************************************************)
EXTENDS Naturals, Sequences, FiniteSets

CONSTANTS
  Types,
  Graphs,       \* see GraphType: the kinds of the types, and what they hold
  Candidate,    \* the names a type may get, in order: User, pkg_User, pkg_User_2, ...
  Strings,
  MaxCalls,     \* bound: calls of Ref by the build
  MaxFrames     \* bound: depth at which the goroutine's stack is exhausted

\* wrap: a pointer, slice, array or map; leaf: any type without parts, a schema
\* provider or a marshaler among them; bad: a type, map key or validation rule
\* that is refused.
Kinds == {"leaf", "bad", "wrap", "anonymous", "named"}
GraphType == [kind : [Types -> Kinds], parts : [Types -> Seq(Types)]]

ASSUME TypesAssumption == Types # {}
ASSUME GraphsAssumption ==
  \A g \in Graphs :
    /\ g.kind \in [Types -> Kinds] /\ g.parts \in [Types -> Seq(Types)]
    /\ \A t \in Types : g.kind[t] = "wrap" => Len(g.parts[t]) = 1
ASSUME NamesAssumption == Candidate \in [Types -> Seq(Strings)]
ASSUME BoundsAssumption == MaxCalls \in Nat /\ MaxFrames \in Nat

VARIABLES
  graph,
  components,   \* name -> its schema: the names it refers to, once it is done
  names,        \* type -> its component's name
  used,         \* name -> the type it was given to
  frames,       \* the open activations of schemaFor and structSchema
  mode,         \* "idle", "call", "visit", "error", and how the build may end
  arg,          \* the type schemaFor is called with
  calls, asked, \* history: calls of Ref, and the types asked for
  returned      \* the names the answers refer to: the document's references

vars == <<graph, components, names, used, frames, mode, arg, calls, asked, returned>>
registry == <<components, names, used>>
history == <<graph, calls, asked>>

Kind(t) == graph.kind[t]
Parts(t) == graph.parts[t]

Frame(t) == [type |-> t, at |-> 1, refs |-> {}]
Top == frames[Len(frames)]
Below == SubSeq(frames, 1, Len(frames) - 1)
Open == {frames[i].type : i \in DOMAIN frames}

With(f, x, y) == [z \in DOMAIN f \cup {x} |-> IF z = x THEN y ELSE f[z]]
Without(f, x) == [z \in DOMAIN f \ {x} |-> f[z]]

---------------------------------------------------------------------------
(* names.go *)

\* Mutant: the bare type name, whoever has it.
FreshNameBare(t) == {Candidate[t][1]}

\* The first candidate no other type has.
FreshName(t) ==
  {Candidate[t][k] : k \in {k \in DOMAIN Candidate[t] :
     /\ Candidate[t][k] \notin DOMAIN used
     /\ \A j \in 1..(k - 1) : Candidate[t][j] \in DOMAIN used}}

ComponentName(t) == IF t \in DOMAIN names THEN {names[t]} ELSE FreshName(t)

Name(t, name) ==
  /\ names' = With(names, t, name)
  /\ used' = With(used, name, t)

---------------------------------------------------------------------------
(* reflector.go *)

\* An activation after the answer to its next part.
Answered(frame, refs) ==
  [type |-> frame.type, at |-> frame.at + 1, refs |-> frame.refs \cup refs]

\* Mutant: the outermost answer is taken for an inner one.
ReturnInner(refs, below) ==
  /\ frames' = [i \in DOMAIN below |->
       IF i = Len(below) THEN Answered(below[i], refs) ELSE below[i]]
  /\ mode' = "visit" /\ UNCHANGED <<arg, history, returned>>

\* The activation that schemaFor was called from takes the schema; without one,
\* the answer goes into the document.
Return(refs, below) ==
  /\ IF below = <<>>
     THEN frames' = <<>> /\ mode' = "idle" /\ returned' = returned \cup refs
     ELSE /\ frames' = [below EXCEPT ![Len(below)] = Answered(@, refs)]
          /\ mode' = "visit" /\ UNCHANGED returned
  /\ UNCHANGED <<arg, history>>

Push(t) ==
  /\ Len(frames) < MaxFrames
  /\ frames' = Append(frames, Frame(t)) /\ mode' = "visit"
  /\ UNCHANGED <<arg, history, returned>>

Fail ==
  /\ mode' = "error"
  /\ UNCHANGED <<registry, frames, arg, history, returned>>

\* compileOAS: responses in the order of a Go map, parameters, the body.
Ref(t) ==
  /\ mode = "idle" /\ calls < MaxCalls
  /\ mode' = "call" /\ arg' = t
  /\ calls' = calls + 1 /\ asked' = asked \cup {t}
  /\ UNCHANGED <<graph, registry, frames, returned>>

Calling(kinds) == mode = "call" /\ Kind(arg) \in kinds

Leaf ==
  /\ Calling({"leaf"})
  /\ Return({}, frames) /\ UNCHANGED registry

Unsupported == Calling({"bad"}) /\ Fail

RecursiveAnonymous == Calling({"anonymous"}) /\ arg \in Open /\ Fail

EnterInline ==
  /\ \/ Calling({"wrap"})
     \/ Calling({"anonymous"}) /\ arg \notin Open
  /\ Push(arg) /\ UNCHANGED registry

\* Mutant: a component is looked up by the bare name of the type.
KnownByBareName ==
  /\ Calling({"named"}) /\ Candidate[arg][1] \in DOMAIN components
  /\ Name(arg, Candidate[arg][1])
  /\ Return({Candidate[arg][1]}, frames) /\ UNCHANGED components

Known ==
  /\ Calling({"named"})
  /\ \E name \in ComponentName(arg) :
       /\ name \in DOMAIN components
       /\ Name(arg, name) /\ Return({name}, frames)
  /\ UNCHANGED components

\* Mutant: the component is entered when it is done.
EnterNamedLate ==
  /\ Calling({"named"})
  /\ \E name \in ComponentName(arg) :
       /\ name \notin DOMAIN components
       /\ Name(arg, name)
  /\ Push(arg) /\ UNCHANGED components

EnterNamed ==
  /\ Calling({"named"})
  /\ \E name \in ComponentName(arg) :
       /\ name \notin DOMAIN components
       /\ Name(arg, name)
       /\ components' = With(components, name, [done |-> FALSE, refs |-> {}])
  /\ Push(arg)

\* structSchema's loop, or the element of a wrapper.
Descend ==
  /\ mode = "visit" /\ Top.at <= Len(Parts(Top.type))
  /\ mode' = "call" /\ arg' = Parts(Top.type)[Top.at]
  /\ UNCHANGED <<registry, frames, history, returned>>

Closing(kinds) ==
  mode = "visit" /\ Top.at > Len(Parts(Top.type)) /\ Kind(Top.type) \in kinds

CloseInline ==
  /\ Closing({"wrap", "anonymous"})
  /\ Return(Top.refs, Below) /\ UNCHANGED registry

\* Mutant: the placeholder stays.
CloseNamedEmpty ==
  /\ Closing({"named"})
  /\ Return({names[Top.type]}, Below) /\ UNCHANGED registry

CloseNamed ==
  /\ Closing({"named"})
  /\ components' = With(components, names[Top.type], [done |-> TRUE, refs |-> Top.refs])
  /\ Return({names[Top.type]}, Below)
  /\ UNCHANGED <<names, used>>

\* The error goes up; every struct on its way takes its component back.
Unwind ==
  /\ mode = "error" /\ frames # <<>>
  /\ frames' = Below
  /\ components' = IF Kind(Top.type) = "named" THEN Without(components, names[Top.type])
                   ELSE components
  /\ UNCHANGED <<names, used, mode, arg, history, returned>>

\* The build gives up: nothing of the registry is used.
Abort ==
  /\ mode = "error" /\ frames = <<>>
  /\ mode' = "failed"
  /\ UNCHANGED <<registry, frames, arg, history, returned>>

\* Deeper than the stack of a goroutine: the Go runtime ends the program.
Exhaust ==
  /\ mode = "call" /\ Len(frames) = MaxFrames
  /\ Kind(arg) \in {"wrap", "anonymous", "named"}
  /\ mode' = "crashed"
  /\ UNCHANGED <<registry, frames, arg, history, returned>>

\* The build asks for no more, or is over.
Rest == mode \in {"idle", "failed", "crashed"} /\ UNCHANGED vars

---------------------------------------------------------------------------
Init ==
  /\ graph \in Graphs
  /\ components = <<>> /\ names = <<>> /\ used = <<>>
  /\ frames = <<>> /\ mode = "idle" /\ arg = CHOOSE t \in Types : TRUE
  /\ calls = 0 /\ asked = {} /\ returned = {}

Step ==
  \/ Leaf \/ Unsupported \/ RecursiveAnonymous \/ EnterInline \/ Known \/ EnterNamed
  \/ Descend \/ CloseInline \/ CloseNamed \/ Unwind \/ Abort \/ Exhaust

Next == Step \/ Rest \/ \E t \in Types : Ref(t)

Spec == Init /\ [][Next]_vars

\* schemaFor runs to its end; the build need not ask for anything.
FairSpec == Spec /\ WF_vars(Step)

---------------------------------------------------------------------------
(* Properties. *)

FrameType == [type : Types, at : Nat \ {0}, refs : SUBSET Strings]

\* The registry's maps and the stack have their types.
TypeOK ==
  /\ graph.kind \in [Types -> Kinds] /\ graph.parts \in [Types -> Seq(Types)]
  /\ DOMAIN components \subseteq Strings
  /\ \A n \in DOMAIN components : components[n] \in [done : BOOLEAN, refs : SUBSET Strings]
  /\ names \in [DOMAIN names -> Strings] /\ DOMAIN names \subseteq Types
  /\ used \in [DOMAIN used -> Types] /\ DOMAIN used \subseteq Strings
  /\ frames \in Seq(FrameType) /\ arg \in Types
  /\ mode \in {"idle", "call", "visit", "error", "failed", "crashed"}
  /\ mode = "visit" => frames # <<>>
  /\ calls \in Nat /\ asked \subseteq Types /\ returned \subseteq Strings

\* Two types never share a component name, in whatever order they are met and
\* whatever they are called (componentName).
NamesApart ==
  /\ \A t \in DOMAIN names : names[t] \in DOMAIN used /\ used[names[t]] = t
  /\ \A n \in DOMAIN used : used[n] \in DOMAIN names /\ names[used[n]] = n

\* Every component belongs to a named struct, and is a placeholder exactly while
\* that struct is being described, on the way out of an error too (schemaFor).
ComponentsOwned ==
  /\ DOMAIN components \subseteq DOMAIN used
  /\ \A n \in DOMAIN components :
       Kind(used[n]) = "named" /\ (components[n].done <=> used[n] \notin Open)

PartSet(t) == {Parts(t)[i] : i \in DOMAIN Parts(t)}

\* The types that are described where they occur.
Inline == {t \in Types : Kind(t) \in {"wrap", "anonymous"}}

HoldsInline(t, S) ==
  PartSet(t) \cap Inline \subseteq S /\ \A u \in S : PartSet(u) \cap Inline \subseteq S

\* The inline types t holds, itself or in one another: the least such set.
InlineIn(t) == {u \in Inline : \A S \in SUBSET Inline : HoldsInline(t, S) => u \in S}

\* The named structs t holds, itself or in its inline parts.
NamedIn(t) == {u \in PartSet(t) \cup UNION {PartSet(v) : v \in InlineIn(t)} : Kind(u) = "named"}

\* A finished component refers to the components of exactly the named structs its
\* type holds, recursion and equal names included (structSchema).
ComponentsFaithful ==
  \A n \in DOMAIN components :
    components[n].done => components[n].refs = {names[u] : u \in NamedIn(used[n])}

\* Between calls no reference of the document, and none of a component, lacks its
\* finished component (Ref).
ReferencesResolve ==
  mode = "idle" =>
    \A n \in returned \cup UNION {components[c].refs : c \in DOMAIN components} :
      n \in DOMAIN components /\ components[n].done

\* Lists and maps that hold nothing but each other, as type Tree map[string]Tree.
EndlessLists ==
  \E ts \in SUBSET {t \in Types : Kind(t) = "wrap"} :
    ts # {} /\ \A t \in ts : \E i \in DOMAIN Parts(t) : Parts(t)[i] \in ts

\* Every call of Ref ends with a schema or an error, on recursive types too: the
\* descent runs out of stack on lists of themselves only, any other type that
\* holds itself ends in a reference or an error (reflector.go:90,147).
RefEnds == mode # "idle" ~> mode \in {"idle", "failed"} \/ EndlessLists
=============================================================================
